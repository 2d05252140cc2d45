--------------------------- MODULE CapacityProofs ---------------------------
(* The in-memory caches of IndexProxy never outgrow their capacity.           *)
EXTENDS IndexProxyProofs, FiniteSetTheorems

(* Clear-all-when-full keeps a map within a capacity of at least one.         *)
LEMMA InsertBounded ==
  ASSUME NEW Keys, IsFiniteSet(Keys), NEW map, DOMAIN map = Keys,
         NEW key \in Keys, NEW value, NEW max \in Nat \ {0},
         Cardinality(Present(map)) <= max
  PROVE  Cardinality(Present(Insert(map, key, value, max))) <= max
<1> DEFINE held == Present(map)
           result == Present(Insert(map, key, value, max))
<1>1. held \in SUBSET Keys
  BY DEF Present
<1>2. IsFiniteSet(held) /\ Cardinality(held) \in Nat
  BY <1>1, FS_Subset, FS_CardinalityType
<1>3. CASE Cardinality(held) >= max /\ map[key] = None
  <2>1. Insert(map, key, value, max) = [EmptyMap(Keys) EXCEPT ![key] = value]
    BY <1>3 DEF Insert
  <2>2. result \in SUBSET {key}
    BY <2>1 DEF Present, EmptyMap
  <2>3. IsFiniteSet({key}) /\ Cardinality({key}) = 1
    BY FS_Singleton
  <2>4. IsFiniteSet(result) /\ Cardinality(result) <= 1
    BY <2>2, <2>3, FS_Subset
  <2>5. Cardinality(result) \in Nat
    BY <2>4, FS_CardinalityType
  <2> QED
    BY <2>4, <2>5
<1>4. CASE ~(Cardinality(held) >= max /\ map[key] = None)
  <2>1. Insert(map, key, value, max) = [map EXCEPT ![key] = value]
    BY <1>4 DEF Insert
  <2>2. result \in SUBSET (held \cup {key})
    BY <2>1 DEF Present
  <2>3. Cardinality(held \cup {key}) <= max /\ IsFiniteSet(held \cup {key})
    <3>1. CASE key \in held
      BY <1>2, <3>1, FS_AddElement
    <3>2. CASE key \notin held
      <4>1. map[key] = None
        BY <3>2 DEF Present
      <4>2. Cardinality(held) < max
        BY <1>2, <1>4, <4>1
      <4>3. /\ IsFiniteSet(held \cup {key})
            /\ Cardinality(held \cup {key}) = Cardinality(held) + 1
        BY <1>2, <3>2, FS_AddElement
      <4> QED
        BY <1>2, <4>2, <4>3
    <3> QED
      BY <3>1, <3>2
  <2>4. Cardinality(result) <= Cardinality(held \cup {key})
    BY <2>2, <2>3, FS_Subset
  <2>5. IsFiniteSet(result) /\ Cardinality(result) \in Nat
    BY <2>2, <2>3, FS_Subset, FS_CardinalityType
  <2>6. Cardinality(held \cup {key}) \in Nat
    BY <2>3, FS_CardinalityType
  <2> QED
    BY <2>3, <2>4, <2>5, <2>6
<1> QED
  BY <1>3, <1>4

(* Removing a key, or everything, only makes a map smaller.                   *)
LEMMA RemoveBounded ==
  ASSUME NEW Keys, IsFiniteSet(Keys), NEW map, DOMAIN map = Keys,
         NEW key, NEW max \in Nat, Cardinality(Present(map)) <= max
  PROVE  Cardinality(Present(Remove(map, key))) <= max
<1>1. Present(map) \in SUBSET Keys
  BY DEF Present
<1>2. IsFiniteSet(Present(map)) /\ Cardinality(Present(map)) \in Nat
  BY <1>1, FS_Subset, FS_CardinalityType
<1>3. Present(Remove(map, key)) \in SUBSET Present(map)
  BY DEF Present, Remove
<1>4. Cardinality(Present(Remove(map, key))) \in Nat
  BY <1>2, <1>3, FS_Subset, FS_CardinalityType
<1> QED
  BY <1>2, <1>3, <1>4, FS_Subset

(* An empty map is within any capacity.                                       *)
LEMMA EmptyBounded ==
  ASSUME NEW Keys, NEW max \in Nat
  PROVE  Cardinality(Present(EmptyMap(Keys))) <= max
<1>1. Present(EmptyMap(Keys)) = {}
  BY DEF Present, EmptyMap
<1> QED
  BY <1>1, FS_EmptySet

(* Every step keeps both maps within their capacities.                        *)
LEMMA NextBounded ==
  TypeOK /\ CachesBounded /\ [Next]_vars => CachesBounded'
<1> SUFFICES ASSUME TypeOK, CachesBounded, [Next]_vars
             PROVE  CachesBounded'
  OBVIOUS
<1>1. IsFiniteSet(Names) /\ MetadataMax \in Nat \ {0} /\ MemoMax \in Nat \ {0}
  BY EnvironmentAssumption, LimitsAssumption
<1>2. DOMAIN metadata = Names /\ DOMAIN memo = Names
  BY DEF TypeOK
<1>3. \A c \in Clients : req[c] # None => req[c].name \in Names
  BY InFlight
<1>4. CASE UNCHANGED <<metadata, memo>>
  BY <1>4 DEF CachesBounded
<1>5. ASSUME NEW n \in Names, NEW entry, StoreMetadata(n, entry), memo' = memo
      PROVE  CachesBounded'
  BY <1>1, <1>2, <1>5, InsertBounded DEF CachesBounded, StoreMetadata
<1>6. ASSUME NEW c \in Clients, LostFile(c)
      PROVE  CachesBounded'
  BY <1>1, <1>2, <1>6, RemoveBounded DEF CachesBounded, LostFile
<1>7. ASSUME NEW c \in Clients, Filter(c)
      PROVE  CachesBounded'
  <2>1. req[c].name \in Names
    BY <1>3, <1>7 DEF Filter, At
  <2>2. PICK value : memo' = Insert(memo, req[c].name, value, MemoMax)
    BY <1>7 DEF Filter
  <2>3. metadata' = metadata
    BY <1>7 DEF Filter
  <2> QED
    BY <1>1, <1>2, <2>1, <2>2, <2>3, InsertBounded DEF CachesBounded
<1>8. ASSUME NEW c \in Clients, ReceiveNotModified(c) \/ StoreRefreshed(c)
      PROVE  CachesBounded'
  BY <1>3, <1>5, <1>8 DEF ReceiveNotModified, StoreRefreshed, At
<1>9. CASE Restart
  BY <1>1, <1>9, EmptyBounded DEF CachesBounded, Restart
<1>10. ASSUME NEW c \in Clients, Progress(c)
       PROVE  CachesBounded'
  BY <1>4, <1>6, <1>7, <1>8, <1>10
     DEF Progress, caches, WarmRead, FindIndex, UpstreamAnswer, ReceiveBody,
         CreateFile, WriteFile, TouchFile, ReadBack, StaleRead, IndexOk
<1> QED
  BY <1>4, <1>9, <1>10
     DEF Next, Operate, vars, caches, HandleIndex, ReceiveFailure, ForwardStatus,
         FilterPanic, Cancel, Expire, Publish, Tick, SetBack

(* However many names are asked for, and in whatever order refreshes, failed  *)
(* reads and restarts come, neither in-memory cache holds more names than its *)
(* maximum.                                                                   *)
THEOREM CapacityHolds == Spec => []CachesBounded
<1>1. Init => CachesBounded
  BY EmptyBounded, LimitsAssumption DEF Init, CachesBounded
<1>2. TypeOK /\ CachesBounded /\ [Next]_vars => CachesBounded'
  BY NextBounded
<1> QED
  BY <1>1, <1>2, TypeCorrect, PTL DEF Spec
=============================================================================
