----------------------------- MODULE BoundedMap -----------------------------
(* The capacity policy shared by MetadataCache (src/src/cache/metadata.rs)    *)
(* and FilteredMemo (src/src/cache/memo.rs).  A map is a function that is     *)
(* None on the keys it does not hold.                                         *)
EXTENDS Naturals, FiniteSets

CONSTANT None

Present(map) == {k \in DOMAIN map : map[k] # None}

EmptyMap(Keys) == [k \in Keys |-> None]

(* Mutant: the size is compared before the new key is counted.                *)
InsertOffByOne(map, key, value, max) ==
  IF Cardinality(Present(map)) > max /\ map[key] = None
  THEN [EmptyMap(DOMAIN map) EXCEPT ![key] = value]
  ELSE [map EXCEPT ![key] = value]

(* Inserting a new key into a full map drops everything else first.           *)
Insert(map, key, value, max) ==
  IF Cardinality(Present(map)) >= max /\ map[key] = None
  THEN [EmptyMap(DOMAIN map) EXCEPT ![key] = value]
  ELSE [map EXCEPT ![key] = value]

Remove(map, key) == [map EXCEPT ![key] = None]
=============================================================================
