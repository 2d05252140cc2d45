-------------------------- MODULE AlgorithmsProofs --------------------------
(* Theorems about the algorithms of src/src/config, routes/index.rs and the   *)
(* cache: what they compute is right for every input, not only for the ones   *)
(* an instance enumerates.                                                    *)
EXTENDS Algorithms, CalendarProofs, SequenceTheorems, WellFoundedInduction

-----------------------------------------------------------------------------
(* The days walked are those of Calendar, and inputs stay what they are.      *)

(* A behaviour of the algorithms walks the calendar, or stays on its first    *)
(* day.                                                                       *)
LEMMA WalksTheCalendar == AlgorithmsSpec => Spec
<1>1. AlgorithmsInit => Init
  BY DEF AlgorithmsInit
<1>2. [AlgorithmsNext]_<<date, days, weekday, input>>
        => [Next]_<<date, days, weekday>>
  BY DEF AlgorithmsNext
<1> QED
  BY <1>1, <1>2, PTL DEF AlgorithmsSpec, Spec

(* The dates of the calendar are exact whatever else is computed.             *)
THEOREM DatesAreExact == AlgorithmsSpec => [](ConversionsAgree /\ HttpDateRoundTrip)
BY WalksTheCalendar, ConversionsAreExact, HttpDatesSurvive, PTL

(* What is computed on stays one of the inputs.                               *)
LEMMA InputsStay == AlgorithmsSpec => [](input \in Inputs)
<1>1. AlgorithmsInit => input \in Inputs
  BY DEF AlgorithmsInit
<1>2. input \in Inputs /\ [AlgorithmsNext]_<<date, days, weekday, input>>
        => (input \in Inputs)'
  BY DEF AlgorithmsNext, Inputs, Day
<1> QED
  BY <1>1, <1>2, PTL DEF AlgorithmsSpec

-----------------------------------------------------------------------------
(* Numbers.                                                                   *)

(* The largest and the least of a set of numbers, where there is one.         *)
LEMMA MaxIs ==
  ASSUME NEW S, S \subseteq Int, NEW x \in S, \A y \in S : y <= x
  PROVE  Max(S) = x
<1>1. \A z \in S : (\A y \in S : z >= y) <=> z = x
  OBVIOUS
<1> QED
  BY <1>1 DEF Max

(* An element below all others is the one Min chooses.                        *)
LEMMA MinIs ==
  ASSUME NEW S, S \subseteq Int, NEW x \in S, \A y \in S : x <= y
  PROVE  Min(S) = x
<1>1. \A z \in S : (\A y \in S : z <= y) <=> z = x
  OBVIOUS
<1> QED
  BY <1>1 DEF Min

(* A set of natural numbers has a least one, and a bounded one a largest.     *)
LEMMA LeastNatural ==
  ASSUME NEW T, T \subseteq Nat, T # {}
  PROVE  /\ Min(T) \in T
         /\ \A y \in T : Min(T) <= y
<1> DEFINE R == {ss \in Nat \X Nat : ss[1] < ss[2]}
<1>1. IsWellFoundedOn(R, Nat)
  BY NatLessThanWellFounded DEF OpToRel
<1>2. PICK x \in T : \A y \in T : ~ (<<y, x>> \in R)
  <2> HIDE DEF R
  <2> QED
    BY <1>1, WFMin
<1>3. \A y \in T : x <= y
  <2> SUFFICES ASSUME NEW y \in T  PROVE x <= y
    OBVIOUS
  <2>1. ~ (y < x)
    BY <1>2
  <2> QED
    BY <2>1
<1>4. Min(T) = x
  <2>1. T \subseteq Int
    OBVIOUS
  <2> QED
    BY <2>1, <1>3, MinIs
<1> QED
  BY <1>3, <1>4

(* A set of numbers within a bound has a largest one, and Max chooses it.     *)
LEMMA LargestNatural ==
  ASSUME NEW n \in Nat, NEW T, T \subseteq 0..n, T # {}
  PROVE  /\ Max(T) \in T
         /\ \A y \in T : y <= Max(T)
<1> DEFINE U == {n - y : y \in T}
<1>1. U \subseteq Nat /\ U # {}
  <2>1. \A y \in T : y \in Int /\ y <= n
    OBVIOUS
  <2>2. \A y \in T : n - y \in Nat
    BY <2>1
  <2> QED
    BY <2>2
<1> HIDE DEF U
<1>2. Min(U) \in U /\ \A u \in U : Min(U) <= u
  BY <1>1, LeastNatural
<1>3. PICK x \in T : Min(U) = n - x
  BY <1>2 DEF U
<1>4. \A y \in T : n - x <= n - y
  BY <1>2, <1>3 DEF U
<1>5. \A y \in T : y <= x
  BY <1>4
<1>6. Max(T) = x
  <2>1. T \subseteq Int
    OBVIOUS
  <2> QED
    BY <2>1, <1>5, MaxIs
<1> QED
  BY <1>5, <1>6

-----------------------------------------------------------------------------
(* Sequences.                                                                 *)

(* The elements of a concatenation u of s and t.                              *)
IsConcat(u, s, t) ==
  /\ Len(s) \in Nat /\ Len(t) \in Nat /\ Len(u) = Len(s) + Len(t)
  /\ \A i \in 1..Len(s) : u[i] = s[i]
  /\ \A i \in 1..Len(t) : u[Len(s) + i] = t[i]

(* A concatenation is its two parts, one behind the other.                    *)
LEMMA ConcatParts ==
  ASSUME NEW S, NEW s \in Seq(S), NEW t \in Seq(S)
  PROVE  s \o t \in Seq(S) /\ IsConcat(s \o t, s, t)
<1>1. Len(s) \in Nat /\ Len(t) \in Nat
  BY LenProperties
<1>2. /\ s \o t \in Seq(S) /\ Len(s \o t) = Len(s) + Len(t)
      /\ \A i \in 1..(Len(s) + Len(t)) :
           (s \o t)[i] = IF i <= Len(s) THEN s[i] ELSE t[i - Len(s)]
  BY ConcatProperties
<1>3. ASSUME NEW i \in 1..Len(s)  PROVE (s \o t)[i] = s[i]
  BY <1>1, <1>2
<1>4. ASSUME NEW i \in 1..Len(t)  PROVE (s \o t)[Len(s) + i] = t[i]
  <2>1. Len(s) + i \in 1..(Len(s) + Len(t)) /\ ~ (Len(s) + i <= Len(s))
        /\ (Len(s) + i) - Len(s) = i
    BY <1>1
  <2> QED
    BY <1>2, <2>1
<1> QED
  BY <1>1, <1>2, <1>3, <1>4 DEF IsConcat

(* The elements of a part of a sequence.                                      *)
LEMMA SubSeqParts ==
  ASSUME NEW S, NEW s \in Seq(S),
         NEW m \in Int, NEW n \in Int, 1 <= m, n <= Len(s), m <= n + 1
  PROVE  /\ SubSeq(s, m, n) \in Seq(S)
         /\ Len(SubSeq(s, m, n)) = n - m + 1
         /\ \A i \in 1..(n - m + 1) : SubSeq(s, m, n)[i] = s[m + i - 1]
<1>1. Len(s) \in Nat /\ \A i \in 1..Len(s) : s[i] \in S
  BY LenProperties, ElementOfSeq
<1>2. \A i \in m..n : s[i] \in S
  BY <1>1
<1>3. /\ SubSeq(s, m, n) \in Seq(S)
      /\ Len(SubSeq(s, m, n)) = IF m <= n THEN n - m + 1 ELSE 0
      /\ \A i \in 1..(n - m + 1) : SubSeq(s, m, n)[i] = s[m + i - 1]
  BY <1>2, SubSeqProperties
<1> QED
  BY <1>3

(* A part of a sequence is another sequence.                                  *)
LEMMA SubSeqIs ==
  ASSUME NEW S, NEW s \in Seq(S), NEW t \in Seq(S),
         NEW m \in Int, NEW n \in Int, 1 <= m, n <= Len(s), Len(t) = n - m + 1,
         \A i \in 1..Len(t) : s[m + i - 1] = t[i]
  PROVE  SubSeq(s, m, n) = t
<1>1. Len(t) \in Nat
  BY LenProperties
<1>2. m <= n + 1
  BY <1>1
<1>3. /\ SubSeq(s, m, n) \in Seq(S) /\ Len(SubSeq(s, m, n)) = Len(t)
      /\ \A i \in 1..Len(t) : SubSeq(s, m, n)[i] = t[i]
  BY <1>2, SubSeqParts
<1> QED
  BY <1>3, SeqEqual

-----------------------------------------------------------------------------
(* From the command line to the cutoff: src/src/config and cooldown.rs.       *)

(* The assumed bounds are numbers.                                            *)
LEMMA NumbersAssumed ==
  MaxSecs \in Nat /\ MaxLen \in Nat /\ Epochs \subseteq Nat
BY SMT, AlgorithmsAssumption

(* Every unit is a whole number of seconds.                                   *)
LEMMA UnitsAreNatural ==
  \A u \in DOMAIN Start!UnitSecs : Start!UnitSecs[u] \in Nat
BY SMT DEF Start!UnitSecs

(* A process that starts gates exactly the crates that were not listed, by    *)
(* exactly the window that was written, whatever the command line, the names  *)
(* and the clock: no product wraps, and a window longer than the time since   *)
(* the epoch gates everything with a time.                                    *)
THEOREM CooldownIsAsWritten == AlgorithmsSpec => []CooldownAsConfigured
<1>1. CooldownAsConfigured
  <2> DEFINE cli == input.cli
             config == Start!Build(cli)
             exact == cli.cooldown.value * Start!UnitSecs[cli.cooldown.unit]
  <2> SUFFICES ASSUME config # None
               PROVE  /\ exact <= MaxSecs
                      /\ \A n \in DOMAIN LowerCase, now \in Epochs :
                           Start!CutoffAt(config, n, now) =
                             IF (\E m \in Range(cli.overrides) :
                                   m # None /\ LowerCase[m] = LowerCase[n]) \/ exact = 0
                             THEN None ELSE Max({0, now - exact})
    BY DEF CooldownAsConfigured
  <2>1. /\ Start!ParseDuration(cli.cooldown) # Error
        /\ config = [cooldown  |-> Start!ParseDuration(cli.cooldown),
                     overrides |-> Start!ParseOverrides(cli.overrides),
                     restrict  |-> cli.restrict]
    BY DEF Start!Build
  <2>2. /\ ~ (exact > MaxSecs)
        /\ Start!ParseDuration(cli.cooldown) = exact
        /\ cli.cooldown.unit \in DOMAIN Start!UnitSecs
        /\ cli.cooldown.value \in 0..MaxSecs
    <3> HIDE DEF cli, config
    <3> QED
      BY <2>1 DEF Start!ParseDuration
  <2>3. exact \in Nat
    BY <2>2, NumbersAssumed, UnitsAreNatural
  <2> HIDE DEF exact
  <2>4. ASSUME NEW now \in Epochs
        PROVE  Max({0, now - exact}) = IF now < exact THEN 0 ELSE now - exact
    <3> DEFINE S == {0, now - exact}
               x == IF now < exact THEN 0 ELSE now - exact
    <3>1. now \in Nat
      BY NumbersAssumed
    <3>2. S \subseteq Int /\ x \in S /\ \A y \in S : y <= x
      BY <2>3, <3>1
    <3> HIDE DEF S, x
    <3>3. Max(S) = x
      BY <3>2, MaxIs
    <3> QED
      BY <3>3 DEF S, x
  <2>5. config.cooldown = exact /\ config.overrides = Start!ParseOverrides(cli.overrides)
    BY <2>1, <2>2
  <2> HIDE DEF config
  <2>6. ASSUME NEW n \in DOMAIN LowerCase
        PROVE  LowerCase[n] \in config.overrides
                 <=> \E m \in Range(cli.overrides) : m # None /\ LowerCase[m] = LowerCase[n]
    BY <2>5 DEF Start!ParseOverrides, Start!Range, Range
  <2>7. ASSUME NEW n \in DOMAIN LowerCase, NEW now \in Epochs
        PROVE  Start!CutoffAt(config, n, now) =
                 IF (\E m \in Range(cli.overrides) :
                       m # None /\ LowerCase[m] = LowerCase[n]) \/ exact = 0
                 THEN None ELSE Max({0, now - exact})
    BY <2>4, <2>5, <2>6 DEF Start!CutoffAt
  <2>8. exact <= MaxSecs
    BY <2>2, <2>3, NumbersAssumed
  <2> QED
    BY <2>7, <2>8
<1> QED
  BY <1>1, PTL

-----------------------------------------------------------------------------
(* Request paths and file names: src/src/cache, valid.rs, routes/metrics.rs.  *)

(* Crates that are asked for have names and versions of a legal length.       *)
LEMMA CratesAssumed ==
  \A crate \in CratePaths :
    /\ crate \in [name : Seq(NameChars), version : Seq(VersionChars)]
    /\ Len(crate.name) \in 1..MaxLen /\ Len(crate.version) \in 1..MaxLen
BY Zenon, AlgorithmsAssumption

(* Names and versions that crates have are accepted.                          *)
LEMMA NamesAreValid ==
  ASSUME NEW name \in Seq(NameChars), Len(name) \in 1..MaxLen
  PROVE  IsCrateName(name)
BY LenProperties, ElementOfSeq DEF IsCrateName

(* Such a version passes validation.                                          *)
LEMMA VersionsAreValid ==
  ASSUME NEW version \in Seq(VersionChars), Len(version) \in 1..MaxLen
  PROVE  IsCrateVersion(version)
BY LenProperties, ElementOfSeq DEF IsCrateVersion

(* Lower case keeps a name's length and is its own lower case.                *)
LEMMA LowerName ==
  ASSUME NEW name \in Seq(NameChars)
  PROVE  /\ Lower(name) \in Seq(NameChars)
         /\ Len(Lower(name)) = Len(name)
         /\ Lower(Lower(name)) = Lower(name)
<1>1. /\ LowerOf \in [NameChars -> NameChars]
      /\ \A c \in NameChars : LowerOf[LowerOf[c]] = LowerOf[c]
  BY Zenon, AlgorithmsAssumption
<1>2. /\ Len(name) \in Nat /\ DOMAIN name = 1..Len(name)
      /\ \A i \in 1..Len(name) : name[i] \in NameChars
  BY LenProperties, ElementOfSeq
<1>3. Lower(name) = [i \in 1..Len(name) |-> LowerOf[name[i]]]
  BY <1>2 DEF Lower
<1>4. /\ Lower(name) \in [1..Len(name) -> NameChars]
      /\ \A i \in 1..Len(name) : LowerOf[Lower(name)[i]] = Lower(name)[i]
  BY <1>1, <1>2, <1>3
<1>5. Lower(name) \in Seq(NameChars) /\ Len(Lower(name)) = Len(name)
  BY <1>2, <1>4
<1>6. Lower(Lower(name)) = [i \in 1..Len(name) |-> LowerOf[Lower(name)[i]]]
  BY <1>4 DEF Lower
<1> QED
  BY <1>3, <1>4, <1>5, <1>6

(* An index entry is asked for by its lower-case name.                        *)
LEMMA IndexPathNamesEntry ==
  ASSUME NEW name \in Seq(NameChars), Len(name) \in 1..MaxLen
  PROVE  TryFromIndexUrl(ToIndexUrl(name)) = Lower(name)
<1> DEFINE n == Lower(name)
           url == ToIndexUrl(name)
<1>1. n \in Seq(NameChars) /\ Len(n) = Len(name) /\ IsCrateName(n)
  BY LowerName, NamesAreValid
<1> HIDE DEF n
<1>2. url = CASE Len(n) = 1 -> <<<<"1">>, n>>
              [] Len(n) = 2 -> <<<<"2">>, n>>
              [] Len(n) = 3 -> <<<<"3">>, <<n[1]>>, n>>
              [] OTHER      -> <<SubSeq(n, 1, 2), SubSeq(n, 3, 4), n>>
  BY DEF ToIndexUrl, n
<1>3. Len(n) \in Nat \ {0}
  BY <1>1, NumbersAssumed
<1>4. CASE Len(n) = 1
  BY <1>1, <1>2, <1>4 DEF TryFromIndexUrl, n
<1>5. CASE Len(n) = 2
  BY <1>1, <1>2, <1>5 DEF TryFromIndexUrl, n
<1>6. CASE Len(n) = 3
  BY <1>1, <1>2, <1>6 DEF TryFromIndexUrl, n
<1>7. CASE Len(n) \notin {1, 2, 3}
  <2>1. url = <<SubSeq(n, 1, 2), SubSeq(n, 3, 4), n>>
    BY <1>2, <1>7
  <2>2. Len(SubSeq(n, 1, 2)) = 2
    BY <1>1, <1>3, <1>7
  <2>3. url[1] \notin {<<"1">>, <<"2">>}
    BY <2>1, <2>2
  <2> QED
    BY <1>1, <2>1, <2>3 DEF TryFromIndexUrl, n
<1> QED
  BY <1>3, <1>4, <1>5, <1>6, <1>7

(* The metrics scan reads the crate back from its file name: it knows the     *)
(* name from the directory, so dashes do not mislead it.                      *)
LEMMA FileNamesCrate ==
  ASSUME NEW crate \in CratePaths
  PROVE  Scanned(ToFilePath(crate)) = crate
<1> DEFINE S == VersionChars \cup {"-", ".crate"}
           name == crate.name
           version == crate.version
           prefix == name \o <<"-">>
           stem == prefix \o version
           path == ToFilePath(crate)
<1>1. /\ crate = [name |-> name, version |-> version]
      /\ name \in Seq(NameChars) /\ version \in Seq(VersionChars)
      /\ Len(name) \in 1..MaxLen /\ Len(version) \in 1..MaxLen
  BY CratesAssumed
<1>2. name \in Seq(S) /\ version \in Seq(S) /\ <<"-">> \in Seq(S) /\ <<".crate">> \in Seq(S)
  <2>1. NameChars \subseteq S /\ VersionChars \subseteq S
    BY DEF VersionChars
  <2> QED
    BY <1>1, <2>1, SeqMonotonic
<1>3. IsCrateName(name) /\ IsCrateVersion(version)
  BY <1>1, NamesAreValid, VersionsAreValid
<1>4. path = <<name, stem \o <<".crate">>>>
  BY DEF ToFilePath
<1> HIDE DEF S, name, version, path
<1>5. prefix \in Seq(S) /\ Len(prefix) = Len(name) + 1
  BY <1>2, ConcatProperties
<1> HIDE DEF prefix
<1>6. /\ stem \in Seq(S) /\ Len(stem) = Len(prefix) + Len(version)
      /\ \A i \in 1..Len(prefix) : stem[i] = prefix[i]
      /\ \A i \in 1..Len(version) : stem[Len(prefix) + i] = version[i]
  <2>1. stem \in Seq(S) /\ IsConcat(stem, prefix, version)
    BY <1>2, <1>5, ConcatParts
  <2> QED
    BY <2>1 DEF IsConcat
<1> HIDE DEF stem
<1> DEFINE file == stem \o <<".crate">>
<1>7. /\ file \in Seq(S) /\ Len(file) = Len(stem) + 1
      /\ \A i \in 1..Len(stem) : file[i] = stem[i]
      /\ file[Len(stem) + 1] = ".crate"
  <2> DEFINE end == <<".crate">>
  <2>1. Len(end) = 1 /\ end[1] = ".crate" /\ end \in Seq(S)
    BY <1>2
  <2> HIDE DEF end
  <2>2. stem \o end \in Seq(S) /\ IsConcat(stem \o end, stem, end)
    BY <1>6, <2>1, ConcatParts
  <2> QED
    BY <2>1, <2>2 DEF end, IsConcat
<1>8. path = <<name, file>> /\ prefix = name \o <<"-">>
  BY <1>4 DEF prefix
<1> HIDE DEF file
<1>9. Len(name) \in Nat /\ Len(version) \in Nat
  BY <1>2, LenProperties
<1>10. Last(file) = ".crate"
  BY <1>7 DEF Last
<1>11. IsPrefix(prefix, file)
  BY <1>5, <1>6, <1>7, <1>9 DEF IsPrefix
<1>12. SubSeq(file, Len(prefix) + 1, Len(file) - 1) = version
  <2>1. ASSUME NEW i \in 1..Len(version)
        PROVE  file[Len(prefix) + 1 + i - 1] = version[i]
    <3>1. Len(prefix) + i \in 1..Len(stem) /\ Len(prefix) + 1 + i - 1 = Len(prefix) + i
      BY <1>5, <1>6, <1>9
    <3> QED
      BY <1>6, <1>7, <3>1
  <2>2. Len(version) = (Len(file) - 1) - (Len(prefix) + 1) + 1
    BY <1>5, <1>6, <1>7, <1>9
  <2> DEFINE m == Len(prefix) + 1
             n == Len(file) - 1
  <2>3. m \in Int /\ n \in Int /\ 1 <= m /\ n <= Len(file)
    BY <1>5, <1>6, <1>7, <1>9
  <2> HIDE DEF m, n
  <2>4. Len(version) = n - m + 1 /\ \A i \in 1..Len(version) : file[m + i - 1] = version[i]
    BY <2>1, <2>2 DEF m, n
  <2>5. SubSeq(file, m, n) = version
    BY <1>2, <1>7, <2>3, <2>4, SubSeqIs, Zenon
  <2> QED
    BY <2>5 DEF m, n
<1>13. Scanned(path) = [name |-> name, version |-> version]
  BY <1>3, <1>8, <1>10, <1>11, <1>12 DEF Scanned
<1> QED
  BY <1>1, <1>13 DEF path

(* Every crate, whatever its name and version, is found again from the paths  *)
(* it is asked for and kept under, and every spelling of an index entry's     *)
(* name leads to one entry.                                                   *)
THEOREM PathsAreFaithful == AlgorithmsSpec => []PathsNameTheirCrate
<1>1. ASSUME input \in Inputs  PROVE PathsNameTheirCrate
  <2> SUFFICES ASSUME input.kind = "crate"
               PROVE  /\ TryFromDownloadUrl(ToDownloadUrl(input.crate)) = input.crate
                      /\ Scanned(ToFilePath(input.crate)) = input.crate
                      /\ TryFromIndexUrl(ToIndexUrl(input.crate.name))
                           = Lower(input.crate.name)
                      /\ ToIndexUrl(Lower(input.crate.name)) = ToIndexUrl(input.crate.name)
    BY DEF PathsNameTheirCrate
  <2> DEFINE crate == input.crate
  <2>1. crate \in CratePaths
    BY <1>1 DEF Inputs, Day
  <2> HIDE DEF crate
  <2>2. /\ crate = [name |-> crate.name, version |-> crate.version]
        /\ crate.name \in Seq(NameChars) /\ crate.version \in Seq(VersionChars)
        /\ Len(crate.name) \in 1..MaxLen /\ Len(crate.version) \in 1..MaxLen
    BY <2>1, CratesAssumed
  <2>3. IsCrateName(crate.name) /\ IsCrateVersion(crate.version)
    BY <2>2, NamesAreValid, VersionsAreValid
  <2>4. TryFromDownloadUrl(ToDownloadUrl(crate)) = crate
    BY <2>2, <2>3 DEF TryFromDownloadUrl, ToDownloadUrl
  <2>5. Scanned(ToFilePath(crate)) = crate
    BY <2>1, FileNamesCrate
  <2>6. TryFromIndexUrl(ToIndexUrl(crate.name)) = Lower(crate.name)
    BY <2>2, IndexPathNamesEntry
  <2>7. ToIndexUrl(Lower(crate.name)) = ToIndexUrl(crate.name)
    BY <2>2, LowerName DEF ToIndexUrl
  <2> QED
    BY <2>4, <2>5, <2>6, <2>7 DEF crate
<1> QED
  BY <1>1, InputsStay, PTL

-----------------------------------------------------------------------------
(* The marker in etags: src/src/routes/index.rs.                              *)

AllPieces == Pieces \cup {Weak, Quote, Mark} \cup Nat

(* Text without quotes around it.                                             *)
Trimmed(text) == text = <<>> \/ (text[1] # Quote /\ text[Len(text)] # Quote)

(* No quote, mark or weak prefix is another piece, and windows fit.           *)
LEMMA EtagsAssumed ==
  /\ Quote # Mark /\ Quote # Weak /\ Weak \notin Nat /\ Quote \notin Nat
  /\ Mark \notin Nat /\ None \notin Nat
  /\ Etags \subseteq Seq(AllPieces)
  /\ \A window \in MarkWindows : window \in Nat /\ ~ (window > MaxSecs)
<1>1. /\ {None, Error, Weak, Quote, Mark} \cap Nat = {} /\ Quote \notin {Weak, Mark}
      /\ Etags \subseteq Seq(Pieces) /\ MarkWindows \subseteq 0..MaxSecs
  BY Zenon, AlgorithmsAssumption
<1>2. Seq(Pieces) \subseteq Seq(AllPieces)
  BY SeqMonotonic DEF AllPieces
<1>3. \A window \in MarkWindows : window \in Nat /\ ~ (window > MaxSecs)
  BY <1>1, NumbersAssumed
<1>4. Weak \notin Nat /\ Quote \notin Nat /\ Mark \notin Nat /\ None \notin Nat
  BY <1>1
<1> QED
  BY <1>1, <1>2, <1>3, <1>4

(* The positions of a text that are no quotes, and what is left between them. *)
Kept(text) == {i \in DOMAIN text : text[i] # Quote}

Stripped(text) ==
  IF Kept(text) = {} THEN <<>> ELSE SubSeq(text, Min(Kept(text)), Max(Kept(text)))

(* Taking the quotes off both ends leaves none there.                         *)
LEMMA StrippedIsTrimmed ==
  ASSUME NEW text \in Seq(AllPieces)
  PROVE  Stripped(text) \in Seq(AllPieces) /\ Trimmed(Stripped(text))
<1>1. Len(text) \in Nat /\ DOMAIN text = 1..Len(text)
  BY LenProperties
<1>2. CASE Kept(text) = {}
  <2>1. Stripped(text) = <<>>
    BY <1>2 DEF Stripped
  <2> QED
    BY <2>1, EmptySeq DEF Trimmed
<1>3. CASE Kept(text) # {}
  <2> DEFINE m == Min(Kept(text))
             n == Max(Kept(text))
             part == SubSeq(text, m, n)
  <2>1. Kept(text) \subseteq Nat /\ Kept(text) \subseteq 0..Len(text)
    BY <1>1 DEF Kept
  <2>2. /\ m \in Kept(text) /\ \A i \in Kept(text) : m <= i
        /\ n \in Kept(text) /\ \A i \in Kept(text) : i <= n
    BY <1>1, <1>3, <2>1, LeastNatural, LargestNatural
  <2> HIDE DEF m, n
  <2>3. /\ m \in 1..Len(text) /\ n \in 1..Len(text) /\ m <= n
        /\ text[m] # Quote /\ text[n] # Quote
    BY <1>1, <2>2 DEF Kept
  <2>4. /\ part \in Seq(AllPieces) /\ Len(part) = n - m + 1
        /\ \A i \in 1..(n - m + 1) : part[i] = text[m + i - 1]
    <3>1. m \in Int /\ n \in Int /\ 1 <= m /\ n <= Len(text) /\ m <= n + 1
      BY <1>1, <2>3
    <3> QED
      BY <3>1, SubSeqParts, Zenon
  <2> HIDE DEF part
  <2>5. part[1] = text[m] /\ part[Len(part)] = text[n]
    BY <1>1, <2>3, <2>4
  <2>6. Stripped(text) = part
    BY <1>3 DEF Stripped, part, m, n
  <2> QED
    BY <2>3, <2>4, <2>5, <2>6 DEF Trimmed
<1> QED
  BY <1>2, <1>3

(* The inside of an etag is what is left without weak prefix and quotes.      *)
LEMMA EtagInnerIs ==
  ASSUME NEW value
  PROVE  EtagInner(value)
           = Stripped(IF value # <<>> /\ Head(value) = Weak THEN Tail(value) ELSE value)
BY Zenon DEF EtagInner, Stripped, Kept

(* What is taken out of an etag has no quotes around it.                      *)
LEMMA InnerIsTrimmed ==
  ASSUME NEW value \in Seq(AllPieces)
  PROVE  EtagInner(value) \in Seq(AllPieces) /\ Trimmed(EtagInner(value))
<1> DEFINE text == IF value # <<>> /\ Head(value) = Weak THEN Tail(value) ELSE value
<1>1. text \in Seq(AllPieces)
  BY HeadTailProperties
<1> HIDE DEF text
<1>2. EtagInner(value) = Stripped(text)
  BY EtagInnerIs DEF text
<1> QED
  BY <1>1, <1>2, StrippedIsTrimmed

(* A quoted text is the text between two quotes.                              *)
LEMMA QuotedIs ==
  ASSUME NEW text \in Seq(AllPieces)
  PROVE  /\ Quoted(text) \in Seq(AllPieces) /\ Len(text) \in Nat
         /\ Len(Quoted(text)) = Len(text) + 2
         /\ Quoted(text)[1] = Quote /\ Quoted(text)[Len(text) + 2] = Quote
         /\ \A i \in 1..Len(text) : Quoted(text)[i + 1] = text[i]
<1> DEFINE quote == <<Quote>>
           left == quote \o text
           both == left \o quote
<1>1. quote \in Seq(AllPieces) /\ Len(quote) = 1 /\ quote[1] = Quote
  BY DEF AllPieces
<1>2. Quoted(text) = both
  BY DEF Quoted
<1> HIDE DEF quote
<1>3. left \in Seq(AllPieces) /\ IsConcat(left, quote, text)
  BY <1>1, ConcatParts
<1> HIDE DEF left
<1>4. both \in Seq(AllPieces) /\ IsConcat(both, left, quote)
  BY <1>1, <1>3, ConcatParts
<1> HIDE DEF both
<1>5. /\ Len(text) \in Nat /\ Len(left) = Len(text) + 1 /\ Len(both) = Len(text) + 2
      /\ left[1] = Quote
      /\ \A i \in 1..Len(text) : left[1 + i] = text[i]
  BY <1>1, <1>3, <1>4 DEF IsConcat
<1>6. both[Len(text) + 2] = Quote
  BY <1>1, <1>4, <1>5 DEF IsConcat
<1>7. \A i \in 1..(Len(text) + 1) : both[i] = left[i]
  BY <1>4, <1>5 DEF IsConcat
<1>8. both[1] = Quote /\ \A i \in 1..Len(text) : both[i + 1] = text[i]
  BY <1>5, <1>7
<1> QED
  BY <1>2, <1>4, <1>5, <1>6, <1>8

(* The quotes put around a text are those that are taken off.                 *)
LEMMA StrippedQuoted ==
  ASSUME NEW text \in Seq(AllPieces), Trimmed(text)
  PROVE  Stripped(Quoted(text)) = text
<1> DEFINE q == Quoted(text)
           len == Len(text)
<1>1. /\ q \in Seq(AllPieces) /\ len \in Nat /\ Len(q) = len + 2
      /\ q[1] = Quote /\ q[len + 2] = Quote
      /\ \A i \in 1..len : q[i + 1] = text[i]
  BY QuotedIs
<1>2. DOMAIN q = 1..(len + 2)
  BY <1>1, LenProperties
<1> HIDE DEF q
<1>3. CASE len = 0
  <2>1. text = <<>>
    BY <1>3, EmptySeq
  <2>2. Kept(q) = {}
    BY <1>1, <1>2, <1>3 DEF Kept
  <2> QED
    BY <2>1, <2>2 DEF Stripped, q
<1>4. CASE len # 0
  <2>1. text[1] # Quote /\ text[len] # Quote
    BY <1>4 DEF Trimmed
  <2>2. /\ 2 \in Kept(q) /\ len + 1 \in Kept(q)
        /\ Kept(q) \subseteq 2..(len + 1)
    BY <1>1, <1>2, <1>4, <2>1 DEF Kept
  <2>3. Min(Kept(q)) = 2
    <3>1. Kept(q) \subseteq Int /\ \A i \in Kept(q) : 2 <= i
      BY <1>1, <2>2
    <3> QED
      BY <2>2, <3>1, MinIs
  <2>4. Max(Kept(q)) = len + 1
    <3> DEFINE n == len + 1
    <3>1. Kept(q) \subseteq Int /\ n \in Kept(q) /\ \A i \in Kept(q) : i <= n
      BY <1>1, <2>2
    <3> HIDE DEF n
    <3>2. Max(Kept(q)) = n
      BY <3>1, MaxIs
    <3> QED
      BY <3>2 DEF n
  <2>5. SubSeq(q, 2, len + 1) = text
    <3> DEFINE m == 2
               n == len + 1
    <3>1. /\ m \in Int /\ n \in Int /\ 1 <= m /\ n <= Len(q) /\ Len(text) = n - m + 1
          /\ \A i \in 1..Len(text) : q[m + i - 1] = text[i]
      BY <1>1
    <3> HIDE DEF m, n
    <3>2. SubSeq(q, m, n) = text
      BY <1>1, <3>1, SubSeqIs, Zenon
    <3> QED
      BY <3>2 DEF m, n
  <2> QED
    BY <2>2, <2>3, <2>4, <2>5 DEF Stripped, q
<1> QED
  BY <1>3, <1>4

(* Putting quotes and a weak prefix on, and taking them off, loses nothing.   *)
LEMMA InnerOfQuoted ==
  ASSUME NEW text \in Seq(AllPieces), Trimmed(text)
  PROVE  /\ EtagInner(Quoted(text)) = text
         /\ EtagInner(<<Weak>> \o Quoted(text)) = text
<1> DEFINE q == Quoted(text)
           weak == <<Weak>>
           w == weak \o q
<1>1. q \in Seq(AllPieces) /\ q # <<>> /\ Head(q) = Quote
  BY QuotedIs
<1>2. weak \in Seq(AllPieces) /\ Len(weak) = 1 /\ weak[1] = Weak
  BY DEF AllPieces
<1>3. Stripped(q) = text
  BY StrippedQuoted
<1> HIDE DEF q
<1>4. EtagInner(q) = text
  BY <1>1, <1>3, EtagInnerIs, EtagsAssumed
<1> HIDE DEF weak
<1>5. w \in Seq(AllPieces) /\ IsConcat(w, weak, q)
  BY <1>1, <1>2, ConcatParts
<1> HIDE DEF w
<1>6. w # <<>> /\ Head(w) = Weak
  BY <1>2, <1>5 DEF IsConcat
<1>7. Tail(w) = q
  <2>1. /\ Tail(w) \in Seq(AllPieces) /\ Len(Tail(w)) = Len(w) - 1
        /\ \A i \in 1..Len(Tail(w)) : Tail(w)[i] = w[i + 1]
    BY <1>5, <1>6, HeadTailProperties
  <2>2. Len(Tail(w)) = Len(q) /\ \A i \in 1..Len(q) : Tail(w)[i] = q[i]
    BY <1>2, <1>5, <2>1 DEF IsConcat
  <2> QED
    BY <1>1, <2>1, <2>2, SeqEqual
<1>8. EtagInner(w) = text
  BY <1>3, <1>6, <1>7, EtagInnerIs
<1> QED
  BY <1>4, <1>8 DEF q, w, weak

(* A marker put on is the one found and cut off, whatever stands before it:   *)
(* markers and digits of the etag's own do not matter.                        *)
LEMMA MarkedText ==
  ASSUME NEW inner \in Seq(AllPieces), Trimmed(inner), NEW secs \in Nat
  PROVE  LET marked == inner \o <<Mark, secs>>
         IN  /\ marked \in Seq(AllPieces) /\ Trimmed(marked)
             /\ Cut(marked) # 0
             /\ marked[Len(marked)] = secs
             /\ SubSeq(marked, 1, Cut(marked) - 1) = inner
<1> DEFINE tail == <<Mark, secs>>
           marked == inner \o tail
           len == Len(inner)
           marks == {i \in DOMAIN marked : marked[i] = Mark}
<1>1. tail \in Seq(AllPieces) /\ Len(tail) = 2 /\ tail[1] = Mark /\ tail[2] = secs
  BY DEF AllPieces
<1> HIDE DEF tail
<1>2. marked \in Seq(AllPieces) /\ IsConcat(marked, inner, tail)
  BY <1>1, ConcatParts
<1> HIDE DEF marked
<1>3. /\ len \in Nat /\ Len(marked) = len + 2 /\ DOMAIN marked = 1..(len + 2)
      /\ \A i \in 1..len : marked[i] = inner[i]
      /\ marked[len + 1] = Mark /\ marked[len + 2] = secs
  BY <1>1, <1>2, LenProperties DEF IsConcat
<1>4. Max(marks) = len + 1 /\ marks # {}
  <2> DEFINE n == len + 1
  <2>1. marks \subseteq Int /\ n \in marks
    BY <1>3
  <2>2. ASSUME NEW i \in marks  PROVE i <= n
    <3>1. i \in 1..(len + 2) /\ i # len + 2
      BY <1>3, EtagsAssumed
    <3> QED
      BY <1>3, <3>1
  <2> HIDE DEF n, marks
  <2>3. Max(marks) = n
    BY <2>1, <2>2, MaxIs
  <2> QED
    BY <2>1, <2>3 DEF n
<1>5. Cut(marked) = len + 1
  BY <1>3, <1>4 DEF Cut
<1>6. Trimmed(marked)
  <2>1. marked[1] # Quote
    <3>1. CASE len = 0
      BY <1>3, <3>1, EtagsAssumed
    <3>2. CASE len # 0
      <4>1. inner # <<>>
        BY <3>2
      <4> QED
        BY <1>3, <3>2, <4>1 DEF Trimmed
    <3> QED
      BY <3>1, <3>2
  <2>2. marked[Len(marked)] # Quote
    BY <1>3, EtagsAssumed
  <2> QED
    BY <2>1, <2>2 DEF Trimmed
<1>7. SubSeq(marked, 1, len) = inner
  <2> DEFINE m == 1
             n == len
  <2>1. /\ m \in Int /\ n \in Int /\ 1 <= m /\ n <= Len(marked) /\ Len(inner) = n - m + 1
        /\ \A i \in 1..Len(inner) : marked[m + i - 1] = inner[i]
    BY <1>3
  <2> HIDE DEF m, n
  <2>2. SubSeq(marked, m, n) = inner
    BY <1>2, <2>1, SubSeqIs, Zenon
  <2> QED
    BY <2>2 DEF m, n
<1>8. Cut(marked) - 1 = len /\ Cut(marked) # 0
  BY <1>3, <1>5
<1> QED
  BY <1>2, <1>3, <1>6, <1>7, <1>8 DEF marked, tail

(* What the proxy reads from an etag it sent under a window.                  *)
LEMMA SentIsRead ==
  ASSUME NEW etag \in Seq(AllPieces), NEW window \in MarkWindows
  PROVE  /\ EtagWindow(SentEtag(etag, window)) = window
         /\ UnmarkEtag(SentEtag(etag, window)) = Quoted(EtagInner(etag))
<1> DEFINE inner == EtagInner(etag)
           marked == inner \o <<Mark, window>>
<1>1. window \in Nat /\ ~ (window > MaxSecs) /\ window # None
  BY EtagsAssumed
<1>2. inner \in Seq(AllPieces) /\ Trimmed(inner)
  BY InnerIsTrimmed
<1> HIDE DEF inner
<1>3. /\ marked \in Seq(AllPieces) /\ Trimmed(marked)
      /\ Cut(marked) # 0
      /\ marked[Len(marked)] = window
      /\ SubSeq(marked, 1, Cut(marked) - 1) = inner
  BY <1>1, <1>2, MarkedText
<1>4. SentEtag(etag, window) = <<Weak>> \o Quoted(marked)
  BY <1>1 DEF SentEtag, FilteredEtag, inner
<1> HIDE DEF marked
<1>5. EtagInner(SentEtag(etag, window)) = marked
  BY <1>3, <1>4, InnerOfQuoted
<1>6. EtagWindow(SentEtag(etag, window)) = window
  BY <1>1, <1>3, <1>5 DEF EtagWindow
<1>7. UnmarkEtag(SentEtag(etag, window)) = Quoted(inner)
  BY <1>3, <1>5 DEF UnmarkEtag
<1> QED
  BY <1>6, <1>7 DEF inner

(* A 304 is sent for exactly the copy the client has: filtered under the same *)
(* window, of the same revision.  Whatever text, quotes, weak prefixes,       *)
(* markers or digits the etags of upstream contain, putting the marker on and *)
(* taking it off loses nothing and confuses no two of them.                   *)
THEOREM OnlyThatCopyIsConfirmed == AlgorithmsSpec => []ConfirmsOnlyThatCopy
<1>1. ASSUME input \in Inputs  PROVE ConfirmsOnlyThatCopy
  <2> SUFFICES
        ASSUME input.kind = "etag", ~ (input.window = None /\ LooksMarked(input.etag)),
               NEW etag \in Etags, NEW window \in MarkWindows \cup {None}
        PROVE  LET sent == SentEtag(input.etag, input.window)
               IN  /\ Confirms(sent, etag, window)
                        => window = input.window /\ EtagInner(etag) = EtagInner(input.etag)
                   /\ (etag = input.etag /\ etag = Quoted(EtagInner(etag))
                         /\ window = input.window)
                        => Confirms(sent, etag, window)
    BY DEF ConfirmsOnlyThatCopy
  <2> DEFINE own == input.etag
             secs == input.window
             sent == SentEtag(own, secs)
  <2>1. own \in Etags /\ secs \in MarkWindows \cup {None}
    BY <1>1 DEF Inputs, Day
  <2>2. ~ (secs = None /\ Cut(EtagInner(own)) # 0)
    BY DEF LooksMarked
  <2> HIDE DEF own, secs
  <2>3. own \in Seq(AllPieces) /\ etag \in Seq(AllPieces)
    BY <2>1, EtagsAssumed
  <2>4. EtagWindow(sent) = secs /\ UnmarkEtag(sent) = Quoted(EtagInner(own))
    <3>1. CASE secs = None
      <4>1. sent = own /\ Cut(EtagInner(own)) = 0
        BY <2>2, <3>1 DEF SentEtag
      <4> QED
        BY <3>1, <4>1 DEF EtagWindow, UnmarkEtag
    <3>2. CASE secs \in MarkWindows
      BY <2>3, <3>2, SentIsRead
    <3> QED
      BY <2>1, <3>1, <3>2
  <2> HIDE DEF sent
  <2>5. ASSUME Confirms(sent, etag, window)
        PROVE  window = secs /\ EtagInner(etag) = EtagInner(own)
    <3>1. window = secs /\ etag = Quoted(EtagInner(own))
      BY <2>4, <2>5 DEF Confirms
    <3>2. EtagInner(own) \in Seq(AllPieces) /\ Trimmed(EtagInner(own))
      BY <2>3, InnerIsTrimmed
    <3> QED
      BY <3>1, <3>2, InnerOfQuoted
  <2>6. ASSUME etag = own, etag = Quoted(EtagInner(etag)), window = secs
        PROVE  Confirms(sent, etag, window)
    BY <2>4, <2>6 DEF Confirms
  <2> QED
    BY <2>5, <2>6 DEF own, secs, sent
<1> QED
  BY <1>1, InputsStay, PTL
=============================================================================
