---------------------------- MODULE MCAlgorithms ----------------------------
(* The instances of Algorithms for TLC: a walk over more than 400 years, so   *)
(* that every kind of leap year and the boundary of an era are met, and every *)
(* short input of the other algorithms.                                       *)
EXTENDS Algorithms

CONSTANT Letters   \* a run of other text in an etag

MCFirstDay == -365

(* The first and last second of a day, and seconds around the other carries.  *)
MCClocks == {0, 59, 60, 3599, 3600, 43199, 86399}

MCTimeOf == [t \in {"day1", "day3"} |-> IF t = "day1" THEN 1 ELSE 3]

MCLowerCase ==
  [n \in {"Serde", "serde", "SERDE", "tokio"} |->
     IF n = "tokio" THEN "tokio" ELSE "serde"]

MCLowerOf == [c \in NameChars |-> IF c = "A" THEN "a" ELSE c]

MCNamed ==
  [c \in {"quote", "backslash", "newline", "return", "tab"} |->
     CASE c = "newline" -> "n" [] c = "return" -> "r" [] c = "tab" -> "t"
       [] OTHER -> c]

MCControl == [c \in {"^A", "escape"} |->
                IF c = "^A" THEN <<"0", "0", "0", "1">> ELSE <<"0", "0", "1", "b">>]

(* The plain characters are those that the escapes are written with.          *)
MCPlain == {"n", "r", "t", "u", "0", "1", "b"}

MCChars == MCPlain \cup DOMAIN MCNamed \cup DOMAIN MCControl

MCJsonCodes ==
  [code \in {<<c>> : c \in MCPlain}
              \cup {<<"backslash", MCNamed[c]>> : c \in DOMAIN MCNamed}
              \cup {<<"backslash", "u">> \o MCControl[c] : c \in DOMAIN MCControl} |->
     CASE Len(code) = 1 -> code[1]
       [] Len(code) = 2 -> CHOOSE c \in DOMAIN MCNamed : MCNamed[c] = code[2]
       [] OTHER -> CHOOSE c \in DOMAIN MCControl : MCControl[c] = SubSeq(code, 3, 6)]

MCPieces == {Letters, Mark, 7, Quote, Weak}

(* Text with a marker anywhere, digits with or without one; strong, weak and  *)
(* unquoted etags.                                                            *)
EtagTexts ==
  {s \in UNION {[1..k -> {Letters, Mark, 7}] : k \in 0..3} :
     \A i \in 1..(Len(s) - 1) : ~(s[i] \in Nat /\ s[i + 1] \in Nat)}

MCEtags ==
  UNION {{s, Quoted(s), <<Weak>> \o Quoted(s)} : s \in EtagTexts}

MCWords == {"pubtime", "vers", "1.0", "1.1", "std", "day1", "day3", "null"}

MCEntries(versions) ==
  [vers : versions, req : {"1.0", "1.1"}, feature : {"std", "pubtime"},
   pubtime : {"day1", "day3", "null", None}, early : BOOLEAN, spaced : BOOLEAN]

MCBodies ==
  {[name |-> n, entries |-> <<e, f>>] :
     n \in {"pubtime", "vers"}, e \in MCEntries({"1.0"}), f \in MCEntries({"1.1"})}

(* Values around those whose product with a unit is the largest that fits.    *)
MCSettings ==
  [cooldown : [value : {0, 1, 3, 4, 24, 25, 582, 583, None},
               unit  : {None, "s", "m", "h", "d", "w", "y"}]
                \cup [value : {MaxSecs, MaxSecs + 1}, unit : {None, "s"}]
                \cup {None},
   overrides : {<<>>, <<"Serde">>, <<"tokio", None, "serde">>},
   version : BOOLEAN, restrict : {TRUE}]

MCEpochs == {0, 86399, 86400, 604801, 2000000000}

Texts(chars, most) == UNION {[1..k -> chars] : k \in 1..most}

MCCratePaths ==
  [name : Texts(NameChars, 5), version : Texts({"1", ".", "-"}, 2)]

MCMessages == UNION {[1..k -> MCChars] : k \in 0..3}
=============================================================================
