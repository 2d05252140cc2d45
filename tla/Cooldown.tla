------------------------------ MODULE Cooldown ------------------------------
(* The age gate of src/src/cooldown.rs as pure operators.  A version line of  *)
(* a sparse-index entry is an element of Versions; its "pubtime" is a number  *)
(* of clock units, or None when the line has no parseable pubtime.            *)
EXTENDS Integers

CONSTANTS
  Versions,   \* the version lines upstream may ever publish
  PubTime,    \* the pubtime of every version, None when it has none
  None        \* the absent value (Rust's Option::None)

ASSUME PubTimeAssumption == PubTime \in [Versions -> Nat \cup {None}]

(* The cutoff for a window measured back from now: none for a zero window,    *)
(* and a subtraction that saturates at zero otherwise.                        *)
CutoffFrom(now, secs) ==
  IF secs = 0 THEN None
  ELSE IF now < secs THEN 0 ELSE now - secs

TooNew(version, cutoff) ==
  PubTime[version] # None /\ PubTime[version] > cutoff

(* Mutant: the comparison is against the end of the cutoff's bucket.          *)
FilterBodyLenient(lines, cutoff) ==
  {v \in lines : PubTime[v] = None \/ PubTime[v] <= cutoff + 1}

(* The lines that survive the filter: only a parsed pubtime strictly newer    *)
(* than the cutoff drops a line.                                              *)
FilterBody(lines, cutoff) == {v \in lines : ~TooNew(v, cutoff)}

(* A body that is not UTF-8 passes through unfiltered.                        *)
FilterIndex(body, cutoff) ==
  [body EXCEPT !.lines = IF body.utf8 THEN FilterBody(@, cutoff) ELSE @]

(* What the download gate looks up: absent version and absent pubtime are     *)
(* the same answer.                                                           *)
VersionPubtime(body, version) ==
  IF version \in body.lines THEN PubTime[version] ELSE None

(* A body shows nothing newer than the cutoff of a window w > 0 at time now.  *)
AgedUnder(body, now, w) ==
  body.utf8 => \A v \in body.lines : ~TooNew(v, CutoffFrom(now, w))
=============================================================================
