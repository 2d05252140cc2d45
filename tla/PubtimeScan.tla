---------------------------- MODULE PubtimeScan -----------------------------
(* The text of a sparse-index entry as src/src/cooldown.rs reads it.  A body  *)
(* is a sequence of lines, a line a sequence of tokens: a JSON string, stood  *)
(* for by what it says, a punctuation mark, or a blank.  No JSON parser: the  *)
(* filter looks for a key, the download gate for a key and its value.         *)
EXTENDS Integers, Sequences, FiniteSetsExt

CONSTANTS
  None,      \* the absent value
  Blank,     \* white space between tokens
  TimeOf     \* parse_rfc3339z: the time a token says, None if it says none

TokenAt(line, i) == IF i \in DOMAIN line THEN line[i] ELSE None

(* The first position from i on that is not blank.                            *)
TrimStart(line, i) ==
  Min({j \in i..(Len(line) + 1) : TokenAt(line, j) # Blank})

(* Mutant: a string value that reads pubtime is taken for the key.            *)
IsPubtimeKeyOrValue(line, i) == line[i] = "pubtime"

(* "pubtime" as a key: a colon follows.                                       *)
IsPubtimeKey(line, i) ==
  line[i] = "pubtime" /\ TokenAt(line, TrimStart(line, i + 1)) = ":"

(* The time of the first such key, whatever it is nested in; the search ends  *)
(* there, though the value be no time.                                        *)
LinePubtimeSecs(line) ==
  LET keys  == {i \in DOMAIN line : IsPubtimeKey(line, i)}
      colon == TrimStart(line, Min(keys) + 1)
      value == TokenAt(line, TrimStart(line, colon + 1))
  IN  IF keys # {} /\ value \in DOMAIN TimeOf THEN TimeOf[value] ELSE None

(* Lines without a time, blank ones too, are kept.                            *)
KeepsLine(line, cutoff) == LinePubtimeSecs(line) = None \/ LinePubtimeSecs(line) <= cutoff

FilterLines(body, cutoff) ==
  LET out[i \in 0..Len(body)] ==
        IF i = 0 THEN <<>>
        ELSE IF KeepsLine(body[i], cutoff) THEN Append(out[i - 1], body[i]) ELSE out[i - 1]
  IN  out[Len(body)]

(* Mutant: any string of the line may be the version.                         *)
NamesVersionAnywhere(line, version) == \E i \in DOMAIN line : line[i] = version

(* "vers":"<version>" without blanks.                                         *)
NamesVersion(line, version) ==
  \E i \in DOMAIN line : /\ line[i] = "vers"
                         /\ TokenAt(line, i + 1) = ":"
                         /\ TokenAt(line, i + 2) = version

(* The pubtime of the first line that names the version.                      *)
VersionPubtime(body, version) ==
  LET lines == {i \in DOMAIN body : NamesVersion(body[i], version)}
  IN  IF lines = {} THEN None ELSE LinePubtimeSecs(body[Min(lines)])
=============================================================================
