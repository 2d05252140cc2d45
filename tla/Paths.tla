-------------------------------- MODULE Paths --------------------------------
(* Where crates and index entries are asked for and kept: request paths       *)
(* (src/src/cache/index_entry.rs, cache/crate_info.rs), their validation      *)
(* (valid.rs), cache files, and what the metrics scan reads from the names of *)
(* these (routes/metrics.rs).  A path is a sequence of segments, a segment a  *)
(* sequence of characters.                                                    *)
EXTENDS Integers, Sequences, SequencesExt

CONSTANTS
  None,       \* the absent value
  NameChars,  \* the characters of crate names; versions also have . and +
  LowerOf,    \* to_ascii_lowercase of a character
  MaxLen      \* the longest name or version

VersionChars == NameChars \cup {".", "+"}

IsCrateName(name) ==
  Len(name) \in 1..MaxLen /\ \A i \in DOMAIN name : name[i] \in NameChars

IsCrateVersion(version) ==
  Len(version) \in 1..MaxLen /\ \A i \in DOMAIN version : version[i] \in VersionChars

Lower(name) == [i \in DOMAIN name |-> LowerOf[name[i]]]

-----------------------------------------------------------------------------
(* Index entries.                                                             *)

(* Mutant: three letters are filed like one or two.                           *)
ToIndexUrlFlat(name) ==
  LET n == Lower(name)
  IN  CASE Len(n) = 1 -> <<<<"1">>, n>>
        [] Len(n) = 2 -> <<<<"2">>, n>>
        [] Len(n) = 3 -> <<<<"3">>, n>>
        [] OTHER      -> <<SubSeq(n, 1, 2), SubSeq(n, 3, 4), n>>

(* The path of the entry upstream and in the cache.                           *)
ToIndexUrl(name) ==
  LET n == Lower(name)
  IN  CASE Len(n) = 1 -> <<<<"1">>, n>>
        [] Len(n) = 2 -> <<<<"2">>, n>>
        [] Len(n) = 3 -> <<<<"3">>, <<n[1]>>, n>>
        [] OTHER      -> <<SubSeq(n, 1, 2), SubSeq(n, 3, 4), n>>

(* The name a request path asks for; the directories are not compared.        *)
TryFromIndexUrl(url) ==
  LET name == url[Len(url)]
  IN  IF /\ url # <<>>
         /\ Len(url) = IF url[1] \in {<<"1">>, <<"2">>} THEN 2 ELSE 3
         /\ IsCrateName(name)
      THEN name ELSE None

-----------------------------------------------------------------------------
(* Crates, [name, version].                                                   *)

ToDownloadUrl(crate) == <<crate.name, crate.version, <<"download">>>>

TryFromDownloadUrl(url) ==
  IF /\ Len(url) = 3 /\ url[3] = <<"download">>
     /\ IsCrateName(url[1]) /\ IsCrateVersion(url[2])
  THEN [name |-> url[1], version |-> url[2]] ELSE None

(* <name>/<name>-<version>.crate                                              *)
ToFilePath(crate) ==
  <<crate.name, crate.name \o <<"-">> \o crate.version \o <<".crate">>>>

(* Mutant: the version is what follows the last dash.                         *)
ScannedAtLastDash(path) ==
  LET file == Front(path[2])
      dash == Max({i \in DOMAIN file : file[i] = "-"})
  IN  [name |-> SubSeq(file, 1, dash - 1),
       version |-> SubSeq(file, dash + 1, Len(file))]

(* The crate the metrics scan reads from a file, None for one it skips.       *)
Scanned(path) ==
  LET file    == path[2]
      prefix  == path[1] \o <<"-">>
      version == SubSeq(file, Len(prefix) + 1, Len(file) - 1)
  IN  IF /\ IsCrateName(path[1])
         /\ IsPrefix(prefix, file) /\ Last(file) = ".crate"
         /\ IsCrateVersion(version)
      THEN [name |-> path[1], version |-> version] ELSE None
=============================================================================
