----------------------------- MODULE MCDownload -----------------------------
(* Small instances of Download for TLC.                                       *)
EXTENDS Download, TLC

CONSTANTS c1, d1, d2

MCVersions == {"nopub", "old", "new"}

MCPubTime == [v \in MCVersions |->
                CASE v = "nopub" -> None [] v = "old" -> 0 [] OTHER -> 1]

MCRevLines == [f \in Files |-> <<{"nopub", "old"}, {"nopub", "old", "new"}>>]

MCRevDate == <<0, 1>>

MCOneName == [n \in {"serde"} |-> "serde"]

(* A version that is too new at first, and one that never is.                 *)
MCNewCrate == {"serde"} \X {"new"}
MCOldCrate == {"serde"} \X {"old"}

(* A crate whose name is not all lower case.                                  *)
MCMixedCase == [n \in {"Inflector"} |-> "inflector"]
MCMixedCaseCrate == {"Inflector"} \X {"old"}

DownloaderSymmetry == Permutations(Downloaders)
=============================================================================
