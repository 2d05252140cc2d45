---------------------------- MODULE MCIndexProxy ----------------------------
(* Small instances of IndexProxy for TLC.  Clients and the absent value are   *)
(* model values set in the configurations.                                    *)
EXTENDS IndexProxy, TLC

CONSTANTS c1, c2

(* Three version lines: one without a pubtime, one old, one that is new when  *)
(* the second revision appears.                                               *)
MCVersions == {"nopub", "old", "new"}

MCPubTime == [v \in MCVersions |->
                CASE v = "nopub" -> None [] v = "old" -> 0 [] OTHER -> 1]

MCRevLines == [f \in Files |-> <<{"nopub", "old"}, {"nopub", "old", "new"}>>]

MCRevDate == <<0, 1>>

(* One crate under one spelling, and under two.                               *)
MCOneName == [n \in {"serde"} |-> "serde"]
MCSpellings == [n \in {"serde", "Serde"} |-> "serde"]

ClientSymmetry == Permutations(Clients)
=============================================================================
