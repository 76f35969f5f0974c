------------------------------ MODULE MCOptiMap -----------------------------
(***************************************************************************)
(* Small instances of OptiMap: an overflow-bit table with groups of 2, a   *)
(* tombstone table with groups of 4, and trees with 2 entries per leaf.    *)
(***************************************************************************)
EXTENDS OptiMap, TLC

CONSTANTS a, b

Sizes == "Splitsies" :> 2 @@ "Tomb" :> 4

\* The example of the Policy documentation, scaled down, with a third band;
\* tables above a tree; no band at capacity 0; no band at all; two hints.
ThreeBands == Band(Band(Band(NoBands, 4, "Tomb"), 0, "Splitsies"), 8, Tree)
TreeFirst == Band(Band(NoBands, 0, Tree), 4, "Splitsies")
HighBand == Band(NoBands, 4, "Tomb")
SomePolicies == {ThreeBands, TreeFirst, HighBand, NoBands, ForHint("Sorted"), ForHint("Auto")}

Other(S, t, s) ==
    [dict |-> [k \in Key |-> IF k \in S THEN b ELSE NONE], kind |-> t, sorted |-> s]

\* Sorted maps without an entry, with one in the middle and with two around it;
\* one that a policy has put into a tree for now, and one in a hash table.
SomeMaps == {Other({}, Tree, TRUE), Other({2}, Tree, TRUE), Other({1, 3}, Tree, TRUE),
             Other({2}, Tree, FALSE), Other({2}, "Tomb", FALSE)}
=============================================================================
