--------------------------- MODULE MCPerfectMaps ---------------------------
(***************************************************************************)
(* Six keys, two of them with the same hash, over five hashes; the mixers  *)
(* are small polynomials, so that across the inputs every case happens:    *)
(* retries, exhaustion, overflowing buckets, equal tags.                   *)
(***************************************************************************)
EXTENDS PerfectMaps

MCKeys == 1..6
MCHashes == 0..4
MCHash == [k \in MCKeys |-> (k - 1) % 5]
MCTag == [h \in MCHashes |-> 1 + (h % 2)]
MCMix == [p \in MCHashes \X (0..MaxSeeds) |-> (4 * p[1] * p[1] * (p[2] + 1) + 4 * p[1] + 2 * p[2]) \div 3]
MCSlotMix ==
  [p \in MCHashes \X (0..MaxSeeds) \X (0..MaxDisp) |->
     p[1] * p[1] * (p[2] + 1) + p[3] * (p[1] + 1) + p[2]]
\* Every set of keys in ascending order, and a few orders besides.
MCInputs == {SetToSortSeq(S, <) : S \in SUBSET MCKeys} \cup {<<5, 3, 1>>, <<2, 2>>, <<4, 2, 5, 3>>}
=============================================================================
