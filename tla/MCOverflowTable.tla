-------------------------- MODULE MCOverflowTable ---------------------------
(***************************************************************************)
(* Small instances of OverflowTable.  Hashes are three bits wide and       *)
(* indexed by their high bits, as in Splitsies and UFM: bit 2 picks the    *)
(* group of two, bits 2-1 the group of four, bit 0 the channel.            *)
(***************************************************************************)
EXTENDS OverflowTable, TLC

CONSTANTS k1, k2, k3, k4, k5

\* Two pairs of twins and a key between them: k1, k2 are group 0 channel 1,
\* k3 group 0 channel 0, k4, k5 group 1 channel 0.
Hash5 == k1 :> 1 @@ k2 :> 1 @@ k3 :> 0 @@ k4 :> 4 @@ k5 :> 4

\* For AND indexing: low bits pick the group.  Three keys of group 0 of two,
\* split over groups 0 and 2 of four, and two of group 1: enough to displace
\* keys past either group.
HashLow == k1 :> 0 @@ k2 :> 0 @@ k3 :> 2 @@ k4 :> 5 @@ k5 :> 1
=============================================================================
