----------------------------- MODULE MCTombTable ----------------------------
(***************************************************************************)
(* A small instance of TombTable, IPO or IPO64: four keys, the group given *)
(* by the low bits of the hash.                                            *)
(***************************************************************************)
EXTENDS TombTable, TLC

CONSTANTS k1, k2, k3, k4

\* Three keys of group 0 of two (groups 0, 0, 2 of four), one of group 1.
HashLow4 == k1 :> 0 @@ k2 :> 0 @@ k3 :> 2 @@ k4 :> 1

\* k1 has two values, so that replacing one shows.
TwoForOne == (Key \X {1}) \cup {<<k1, 2>>}
=============================================================================
