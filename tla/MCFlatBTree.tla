----------------------------- MODULE MCFlatBTree ----------------------------
(***************************************************************************)
(* Small instances of FlatBTree: two entries to a leaf and three children  *)
(* to an internal node, so that five keys already make three levels.       *)
(***************************************************************************)
EXTENDS FlatBTree

\* Neighbouring keys have different values, so that a value which strays to
\* another key shows.
OwnValue == {<<k, k % 2>> : k \in Key}

\* Key 3 has two, so that replacing a value shows.
TwoValues == OwnValue \cup {<<3, 0>>}
=============================================================================
