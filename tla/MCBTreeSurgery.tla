--------------------------- MODULE MCBTreeSurgery ---------------------------
(***************************************************************************)
(* Two entries to a leaf and three children to an internal node: bulk-     *)
(* loaded trees of up to four levels, cut at every key.                    *)
(***************************************************************************)
EXTENDS BTreeSurgery

\* One run of 19 keys has four levels; 8 keys leave an internal node with a
\* single child; the second run overlaps the others, with another value.
Runs == {<<1 .. 8, 0>>, <<6 .. 14, 1>>, <<9 .. 12, 0>>, <<1 .. 19, 0>>}
=============================================================================
