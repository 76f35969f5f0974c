----------------------------- MODULE MapPairSpec -----------------------------
(***************************************************************************)
(* What the operations on two sorted maps promise: split_off moves the     *)
(* entries from a key upward to the second map, append moves all entries   *)
(* of the second map to the first and overwrites what is there, clone      *)
(* copies.  Both maps are functions from keys to values or NONE.           *)
(***************************************************************************)
EXTENDS Integers

CONSTANTS Key, Value, NONE

VARIABLES first, second

vars == <<first, second>>

Empty == [k \in Key |-> NONE]

SplitOff(at) ==
    /\ second = Empty
    /\ first' = [k \in Key |-> IF k < at THEN first[k] ELSE NONE]
    /\ second' = [k \in Key |-> IF k < at THEN NONE ELSE first[k]]

AppendAll ==
    /\ second' = Empty
    /\ first' = [k \in Key |-> IF second[k] # NONE THEN second[k] ELSE first[k]]

Clone == second' = first /\ first' = first
Switch == first' = second /\ second' = first

\* from_iter: an empty map gets some keys, with one value.
Collect ==
    /\ first = Empty /\ second' = second
    /\ \E v \in Value : \A k \in Key : first'[k] \in {NONE, v}

\* pop_first, pop_last: the smallest or the largest key goes.
Pop ==
    LET keys == {k \in Key : first[k] # NONE} IN
    \E k \in keys :
       /\ (\A j \in keys : k <= j) \/ (\A j \in keys : j <= k)
       /\ first' = [first EXCEPT ![k] = NONE]
       /\ second' = second

Init == first = Empty /\ second = Empty

Next == Clone \/ Switch \/ Collect \/ Pop \/ AppendAll \/ \E at \in Key : SplitOff(at)

Spec == Init /\ [][Next]_vars
=============================================================================
