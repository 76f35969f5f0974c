--------------------------- MODULE SortedMapSpec ----------------------------
(***************************************************************************)
(* What a map promises that may be a sorted one: MapSpec, the calls that   *)
(* need an order, and when these may panic, namely only in a map that was  *)
(* not made to be sorted, or in append for another map that was not.       *)
(***************************************************************************)
EXTENDS MapSpec, Integers

VARIABLE sorted   \* the map was made to be sorted

sortedVars == <<vars, sorted>>

Keys == {k \in Key : dict[k] # NONE}

\* k is the smallest key of the map, or the largest.
AtEnd(k, low) == k \in Keys /\ \A j \in Keys : IF low THEN k <= j ELSE j <= k

First(low) ==
    /\ UNCHANGED <<dict, sorted>>
    /\ \/ Keys = {} /\ ret' = NONE
       \/ \E k \in Keys : AtEnd(k, low) /\ ret' = dict[k]

Pop(low) ==
    /\ UNCHANGED sorted
    /\ \/ Keys = {} /\ ret' = NONE /\ UNCHANGED dict
       \/ \E k \in Keys : AtEnd(k, low) /\ Remove(k)

\* The client goes on with the half below `at`, or with the other one, which
\* is a new, sorted map.
SplitOff(at) ==
    /\ ret' = NONE
    /\ \/ dict' = [k \in Key |-> IF k < at THEN dict[k] ELSE NONE] /\ UNCHANGED sorted
       \/ dict' = [k \in Key |-> IF k < at THEN NONE ELSE dict[k]] /\ sorted' = TRUE

\* All entries of a map d come in and win.
AppendAll(d) ==
    /\ ret' = NONE
    /\ dict' = [k \in Key |-> IF d[k] # NONE THEN d[k] ELSE dict[k]]
    /\ UNCHANGED sorted

\* A new, sorted map takes the place of an empty one.
FromSorted(d) == Keys = {} /\ ret' = NONE /\ dict' = d /\ sorted' = TRUE

Equals(d) ==
    /\ ret' = IF dict = d THEN "equal" ELSE "different"
    /\ UNCHANGED <<dict, sorted>>

Refuse == ~sorted /\ ret' = "panic" /\ UNCHANGED <<dict, sorted>>

\* append panics on account of the other map, which was not made to be sorted.
RefuseOther == ret' = "other_panic" /\ UNCHANGED <<dict, sorted>>

SortedCall ==
    \/ \E low \in BOOLEAN : First(low) \/ Pop(low)
    \/ \E at \in Key : SplitOff(at)
    \/ \E d \in [Key -> Value \cup {NONE}] : AppendAll(d) \/ FromSorted(d) \/ Equals(d)
    \/ Refuse \/ RefuseOther

SortedNext ==
    \/ Next /\ UNCHANGED sorted
    \/ ~retaining /\ SortedCall /\ UNCHANGED retaining

SortedSpec == Init /\ sorted \in BOOLEAN /\ [][SortedNext]_sortedVars
=============================================================================
