------------------------------ MODULE SetSpec ------------------------------
(***************************************************************************)
(* What a set promises its client: a mathematical set that changes by one  *)
(* call at a time, an iterator that owns what was drained into it, and     *)
(* what a panic in the client's own code may do to it, namely lose         *)
(* elements.                                                               *)
(***************************************************************************)
CONSTANTS Elem, NONE

VARIABLES members,   \* the set
          drained,   \* what the drain iterator still holds
          ret        \* the last answer, NONE while a call is running

vars == <<members, drained, ret>>

Init == members = {} /\ drained = {} /\ ret = NONE

Insert(k) ==
  /\ ret' = IF k \in members THEN "present" ELSE "inserted"
  /\ members' = members \cup {k}
  /\ UNCHANGED drained

Take(k) ==
  /\ ret' = IF k \in members THEN "taken" ELSE "absent"
  /\ members' = members \ {k}
  /\ UNCHANGED drained

Contains(k) ==
  /\ ret' = IF k \in members THEN "yes" ELSE "no"
  /\ UNCHANGED <<members, drained>>

\* A call begins, or has no answer: nothing the client sees changes.
NoAnswer == ret' = NONE /\ UNCHANGED <<members, drained>>

\* retain, on its way, rejects an element.
Reject(k) ==
  /\ ret = NONE
  /\ k \in members
  /\ members' = members \ {k}
  /\ UNCHANGED <<drained, ret>>

Clear == ret' = "cleared" /\ members' = {} /\ UNCHANGED drained

Drain == ret' = NONE /\ members' = {} /\ drained' = members

NextDrained(k) ==
  /\ k \in drained
  /\ drained' = drained \ {k}
  /\ UNCHANGED <<members, ret>>

DropIter == drained' = {} /\ UNCHANGED <<members, ret>>

Panic == ret' = "panic" /\ members' \in SUBSET members /\ UNCHANGED drained

Next ==
  \/ NoAnswer \/ Clear \/ Drain \/ Panic \/ DropIter
  \/ \E k \in Elem : \/ Insert(k) \/ Take(k) \/ Contains(k)
                     \/ Reject(k) \/ NextDrained(k)

Spec == Init /\ [][Next]_vars
=============================================================================
