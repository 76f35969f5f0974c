------------------------------- MODULE MapSpec -------------------------------
(***************************************************************************)
(* What a map of this crate promises: a finite partial function from keys  *)
(* to values, and the answer of the last call.  Growing, shrinking and     *)
(* rehashing are invisible: they are stuttering steps.                     *)
(***************************************************************************)
CONSTANTS Key, Value, NONE

VARIABLES
    dict,       \* dict[k]: the value stored for k, or NONE
    ret,        \* the answer of the last call: a value, or NONE
    retaining   \* a retain is under way

vars == <<dict, ret, retaining>>

Init == dict = [k \in Key |-> NONE] /\ ret = NONE /\ retaining = FALSE

Get(k) == ret' = dict[k] /\ UNCHANGED dict

\* insert: Some(old value) when the key was present.
Insert(k, v) == ret' = dict[k] /\ dict' = [dict EXCEPT ![k] = v]

\* try_insert: an occupied entry stays as it is and the value is handed back.
TryInsert(k, v) ==
    \/ dict[k] = NONE /\ ret' = NONE /\ dict' = [dict EXCEPT ![k] = v]
    \/ dict[k] # NONE /\ ret' = v /\ dict' = dict

Remove(k) == ret' = dict[k] /\ dict' = [dict EXCEPT ![k] = NONE]

Retain == retaining' = ~retaining /\ UNCHANGED <<dict, ret>>

\* One rejected entry of a retain.
Discard(k) == retaining /\ dict' = [dict EXCEPT ![k] = NONE] /\ UNCHANGED <<ret, retaining>>

\* clear and a dropped drain: the map is empty afterwards.
Clear == dict' = [k \in Key |-> NONE] /\ UNCHANGED ret

\* No other call runs during a retain, and nothing else drops single entries.
Call ==
    \/ \E k \in Key : Get(k) \/ Remove(k)
    \/ \E k \in Key, v \in Value : Insert(k, v) \/ TryInsert(k, v)
    \/ Clear

Next ==
    \/ ~retaining /\ Call /\ UNCHANGED retaining
    \/ Retain
    \/ \E k \in Key : Discard(k)

Spec == Init /\ [][Next]_vars
=============================================================================
