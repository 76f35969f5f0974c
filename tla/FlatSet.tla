------------------------------ MODULE FlatSet ------------------------------
(***************************************************************************)
(* UnorderedFlatSet (set.rs) and the table it keeps to itself              *)
(* (raw/mod.rs): groups with an overflow byte, shift indexing, 7/8 load,   *)
(* anti-drift, like the engine of OverflowTable but in code of its own.    *)
(*                                                                         *)
(* A table is a record, so that the set and a second one for the set       *)
(* algebra can each have one.                                              *)
(*                                                                         *)
(* The fault model: the client's Hash and Eq, and the predicate given to   *)
(* retain, may panic wherever they are called, and the client may catch    *)
(* the panic and use the set again.  Calls are atomic but for the loops    *)
(* that call back: a rehash moves one element a step, a retain visits one  *)
(* slot a step.  Whether an array is freed is not part of this model.      *)
(***************************************************************************)
EXTENDS GroupProbe, SetAlgebra

CONSTANTS NumChannels,  \* 8: the bits of a group's overflow byte
          ReserveArgs,  \* bound: the arguments of reserve
          OtherSets,    \* bound: the sequences a second set is made from
          OtherTaken,   \* bound: what is removed from it again
          EMPTY, NONE

ASSUME FlatSetAssumption ==
  /\ NumChannels \in Nat \ {0}
  /\ ReserveArgs \subseteq Nat
  /\ OtherSets \subseteq Seq(Key) /\ OtherTaken \subseteq Key
  /\ EMPTY \notin Key

VARIABLES tab,    \* the set's table
          other,  \* the table of another set
          iter,   \* the drain iterator's table: its slots and its len
          pc,     \* "ready", or the loop a call is in: "rehash", "retain", "drain",
                  \* or "spin" for a lookup that never ends
          old,    \* rehash: the old slots, EMPTY once read
          pend,   \* rehash: the element to insert afterwards, or EMPTY
          todo,   \* retain: the positions not visited yet
          ret     \* answer of the last call, NONE while one is running

vars == <<tab, other, iter, pc, old, pend, todo, ret>>

----------------------------------------------------------------------------
(* RawTable *)

Channel(k) == Hash[k] % NumChannels

Allocated(m) ==
  [groups |-> m, slot |-> [s \in Slots(m) |-> EMPTY],
   ofw |-> [g \in 0..m - 1 |-> {}], len |-> 0, max_load |-> MaxLoadFor(m)]

\* RawTable::new: one group that is the static sentinel, max_load 0.
New == [Allocated(1) EXCEPT !.max_load = 0]

NoIter == [slot |-> New.slot, len |-> 0]

is_allocated(t) == t.max_load > 0

Occupied(slots) == {s \in DOMAIN slots : slots[s] # EMPTY}

Elements(slots) == {slots[s] : s \in Occupied(slots)}

\* iter_slots: by group, then by slot; nothing when not allocated.
Items(t) ==
  IF ~is_allocated(t) THEN <<>>
  ELSE LET at == SetToSortSeq(Occupied(t.slot), LAMBDA s, u : s # u /\ Before(s, u))
       IN  [i \in DOMAIN at |-> t.slot[at[i]]]

InGroup(t, k, g) == \E j \in SlotIdx : t.slot[<<g, j>>] = k

\* find_by_hash gets as far as probe p.
Reaches(t, k, p) == \A q \in 0..p - 1 :
  LET g == Probe(k, t.groups, q) IN Channel(k) \in t.ofw[g] /\ ~InGroup(t, k, g)

Finds(t, k, s) ==
  t.slot[s] = k /\ \E p \in 0..t.groups - 1 :
    Probe(k, t.groups, p) = s[1] /\ Reaches(t, k, p)

Found(t, k) == \E s \in DOMAIN t.slot : Finds(t, k, s)

\* No group on the way has the bit clear: the loop has no other end.
NeverEnds(t, k) == Reaches(t, k, t.groups)

HasRoom(t, g) == InGroup(t, EMPTY, g)

\* insert_no_check: the first group with room; the full ones before it get
\* the overflow bit.
Put(t, k) ==
  LET p == Min({q \in 0..t.groups - 1 : HasRoom(t, Probe(k, t.groups, q))})
      g == Probe(k, t.groups, p)
      j == Min({i \in SlotIdx : t.slot[<<g, i>>] = EMPTY})
      full == {Probe(k, t.groups, q) : q \in 0..p - 1}
  IN  [t EXCEPT !.slot[<<g, j>>] = k, !.len = @ + 1,
                !.ofw = [h \in DOMAIN @ |-> IF h \in full THEN @[h] \cup {Channel(k)}
                                                        ELSE @[h]]]

\* remove_by_hash, and the removal inside retain: EMPTY at once, anti-drift.
Erase(t, k, s) ==
  [t EXCEPT !.slot[s] = EMPTY, !.len = @ - 1,
            !.max_load = IF Channel(k) \in t.ofw[GroupIndex(k, t.groups)] /\ @ > 0
                         THEN @ - 1 ELSE @]

\* Clone: metadata, elements, len and the lowered max_load.
CloneOf(t) == IF is_allocated(t) THEN t ELSE New

\* A rehash without interruption, and an insert with it.
Rehashed(t, m) == FoldLeft(Put, Allocated(m), Items(t))

InsertInto(t, k) ==
  IF ~is_allocated(t) THEN Put(Allocated(1), k)
  ELSE IF Found(t, k) THEN t
  ELSE IF t.len >= t.max_load THEN Put(Rehashed(t, 2 * t.groups), k)
  ELSE Put(t, k)

----------------------------------------------------------------------------
(* The set's own algebra: union starts from a clone, the others from new. *)

UnionOf(t, u) == FoldLeft(InsertInto, CloneOf(t), Items(u))

\* Mutant: the shorter set is searched for its own elements.
IntersectionOfShorter(t, u) ==
  IF t.len <= u.len
  THEN FoldLeft(InsertInto, New, SelectSeq(Items(t), LAMBDA v : Found(t, v)))
  ELSE FoldLeft(InsertInto, New, SelectSeq(Items(u), LAMBDA v : Found(t, v)))

IntersectionOf(t, u) ==
  IF t.len <= u.len
  THEN FoldLeft(InsertInto, New, SelectSeq(Items(t), LAMBDA v : Found(u, v)))
  ELSE FoldLeft(InsertInto, New, SelectSeq(Items(u), LAMBDA v : Found(t, v)))
DifferenceOf(t, u) ==
  FoldLeft(InsertInto, New, SelectSeq(Items(t), LAMBDA v : ~Found(u, v)))
SymmetricOf(t, u) ==
  FoldLeft(InsertInto, DifferenceOf(t, u), SelectSeq(Items(u), LAMBDA v : ~Found(t, v)))
IsSubset(t, u) == t.len <= u.len /\ \A v \in Range(Items(t)) : Found(u, v)
IsDisjoint(t, u) ==
  IF t.len <= u.len THEN \A v \in Range(Items(t)) : ~Found(u, v)
                    ELSE \A v \in Range(Items(u)) : ~Found(t, v)

\* PartialEq::eq.
SetEq(t, u) == t.len = u.len /\ \A v \in Range(Items(t)) : Found(u, v)

----------------------------------------------------------------------------
(* The set's calls *)

Quiet == UNCHANGED <<pc, old, pend, todo>>

\* A lookup that does not come back, in whatever call makes it.
Hang(k) ==
  /\ pc = "ready" /\ NeverEnds(tab, k)
  /\ pc' = "spin"
  /\ UNCHANGED <<tab, other, iter, old, pend, todo, ret>>

HasElement(k) ==
  /\ pc = "ready" /\ ~NeverEnds(tab, k)
  /\ ret' = IF Found(tab, k) THEN "yes" ELSE "no"
  /\ UNCHANGED <<tab, other, iter>> /\ Quiet

\* rehash_with: the new array is in place before the first element moves.
Rehash(m, k) ==
  /\ m \in GroupCounts
  /\ tab' = Allocated(m)
  /\ old' = IF is_allocated(tab) THEN tab.slot ELSE New.slot
  /\ pend' = k
  /\ pc' = "rehash"
  /\ ret' = NONE
  /\ UNCHANGED <<other, iter, todo>>

\* insert.  A full table grows, also when anti-drift has lowered its limit; at
\* limit 0 a first array is allocated before any lookup.
Insert(k) ==
  /\ pc = "ready" /\ (is_allocated(tab) => ~NeverEnds(tab, k))
  /\ \/ /\ is_allocated(tab) /\ ~Found(tab, k) /\ tab.len >= tab.max_load
        /\ Rehash(2 * tab.groups, k)
     \/ /\ ~(is_allocated(tab) /\ ~Found(tab, k) /\ tab.len >= tab.max_load)
        /\ ret' = IF Found(tab, k) THEN "present" ELSE "inserted"
        /\ tab' = InsertInto(tab, k)
        /\ UNCHANGED <<other, iter>> /\ Quiet

RehashStep ==
  /\ pc = "rehash"
  /\ \E s \in Occupied(old) :
       /\ \A u \in Occupied(old) : Before(s, u)
       /\ tab' = Put(tab, old[s])
       /\ old' = [old EXCEPT ![s] = EMPTY]
  /\ UNCHANGED <<other, iter, pc, pend, todo, ret>>

\* Mutant: the element that made the table grow is forgotten.
RehashDoneForgets ==
  /\ pc = "rehash"
  /\ Occupied(old) = {}
  /\ pc' = "ready"
  /\ pend' = EMPTY
  /\ ret' = IF pend = EMPTY THEN ret ELSE "inserted"
  /\ UNCHANGED <<tab, other, iter, old, todo>>

RehashDone ==
  /\ pc = "rehash"
  /\ Occupied(old) = {}
  /\ pc' = "ready"
  /\ pend' = EMPTY
  /\ \/ pend = EMPTY /\ UNCHANGED <<tab, ret>>
     \/ pend # EMPTY /\ tab' = Put(tab, pend) /\ ret' = "inserted"
  /\ UNCHANGED <<other, iter, old, todo>>

\* remove and take.
Take(k) ==
  /\ pc = "ready" /\ ~NeverEnds(tab, k)
  /\ \/ \E s \in DOMAIN tab.slot : Finds(tab, k, s) /\ tab' = Erase(tab, k, s) /\ ret' = "taken"
     \/ ~Found(tab, k) /\ ret' = "absent" /\ UNCHANGED tab
  /\ UNCHANGED <<other, iter>> /\ Quiet

Reserve(n) ==
  /\ pc = "ready" /\ n > 0
  /\ \E m \in GroupCounts :
       /\ GroupsFor(tab.len + n, m)
       /\ \/ /\ ~is_allocated(tab)
             /\ tab' = Allocated(m) /\ ret' = NONE
             /\ UNCHANGED <<other, iter>> /\ Quiet
          \/ /\ is_allocated(tab) /\ tab.len + n > tab.max_load /\ m > tab.groups
             /\ Rehash(m, EMPTY)

ShrinkToFit ==
  /\ pc = "ready"
  /\ \/ tab.len = 0 /\ tab' = New /\ ret' = NONE /\ UNCHANGED <<other, iter>> /\ Quiet
     \/ /\ tab.len > 0
        /\ \E m \in GroupCounts : GroupsFor(tab.len, m) /\ m < tab.groups /\ Rehash(m, EMPTY)

Clear ==
  /\ pc = "ready" /\ is_allocated(tab)
  /\ tab' = Allocated(tab.groups)
  /\ ret' = "cleared"
  /\ UNCHANGED <<other, iter>> /\ Quiet

Retain ==
  /\ pc = "ready" /\ is_allocated(tab)
  /\ pc' = "retain"
  /\ todo' = Occupied(tab.slot)
  /\ ret' = NONE
  /\ UNCHANGED <<tab, other, iter, old, pend>>

RetainStep ==
  /\ pc = "retain"
  /\ \E s \in todo :
       /\ \A u \in todo : Before(s, u)
       /\ todo' = todo \ {s}
       /\ tab' \in {tab, Erase(tab, tab.slot[s], s)}
  /\ UNCHANGED <<other, iter, pc, old, pend, ret>>

RetainDone ==
  /\ pc = "retain" /\ todo = {}
  /\ pc' = "ready"
  /\ UNCHANGED <<tab, other, iter, old, pend, todo, ret>>

\* The set is replaced by its clone.
Clone ==
  /\ pc = "ready"
  /\ tab' = CloneOf(tab)
  /\ ret' = NONE
  /\ UNCHANGED <<other, iter>> /\ Quiet

\* with_capacity: nothing is allocated for capacity 0.
WithCapacity(n) ==
  IF n = 0 THEN {New} ELSE {Allocated(m) : m \in {m \in GroupCounts : GroupsFor(n, m)}}

\* A second set, collected from a sequence.  The iterator's size hint, for which
\* the set is made large enough, is a lower bound of its length.
FromIter(items) ==
  /\ pc = "ready"
  /\ \E hint \in 0..Len(items) : \E t \in WithCapacity(hint) :
       other' = FoldLeft(InsertInto, t, items)
  /\ ret' = NONE
  /\ UNCHANGED <<tab, iter>> /\ Quiet

\* remove or take of the second set.
TakeOther(k) ==
  /\ pc = "ready" /\ ~NeverEnds(other, k)
  /\ \E s \in DOMAIN other.slot : Finds(other, k, s) /\ other' = Erase(other, k, s)
  /\ ret' = NONE
  /\ UNCHANGED <<tab, iter>> /\ Quiet

----------------------------------------------------------------------------
(* drain and into_iter.  The iterator owns the table it took; it shares    *)
(* nothing with the set, so the model lets it finish first.                *)

Drain ==
  /\ pc = "ready"
  /\ pc' = "drain"
  /\ iter' = [slot |-> tab.slot, len |-> tab.len]
  /\ tab' = New
  /\ ret' = NONE
  /\ UNCHANGED <<other, old, pend, todo>>

\* next: the first element is read out and its slot marked free.
IterNext ==
  /\ pc = "drain"
  /\ \E s \in Occupied(iter.slot) :
       /\ \A u \in Occupied(iter.slot) : Before(s, u)
       /\ iter' = [slot |-> [iter.slot EXCEPT ![s] = EMPTY], len |-> iter.len - 1]
  /\ UNCHANGED <<tab, other, ret>> /\ Quiet

\* The iterator is dropped, with what the client did not take.
IterDrop ==
  /\ pc = "drain"
  /\ iter' = NoIter
  /\ pc' = "ready"
  /\ UNCHANGED <<tab, other, old, pend, todo, ret>>

----------------------------------------------------------------------------
(* Panics of the client's code *)

\* Hash of the value given to insert: only the first array may have appeared.
PanicInInsert ==
  /\ pc = "ready" /\ ~is_allocated(tab)
  /\ tab' = Allocated(1)
  /\ ret' = "panic"
  /\ UNCHANGED <<other, iter>> /\ Quiet

\* Mutant: len is taken from the old table at the start.
PanicKeepsLen ==
  /\ pc = "rehash" /\ Occupied(old) # {}
  /\ tab' = [tab EXCEPT !.len = @ + Cardinality(Occupied(old))]
  /\ old' = New.slot /\ pend' = EMPTY /\ pc' = "ready" /\ ret' = "panic"
  /\ UNCHANGED <<other, iter, todo>>

\* Hash in a rehash: the element being moved is dropped by the unwinding, the
\* ones behind it and the old array are forgotten, the new table stays.
PanicInRehash ==
  /\ pc = "rehash" /\ Occupied(old) # {}
  /\ old' = New.slot /\ pend' = EMPTY /\ pc' = "ready" /\ ret' = "panic"
  /\ UNCHANGED <<tab, other, iter, todo>>

\* The predicate, or Hash of the rejected element, before it is dropped.
PanicInRetain ==
  /\ pc = "retain" /\ todo # {}
  /\ todo' = {} /\ pc' = "ready" /\ ret' = "panic"
  /\ UNCHANGED <<tab, other, iter, old, pend>>

----------------------------------------------------------------------------
Init ==
  /\ tab = New /\ other = New /\ iter = NoIter
  /\ pc = "ready" /\ old = New.slot /\ pend = EMPTY /\ todo = {} /\ ret = NONE

Next ==
  \/ \E k \in Key : HasElement(k) \/ Insert(k) \/ Take(k) \/ Hang(k)
  \/ \E k \in OtherTaken : TakeOther(k)
  \/ \E n \in ReserveArgs : Reserve(n)
  \/ \E items \in OtherSets : FromIter(items)
  \/ ShrinkToFit \/ Clear \/ Clone \/ Retain \/ Drain \/ IterNext \/ IterDrop
  \/ RehashStep \/ RehashDone \/ RetainStep \/ RetainDone
  \/ PanicInInsert \/ PanicInRehash \/ PanicInRetain

Spec == Init /\ [][Next]_vars

----------------------------------------------------------------------------
Sound(t) ==
  /\ t.len = Cardinality(Occupied(t.slot))
  /\ t.len <= MaxLoadFor(t.groups)
  /\ \A s \in Occupied(t.slot) : Finds(t, t.slot[s], s)
  /\ \A s, u \in Occupied(t.slot) : t.slot[s] = t.slot[u] => s = u

(***************************************************************************)
(* Whenever the client can call the set, after panics too, every element   *)
(* in it is found at its slot, none is there twice, and len counts them.   *)
(* A drain iterator's len, which ExactSizeIterator promises to be exact,   *)
(* is the number of elements it still holds.                               *)
(***************************************************************************)
SoundAfterPanic ==
  /\ pc = "ready" => Sound(tab)
  /\ iter.len = Cardinality(Occupied(iter.slot))

(***************************************************************************)
(* UnorderedFlatSet's own algebra on two sets, each with the overflow bits *)
(* and the lowered limit its insertions and removals left in it: whenever  *)
(* its lookups end, the results have exactly the right elements and are    *)
(* sound tables, and the comparisons are those of sets.                    *)
(* Looking where ret is NONE misses no table: a Clone leads there.         *)
(***************************************************************************)
HasExactly(t, S) == Sound(t) /\ Lists(Items(t), S)

FlatAlgebraRight ==
  pc = "ready" /\ ret = NONE =>
    LET A == Range(Items(tab))
        B == Range(Items(other))
    IN  /\ HasExactly(UnionOf(tab, other), A \cup B)
        /\ HasExactly(IntersectionOf(tab, other), A \cap B)
        /\ HasExactly(SymmetricOf(tab, other), (A \ B) \cup (B \ A))
        /\ IsSubset(tab, other) <=> (A \subseteq B)
        /\ IsDisjoint(tab, other) <=> (A \cap B = {})
        /\ SetEq(tab, other) <=> (A = B)

(***************************************************************************)
(* The algebra GenericSet and OptiSet build from iteration, len and        *)
(* contains is the algebra of sets, whatever the iteration order.          *)
(***************************************************************************)
GenericAlgebraRight ==
  pc = "ready" /\ ret = NONE => AlgebraRight(Items(tab), Items(other))

(***************************************************************************)
(* The set is a set: insert, take and contains answer like one, elements   *)
(* leave it only by being taken, rejected, cleared or drained, or in a     *)
(* panic, and every drained element comes out of the iterator once.        *)
(***************************************************************************)
Abstract == INSTANCE SetSpec WITH
  Elem <- Key,
  members <- Elements(tab.slot) \cup Elements(old),
  drained <- Elements(iter.slot)

ImplementsSet == Abstract!Spec

----------------------------------------------------------------------------
(* The inductive invariant *)

Once(slots) == \A s, u \in Occupied(slots) : slots[s] = slots[u] => s = u

\* The way to every element is marked, and does not lead through its group
\* before its end.
PathMarked(t) == \A s \in Occupied(t.slot) : \E p \in 0..t.groups - 1 :
  /\ Probe(t.slot[s], t.groups, p) = s[1]
  /\ \A q \in 0..p - 1 :
       /\ Channel(t.slot[s]) \in t.ofw[Probe(t.slot[s], t.groups, q)]
       /\ Probe(t.slot[s], t.groups, q) # s[1]

TableInv(t) ==
  /\ t = [groups |-> t.groups, slot |-> t.slot, ofw |-> t.ofw,
          len |-> t.len, max_load |-> t.max_load]
  /\ t.groups \in GroupCounts
  /\ t.slot \in [Slots(t.groups) -> Key \cup {EMPTY}]
  /\ t.ofw \in [0..t.groups - 1 -> SUBSET Nat]
  /\ t.max_load \in Nat /\ t.max_load <= MaxLoadFor(t.groups)
  /\ t.len = Cardinality(Occupied(t.slot))
  /\ Once(t.slot)
  /\ PathMarked(t)

\* An array of elements, none of them twice.
Array(slots) ==
  /\ \E m \in GroupCounts : slots \in [Slots(m) -> Key \cup {EMPTY}]
  /\ Once(slots)

Waiting == IF pend = EMPTY THEN 0 ELSE 1

IndInv ==
  /\ pc \in {"ready", "rehash", "retain", "drain", "spin"}
  /\ TableInv(tab) /\ Array(old) /\ Array(iter.slot)
  /\ tab.len + Cardinality(Occupied(old)) + Waiting <= tab.max_load
  /\ Elements(tab.slot) \cap Elements(old) = {}
  /\ pend \in Key \cup {EMPTY} /\ pend \notin Elements(tab.slot) \cup Elements(old)
  /\ pc # "rehash" => Occupied(old) = {} /\ pend = EMPTY
  /\ todo \subseteq Occupied(tab.slot)
  /\ pc # "retain" => todo = {}
  /\ pc = "retain" => ret = NONE
  /\ iter.len = Cardinality(Occupied(iter.slot))
=============================================================================
