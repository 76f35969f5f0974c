----------------------------- MODULE TombTable ------------------------------
(***************************************************************************)
(* The tombstone hash table (InPlaceOverflow, IPO64) behind the GenericMap *)
(* API.  A lookup stops at the first group that has an EMPTY slot, so a    *)
(* removal leaves a TOMBSTONE, and the number of EMPTY slots is rationed:  *)
(* growth_left counts the ones that may still be used.  At zero the table  *)
(* doubles, or is rebuilt at the same size when tombstones are to blame.   *)
(*                                                                         *)
(* Calls are atomic, except the rehash and retain loops, as in             *)
(* OverflowTable.                                                          *)
(***************************************************************************)
EXTENDS GroupProbe

CONSTANTS
    Value,        \* the values clients store
    Pairs,        \* bound: the keys and values given to inserts
    ReserveArgs,  \* bound: the arguments of reserve
    EMPTY,        \* a slot never used since the array was allocated
    TOMB,         \* a slot whose entry was removed
    NONE          \* Option::None

ASSUME ReserveAssumption == ReserveArgs \subseteq Nat
ASSUME PairsAssumption == Pairs \subseteq Key \X Value

Entry == [key : Key, val : Value]

ASSUME SentinelAssumption ==
    /\ EMPTY \notin Entry
    /\ TOMB \notin Entry
    /\ EMPTY # TOMB
    /\ NONE \notin Value

VARIABLES
    batched,      \* TRUE: a rehash counts entries at its end (IPO), FALSE: IPO64
    groups,       \* mask + 1
    slot,         \* slot[s]: EMPTY, TOMB or the entry in slot s
    len,
    growth_left,
    allocated,    \* is_allocated()
    pc,           \* "ready", or what a call is doing: "rehash", "insert", "retain"
    old,          \* rehash: the old slots, EMPTY once moved
    old_len,      \* rehash: len before it
    pend,         \* rehash: the entry to insert afterwards, or EMPTY
    todo,         \* retain: the positions not visited yet
    ret           \* answer of the last call

table == <<groups, slot, len, growth_left, allocated>>
loop == <<old, old_len, pend, todo>>
vars == <<batched, table, pc, loop, ret>>

EmptySlots(m) == [s \in Slots(m) |-> EMPTY]
Occupied(f) == {s \in DOMAIN f : f[s] # EMPTY /\ f[s] # TOMB}

-----------------------------------------------------------------------------
\* Lookup: the loop of find_by_hash ends at a match or at a group with an
\* EMPTY slot, and has no other bound.

KeyAt(k, s) == slot[s] # EMPTY /\ slot[s] # TOMB /\ slot[s].key = k

InGroup(k, g) == \E j \in SlotIdx : KeyAt(k, <<g, j>>)

\* Group g has a slot whose metadata byte is x.
Has(x, g) == \E j \in SlotIdx : slot[<<g, j>>] = x

\* s is the lowest such slot of its group.
LowestIs(x, s) == slot[s] = x /\ \A i \in 0 .. s[2] - 1 : slot[<<s[1], i>>] # x

\* find_by_hash looks at the group of probe p.
Reaches(k, p) == \A q \in 0 .. p - 1 :
    LET g == Probe(k, groups, q) IN ~Has(EMPTY, g) /\ ~InGroup(k, g)

FindHit(k, s) == KeyAt(k, s) /\ \E p \in 0 .. groups - 1 :
    Reaches(k, p) /\ Probe(k, groups, p) = s[1]

FindMiss(k) == \E p \in 0 .. groups - 1 :
    LET g == Probe(k, groups, p) IN
    Reaches(k, p) /\ ~InGroup(k, g) /\ Has(EMPTY, g)

-----------------------------------------------------------------------------
\* insert_at, and every other place that writes an entry into a free slot.
Put(k, v, s) ==
    /\ slot' = [slot EXCEPT ![s] = [key |-> k, val |-> v]]
    /\ len' = len + 1
    /\ growth_left' = IF slot[s] = EMPTY THEN growth_left - 1 ELSE growth_left

\* Probe p is the first whose group has an EMPTY slot.
StopsAt(k, p) ==
    /\ Has(EMPTY, Probe(k, groups, p))
    /\ \A q \in 0 .. p - 1 : ~Has(EMPTY, Probe(k, groups, q))

\* The slot insert_no_check and find_or_locate choose: the first tombstone on
\* the path up to the group with an EMPTY slot, else that EMPTY slot.
Target(k, s) == \E stop \in 0 .. groups - 1 :
    /\ StopsAt(k, stop)
    /\ \/ \E p \in 0 .. stop :
            /\ s[1] = Probe(k, groups, p)
            /\ LowestIs(TOMB, s)
            /\ \A q \in 0 .. p - 1 : ~Has(TOMB, Probe(k, groups, q))
       \/ /\ \A q \in 0 .. stop : ~Has(TOMB, Probe(k, groups, q))
          /\ s[1] = Probe(k, groups, stop)
          /\ LowestIs(EMPTY, s)

InsertNoCheck(k, v) == \E s \in Slots(groups) : Target(k, s) /\ Put(k, v, s)

\* insert_after_resize: the new array has no tombstones; the counters are
\* brought up to date when the rehash is done.
InsertAfterResize(k, v) == \E p \in 0 .. groups - 1, j \in SlotIdx :
    LET s == <<Probe(k, groups, p), j>> IN
    /\ StopsAt(k, p)
    /\ LowestIs(EMPTY, s)
    /\ slot' = [slot EXCEPT ![s] = [key |-> k, val |-> v]]
    /\ UNCHANGED <<len, growth_left>>

Allocate(m, content) ==
    /\ groups' = m
    /\ slot' = content
    /\ growth_left' = MaxLoadFor(m)
    /\ allocated' = TRUE

\* rehash_with: a new array of m groups; p is the entry the caller inserts
\* once the rehash is done.
Rehash(m, p) ==
    /\ m \in GroupCounts
    /\ Allocate(m, EmptySlots(m))
    /\ len' = 0
    /\ old' = IF allocated THEN slot ELSE EmptySlots(1)
    /\ old_len' = len
    /\ pend' = p
    /\ pc' = "rehash"
    /\ UNCHANGED <<todo, ret>>

\* grow_or_rehash: double a table full of entries, rebuild one full of
\* tombstones at its size.
GrowOrRehash(p) ==
    \/ ~allocated /\ Rehash(1, p)
    \/ allocated /\ len >= MaxLoadFor(groups) /\ Rehash(2 * groups, p)
    \/ allocated /\ len < MaxLoadFor(groups) /\ Rehash(groups, p)

\* The fused home-group path of insert_or_replace and find_for_entry takes an
\* EMPTY slot of the home group even if the group has a tombstone.
InsertHome(k, v) == \E j \in SlotIdx :
    LET s == <<GroupIndex(k, groups), j>> IN LowestIs(EMPTY, s) /\ Put(k, v, s)

\* Mutant: the full probe takes the first free slot without asking whether
\* the ration is used up.
InsertAbsentNoRation(k, v) ==
    /\ InsertNoCheck(k, v)
    /\ ret' = NONE
    /\ UNCHANGED <<groups, allocated, pc, loop>>

\* Insert an absent key into an allocated table: insert_or_replace, and
\* entry() followed by VacantEntry::insert.
InsertAbsent(k, v) ==
    \/ growth_left = 0 /\ GrowOrRehash([key |-> k, val |-> v])
    \/ /\ growth_left > 0
       /\ \/ InsertHome(k, v)
          \/ ~Has(EMPTY, GroupIndex(k, groups)) /\ InsertNoCheck(k, v)
       /\ ret' = NONE
       /\ UNCHANGED <<groups, allocated, pc, loop>>

\* First insert into an unallocated table.
InsertFresh(m, k, v) ==
    /\ groups' = m
    /\ slot' = [EmptySlots(m) EXCEPT
           ![<<GroupIndex(k, m), 0>>] = [key |-> k, val |-> v]]
    /\ growth_left' = MaxLoadFor(m) - 1
    /\ allocated' = TRUE
    /\ len' = len + 1
    /\ ret' = NONE
    /\ UNCHANGED <<pc, loop>>

\* Mutant: the slot becomes EMPTY.
EraseSlotEmpty(s) ==
    /\ slot' = [slot EXCEPT ![s] = EMPTY]
    /\ len' = len - 1
    /\ UNCHANGED <<groups, growth_left, allocated>>

\* erase_slot and remove_by_hash.
EraseSlot(s) ==
    /\ slot' = [slot EXCEPT ![s] = TOMB]
    /\ len' = len - 1
    /\ UNCHANGED <<groups, growth_left, allocated>>

\* The table is replaced by Self::new() and dropped.
Reset ==
    /\ groups' = 1
    /\ slot' = EmptySlots(1)
    /\ len' = 0
    /\ growth_left' = 0
    /\ allocated' = FALSE

-----------------------------------------------------------------------------
Init ==
    /\ batched \in BOOLEAN
    /\ groups = 1
    /\ slot = EmptySlots(1)
    /\ len = 0
    /\ growth_left = 0
    /\ allocated = FALSE
    /\ pc = "ready"
    /\ old = EmptySlots(1)
    /\ old_len = 0
    /\ pend = EMPTY
    /\ todo = {}
    /\ ret = NONE

Get(k) ==
    /\ pc = "ready"
    /\ \/ \E s \in Slots(groups) : FindHit(k, s) /\ ret' = slot[s].val
       \/ FindMiss(k) /\ ret' = NONE
    /\ UNCHANGED <<table, pc, loop>>

\* insert_or_replace.
Insert(k, v) ==
    /\ pc = "ready"
    /\ \/ ~allocated /\ InsertFresh(1, k, v)
       \/ allocated /\ FindMiss(k) /\ InsertAbsent(k, v)
       \/ \E s \in Slots(groups) :
            /\ FindHit(k, s)
            /\ slot' = [slot EXCEPT ![s].val = v]
            /\ ret' = slot[s].val
            /\ UNCHANGED <<groups, len, growth_left, allocated, pc, loop>>

\* try_insert / entry(k).or_insert(v).  On an unallocated table entry()
\* first calls reserve(1).
TryInsert(k, v) ==
    /\ pc = "ready"
    /\ \/ ~allocated /\ \E m \in GroupCounts :
            GroupsFor(len + 1, m) /\ InsertFresh(m, k, v)
       \/ allocated /\ FindMiss(k) /\ InsertAbsent(k, v)
       \/ \E s \in Slots(groups) :
            FindHit(k, s) /\ ret' = v /\ UNCHANGED <<table, pc, loop>>

\* raw_entry_mut().from_key(k), then RawVacantEntryMut::insert:
\* ensure_capacity and insert_no_check.
RawInsert(k, v) ==
    /\ pc = "ready"
    /\ FindMiss(k)
    /\ \/ growth_left = 0 /\ GrowOrRehash([key |-> k, val |-> v])
       \/ /\ growth_left > 0
          /\ InsertNoCheck(k, v)
          /\ ret' = NONE
          /\ UNCHANGED <<groups, allocated, pc, loop>>

\* remove, remove_entry, and the remove of an occupied raw entry.
Remove(k) ==
    /\ pc = "ready"
    /\ \/ \E s \in Slots(groups) :
            FindHit(k, s) /\ EraseSlot(s) /\ ret' = slot[s].val
       \/ FindMiss(k) /\ ret' = NONE /\ UNCHANGED table
    /\ UNCHANGED <<pc, loop>>

\* reserve compares with the load limit of the array, tombstones or not.
Reserve(n) ==
    /\ pc = "ready"
    /\ n > 0
    /\ \E m \in GroupCounts :
         /\ GroupsFor(len + n, m)
         /\ \/ /\ ~allocated
               /\ Allocate(m, EmptySlots(m))
               /\ UNCHANGED <<len, pc, loop, ret>>
            \/ /\ allocated
               /\ len + n > MaxLoadFor(groups)
               /\ m > groups
               /\ Rehash(m, EMPTY)

ShrinkToFit ==
    /\ pc = "ready"
    /\ \/ len = 0 /\ Reset /\ UNCHANGED <<pc, loop, ret>>
       \/ len > 0 /\ \E m \in GroupCounts :
            GroupsFor(len, m) /\ m < groups /\ Rehash(m, EMPTY)

Clear ==
    /\ pc = "ready"
    /\ allocated
    /\ slot' = EmptySlots(groups)
    /\ len' = 0
    /\ growth_left' = MaxLoadFor(groups)
    /\ UNCHANGED <<groups, allocated, pc, loop, ret>>

\* drain, consumed or dropped.
Drain == pc = "ready" /\ Reset /\ UNCHANGED <<pc, loop, ret>>

\* Mutant: growth_left stays what allocate made it.
CloneKeepsRation ==
    /\ pc = "ready"
    /\ allocated
    /\ Allocate(groups, slot)
    /\ UNCHANGED <<len, pc, loop, ret>>

\* The map is replaced by its clone: the metadata, tombstones included, and
\* both counters are copied.
Clone ==
    /\ pc = "ready"
    /\ allocated
    /\ groups' = groups
    /\ slot' = slot
    /\ len' = len
    /\ growth_left' = growth_left
    /\ allocated' = TRUE
    /\ UNCHANGED <<pc, loop, ret>>

\* retain collects the occupied positions first.
Retain ==
    /\ pc = "ready"
    /\ allocated
    /\ todo' = Occupied(slot)
    /\ pc' = "retain"
    /\ UNCHANGED <<table, old, old_len, pend, ret>>

\* The predicate accepts or rejects the entry at the next position.
RetainStep ==
    /\ pc = "retain"
    /\ \E s \in todo :
         /\ \A t \in todo : Before(s, t)
         /\ todo' = todo \ {s}
         /\ UNCHANGED table \/ EraseSlot(s)
    /\ UNCHANGED <<pc, old, old_len, pend, ret>>

RetainDone ==
    /\ pc = "retain"
    /\ todo = {}
    /\ pc' = "ready"
    /\ UNCHANGED <<table, loop, ret>>

\* IPO moves with insert_after_resize, IPO64 with insert_no_check.
RehashStep ==
    /\ pc = "rehash"
    /\ \E s \in Occupied(old) :
         /\ \A t \in Occupied(old) : Before(s, t)
         /\ \/ batched /\ InsertAfterResize(old[s].key, old[s].val)
            \/ ~batched /\ InsertNoCheck(old[s].key, old[s].val)
         /\ old' = [old EXCEPT ![s] = EMPTY]
    /\ UNCHANGED <<groups, allocated, pc, old_len, pend, todo, ret>>

\* Mutant: the moved entries are not counted.
RehashDoneNoCount ==
    /\ pc = "rehash"
    /\ Occupied(old) = {}
    /\ old' = EmptySlots(1)
    /\ old_len' = 0
    /\ pc' = IF pend = EMPTY THEN "ready" ELSE "insert"
    /\ UNCHANGED <<groups, slot, len, growth_left, allocated, pend, todo, ret>>

\* Mutant: the loop is not left.
RehashNeverDone ==
    /\ pc = "rehash"
    /\ Occupied(old) = {}
    /\ old' = EmptySlots(1)
    /\ UNCHANGED <<table, pc, old_len, pend, todo, ret>>

\* The old array is freed; IPO counts the moved entries.
RehashDone ==
    /\ pc = "rehash"
    /\ Occupied(old) = {}
    /\ len' = IF batched THEN old_len ELSE len
    /\ growth_left' = IF batched THEN growth_left - old_len ELSE growth_left
    /\ old' = EmptySlots(1)
    /\ old_len' = 0
    /\ pc' = IF pend = EMPTY THEN "ready" ELSE "insert"
    /\ UNCHANGED <<groups, slot, allocated, pend, todo, ret>>

\* The caller of grow_or_rehash goes on with insert_no_check.
InsertPending ==
    /\ pc = "insert"
    /\ InsertNoCheck(pend.key, pend.val)
    /\ pend' = EMPTY
    /\ pc' = "ready"
    /\ ret' = NONE
    /\ UNCHANGED <<groups, allocated, old, old_len, todo>>

LoopStep ==
    /\ RehashStep \/ RehashDone \/ InsertPending \/ RetainStep \/ RetainDone
    /\ UNCHANGED batched

Operation ==
    \/ \E k \in Key : Get(k) \/ Remove(k)
    \/ \E p \in Pairs :
         Insert(p[1], p[2]) \/ TryInsert(p[1], p[2]) \/ RawInsert(p[1], p[2])
    \/ \E n \in ReserveArgs : Reserve(n)
    \/ ShrinkToFit \/ Clear \/ Drain \/ Clone \/ Retain

Call == Operation /\ UNCHANGED batched

Next == Call \/ LoopStep

\* A call that has begun runs to its end: the loops are sequential code.
Fairness == WF_vars(LoopStep)

Spec == Init /\ [][Next]_vars /\ Fairness

-----------------------------------------------------------------------------
(***************************************************************************)
(* Properties                                                              *)
(***************************************************************************)
\* Types, and the arrays have the size `mask` says; growth_left, decremented
\* in four places without a check, never wraps.
TypeOK ==
    /\ batched \in BOOLEAN
    /\ groups \in GroupCounts
    /\ slot \in [Slots(groups) -> Entry \cup {EMPTY, TOMB}]
    /\ len \in Nat
    /\ growth_left \in Nat
    /\ allocated \in BOOLEAN
    /\ pc \in {"ready", "rehash", "insert", "retain"}
    /\ \E m \in GroupCounts : old \in [Slots(m) -> Entry \cup {EMPTY, TOMB}]
    /\ old_len \in Nat
    /\ pend \in Entry \cup {EMPTY}
    /\ todo \subseteq Slots(groups)
    /\ ret \in Value \cup {NONE}

\* No entry is lost behind an EMPTY slot: find_by_hash returns the slot of
\* every stored key, whichever of the three insert paths put it there.
NoLostEntry == \A s \in Occupied(slot) : FindHit(slot[s].key, s)

\* An EMPTY slot always remains, so every lookup and every insert ends,
\* however many tombstones the removals have left.
LookupsEnd == \E g \in 0 .. groups - 1 : Has(EMPTY, g)

EmptyCount == Cardinality({s \in Slots(groups) : slot[s] = EMPTY})
Moved == IF batched /\ pc = "rehash" THEN Cardinality(Occupied(slot)) ELSE 0

\* Both counters are exact.  growth_left, minus what a batched rehash has
\* moved and not counted yet, is the number of EMPTY slots above the 1/8
\* headroom: tombstones left, reused, swept or cloned never change that.  len
\* is the number of entries, in a batched rehash from its end on.
CountersExact ==
    /\ allocated =>
         EmptyCount = Capacity(groups) - MaxLoadFor(groups) + growth_left - Moved
    /\ Cardinality(Occupied(slot)) = IF Moved > 0 THEN Moved ELSE len

\* A key is stored once: in the array, among the entries a rehash has yet to
\* move, and as the entry waiting for its end.
UniqueKeys ==
    /\ \A s, t \in Occupied(slot) : slot[s].key = slot[t].key => s = t
    /\ \A s, t \in Occupied(old) : old[s].key = old[t].key => s = t
    /\ \A s \in Occupied(slot), t \in Occupied(old) : slot[s].key # old[t].key
    /\ pend # EMPTY =>
         /\ \A s \in Occupied(slot) : slot[s].key # pend.key
         /\ \A t \in Occupied(old) : old[t].key # pend.key

\* The entries a rehash has yet to move, and the one waiting for its end.
Unplaced == Cardinality(Occupied(old)) + (IF pend = EMPTY THEN 0 ELSE 1)

\* The ration covers everything that is still to be placed, so no decrement
\* of growth_left wraps; both counters account for the array.
Accounting ==
    /\ allocated =>
         EmptyCount = Capacity(groups) - MaxLoadFor(groups) + growth_left - Moved
    /\ ~allocated => growth_left = 0 /\ slot = EmptySlots(groups)
    /\ Cardinality(Occupied(slot)) = Moved + len
    /\ Moved + Unplaced <= growth_left
    /\ batched /\ pc = "rehash" =>
         len = 0 /\ old_len = Moved + Cardinality(Occupied(old))

\* The inductive invariant: the loop variables are used by their loop only.
IndInv ==
    /\ TypeOK
    /\ NoLostEntry
    /\ UniqueKeys
    /\ Accounting
    /\ todo \subseteq Occupied(slot)
    /\ pc # "rehash" => Occupied(old) = {}
    /\ pc \in {"ready", "retain"} => pend = EMPTY
    /\ pc = "insert" => pend # EMPTY
    /\ pc # "retain" => todo = {}

\* Every call that started a rehash or a retain comes back.
CallsReturn == pc \in {"rehash", "insert", "retain"} ~> pc = "ready"

\* The entries of the array and of what a rehash has not moved yet.
Entries == {slot[s] : s \in Occupied(slot)} \cup {old[s] : s \in Occupied(old)}

\* The map a client sees.
Dict == DictOf(Entries, NONE)

Map == INSTANCE MapSpec WITH dict <- Dict, retaining <- pc = "retain"

\* The table implements the map: every answer and every change a client can
\* see are those of a dictionary; tombstones and rehashes are invisible.
ImplementsMap == Map!Spec

\* reserve "Reserves capacity for at least `additional` more elements"
\* (traits.rs): when it finds nothing to do, that many inserts fit.
ReserveMakesRoom == \A n \in ReserveArgs :
    pc = "ready" /\ allocated /\ len + n <= MaxLoadFor(groups) => growth_left >= n
=============================================================================
