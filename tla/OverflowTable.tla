---------------------------- MODULE OverflowTable ----------------------------
(***************************************************************************)
(* The overflow-bit hash table (UnorderedFlatMap, Splitsies, Gaps) behind  *)
(* the GenericMap API.  A group remembers in its overflow bits, one per    *)
(* channel of the hash, that a key of the channel was displaced past it;   *)
(* a lookup stops at the first group whose bit for its channel is clear.   *)
(* Deletion clears the slot at once; when the home group has the key's     *)
(* bit set it lowers max_load ("anti-drift"), so that the table is rebuilt *)
(* before stale overflow bits add up.                                      *)
(*                                                                         *)
(* Calls are atomic, except the two loops whose intermediate states        *)
(* matter: a rehash moves one entry per step and a retain visits one slot  *)
(* per step.  No other call can run in between (the methods hold &mut).    *)
(***************************************************************************)
EXTENDS GroupProbe

CONSTANTS
    Value,        \* the values clients store
    NumChannels,  \* 8 (ByteSeparate, EmbeddedOverflow) or 1 (BitSeparate)
    MaskBits,     \* probes the full_mask of an InsertSlot can record: 8
    ReserveArgs,  \* bound: the arguments of reserve
    EMPTY,        \* the content of a free slot
    NONE          \* Option::None

ASSUME ChannelsAssumption == NumChannels \in Nat \ {0}
ASSUME MaskBitsAssumption == MaskBits \in Nat
ASSUME ReserveAssumption == ReserveArgs \subseteq Nat

Entry == [key : Key, val : Value]

ASSUME SentinelAssumption == EMPTY \notin Entry /\ NONE \notin Value

VARIABLES
    groups,    \* mask + 1
    slot,      \* slot[s]: EMPTY or the entry in slot s
    ofw,       \* ofw[g]: the channels whose overflow bit is set in group g
    len,
    max_load,
    ctrl,      \* "heap", or "static" when ctrl points to EMPTY_SENTINEL
    leaked,    \* an allocation was dropped without being freed
    pc,        \* "ready", or the loop a call is in: "rehash", "retain", "spin"
    old,       \* rehash: the old slots, EMPTY once moved
    pend,      \* rehash: the entry to insert afterwards, or EMPTY
    todo,      \* retain: the positions not visited yet
    ret        \* answer of the last call

table == <<groups, slot, ofw, len, max_load, ctrl, leaked>>
loop == <<old, pend, todo>>
vars == <<table, pc, loop, ret>>

Channels == 0 .. NumChannels - 1
Channel(k) == Hash[k] % NumChannels

EmptySlots(m) == [s \in Slots(m) |-> EMPTY]
NoOverflow(m) == [g \in 0 .. m - 1 |-> {}]
Occupied(f) == {s \in DOMAIN f : f[s] # EMPTY}

-----------------------------------------------------------------------------
\* Lookup.  The loop of find_by_hash has no bound of its own: it ends when a
\* slot matches or a group's overflow bit is clear.  The probe sequence
\* meets every group in any `groups` consecutive probes, so a lookup that
\* has not ended by then never ends.

KeyAt(k, s) == slot[s] # EMPTY /\ slot[s].key = k

InGroup(k, g) == \E j \in SlotIdx : KeyAt(k, <<g, j>>)

HasOverflow(k, g) == Channel(k) \in ofw[g]

\* find_by_hash looks at the group of probe p.
Reaches(k, p) == \A q \in 0 .. p - 1 :
    LET g == Probe(k, groups, q) IN HasOverflow(k, g) /\ ~InGroup(k, g)

FindHit(k, s) == KeyAt(k, s) /\ \E p \in 0 .. groups - 1 :
    Reaches(k, p) /\ Probe(k, groups, p) = s[1]

\* find_by_hash gives up at probe p.
MissAt(k, p) ==
    LET g == Probe(k, groups, p) IN
    Reaches(k, p) /\ ~InGroup(k, g) /\ ~HasOverflow(k, g)

\* Mutant: the home group alone decides.
FindMissHomeOnly(k) == ~InGroup(k, GroupIndex(k, groups))

FindMiss(k) == \E p \in 0 .. groups - 1 : MissAt(k, p)

FindNeverEnds(k) == Reaches(k, groups)

-----------------------------------------------------------------------------
HasRoom(g) == \E j \in SlotIdx : slot[<<g, j>>] = EMPTY

\* <<g, j>> is the lowest free slot of group g.
LowestFree(g, j) ==
    slot[<<g, j>>] = EMPTY /\ \A i \in 0 .. j - 1 : slot[<<g, i>>] # EMPTY

\* Mutant: the home group is not marked.
MarkSkipsHome(k, p) == [g \in DOMAIN ofw |->
    IF \E q \in 1 .. p - 1 : Probe(k, groups, q) = g
    THEN ofw[g] \cup {Channel(k)} ELSE ofw[g]]

\* Set k's overflow bit in the groups of its probes 0 .. p-1.
Mark(k, p) == [g \in DOMAIN ofw |->
    IF \E q \in 0 .. p - 1 : Probe(k, groups, q) = g
    THEN ofw[g] \cup {Channel(k)} ELSE ofw[g]]

\* The first group on k's path with a free slot takes the entry; the full
\* groups before it get the overflow bit.
InsertNoCheck(k, v) == \E p \in 0 .. groups - 1, j \in SlotIdx :
    LET g == Probe(k, groups, p) IN
    /\ \A q \in 0 .. p - 1 : ~HasRoom(Probe(k, groups, q))
    /\ LowestFree(g, j)
    /\ slot' = [slot EXCEPT ![<<g, j>>] = [key |-> k, val |-> v]]
    /\ ofw' = Mark(k, p)
    /\ len' = len + 1

\* Mutant: the overflow bits are not zeroed.
AllocateKeepsOverflow(m, content) ==
    /\ groups' = m
    /\ slot' = content
    /\ ofw' = ofw
    /\ max_load' = MaxLoadFor(m)
    /\ ctrl' = "heap"

\* allocate: zeroed metadata and overflow bits, ctrl overwritten.  Only the
\* callers know whether the old ctrl is still needed.
Allocate(m, content) ==
    /\ groups' = m
    /\ slot' = content
    /\ ofw' = NoOverflow(m)
    /\ max_load' = MaxLoadFor(m)
    /\ ctrl' = "heap"

\* rehash_with: a new array of m groups; the old one is kept, and freed at
\* the end, only if the table counted as allocated.  p is the entry the
\* caller inserts once the rehash is done.
Rehash(m, p) ==
    /\ m \in GroupCounts
    /\ Allocate(m, EmptySlots(m))
    /\ len' = 0
    /\ old' = IF max_load > 0 THEN slot ELSE EmptySlots(1)
    /\ leaked' = (leaked \/ (max_load = 0 /\ ctrl = "heap"))
    /\ pend' = p
    /\ pc' = "rehash"
    /\ UNCHANGED <<todo, ret>>

\* grow_and_rehash, and the same computation in ensure_capacity.
Grow(p) == Rehash(IF max_load = 0 THEN 1 ELSE 2 * groups, p)

\* Mutant: one insert too many before the table grows.
InsertAbsentLate(k, v) ==
    \/ len > max_load /\ Grow([key |-> k, val |-> v])
    \/ /\ len <= max_load
       /\ InsertNoCheck(k, v)
       /\ ret' = NONE
       /\ UNCHANGED <<groups, max_load, ctrl, leaked, pc, loop>>

\* Insert an absent key: rehash first when the table is at its load limit.
InsertAbsent(k, v) ==
    \/ len >= max_load /\ Grow([key |-> k, val |-> v])
    \/ /\ len < max_load
       /\ InsertNoCheck(k, v)
       /\ ret' = NONE
       /\ UNCHANGED <<groups, max_load, ctrl, leaked, pc, loop>>

\* First insert into a table that is_allocated() calls unallocated: allocate
\* m groups and write into the home group.
InsertFresh(m, k, v) ==
    /\ Allocate(m, [EmptySlots(m) EXCEPT
           ![<<GroupIndex(k, m), 0>>] = [key |-> k, val |-> v]])
    /\ len' = len + 1
    /\ leaked' = (leaked \/ ctrl = "heap")
    /\ ret' = NONE
    /\ UNCHANGED <<pc, loop>>

\* Mutant: no anti-drift.
EraseSlotNoDrift(k, s) ==
    /\ slot' = [slot EXCEPT ![s] = EMPTY]
    /\ len' = len - 1
    /\ UNCHANGED <<groups, ofw, max_load, ctrl, leaked>>

\* Mutant: anti-drift for displaced entries only.
EraseSlotDisplacedOnly(k, s) ==
    /\ slot' = [slot EXCEPT ![s] = EMPTY]
    /\ len' = len - 1
    /\ max_load' = IF s[1] # GroupIndex(k, groups) /\ max_load > 0
                   THEN max_load - 1 ELSE max_load
    /\ UNCHANGED <<groups, ofw, ctrl, leaked>>

\* Mutant: anti-drift for every group on the way to the entry.
EraseSlotDriftsTwice(k, s) ==
    /\ slot' = [slot EXCEPT ![s] = EMPTY]
    /\ len' = len - 1
    /\ max_load' = LET paid == Cardinality({GroupIndex(k, groups), s[1]})
                   IN  IF ~HasOverflow(k, GroupIndex(k, groups)) THEN max_load
                       ELSE IF max_load > paid THEN max_load - paid ELSE 0
    /\ UNCHANGED <<groups, ofw, ctrl, leaked>>

\* Mutant: the removal takes the home group's overflow bit back.
EraseSlotClearsBit(k, s) ==
    /\ slot' = [slot EXCEPT ![s] = EMPTY]
    /\ ofw' = [ofw EXCEPT ![GroupIndex(k, groups)] = @ \ {Channel(k)}]
    /\ len' = len - 1
    /\ UNCHANGED <<groups, max_load, ctrl, leaked>>

\* erase_slot: the slot is EMPTY at once; anti-drift.
EraseSlot(k, s) ==
    /\ slot' = [slot EXCEPT ![s] = EMPTY]
    /\ len' = len - 1
    /\ max_load' = IF HasOverflow(k, GroupIndex(k, groups)) /\ max_load > 0
                   THEN max_load - 1 ELSE max_load
    /\ UNCHANGED <<groups, ofw, ctrl, leaked>>

\* Drop of the table value: nothing is freed when max_load is 0.
DropLeaks == ctrl = "heap" /\ max_load = 0

\* The table is replaced by Self::new() and dropped.
Reset ==
    /\ groups' = 1
    /\ slot' = EmptySlots(1)
    /\ ofw' = NoOverflow(1)
    /\ len' = 0
    /\ max_load' = 0
    /\ ctrl' = "static"
    /\ leaked' = (leaked \/ DropLeaks)

-----------------------------------------------------------------------------
Init ==
    /\ groups = 1
    /\ slot = EmptySlots(1)
    /\ ofw = NoOverflow(1)
    /\ len = 0
    /\ max_load = 0
    /\ ctrl = "static"
    /\ leaked = FALSE
    /\ pc = "ready"
    /\ old = EmptySlots(1)
    /\ pend = EMPTY
    /\ todo = {}
    /\ ret = NONE

\* A call that starts with a lookup of k which never returns.
Hang(k) ==
    /\ FindNeverEnds(k)
    /\ pc' = "spin"
    /\ UNCHANGED <<table, loop, ret>>

Get(k) ==
    /\ pc = "ready"
    /\ \/ \E s \in Slots(groups) : FindHit(k, s) /\ ret' = slot[s].val
       \/ FindMiss(k) /\ ret' = NONE
    /\ UNCHANGED <<table, pc, loop>>

\* insert_or_replace.  The home-group fast path is probe 0 of the lookup and
\* of insert_no_check.
Insert(k, v) ==
    /\ pc = "ready"
    /\ \/ max_load = 0 /\ InsertFresh(1, k, v)
       \/ max_load > 0 /\ FindMiss(k) /\ InsertAbsent(k, v)
       \/ \E s \in Slots(groups) :
            /\ max_load > 0 /\ FindHit(k, s)
            /\ slot' = [slot EXCEPT ![s].val = v]
            /\ ret' = slot[s].val
            /\ UNCHANGED <<groups, ofw, len, max_load, ctrl, leaked, pc, loop>>

\* find_or_locate: the first free slot seen up to the group where the lookup
\* gives up, with the full groups before it (the first MaskBits of them).
InsertSlot(k, v, p, j) ==
    LET g == Probe(k, groups, p) IN
    /\ \A q \in 0 .. p - 1 : ~HasRoom(Probe(k, groups, q))
    /\ LowestFree(g, j)
    /\ slot' = [slot EXCEPT ![<<g, j>>] = [key |-> k, val |-> v]]
    /\ ofw' = Mark(k, IF p < MaskBits THEN p ELSE MaskBits)
    /\ len' = len + 1

\* entry(k), then VacantEntry::insert into the slot the probe located.
EntryInsertAt(k, v) ==
    /\ max_load > 0 /\ len < max_load
    /\ \E stop \in 0 .. groups - 1 : MissAt(k, stop) /\
         \E p \in 0 .. stop, j \in SlotIdx : InsertSlot(k, v, p, j)
    /\ ret' = NONE
    /\ UNCHANGED <<groups, max_load, ctrl, leaked, pc, loop>>

\* entry(k), then VacantEntry::insert with no located slot: the table is at
\* its limit, or every group up to the end of the lookup is full.
EntryInsertNoSlot(k, v) ==
    /\ max_load > 0
    /\ \E stop \in 0 .. groups - 1 :
         /\ MissAt(k, stop)
         /\ \/ len >= max_load
            \/ \A p \in 0 .. stop : ~HasRoom(Probe(k, groups, p))
    /\ InsertAbsent(k, v)

\* try_insert / entry(k).or_insert(v).  On an unallocated table entry()
\* first calls reserve(1).
TryInsert(k, v) ==
    /\ pc = "ready"
    /\ \/ max_load = 0 /\ \E m \in GroupCounts :
            GroupsFor(len + 1, m) /\ InsertFresh(m, k, v)
       \/ EntryInsertAt(k, v)
       \/ EntryInsertNoSlot(k, v)
       \/ \E s \in Slots(groups) :
            /\ max_load > 0 /\ FindHit(k, s)
            /\ ret' = v
            /\ UNCHANGED <<table, pc, loop>>

\* raw_entry_mut().from_key(k), then RawVacantEntryMut::insert: no duplicate
\* check, and no allocation before ensure_capacity.
RawInsert(k, v) == pc = "ready" /\ FindMiss(k) /\ InsertAbsent(k, v)

\* remove, remove_entry, and the remove of an occupied raw entry.
Remove(k) ==
    /\ pc = "ready"
    /\ \/ \E s \in Slots(groups) :
            FindHit(k, s) /\ EraseSlot(k, s) /\ ret' = slot[s].val
       \/ FindMiss(k) /\ ret' = NONE /\ UNCHANGED table
    /\ UNCHANGED <<pc, loop>>

Lookup(k) == pc = "ready" /\ Hang(k)

Reserve(n) ==
    /\ pc = "ready"
    /\ n > 0
    /\ \E m \in GroupCounts :
         /\ GroupsFor(len + n, m)
         /\ \/ /\ max_load = 0
               /\ Allocate(m, EmptySlots(m))
               /\ leaked' = (leaked \/ ctrl = "heap")
               /\ UNCHANGED <<len, pc, loop, ret>>
            \/ max_load > 0 /\ len + n > max_load /\ m > groups /\ Rehash(m, EMPTY)

ShrinkToFit ==
    /\ pc = "ready"
    /\ \/ len = 0 /\ Reset /\ UNCHANGED <<pc, loop, ret>>
       \/ len > 0 /\ \E m \in GroupCounts :
            GroupsFor(len, m) /\ m < groups /\ Rehash(m, EMPTY)

Clear ==
    /\ pc = "ready"
    /\ max_load > 0
    /\ slot' = EmptySlots(groups)
    /\ ofw' = NoOverflow(groups)
    /\ len' = 0
    /\ max_load' = MaxLoadFor(groups)
    /\ UNCHANGED <<groups, ctrl, leaked, pc, loop, ret>>

\* drain, consumed or dropped: the entries and the allocation go with it.
Drain == pc = "ready" /\ Reset /\ UNCHANGED <<pc, loop, ret>>

\* The map is replaced by its clone.  A clone has the groups, bits, entries
\* and max_load of the original, unless that has max_load 0.
Clone ==
    /\ pc = "ready"
    /\ \/ max_load = 0 /\ Reset
       \/ max_load > 0 /\ UNCHANGED table
    /\ UNCHANGED <<pc, loop, ret>>

\* retain collects the occupied positions first.
Retain ==
    /\ pc = "ready"
    /\ max_load > 0
    /\ todo' = Occupied(slot)
    /\ pc' = "retain"
    /\ UNCHANGED <<table, old, pend, ret>>

\* The predicate accepts or rejects the entry at the next position.
RetainStep ==
    /\ pc = "retain"
    /\ \E s \in todo :
         /\ \A t \in todo : Before(s, t)
         /\ todo' = todo \ {s}
         /\ UNCHANGED table \/ EraseSlot(slot[s].key, s)
    /\ UNCHANGED <<pc, old, pend, ret>>

RetainDone ==
    /\ pc = "retain"
    /\ todo = {}
    /\ pc' = "ready"
    /\ UNCHANGED <<table, loop, ret>>

RehashStep ==
    /\ pc = "rehash"
    /\ \E s \in Occupied(old) :
         /\ \A t \in Occupied(old) : Before(s, t)
         /\ InsertNoCheck(old[s].key, old[s].val)
         /\ old' = [old EXCEPT ![s] = EMPTY]
    /\ UNCHANGED <<groups, max_load, ctrl, leaked, pc, pend, todo, ret>>

\* Mutant: the loop is not left.
RehashNeverDone ==
    /\ pc = "rehash"
    /\ Occupied(old) = {}
    /\ old' = EmptySlots(1)
    /\ UNCHANGED <<table, pc, pend, todo, ret>>

\* The old array is freed; the caller goes on.
RehashDone ==
    /\ pc = "rehash"
    /\ Occupied(old) = {}
    /\ old' = EmptySlots(1)
    /\ pend' = EMPTY
    /\ pc' = "ready"
    /\ \/ pend = EMPTY /\ UNCHANGED <<slot, ofw, len, ret>>
       \/ pend # EMPTY /\ InsertNoCheck(pend.key, pend.val) /\ ret' = NONE
    /\ UNCHANGED <<groups, max_load, ctrl, leaked, todo>>

\* An unending lookup keeps probing.
Spin == pc = "spin" /\ UNCHANGED vars

LoopStep == RehashStep \/ RehashDone \/ RetainStep \/ RetainDone

Call ==
    \/ \E k \in Key : Get(k) \/ Remove(k) \/ Lookup(k)
    \/ \E k \in Key, v \in Value : Insert(k, v) \/ TryInsert(k, v) \/ RawInsert(k, v)
    \/ \E n \in ReserveArgs : Reserve(n)
    \/ ShrinkToFit \/ Clear \/ Drain \/ Clone \/ Retain

Next == Call \/ LoopStep \/ Spin

\* A call that has begun runs to its end: the loops are sequential code.
Fairness == WF_vars(LoopStep)

Spec == Init /\ [][Next]_vars /\ Fairness

-----------------------------------------------------------------------------
(***************************************************************************)
(* Properties                                                              *)
(***************************************************************************)
\* Types, and the arrays have the size `mask` says.
TypeOK ==
    /\ groups \in GroupCounts
    /\ slot \in [Slots(groups) -> Entry \cup {EMPTY}]
    /\ ofw \in [0 .. groups - 1 -> SUBSET Channels]
    /\ len \in Nat
    /\ max_load \in Nat
    /\ ctrl \in {"static", "heap"}
    /\ leaked \in BOOLEAN
    /\ pc \in {"ready", "rehash", "retain", "spin"}
    /\ \E m \in GroupCounts : old \in [Slots(m) -> Entry \cup {EMPTY}]
    /\ pend \in Entry \cup {EMPTY}
    /\ todo \subseteq Slots(groups)
    /\ ret \in Value \cup {NONE}

\* No entry is lost behind a clear overflow bit: find_by_hash returns the slot
\* of every stored key, after any sequence of inserts, removals and rehashes.
NoLostEntry == \A s \in Occupied(slot) : FindHit(slot[s].key, s)

\* A key is stored once, although insert_no_check, the raw entry and a rehash
\* write without looking for it: in the array, among the entries a rehash has
\* yet to move, and as the entry waiting for the rehash.
UniqueKeys ==
    /\ \A s, t \in Occupied(slot) : slot[s].key = slot[t].key => s = t
    /\ \A s, t \in Occupied(old) : old[s].key = old[t].key => s = t
    /\ \A s \in Occupied(slot), t \in Occupied(old) : slot[s].key # old[t].key
    /\ pend # EMPTY =>
         /\ \A s \in Occupied(slot) : slot[s].key # pend.key
         /\ \A t \in Occupied(old) : old[t].key # pend.key

\* len counts the occupied slots; the number that grow, shrink_to_fit and
\* reserve trust is never off, not even in the middle of a rehash.
LenExact == len = Cardinality(Occupied(slot))

\* The loop of insert_no_check, which has no bound and no capacity check, ends:
\* there is always a group with a free slot.
InsertEnds == \E g \in 0 .. groups - 1 : HasRoom(g)

\* What is in the table, still to be moved or waiting, fits under max_load,
\* however far anti-drift has lowered it: the decrement never wraps.
LoadWithinLimit ==
    len + Cardinality(Occupied(old)) + (IF pend = EMPTY THEN 0 ELSE 1) <= max_load

\* The anti-drift account: the free slots behind an overflow bit are paid for
\* by decrements of max_load.  (Holds with one channel only.)
FreeBehindBit == {s \in Slots(groups) : slot[s] = EMPTY /\ ofw[s[1]] # {}}
DriftAccounted == Cardinality(FreeBehindBit) <= MaxLoadFor(groups) - max_load

\* The loop of find_by_hash ends for every key, stored or not.
LookupsEnd == \A k \in Key : ~FindNeverEnds(k)

\* The positions retain collected up front are still occupied when it gets
\* to them.
RetainPositionsLive == \A s \in todo : slot[s] # EMPTY

\* max_load 0 means "not allocated" to every call: an insert then puts a new
\* array in the place of the old one.  Anti-drift gets there with the array
\* still allocated, but only when no entry is left in it.
UnallocatedIsEmpty == max_load = 0 => len = 0 /\ Occupied(slot) = {}

\* Every call that started a rehash or a retain comes back.
CallsReturn == pc \in {"rehash", "retain"} ~> pc = "ready"

\* Every group a stored key was displaced past has the key's overflow bit.
PathMarked == \A s \in Occupied(slot) : \E p \in 0 .. groups - 1 :
    /\ Probe(slot[s].key, groups, p) = s[1]
    /\ \A q \in 0 .. p - 1 :
         /\ HasOverflow(slot[s].key, Probe(slot[s].key, groups, q))
         /\ Probe(slot[s].key, groups, q) # s[1]

\* The part of the inductive invariant that is about the array alone.
TableInv ==
    /\ groups \in GroupCounts
    /\ slot \in [Slots(groups) -> Entry \cup {EMPTY}]
    /\ ofw \in [0 .. groups - 1 -> SUBSET Channels]
    /\ len \in Nat
    /\ max_load \in Nat
    /\ max_load <= MaxLoadFor(groups)
    /\ LenExact
    /\ \A s, t \in Occupied(slot) : slot[s].key = slot[t].key => s = t
    /\ PathMarked
    /\ NumChannels = 1 => DriftAccounted

\* The inductive invariant: an entry is where its overflow bits lead, the
\* account of anti-drift holds when there is one channel, and the loop
\* variables are used by their loop only.
IndInv ==
    /\ TypeOK
    /\ TableInv
    /\ UniqueKeys
    /\ LoadWithinLimit
    /\ RetainPositionsLive
    /\ pc # "rehash" => Occupied(old) = {} /\ pend = EMPTY
    /\ pc # "retain" => todo = {}

\* The entries of the array and of what a rehash has not moved yet.
Entries == {slot[s] : s \in Occupied(slot)} \cup {old[s] : s \in Occupied(old)}

\* The map a client sees.
Dict == DictOf(Entries, NONE)

Map == INSTANCE MapSpec WITH dict <- Dict, retaining <- pc = "retain"

\* The table implements the map: every answer and every change a client can
\* see are those of a dictionary; rehashes are invisible.
ImplementsMap == Map!Spec

\* An allocation is always freed: "dropping a map releases every byte it
\* allocated (no leaks)", tests/alloc_stress.rs.
NoLeak == ~leaked

\* Anti-drift as the design documents describe it: only the removal of an
\* element that was displaced from its home group lowers max_load.
DriftOnlyIfDisplaced ==
    [][\A k \in Key : Remove(k) /\ InGroup(k, GroupIndex(k, groups))
                        => max_load' = max_load]_vars
=============================================================================
