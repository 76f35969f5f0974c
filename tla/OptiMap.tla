------------------------------ MODULE OptiMap -------------------------------
(***************************************************************************)
(* OptiMap: one of several backends behind one map API.  A map is pinned   *)
(* to a backend, or has a policy that selects one by capacity; when insert *)
(* or reserve find that another backend is due, all entries are moved.     *)
(*                                                                         *)
(* A backend is abstracted to its contents, the capacity it reports and    *)
(* `lost`, what its load limit has lost to removals: the tombstones of a   *)
(* tombstone engine, or how far anti-drift has lowered max_load in an      *)
(* overflow-bit engine.  OverflowTable and TombTable have the details.     *)
(***************************************************************************)
EXTENDS Integers, FiniteSets, FiniteSetsExt

CONSTANTS
    Key,          \* the keys, ordered as integers are
    Value, NONE,
    HashKinds,    \* the MapTypes that are hash tables
    Tombstoned,   \* those of them with tombstones: Ipo, Tomb, Ipo64
    GroupSize,    \* GroupSize[t]: slots per group of hash backend t
    LeafCap,      \* LEAF_CAP of the FlatBTree
    Policies,     \* the policies users build
    StartCaps,    \* bound: capacities a map is created with
    ReserveArgs,  \* bound: arguments of reserve
    Others,       \* bound: other maps a call is given: their entries, their
                  \* backend, and whether they were made to be sorted
    GroupCounts,  \* bound: powers of two, the numbers of groups
    MaxNodes,     \* bound: nodes of a FlatBTree
    MaxNewNodes   \* bound: nodes one tree insert allocates

Tree == "FlatBTree"
MapType == HashKinds \cup {Tree}

ASSUME KindsAssumption ==
    /\ Tombstoned \subseteq HashKinds /\ "Splitsies" \in HashKinds
    /\ Tree \notin HashKinds
ASSUME SizesAssumption ==
    /\ GroupSize \in [HashKinds -> Nat \ {0, 1}]
    /\ LeafCap \in Nat \ {0}
    /\ GroupCounts \subseteq Nat \ {0} /\ 1 \in GroupCounts
    /\ StartCaps \subseteq Nat /\ ReserveArgs \subseteq Nat
    /\ MaxNodes \in Nat /\ MaxNewNodes \in Nat
ASSUME KeysAssumption == Key \subseteq Int /\ NONE \notin Value
ASSUME OthersAssumption ==
    /\ Others \subseteq [dict : [Key -> Value \cup {NONE}], kind : MapType, sorted : BOOLEAN]
    /\ \A o \in Others :
         IsFiniteSet({k \in Key : o.dict[k] # NONE}) /\ (o.sorted => o.kind = Tree)
ASSUME PoliciesAssumption == \A p \in Policies :
    DOMAIN p \subseteq Nat /\ \A c \in DOMAIN p : p[c] \in MapType

VARIABLES
    kind,     \* map_type()
    cap,      \* capacity(): slots of a hash table, allocated nodes * LEAF_CAP
    lost,     \* tombstones, or decrements of max_load
    dict,     \* the entries in the backend
    pinned,   \* Backend::Pinned
    policy,   \* the Policy of Backend::Auto
    pc,       \* "ready", "grown", "move" or "retain"
    rest,     \* transition_to: the entries still to be inserted
    todo,     \* retain: the keys still to be visited
    ret       \* answer of the last call

backend == <<kind, cap, lost, dict>>
vars == <<backend, pinned, policy, pc, rest, todo, ret>>

-----------------------------------------------------------------------------
\* Policy::band: add a band, or replace the one with the same min_capacity.
Band(p, c, t) == [d \in DOMAIN p \cup {c} |-> IF d = c THEN t ELSE p[d]]

\* Policy::new: no bands.
NoBands == [c \in {} |-> Tree]

\* for_hint: one band from capacity 0.
ForHint(hint) == Band(NoBands, 0,
    CASE hint \in {"Auto", "ReadHeavy", "WriteHeavy"} -> "Tomb"
      [] hint = "MissHeavy" -> "Ipo"
      [] hint \in {"LowLatency", "Sorted"} -> Tree
      [] hint = "Churn" -> "Splitsies"
      [] hint = "Iteration" -> "Gaps")

\* backend_for: the last band at or below the capacity, else the first band,
\* else Splitsies.
BackendFor(p, c) ==
    LET below == {d \in DOMAIN p : d <= c} IN
    IF DOMAIN p = {} THEN "Splitsies"
    ELSE IF below = {} THEN p[Min(DOMAIN p)] ELSE p[Max(below)]

-----------------------------------------------------------------------------
Nothing == [k \in Key |-> NONE]
Present(d) == {k \in Key : d[k] # NONE}
len == Cardinality(Present(dict))

MaxLoad(c) == (c * 7) \div 8

\* The capacity groups_for_capacity(n) gives hash backend t.
CapFor(t, n) == Min({m * GroupSize[t] : m \in
    {m \in GroupCounts : m * GroupSize[t] >= (n * 8 + 6) \div 7}})

\* Some number of groups is enough for n entries.
Fits(t, n) == t \in HashKinds =>
    \E m \in GroupCounts : m * GroupSize[t] >= (n * 8 + 6) \div 7

\* build_inner: with_capacity of the backend.
BuildCap(t, n) == IF t = Tree \/ n = 0 THEN 0 ELSE CapFor(t, n)

Full == len + lost >= MaxLoad(cap)

\* A hash backend stores a new key: allocate, take a free slot, or rehash.
HashInsert ==
    \/ cap = 0 /\ cap' = GroupSize[kind] /\ lost' = 0
    \/ /\ cap > 0 /\ ~Full
       /\ cap' = cap
       /\ \/ lost' = lost
          \/ kind \in Tombstoned /\ lost > 0 /\ lost' = lost - 1
    \/ /\ cap > 0 /\ Full
       /\ cap' = IF kind \in Tombstoned /\ len < MaxLoad(cap) THEN cap ELSE 2 * cap
       /\ \E m \in GroupCounts : cap' = m * GroupSize[kind]
       /\ lost' = 0

\* A tree stores a new key.  The first takes a leaf; later ones may split
\* nodes once there are enough keys to fill a leaf.
TreeInsert == \E n \in 0 .. MaxNewNodes :
    /\ cap = 0 => n = 1
    /\ cap > 0 /\ len < LeafCap => n = 0
    /\ cap' = cap + n * LeafCap
    /\ len + 1 <= cap' /\ cap' <= MaxNodes * LeafCap
    /\ lost' = 0

BackendInsert(k, v) ==
    /\ dict' = [dict EXCEPT ![k] = v]
    /\ \/ kind \in HashKinds /\ HashInsert
       \/ kind = Tree /\ TreeInsert
    /\ UNCHANGED kind

\* A removal leaves a tombstone, or may lower max_load once there is more
\* than one group; at max_load 0 the table counts as unallocated.
Erase(k) ==
    /\ dict' = [dict EXCEPT ![k] = NONE]
    /\ \/ kind \in Tombstoned /\ lost' = lost + 1 /\ cap' = cap
       \/ kind \notin Tombstoned /\ UNCHANGED <<cap, lost>>
       \/ /\ kind \in HashKinds \ Tombstoned /\ cap > GroupSize[kind]
          /\ IF lost + 1 = MaxLoad(cap) THEN cap' = 0 /\ lost' = 0
                                        ELSE cap' = cap /\ lost' = lost + 1
    /\ UNCHANGED kind

\* The backend after new(), or emptied with its array kept.
Empty(c) == dict' = Nothing /\ cap' = c /\ lost' = 0 /\ UNCHANGED kind

\* Mutant: the new backend is built empty and has to grow.
StartMoveUnsized(t, n) ==
    /\ kind' = t
    /\ cap' = BuildCap(t, 0)
    /\ lost' = 0
    /\ dict' = Nothing
    /\ rest' = dict
    /\ pc' = "move"

\* transition_to: the backend is replaced by a new one and drained.
StartMove(t, n) ==
    /\ Fits(t, n)
    /\ kind' = t
    /\ cap' = BuildCap(t, n)
    /\ lost' = 0
    /\ dict' = Nothing
    /\ rest' = dict
    /\ pc' = "move"

-----------------------------------------------------------------------------
\* with_policy_and_capacity and with_type_and_capacity.
Init ==
    /\ policy \in Policies
    /\ pinned \in BOOLEAN
    /\ \E n \in StartCaps :
         /\ kind \in IF pinned THEN MapType ELSE {BackendFor(policy, n)}
         /\ Fits(kind, n)
         /\ cap = BuildCap(kind, n)
    /\ lost = 0
    /\ dict = Nothing
    /\ pc = "ready"
    /\ rest = Nothing
    /\ todo = {}
    /\ ret = NONE

Get(k) ==
    /\ pc = "ready"
    /\ ret' = dict[k]
    /\ UNCHANGED <<backend, pinned, policy, pc, rest, todo>>

\* insert: a policy is consulted when a new key has changed the capacity.
Insert(k, v) ==
    /\ pc = "ready"
    /\ ret' = dict[k]
    /\ \/ /\ dict[k] # NONE
          /\ dict' = [dict EXCEPT ![k] = v]
          /\ UNCHANGED <<kind, cap, lost, pc>>
       \/ /\ dict[k] = NONE
          /\ BackendInsert(k, v)
          /\ pc' = IF ~pinned /\ cap' # cap THEN "grown" ELSE "ready"
    /\ UNCHANGED <<pinned, policy, rest, todo>>

\* maybe_transition_after_grow.
AfterGrow ==
    /\ pc = "grown"
    /\ \/ BackendFor(policy, cap) = kind /\ pc' = "ready" /\ UNCHANGED <<backend, rest>>
       \/ BackendFor(policy, cap) # kind /\ StartMove(BackendFor(policy, cap), cap)
    /\ UNCHANGED <<pinned, policy, todo, ret>>

\* try_insert and entry(k).or_insert(v) go to the backend and nowhere else.
TryInsert(k, v) ==
    /\ pc = "ready"
    /\ \/ dict[k] # NONE /\ ret' = v /\ UNCHANGED backend
       \/ dict[k] = NONE /\ ret' = NONE /\ BackendInsert(k, v)
    /\ UNCHANGED <<pinned, policy, pc, rest, todo>>

\* Mutant: the last entry of the old backend is forgotten.
MoveStepForgets ==
    /\ pc = "move"
    /\ \E k \in Present(rest) :
         /\ \/ Cardinality(Present(rest)) > 1 /\ BackendInsert(k, rest[k])
            \/ Cardinality(Present(rest)) = 1 /\ UNCHANGED backend
         /\ rest' = [rest EXCEPT ![k] = NONE]
    /\ UNCHANGED <<pinned, policy, pc, todo, ret>>

\* The loop of transition_to, in the drain order of the old backend.
MoveStep ==
    /\ pc = "move"
    /\ \E k \in Present(rest) :
         BackendInsert(k, rest[k]) /\ rest' = [rest EXCEPT ![k] = NONE]
    /\ UNCHANGED <<pinned, policy, pc, todo, ret>>

\* Mutant: the policy is asked again, for the capacity the move ended with.
MoveDoneAgain ==
    /\ pc = "move"
    /\ Present(rest) = {}
    /\ pc' = "grown"
    /\ UNCHANGED <<backend, pinned, policy, rest, todo, ret>>

MoveDone ==
    /\ pc = "move"
    /\ Present(rest) = {}
    /\ pc' = "ready"
    /\ UNCHANGED <<backend, pinned, policy, rest, todo, ret>>

Remove(k) ==
    /\ pc = "ready"
    /\ ret' = dict[k]
    /\ IF dict[k] = NONE THEN UNCHANGED backend ELSE Erase(k)
    /\ UNCHANGED <<pinned, policy, pc, rest, todo>>

\* reserve of the backend; a tree's capacity() does not count spare nodes.
BackendReserve(n) ==
    /\ kind \in HashKinds
    /\ Fits(kind, len + n)
    /\ \/ cap = 0 /\ n > 0
       \/ /\ cap > 0
          /\ len + n > MaxLoad(cap) - (IF kind \in Tombstoned THEN 0 ELSE lost)
          /\ CapFor(kind, len + n) > cap
    /\ cap' = CapFor(kind, len + n)
    /\ lost' = 0
    /\ UNCHANGED <<kind, dict, pc, rest>>

\* reserve asks the policy for len + additional, not for the capacity.
Reserve(n) ==
    /\ pc = "ready"
    /\ LET desired == BackendFor(policy, len + n) IN
       \/ ~pinned /\ desired # kind /\ StartMove(desired, len + n)
       \/ (pinned \/ desired = kind) /\ BackendReserve(n)
    /\ UNCHANGED <<pinned, policy, todo, ret>>

ShrinkToFit ==
    /\ pc = "ready"
    /\ \/ len = 0 /\ Empty(0)
       \/ /\ len > 0 /\ kind \in HashKinds
          /\ CapFor(kind, len) < cap
          /\ cap' = CapFor(kind, len) /\ lost' = 0
          /\ UNCHANGED <<kind, dict>>
       \/ /\ len > 0 /\ kind = Tree
          /\ \E n \in 1 .. MaxNodes : len <= n * LeafCap /\ n * LeafCap <= cap /\ cap' = n * LeafCap
          /\ UNCHANGED <<kind, dict, lost>>
    /\ UNCHANGED <<pinned, policy, pc, rest, todo, ret>>

\* A tree's clear resets the arena's high-water mark.
Clear ==
    /\ pc = "ready"
    /\ Empty(IF kind = Tree THEN 0 ELSE cap)
    /\ UNCHANGED <<pinned, policy, pc, rest, todo, ret>>

Drain ==
    /\ pc = "ready"
    /\ Empty(0)
    /\ UNCHANGED <<pinned, policy, pc, rest, todo, ret>>

Retain ==
    /\ pc = "ready"
    /\ todo' = Present(dict)
    /\ pc' = "retain"
    /\ UNCHANGED <<backend, pinned, policy, rest, ret>>

\* The predicate accepts or rejects one entry.
RetainStep ==
    /\ pc = "retain"
    /\ \E k \in todo :
         /\ todo' = todo \ {k}
         /\ \/ UNCHANGED backend
            \/ kind \in HashKinds /\ Erase(k)
            \/ kind = Tree /\ dict' = [dict EXCEPT ![k] = NONE] /\ UNCHANGED <<kind, cap, lost>>
    /\ UNCHANGED <<pinned, policy, pc, rest, ret>>

\* A tree that has become empty is cleared.
RetainDone ==
    /\ pc = "retain"
    /\ todo = {}
    /\ pc' = "ready"
    /\ cap' = IF kind = Tree /\ len = 0 THEN 0 ELSE cap
    /\ UNCHANGED <<kind, lost, dict, pinned, policy, rest, todo, ret>>

-----------------------------------------------------------------------------
\* The calls that need the sorted backend.  They go to the tree and nowhere
\* else: no policy is asked.

\* not_flat_btree: first_key_value, last_key_value, pop_first, pop_last,
\* iter_sorted, range and split_off panic in another backend.
NotFlatBTree ==
    /\ pc = "ready"
    /\ kind # Tree
    /\ ret' = "panic"
    /\ UNCHANGED <<backend, pinned, policy, pc, rest, todo>>

SortedIdle ==
    /\ pc = "ready"
    /\ kind = Tree
    /\ kind' = Tree
    /\ UNCHANGED <<policy, pc, rest, todo>>

\* The smallest key of a tree that is not empty, or the largest.
EndKey(low) == IF low THEN Min(Present(dict)) ELSE Max(Present(dict))

FirstKeyValue(low) ==
    /\ SortedIdle
    /\ ret' = IF len = 0 THEN NONE ELSE dict[EndKey(low)]
    /\ UNCHANGED <<cap, lost, dict, pinned>>

PopFirst(low) ==
    /\ SortedIdle
    /\ \/ len = 0 /\ ret' = NONE /\ UNCHANGED <<cap, lost, dict>>
       \/ len > 0 /\ ret' = dict[EndKey(low)] /\ Erase(EndKey(low))
    /\ UNCHANGED pinned

\* The capacities a tree of n entries may report.
TreeCaps(n) == {c \in {m * LeafCap : m \in 0 .. MaxNodes} : n <= c}

\* A tree with contents d takes the place of the one there is.
NewTree(d) ==
    /\ dict' = d
    /\ cap' \in TreeCaps(Cardinality(Present(d)))
    /\ lost' = 0
    /\ ret' = NONE

\* The client goes on with what split_off left in self, or with the map it
\* returned, which is pinned whatever self is.
SplitOff(at) ==
    /\ SortedIdle
    /\ \/ NewTree([k \in Key |-> IF k < at THEN dict[k] ELSE NONE]) /\ UNCHANGED pinned
       \/ NewTree([k \in Key |-> IF k < at THEN NONE ELSE dict[k]]) /\ pinned' = TRUE

\* append of a map o in a tree too, which is empty afterwards.
AppendMap(o) ==
    /\ SortedIdle
    /\ o.kind = Tree
    /\ \/ Present(o.dict) = {} /\ ret' = NONE /\ UNCHANGED <<cap, lost, dict>>
       \/ /\ Present(o.dict) # {}
          /\ NewTree([k \in Key |-> IF o.dict[k] # NONE THEN o.dict[k] ELSE dict[k]])
    /\ UNCHANGED pinned

\* append panics when either map is in another backend.  The panic is put down
\* to o if o was not made to be sorted, to self otherwise.
AppendPanics(o) ==
    /\ pc = "ready"
    /\ kind # Tree \/ o.kind # Tree
    /\ ret' = IF o.sorted THEN "panic" ELSE "other_panic"
    /\ UNCHANGED <<backend, pinned, policy, pc, rest, todo>>

\* from_sorted_iter: a pinned tree, here in the place of an empty map.
FromSortedIter(d) ==
    /\ pc = "ready"
    /\ len = 0
    /\ kind' = Tree
    /\ NewTree(d)
    /\ pinned' = TRUE
    /\ UNCHANGED <<policy, pc, rest, todo>>

-----------------------------------------------------------------------------
\* The map is replaced by its clone.  A tree without a root is cloned to one
\* without nodes; all else is copied, the policy too.
Clone ==
    /\ pc = "ready"
    /\ cap' = cap \/ (kind = Tree /\ len = 0 /\ cap' = 0)
    /\ UNCHANGED <<kind, lost, dict, pinned, policy, pc, rest, todo, ret>>

\* get_mut, iter_mut, values_mut, entry(k).and_modify: a value is changed in
\* its place.
GetMut(k, v) ==
    /\ pc = "ready"
    /\ dict[k] # NONE
    /\ ret' = dict[k]
    /\ dict' = [dict EXCEPT ![k] = v]
    /\ UNCHANGED <<kind, cap, lost, pinned, policy, pc, rest, todo>>

\* == with a map of contents d: the lengths, then every entry of self.
Eq(d) ==
    /\ pc = "ready"
    /\ ret' = IF /\ len = Cardinality(Present(d))
                /\ \A k \in Present(dict) : d[k] = dict[k]
             THEN "equal" ELSE "different"
    /\ UNCHANGED <<backend, pinned, policy, pc, rest, todo>>

LoopStep == AfterGrow \/ MoveStep \/ MoveDone \/ RetainStep \/ RetainDone

Call ==
    \/ \E k \in Key : Get(k) \/ Remove(k)
    \/ \E k \in Key, v \in Value : Insert(k, v) \/ TryInsert(k, v) \/ GetMut(k, v)
    \/ \E n \in ReserveArgs : Reserve(n)
    \/ ShrinkToFit \/ Clear \/ Drain \/ Retain \/ Clone
    \/ \E low \in BOOLEAN : FirstKeyValue(low) \/ PopFirst(low)
    \/ \E at \in Key : SplitOff(at)
    \/ \E o \in Others :
         AppendMap(o) \/ AppendPanics(o) \/ FromSortedIter(o.dict) \/ Eq(o.dict)
    \/ NotFlatBTree

Next == Call \/ LoopStep

\* A call that has begun runs to its end.
Fairness == WF_vars(LoopStep)

Spec == Init /\ [][Next]_vars /\ Fairness

-----------------------------------------------------------------------------
(***************************************************************************)
(* Properties                                                              *)
(***************************************************************************)
\* The table transition_to builds takes all entries without growing: what
\* insert and reserve pass as capacity is enough although one is a number of
\* slots and the other a number of entries.
TransitionHasRoom == pc = "move" /\ kind \in HashKinds =>
    len + Cardinality(Present(rest)) + lost <= MaxLoad(cap)

\* Every call that started a transition or a retain comes back, and the policy
\* does not send it around again.
CallsReturn == pc # "ready" ~> pc = "ready"

Contents == [k \in Key |-> IF dict[k] # NONE THEN dict[k] ELSE rest[k]]

\* The client asked for a sorted map: flat_btree, from_sorted_iter, Hint::Sorted.
MadeSorted == IF pinned THEN kind = Tree
              ELSE DOMAIN policy # {} /\ \A c \in DOMAIN policy : policy[c] = Tree

Map == INSTANCE SortedMapSpec
         WITH dict <- Contents, retaining <- pc = "retain", sorted <- MadeSorted

\* An OptiMap is a map: no backend change loses, duplicates or resurrects an
\* entry; and one that was made to be sorted stays so, whatever grows, moves,
\* splits or clones it: a sorted call of it never panics ("to guarantee a
\* sorted backend", first_key_value), except append, and that only if the other
\* map was not made to be sorted.
ImplementsMap == Map!SortedSpec

\* "re-evaluated on every grow" (with_policy): a call that leaves a larger
\* table behind leaves it in the backend the policy selects for it.
EveryGrowReevaluated ==
    [][~pinned /\ pc = "ready" /\ pc' = "ready" /\ cap' > cap
         => kind' = BackendFor(policy, cap')]_vars

\* "If the policy has no band at or below `capacity` (or is empty), returns
\* Splitsies" (backend_for).
DefaultIsSplitsies == \A c \in 0 .. cap :
    (\A d \in DOMAIN policy : d > c) => BackendFor(policy, c) = "Splitsies"

-----------------------------------------------------------------------------
(***************************************************************************)
(* The inductive invariant                                                 *)
(***************************************************************************)
Typed ==
    /\ kind \in MapType /\ cap \in Nat /\ lost \in Nat
    /\ dict \in [Key -> Value \cup {NONE}] /\ IsFiniteSet(Present(dict))
    /\ rest \in [Key -> Value \cup {NONE}] /\ IsFiniteSet(Present(rest))
    /\ policy \in Policies /\ pinned \in BOOLEAN
    /\ pc \in {"ready", "grown", "move", "retain"}

\* A hash table has room for what it holds, what is coming and what its limit
\* has lost, and a whole number of groups; a tree has a slot for every entry.
Room ==
    /\ kind \in HashKinds =>
         /\ len + Cardinality(Present(rest)) + lost <= MaxLoad(cap)
         /\ cap = 0 \/ \E m \in GroupCounts : cap = m * GroupSize[kind]
    /\ kind = Tree => len <= cap /\ lost = 0

\* Entries wait only during a move, each of them once; a retain visits entries;
\* a pinned map never asks the policy; a map made to be sorted is a tree.
Phases ==
    /\ pc # "move" => rest = Nothing
    /\ Present(dict) \cap Present(rest) = {}
    /\ todo \subseteq Present(dict)
    /\ pc # "retain" => todo = {}
    /\ pc = "grown" => ~pinned
    /\ MadeSorted => kind = Tree

IndInv == Typed /\ Room /\ Phases
=============================================================================
