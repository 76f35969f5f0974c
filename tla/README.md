# Verification of optimap

`optimap` is a Rust crate of in-memory maps and sets. This directory holds TLA+ models of
its hash-table engines, its B+ tree, its perfect-hash containers, its sets and its adaptive map, TLC
configurations that check them on small instances, and proofs that TLAPS checks for every instance. All of it is translated from the source; line numbers
are in `PROJECT.json` under `map`.

The crate has no I/O and no persistence, and, but for the optional parallel seed search of the
perfect-hash builder, no threads of its own (every mutating method takes `&mut self`). What makes it hard is *history*: probe loops with no bound, whose end depends
on metadata left by every earlier insert and removal; counters decremented without checks;
several insert paths that choose slots differently; tables replaced in the middle of a call, or while client code that may panic is called;
subtrees moved from one arena to another.

## Inventory

| Component | State | Operations | What makes it correct |
|---|---|---|---|
| Overflow-bit engine `raw/overflow_table.rs` (UnorderedFlatMap, Splitsies, Gaps) | group array, overflow bits per group, `len`, `max_load`, `ctrl` | find, insert_or_replace, entry probe + insert_at, insert_no_check, remove/erase_slot, reserve, shrink_to_fit, clear, drain, clone, rehash, drop | stored keys are found; keys are unique; probe loops end; `len` and `max_load` are right; memory is freed |
| Tombstone engine `in_place_overflow/raw` (InPlaceOverflow, Tomb) | group array with tombstones, `len`, `growth_left`, `max_load` | the same | the same; an EMPTY slot always remains |
| Tombstone engine `ipo64/raw` (IPO64) | the same, 64-slot groups | the same, without batched counters | the same |
| `GenericMap`, `raw_entry` | a table and a hasher | the public map API; positions held between a probe and an insert or an erasure | answers are those of a dictionary |
| `raw/mod.rs` + `set.rs` (UnorderedFlatSet) | its own 15-slot table with an overflow byte per group | set API, set algebra, drain iterator | answers are those of a set; a panic of client code leaves a smaller but sound set |
| `GenericSet`, `OptiSet` | a map with `()` values | set API and set algebra | the algebra is that of sets, whatever the iteration order |
| `OptiMap` | one of seven backends, a policy | map API, sorted calls, transition between backends on growth | contents survive a transition; a map made to be sorted stays sorted |
| `FlatBTree` | node arena, leaf chain, root, height | ordered map API, split, borrow, merge, range, split_off, append | order, balance, occupancy, leaf chain equals in-order walk |
| Perfect hashing `perfect/` (CHD, bucketed, multilevel; eight containers) | seeds, displacements, buckets, tags, slots | build from a key set, in parallel or not; lookup, iteration, drop | no two keys share a slot; absent keys are rejected; an error is reported only if no seed works; every entry is dropped once |
| SIMD groups, bit masks, tag and overflow strategies, storage layouts | bytes | compare, mask, address | a match mask names exactly the matching slots |
| Traits | none | forwarding | the contract of a map |

Interactions: `GenericMap` calls an engine through `RawTableApi`; an entry or raw entry holds
what the engine's probe found and hands it back to the engine; `retain` collects positions
from the engine, calls client code, then erases through the engine; engines call the client's
`Hash` for every entry of a rehash. `OptiMap` drains one `GenericMap` (or the tree) into
another. A `FlatBTree` splits into two trees and takes in another one. The perfect containers
call one of three builders and place their entries where it says. With `parallel-build` the CHD
builder's attempts run at once under rayon and share one flag. There is no callback while a loop is half-way except `Hash`, `Eq`, `Drop`, `Clone`
and the `retain` predicate, none of which can reach the map (it is mutably borrowed), but all of which can panic.

The hazards are listed with their lines in `PROJECT.json`. Two that no model reaches: the static sentinel of an unallocated table
has 64 bytes, and a 64-slot layout with a separate overflow array reads its overflow byte right behind
them; `Drop` or `Clone` of an entry may panic while metadata and contents disagree.

## Modules

| Module | Models |
|---|---|
| `GroupProbe` | what the hash tables share: `group_index`, the triangular probe sequence, slots, capacity, 7/8 load limit, `groups_for_capacity` |
| `MapSpec` | the contract of `HashedMap`: a dictionary and the answer of the last call |
| `SortedMapSpec` | `MapSpec` with the calls that need an order, and when they may panic |
| `MapPairSpec` | the contract of `split_off`, `append`, `clone` and the pops, on two sorted maps |
| `SetSpec` | the contract of `Set`, with a drain iterator, and what a panic may do |
| `OverflowTable` | the overflow-bit engine behind `GenericMap` and the raw entry |
| `TombTable` | the two tombstone engines (`batched` TRUE: InPlaceOverflow and Tomb, FALSE: IPO64) |
| `OptiMap` | policies, hints, all calls of `OptiMap` and the transition between backends; refines `SortedMapSpec` |
| `FlatBTree` | the B+ tree: arena, splits, repairs, the leaf chain, ranges, retain, bulk loading, dropping; refines `MapSpec` |
| `BTreeSurgery` | extends `FlatBTree` by a second tree: `split_off` in both directions and by rebuilding, `append` in its variants, `clone`; refines `MapPairSpec` |
| `PerfectUtil` | what the perfect-hash builders share: seeds, `bucket_of`, `has_duplicate`, the number of buckets |
| `ChdBuild` | `ChdPhf::build`: the seed search, sequential and parallel with cancellation, and `index` |
| `BucketedBuild` | `BucketedPhf::build` and `MultilevelBucketedPhf::build`, whose level 1 is the former |
| `PerfectMaps` | the eight containers on top of the three builders: construction, lookup, iteration, drop |
| `SetAlgebra` | the set algebra of `GenericSet` and `OptiSet`, on iterations |
| `FlatSet` | `UnorderedFlatSet` and its own table, with panics of client code; refines `SetSpec` |
| `OverflowTableProofs`, `TombTableProofs`, `FlatSetProofs`, `OptiMapProofs`, `PerfectMapsProofs`, `FlatBTreeProofs` | the theorems about the module each is named after (`PerfectMapsProofs`: of the builders too) |
| `FlatBTreeArenaProofs`, `FlatBTreeRepairProofs` | the lemmas `FlatBTreeProofs` rests on: what each write to the arena keeps; the repairs and the searches |
| `MCOverflowTable`, `MCTombTable`, `MCOptiMap`, `MCFlatBTree`, `MCBTreeSurgery`, `MCPerfectMaps`, `MCFlatSet` | instances for TLC: keys and their hashes, policies, key sets, mixers |

### State and actions

A slot is a pair (group, index). `slot[s]` is EMPTY, an entry, or (in `TombTable`) TOMB.
`ofw[g]` is the set of channels whose overflow bit is set: eight with `ByteSeparate` and
the embedded overflow byte, one with `BitSeparate`; `NumChannels` is the parameter. `groups` is `mask + 1`.
`ctrl` says whether the table points at the heap or at the static sentinel, because the code
asks `max_load` instead and the two can differ. `ret` is the answer of the last call.

An action is a whole call, from `GenericMap` down: `Insert` is `insert_or_replace` with its
home-group fast path, its full probe and its rehash at the load limit; `TryInsert` is
`entry(k)` and then `VacantEntry::insert`, with the located slot or without; `RawInsert` is
the raw entry's unchecked insert; `Remove` is `remove_by_hash` and `erase_slot`, anti-drift
included. Two calls are split into steps because their intermediate states matter: a rehash
moves one entry per step (`RehashStep`, `RehashDone`, and in `TombTable` `InsertPending`
for the insert that caused it), and `retain` visits one position per step. `pc` keeps every other
call out meanwhile, as `&mut self` does. In `OverflowTable` a call that starts a
lookup which cannot end goes to `pc = "spin"`. In `TombTable` the variable `batched` says which of the two
engines the table is of; it never changes.

`OptiMap` takes a backend for its contents `dict`, the capacity it reports and `lost`, what
removals have taken from its load limit (tombstones, or anti-drift); the two engine modules
have the details. An insert into a tree may allocate any number of nodes the code could
(0 to `MaxNewNodes`), because `capacity()` of a tree counts nodes. A transition moves one entry per
step (`StartMove`, `MoveStep`, `MoveDone`). `Contents`, the backend plus the entries still to be moved, is what
the client sees, and what is compared with `SortedMapSpec`, whose `sorted` is `MadeSorted`: the map was made by
`flat_btree` or `from_sorted_iter`, or its policy knows only the tree. The sorted calls of a map whose backend is not a
tree answer `"panic"`, which the specification allows only while `sorted` is FALSE. `append` asks both maps: a map to append (`Others`) has a
backend of its own, and if that is no tree a map made to be sorted answers `"other_panic"` (`AppendPanics`), which the
specification allows for an append of a map that was not made to be sorted, and for nothing else (`RefuseOther`). `split_off` goes on with either half.

`FlatBTree` has the whole `RawBTree` in one record, `tree`: the nodes in use, the free list, the
high-water mark, root, both ends of the chain, `len` and `height`. A helper takes a tree and returns a tree; the
actions are the calls. Work that moves from level to level is one step per level: a split going
up (`PropagateSplit` along the recorded path after `insert`, `PropagateSplitLazy` along the parent
indices after an entry insert), the repair of an underfull node (`RebalanceLeaf`, `RebalanceInternal`) and
the levels of `bulk_load`. `retain` visits one entry per step. `job` has the local variables of the
call under way, and `pc` what it does next. `undropped` holds the keys that the last step gave up with the nodes they lay in
and that nothing drops. `pc = "underflow"` is the end of a program
whose repair computed `child_pos - 1` from 0. The searches by linear scan and by bisection are one definition,
and what a key's size decides (`LEAF_CAP`, `INTERNAL_CAP`) is a constant. `SortedFree` keeps the free list
sorted instead of last-in first-out: node indices are only names, and this has fewer states.

`BTreeSurgery` adds `other`, a second tree with an arena of its own. A `split_off` is one step for the boundary leaf
(`BeginRight`, `BeginLeft`), one per level of the spine (`CutLevel`) and one that collapses the cut edge and
finishes both trees; `job` holds the two arenas on the way. Which side is copied is decided by
`EstimateRight`, which counts like `estimate_right_fraction`. Cloned and moved
subtrees are copied as the code does it: preorder allocation in the target, postorder freeing in the source.
A separator that is read from slot 0 of a leaf which `retain` has emptied is any key. A descent in a tree whose
leaves are not all at depth `height` is undefined (`DescendUneven`), and no other call that descends is modelled on such a tree.

`ChdBuild` has one record per seed in `attempt`. An attempt takes the buckets by size, those of equal size in any
order (the code sorts unstably), and tries one displacement per step; in parallel, up to `Threads` attempts interleave, the flag
is read every `CheckEvery` displacements, and what rayon's `find_map_any` does with the results is modelled from its
use and marked external. `PerfectMaps` writes one entry per step and remembers which slots were written, so that a lookup,
an iteration or a destructor that touches unwritten memory shows.

`FlatSet` has a table as a record, one for the set, one for the second operand of the set
algebra. The second set is collected from an iterator whose size hint is anything up to its length (`FromIter`; `with_capacity` first,
then one insert after the other, with the rehashes they need), and elements may be taken out of it (`TakeOther`). Calls are atomic except the loops that call client code: a rehash moves one element per step and a `retain`
visits one slot per step, and at each of them the client may panic (`PanicInInsert`, `PanicInRehash`,
`PanicInRetain`), catch the panic and go on using the set. The drain iterator has the slots of the table it took and
frees them one by one, like `SetIntoIter`.

Left out: the tag byte (a function of the hash: a mismatch only skips keys the equality test
rejects; `PerfectMaps` keeps it, because there it also says which slots are in use), prefetching, SIMD variants of the same search, addresses, and,
outside `FlatSet`, panics of client code. Reads such as `iter` change nothing.

Because the probe sequence visits all groups in `groups` probes, "the loop never ends" is
"`groups` probes did not end it": `FindNeverEnds`.

## Runs

In the runs of the hash tables (`ovf_*`, `tomb`, `flat_set`) groups have 2 slots (the least for which the load arithmetic makes sense: with 1, a table
of one group would have `max_load` 0) and there are 1, 2 or 4 of them. Then 2 groups have
load limit 3 and 4 groups limit 7; three keys of one home group are displaced, fill neighbours,
and force doubling, same-size rebuilding and shrinking. `GroupCounts` stops the growth:
a call that would need eight groups is disabled. Hash tables of four or five keys are chosen so that keys collide in
2 groups and part in 4. `MaskBits` is 8 in the code, and groups beyond the eighth on a path are not recorded in `full_mask`; it is
0 in `ovf_map`, so that no full group is recorded and the entry insert marks none, which with 1 (the other two `ovf_*` runs) would take three groups on a path. `ReserveArgs` are 1 and 3: within and beyond
the present array (`flat_set`: 3 only).

| Run | Checks | Result |
|---|---|---|
| `ovf_bit` | one channel, AND indexing, 5 keys: `TypeOK`, `InsertEnds`, `LoadWithinLimit`, `DriftAccounted`, `LookupsEnd` | hold |
| `ovf_map` | two channels, shift indexing, 5 keys: `NoLostEntry`, `UniqueKeys`, `UnallocatedIsEmpty`, `ImplementsMap` (refinement of `MapSpec`), `CallsReturn` (liveness) | hold |
| `ovf_miss_ends` | two channels: `LookupsEnd` | violated, see below |
| `tomb` | both engines, AND indexing, 4 keys, one with two values: `TypeOK`, `NoLostEntry`, `LookupsEnd`, `CountersExact`, `ImplementsMap`, `CallsReturn` | hold |
| `opti_map` | 3 keys, 6 policies, 2 values: `TransitionHasRoom`, `ImplementsMap` (refinement of `SortedMapSpec`), `CallsReturn` | hold |
| `btree_shape` | 5 keys, insert, entry, both kinds of get, get_mut, remove, pop, clear: `RangeIsExact`, `EverythingDropped` (of clear), `ImplementsMap` | hold |
| `btree_retain` | 5 keys, with retain, shrink_to_fit and removal by scan: `WellLinked`, `EveryEntryFound`, `ArenaAccounted`, `ImplementsMap`, `WorkShrinks` | hold |
| `btree_lower_bound` | `LowerBoundIsExact` | violated, see below |
| `btree_surgery` | bulk loads of 4 to 19 keys, then two calls that change a tree: `BothLinked`, `BothGuided`, `BothAccounted`, `ImplementsPair` (refinement of `MapPairSpec`) | hold |
| `btree_uneven` | the same: `SpineIsHeight` | violated, see below |
| `perfect` | 67 inputs over 6 keys, 8 containers, sequential and parallel: `PhfIsPerfect`, `ExhaustedIsHonest`, `HoldsExactlyInput`, `ErrorsAreHonest`, `BuildEnds` (liveness) | hold |
| `flat_set` | two channels, shift indexing, 5 keys, a second set of two or three elements: `SoundAfterPanic`, `FlatAlgebraRight`, `GenericAlgebraRight`, `ImplementsSet` (refinement of `SetSpec`) | hold |

The `btree_*` runs have two entries to a leaf and two separators to an internal node, the least
the code admits for internal nodes. Five keys then make three levels, with borrows and merges of leaves and
of internal nodes, and collapses of the root. `OwnValue` gives neighbouring keys different values, `TwoValues` one key two values.
In `btree_surgery` the bulk loads have two, three and four levels, one of them (8 keys) with an internal node of a single child,
and two overlap with different values; the trees are cut at every key, with cutoff 0 (always to the left when there is a
choice) and with the code's 0.7, and appended when they are disjoint in either order, of equal or different height, and overlapping.
`MaxSurgeries` is 2: a cut of a tree that was cut or grafted, or a pop from one. Longer sequences would be
of the same calls on trees of these shapes. Deadlock is not checked there: the bound on calls and an undefined descent end a behaviour.

The `opti_map` run has three backends that differ in what matters to a transition: an overflow-bit table with
groups of 2, a tombstone table with groups of 4 and a tree with 2 entries per leaf. Capacities
up to 8 occur, and the bands of the policies lie at 0, 4 and 8: three keys cross all of them. The policies are
the documentation's example with a third band, a tree below a table, a first band above 0, no bands, and the hints `Sorted` and `Auto`.
`GroupCounts`, `MaxNodes` and `MaxNewNodes` are large enough for three keys after any transition. `Others` are
the maps to append, to compare with and to build from: trees made to be sorted, a tree that a policy happens to have chosen, and a hash table.

The `perfect` run has every subset of six keys in order, some other orders and an input with a key twice. Two keys share
a hash, and tags repeat. Buckets have 2 slots, there are 3 seeds and displacements 0 to 3 (`MaxSeeds`, `MaxDisp`), and the mixers are
small polynomials chosen so that first-seed success, later-seed success, exhaustion, overflow to level 1 and failure in level
1 all occur. Deadlock is not checked: a container that was dropped is the end.

In `flat_set` the hashes are such that either group can be filled by keys of one channel and then displace one of the other, so the
state in which a miss never ends is reached; that lookup is the end of the program, and deadlock is not
checked. The second set has an element displaced behind an overflow bit when it was grown or made for one or two groups, and `OtherTaken` names the element whose removal lowers its limit.

Fairness. `OverflowTable`, `TombTable`, `OptiMap`: weak fairness of `LoopStep` only. A call that has begun is sequential code that
runs on; nothing obliges a client to make a call. The `Spin` step is deliberately outside: a spinning
lookup never comes back, and `CallsReturn` does not claim it. `PerfectMaps`: weak fairness of the construction's steps as a whole,
which is what one runnable worker of a thread pool gives; no fairness among workers is assumed. `FlatBTree` needs no fairness: that its
calls come back is stated as a measure that every step lowers (`WorkShrinks`), together with the absence of deadlock. `BTreeSurgery` and
`FlatSet` state safety only.

Each property has a mutant of the model, the change a plausible bug in that code
would make, under which TLC finds it violated. The mutants stand next to the definitions they
replace.

### What the violations show

- **A miss may never end** (`ovf_miss_ends`). Overflow bits are not cleared by removals.
  Anti-drift lowers `max_load` only if the removed key's *own* channel bit is set in its home
  group, so with several channels the keys that filled a group can be removed for free after one key
  of channel c was displaced past it. Repeating this in every group sets channel c's bit everywhere; the
  lookup of an absent key of that channel then probes forever. It takes no more than two groups, and does not
  depend on the group size: fill group 0 with keys of other channels, displace one of channel c,
  remove them, do the same with group 1. With one channel this cannot happen, and that is a theorem.
- **`lower_bound` stops at an empty leaf** (`btree_lower_bound`). It looks at one leaf behind the one the
  descent ends in. `retain` leaves emptied leaves in the chain, so larger keys behind one are not seen: a range that starts
  there is empty, and a range that ends there runs to the end of the map. Without `retain`,
  `btree_shape` shows ranges exact.
- **A cut tree may be uneven** (`btree_uneven`). `collapse_along_edge` replaces a node of the cut edge that is left with one
  child by that child. At the root this lowers the tree; further down it brings the leaves at the cut nearer to the root
  than all others. `height` is then the depth along the leftmost edge, and every descent that counts `height` steps
  goes wrong elsewhere. Three levels suffice. The next `split_off` asserts that the spine has `height` nodes (`raw.rs:2812`).
  What the two trees contain, and their chains, arenas and separators, are right nevertheless: `btree_surgery`.

Further disagreements met while modelling. Each is a definition in its module that TLC refutes within seconds when it is
added to a configuration of that module; no run is kept for them.

- `NoLeak` (`OverflowTable`): inserting and removing a key whose home group has its bit set costs 1 of `max_load` each
  time. At 0 the table counts as unallocated, although `ctrl` points at its array: `Drop`, `clone`, `reserve` and the
  next insert forget it.
- `NoUnderflow` (`FlatBTree`, with bulk loads in `FromSets` and pops): the last node of a bulk-loaded level gets what
  remains, which may be one child. If that child becomes underfull it has no sibling, and the repair computes
  `child_pos - 1` with `child_pos = 0`. For `u64` keys and values 316 entries make such a tree.
- `DriftOnlyIfDisplaced` (`OverflowTable`): anti-drift does not ask for displacement, although
  `docs/src/designs/unordered_flat_map.md:84` says so. The proof of `LookupsTerminate` needs the code's rule, so
  it is the document that is wrong.
- `ReserveMakesRoom` (`TombTable`): `reserve` ignores tombstones, so the next insert may still have to rehash.
- `EveryGrowReevaluated` (`OptiMap`): `try_insert` and `entry` grow the backend and do not consult the policy; `reserve`
  asks it for a number of entries, and the table it gets may have more slots than the band of its backend admits.
- `DefaultIsSplitsies` (`OptiMap`): a policy without a band at or below the capacity selects its first band,
  unless it is empty (comment at `optimap.rs:426`).
- `EverythingDropped` (`FlatBTree`) with `"shrink_to_fit"` among the calls: `IntoIter` sets `root` to `NO_NODE` before the
  tree is dropped, the drop returns early when there is no root, and the separator keys leak (comment at `flat_btree/map.rs:1466`).
- `RangeStaysWithin` (`FlatBTree`): a range whose start lies behind its end runs to the end of the map, unless both
  positions are in one leaf.

Others are in the code that is modelled but are not stated as definitions:

- `chd.rs:328` says that ties between buckets are "broken by bucket id for determinism"; the sort is unstable and compares sizes
  only. `PhfIsPerfect` is checked for every order.
- `PerfectMapUnchecked::get_unchecked` on an empty map reads slot 0 of an empty array (`perfect/mod.rs:516-529`).
- `append_graft_disjoint` reads its separator from slot 0 of the other tree's first leaf; after a `retain` that leaf may be empty.
- `clone` copies an arena without zeroing the nodes above the high-water mark, `clear` resets the mark without zeroing; `alloc_node` says "The node
  is zeroed". Every caller writes what it later reads.
- The results of `OptiSet`'s algebra have the `Auto` policy: a union of sorted sets is not a sorted set.

## Proofs

TLAPS proves the following for every value of the constants: any set of keys, hash function or mixer, any number of
channels, seeds, threads and policies. Assumed of the constants (named `ASSUME`s, which TLC evaluates in every run): hashes and mixers
yield natural numbers; groups have at least two slots; `GroupCounts` contains 1, and the first m triangular probes reach all m
groups (true of powers of two); a bucket's average load is below its number of slots; a tag is not 0; sentinels are
not entries or values; a map that is appended or compared is finite.

| Module | Theorem | Statement |
|---|---|---|
| `OverflowTable` | `TypeCorrect`, `EntriesFindable`, `KeysUnique` | `Spec` implies `[]TypeOK`, `[]NoLostEntry`, `[]UniqueKeys` |
| | `LoadBounded`, `InsertTerminates` | `[]LoadWithinLimit`, `[]InsertEnds` |
| | `LookupsTerminate`, `DriftBounded` | with `NumChannels = 1`: `[]LookupsEnd`, `[]DriftAccounted` |
| | `UnallocatedHoldsNothing` | `[]UnallocatedIsEmpty` |
| | `RefinesMap` | `Spec => ImplementsMap`, the refinement of `MapSpec` |
| `TombTable` | `TypeCorrect`, `EntriesFindable`, `CountersAreExact`, `LookupsTerminate` | `[]TypeOK`, `[]NoLostEntry`, `[]CountersExact`, `[]LookupsEnd` |
| | `RefinesMap` | `Spec => ImplementsMap` |
| `OptiMap` | `TransitionsFit` | `[]TransitionHasRoom` |
| | `RefinesMap` | `Spec => ImplementsMap`, the refinement of `SortedMapSpec` |
| `FlatSet` | `StaysSound` | `[]SoundAfterPanic` |
| | `RefinesSet` | `Spec => ImplementsSet`, the refinement of `SetSpec` |
| `FlatBTree` | `TreeAlwaysRight` | `[]TreeRight`, the inductive invariant |
| | `ArenaIsAccounted`, `TreeIsLinked`, `EntriesAreFound` | `[]ArenaAccounted`, `[]WellLinked`, `[]EveryEntryFound` |
| | `NothingUndropped` | without `"shrink_to_fit"` in `Calls`: `[]EverythingDropped` |
| | `RefinesMap` | without `"from_iter"` in `Calls`: `Spec => ImplementsMap`, the refinement of `MapSpec` |
| `PerfectMaps` | `FinishedChdIsPerfect`, `CancellationIsHonest` | `[]PhfIsPerfect`, `[]ExhaustedIsHonest` |
| | `HonestErrors`, `ContainersHoldInput`, `NoUnwrapPanics` | `[]ErrorsAreHonest`, `[]HoldsExactlyInput`, no construction panics |

Each rests on a theorem that an inductive invariant holds (`IndInvHolds`; in `PerfectMaps`, `ChdInvHolds` and `MapsInvHolds`; in `FlatBTree`,
`TreeAlwaysRight`), with one lemma per action. The invariants are definitions of the modules themselves, so that TLC can check them; only
`TreeRight`, which says that levels and ranges *exist*, is not.

**Overflow bits** (`OverflowTable`). `NoLostEntry` is not inductive: it speaks of lookups, which stop
early at a match. `PathMarked` is what the code really maintains: every group before an entry's own on
its key's path carries the key's bit. Removals keep it because they clear no
bit; inserts because a group is passed only when it is full, and then marked (`insert_no_check`),
or when its bit was set already (the entry probe: it goes on only past groups that carry the key's bit, so it does not matter
which of them the truncated `full_mask` names). A miss then means absence (`MissMeansAbsent`), which gives `UniqueKeys`.
`LoadWithinLimit` counts entries stored, still to be moved, and waiting: a rehash in progress keeps
enough room for all of them, so that `insert_no_check` always finds a free slot; and a limit that has drifted to 0, at
which the code forgets the array, leaves no entry in it (`UnallocatedIsEmpty`). For one channel,
`DriftAccounted` bounds the free slots behind a set bit by the decrements of `max_load`: a removal that frees such a slot
pays for it. If all bits were set, all free slots would be paid for, and `len <= max_load` leaves
at least an eighth that is not.

**Tombstones** (`TombTable`). `NoLostEntry` is inductive together with `UniqueKeys` because a slot that was EMPTY never becomes so
again before a rebuild: removals write TOMB, and an insert takes a tombstone on the path, the first EMPTY slot of the group where the path ends, or one in the home group. What
needs strengthening is the counting. `Accounting` says that EMPTY slots, `growth_left` and the entries moved by a batched rehash
(which leaves `growth_left` alone until its end) add up, and that `growth_left` covers everything still to be placed: hence no decrement
wraps, and at least an eighth of the slots is EMPTY, which ends every lookup. A rebuild at the same size frees
enough because it is chosen only when `len < max_load`, so that the entries and the one that waits fit under the limit.

**The engines are dictionaries.** The dictionary of a state is that of the entries stored and still to be moved
(`Dict`). A rehash step moves an entry between the two and leaves the dictionary as it is; the lemma `DictOneKey` turns
"the entries differ in one key only" into "the dictionary changes at that key only", which is every other case.

**OptiMap.** `Room`: what a hash table holds, what a transition still has to bring and what removals have cost it fit under its load
limit, which is why no insert of a transition has to grow the table, whether `transition_to` was given slots or entries. `Phases`: an entry
waits only during a move and is never in both backends; a map made to be sorted is a tree at every step of every call. The refinement
follows the entries through `Contents`.

**UnorderedFlatSet.** A table is a value, so that the lemmas about `Put` and `Erase` are about any table with `TableInv` (typed, no
element twice, paths marked, `len` exact, `max_load` not above 7/8). The table is in order at *every* step of a rehash, not only at its end:
the new table satisfies `TableInv` from the first element on, and the limit covers what it has still to take in. A panic therefore may stop a rehash
anywhere, and the elements not yet moved are all that is lost (`PanicInRehashInv`, `PanicsSim`).

**Perfect hashing.** `ChdInv`: in an attempt that may still win, the hashes of the buckets taken off the list have addresses of their own
among the occupied slots (`Sane`), whatever the order of ties; and the flag is up only on behalf of an attempt that
succeeded (`Handed`), so a stopped attempt never counts as an exhausted seed. `OneOf` and `TwoOf`: the counters of a bucketed build count
the keys dealt under the present seed, every earlier seed overflowed a bucket, and the renumbered keys of level 1 are those whose level-0 bucket overflowed.
`MapsInv` adds what the container has written: an entry's slot holds it with its tag, and every other slot has neither.

**FlatBTree.** The properties speak of the chain, of paths and of reachable nodes, which are recursive functions over the arena; the invariant
speaks of single nodes. It says that there is a ghost `g` which gives every node a level and a range of keys (`TreeInv`), such that: the arena and its free
list are in order (`Arena`); a kid is one level below its parent, which its parent index names, and no node has two parents; the kids' ranges tile
the range of their parent, cut at its separators, and the keys of a leaf ascend and lie in its range; the next leaf's range starts where a leaf's
range ends; `len` is the number of keys in leaves. Such a statement is preserved by a write that touches a few nodes, because the ghost can be changed at those
nodes too: this is `FlatBTreeArenaProofs`, a lemma for each kind of write (`EnterInv`, `LeafCutInv`, `InnerCutInv`, `NewRootInv`, `LeafJoinInv`, `InnerJoinInv`,
`LeafShiftInv`, `InnerShiftInv`). `TreeOK` says what the tree is at each `pc`: whole between calls; with a node that need not have its minimum during a
repair (the invariant asks for no minimum, because `retain` and `bulk_load` leave none); during a split cascade with one node that is in the arena, has a level and a
range, and is not yet under a parent (`SplittingG`); in a bulk load a row of finished subtrees without a root (`LoadingG`). What the recursive functions
yield follows then: a descent goes down one level per step and ends in the leaf whose range has the key; the chain goes through leaves whose ranges
tile all keys, and so does the row of leaves under the root, hence they are the same sequence. TLAPS can neither instantiate an induction theorem nor evaluate a
recursive function, so both are done by hand: induction as the least counterexample (`MinOfNats`), and the existence of a function defined by
recursion on levels by the construction of its approximations (`RecursionExists`). For the refinement, `Change` says of every step which entry
it may change, and `MapStep` that this is a step of the dictionary. The two hypotheses are what the code needs: `shrink_to_fit` leaves separators undropped (see above), and
`from_iter` makes another map, for which `MapSpec` has no action.

Only model-checked, and why:

- liveness (`CallsReturn`, `BuildEnds`): the prover has no fairness;
- `RangeIsExact` and `WorkShrinks` of `FlatBTree`: the positions of a range and the measure of the work left are not part of the invariant;
- two trees (`BTreeSurgery`): a cut spine is a tree whose levels are no longer even, for which the ghost would have to be another one;
- the set algebra (`FlatAlgebraRight`, `GenericAlgebraRight`): folds over sequences of any length, for which the induction has not been done by hand. For the same reason
  the second operand, collected by `FromIter` in one fold, occurs in no theorem.

## Not modelled, and the plan

Next:

1. `BTreeSurgery`: an invariant over two arenas with a depth of its own for every leaf, as `split_off` leaves them, and from it
   `BothLinked`, `BothGuided` and `BothAccounted`.
2. `RangeIsExact` for trees without emptied leaves, from `ChainTiles`.

Not modelled: SIMD intrinsics, bit masks and pointer layout (the models start from "which slots
match"); hash functions and mixers (arbitrary functions here); panics of `Drop` and `Clone`, whose
consequences are double drops of memory the models do not have; `BuildProfile` (timings); the forwarding impls of the traits for library types;
`append_extend`, a doc-hidden loop of inserts; `UnorderedFlatSet`'s unused twins of modelled functions (`insert_with_rehash`, `remove` in
`raw/mod.rs`); benches, examples, fuzz targets and scripts.
