----------------------------- MODULE GroupProbe -----------------------------
(***************************************************************************)
(* What every hash-table engine of the crate shares: how a hash picks a    *)
(* home group, in which order the groups are probed, and how capacity and  *)
(* load are computed.  A table has a power-of-two number of groups of      *)
(* GroupSize slots; a slot is a pair <<group, index in the group>>.        *)
(*                                                                         *)
(* The tag byte a slot's metadata holds is not part of the model: a tag    *)
(* is a function of the hash, so a tag mismatch only skips keys that the   *)
(* equality test would reject as well.                                     *)
(***************************************************************************)
EXTENDS Integers, FiniteSets

CONSTANTS
    Key,         \* the keys clients use
    Hash,        \* Hash[k]: the hash of k, below HashSpace
    HashSpace,   \* the number of hash values: 2^64 in the code
    IndexHigh,   \* TRUE: HashRegion::High (shift), FALSE: HashRegion::Low (AND)
    GroupSize,   \* slots per group: 15, 16, 31, 32, 63 or 64 in the code
    GroupCounts  \* bound: the powers of two the number of groups may reach

\* Triangular numbers: the sum of the probe increments 1, 2, ..., p.
Tri(p) == (p * (p + 1)) \div 2

ASSUME HashAssumption == Hash \in [Key -> Nat]

\* Two slots at least: with one, a group of one would have max_load 0.
ASSUME GroupSizeAssumption == GroupSize \in Nat /\ GroupSize >= 2

ASSUME GroupCountsAssumption ==
    /\ GroupCounts \subseteq Nat \ {0}
    /\ 1 \in GroupCounts

ASSUME RegionAssumption ==
    /\ IndexHigh \in BOOLEAN
    /\ HashSpace \in Nat
    /\ \A m \in GroupCounts : m <= HashSpace

\* For a power of two m, the first m triangular probes reach all m groups.
ASSUME ProbeCoversAssumption ==
    \A m \in GroupCounts : \A h, g \in 0 .. m - 1 :
        \E p \in 0 .. m - 1 : (h + Tri(p)) % m = g

-----------------------------------------------------------------------------
\* group_index: the high bits (h >> shift with shift = 64 - log2 m) or the
\* low bits of the hash, masked.
GroupIndex(k, m) ==
    IF IndexHigh THEN (Hash[k] \div (HashSpace \div m)) % m ELSE Hash[k] % m

\* The group of probe p (0 is the home group): gi := (gi + probe) & mask.
Probe(k, m, p) == (GroupIndex(k, m) + Tri(p)) % m

SlotIdx == 0 .. GroupSize - 1
Slots(m) == (0 .. m - 1) \X SlotIdx

\* Slot order of an iteration: by group, then by slot.
Before(s, t) == s[1] < t[1] \/ (s[1] = t[1] /\ s[2] <= t[2])

Capacity(m) == m * GroupSize

\* Mutant: no headroom.
MaxLoadFull(m) == Capacity(m)

\* max_load_for_capacity: 7/8 of the slots, rounded down.
MaxLoadFor(m) == (Capacity(m) * 7) \div 8

\* groups_for_capacity(c) = m: the least power of two whose slots hold
\* ceil(8c/7) entries.
MinSlots(c) == (c * 8 + 6) \div 7
GroupsFor(c, m) ==
    /\ m \in GroupCounts
    /\ Capacity(m) >= MinSlots(c)
    /\ \A j \in GroupCounts : Capacity(j) >= MinSlots(c) => m <= j

-----------------------------------------------------------------------------
\* What a set E of entries with different keys means to a client of a map:
\* the value stored for each key, or none.
DictOf(E, none) == [k \in Key |->
    IF \E e \in E : e.key = k THEN (CHOOSE e \in E : e.key = k).val ELSE none]
=============================================================================
