--------------------------- MODULE TombTableProofs ---------------------------
(***************************************************************************)
(* Proofs about TombTable, for every set of keys, every hash function,     *)
(* every group size and every bound on the number of groups, with either   *)
(* way of counting in a rehash.                                            *)
(***************************************************************************)
EXTENDS TombTable, FiniteSetTheorems, TLAPS

(***************************************************************************)
(* Probing, slots and capacities                                           *)
(***************************************************************************)
\* A remainder is below its divisor.
LEMMA ModRange ==
    ASSUME NEW a \in Nat, NEW m \in Nat \ {0}
    PROVE  a % m \in 0 .. m - 1
OBVIOUS

\* The offset of every probe is a natural number.
LEMMA TriNat == \A p \in Nat : Tri(p) \in Nat
<1> TAKE p \in Nat
<1>1. p * (p + 1) \in Nat
  OBVIOUS
<1>2. \A x \in Nat : x \div 2 \in Nat
  OBVIOUS
<1> QED BY <1>1, <1>2 DEF Tri

\* group_index and every probe stay inside the table.
LEMMA GroupIndexRange ==
    ASSUME NEW k \in Key, NEW m \in GroupCounts
    PROVE  GroupIndex(k, m) \in 0 .. m - 1
<1>1. Hash[k] \in Nat /\ m \in Nat \ {0}
  BY HashAssumption, GroupCountsAssumption
<1>2. CASE IndexHigh
  <2> DEFINE w == HashSpace \div m
  <2>1. w \in Nat \ {0}
    <3>1. HashSpace \in Nat /\ m <= HashSpace
      BY RegionAssumption
    <3> QED BY <1>1, <3>1
  <2>2. Hash[k] \div w \in Nat
    <3> HIDE DEF w
    <3> QED BY <1>1, <2>1
  <2> QED BY <1>1, <1>2, <2>2, ModRange DEF GroupIndex
<1>3. CASE ~IndexHigh
  BY <1>1, <1>3, ModRange DEF GroupIndex
<1> QED BY <1>2, <1>3

\* gi = (gi + probe) & mask: every probe is a group of the table.
LEMMA ProbeRange ==
    ASSUME NEW k \in Key, NEW m \in GroupCounts, NEW p \in Nat
    PROVE  Probe(k, m, p) \in 0 .. m - 1
<1>1. m \in Nat \ {0}
  BY GroupCountsAssumption
<1>2. GroupIndex(k, m) + Tri(p) \in Nat
  BY <1>1, GroupIndexRange, TriNat
<1> QED BY <1>1, <1>2, ModRange DEF Probe

\* Probe 0 is the home group.
LEMMA ProbeZero ==
    ASSUME NEW k \in Key, NEW m \in GroupCounts
    PROVE  Probe(k, m, 0) = GroupIndex(k, m)
<1>1. m \in Nat \ {0}
  BY GroupCountsAssumption
<1>2. Tri(0) = 0
  BY DEF Tri
<1>3. \A g \in 0 .. m - 1 : g % m = g
  BY <1>1
<1> QED BY <1>1, <1>2, <1>3, GroupIndexRange DEF Probe

\* A table has Capacity(m) slots.
LEMMA SlotsCount ==
    ASSUME NEW m \in GroupCounts
    PROVE  IsFiniteSet(Slots(m)) /\ Cardinality(Slots(m)) = Capacity(m)
<1>1. m \in Nat \ {0} /\ GroupSize \in Nat \ {0}
  BY GroupCountsAssumption, GroupSizeAssumption
<1>2. IsFiniteSet(0 .. m - 1) /\ Cardinality(0 .. m - 1) = m
  BY <1>1, FS_Interval
<1>3. IsFiniteSet(SlotIdx) /\ Cardinality(SlotIdx) = GroupSize
  BY <1>1, FS_Interval DEF SlotIdx
<1> QED BY <1>2, <1>3, FS_Product DEF Slots, Capacity

\* The load limit leaves a slot free and is at least one; doubling raises it;
\* groups_for_capacity(c) has a load limit of at least c.
LEMMA LoadLimits ==
    ASSUME NEW m \in GroupCounts
    PROVE  /\ MaxLoadFor(m) \in Nat
           /\ Capacity(m) \in Nat
           /\ MaxLoadFor(m) < Capacity(m)
           /\ 1 <= MaxLoadFor(m)
           /\ MaxLoadFor(m) + 1 <= MaxLoadFor(2 * m)
           /\ \A c \in Nat : GroupsFor(c, m) => c <= MaxLoadFor(m)
<1>1. m \in Nat \ {0} /\ GroupSize \in Nat /\ GroupSize >= 2
  BY GroupCountsAssumption, GroupSizeAssumption
<1> DEFINE c1 == Capacity(m)
<1>2. c1 \in Nat /\ c1 >= 2
  BY <1>1 DEF Capacity
<1>3. Capacity(2 * m) = 2 * c1
  BY <1>1 DEF Capacity
<1> HIDE DEF c1
<1>4. (c1 * 7) \div 8 \in Nat /\ (c1 * 7) \div 8 < c1 /\ 1 <= (c1 * 7) \div 8
  BY <1>2
<1>5. (c1 * 7) \div 8 + 1 <= (2 * c1 * 7) \div 8
  BY <1>2
<1>6. \A c \in Nat : c1 >= (c * 8 + 6) \div 7 => c <= (c1 * 7) \div 8
  BY <1>2
<1> QED BY <1>2, <1>3, <1>4, <1>5, <1>6 DEF MaxLoadFor, GroupsFor, MinSlots, c1

\* A slot is the pair of its coordinates.
LEMMA SlotPair ==
    ASSUME NEW m, NEW s \in Slots(m)
    PROVE  s = <<s[1], s[2]>> /\ s[1] \in 0 .. m - 1 /\ s[2] \in SlotIdx
BY DEF Slots

\* A group index and a slot index in range name a slot.
LEMMA SlotMake ==
    ASSUME NEW m, NEW g \in 0 .. m - 1, NEW j \in SlotIdx
    PROVE  <<g, j>> \in Slots(m) /\ <<g, j>>[1] = g /\ <<g, j>>[2] = j
BY DEF Slots

-----------------------------------------------------------------------------
(***************************************************************************)
(* Dictionaries                                                            *)
(***************************************************************************)
\* The dictionary of a set of entries in which no key occurs twice.
DifferentKeys(E) == \A d, e \in E : d.key = e.key => d = e

\* A stored key has the value of its entry, any other key none.
LEMMA DictAt ==
    ASSUME NEW E, NEW none, DifferentKeys(E)
    PROVE  /\ \A e \in E : e.key \in Key => DictOf(E, none)[e.key] = e.val
           /\ \A k \in Key : (\A e \in E : e.key # k) => DictOf(E, none)[k] = none
<1>1. ASSUME NEW e \in E PROVE (CHOOSE d \in E : d.key = e.key) = e
  BY DEF DifferentKeys
<1> QED BY <1>1 DEF DictOf

\* E and F have the same entries for every key but k.
SameElsewhere(E, F, k) == {e \in E : e.key # k} = {e \in F : e.key # k}

\* The value of k in F is x.
Holds(F, k, x, none) ==
    (\E e \in F : e.key = k /\ e.val = x) \/ (x = none /\ \A e \in F : e.key # k)

\* Dictionary D with x for k.
Update(D, k, x) == [D EXCEPT ![k] = x]

\* Two sets of entries stand for dictionaries that differ in key k at most.
LEMMA DictOneKey ==
    ASSUME NEW E, NEW F, NEW none, NEW k \in Key, NEW x,
           DifferentKeys(E), DifferentKeys(F),
           SameElsewhere(E, F, k), Holds(F, k, x, none)
    PROVE  DictOf(F, none) = Update(DictOf(E, none), k, x)
<1> DEFINE D == DictOf(E, none)
<1>1. DictOf(F, none)[k] = x
  BY DictAt DEF Holds
<1>2. ASSUME NEW h \in Key, h # k PROVE DictOf(F, none)[h] = D[h]
  <2>1. CASE \E e \in E : e.key = h
    <3>1. PICK e \in E : e.key = h
      BY <2>1
    <3>2. e \in F
      BY <3>1, <1>2 DEF SameElsewhere
    <3> QED BY <3>1, <3>2, DictAt
  <2>2. CASE \A e \in E : e.key # h
    <3>1. \A e \in F : e.key # h
      BY <2>2, <1>2 DEF SameElsewhere
    <3> QED BY <2>2, <3>1, DictAt
  <2> QED BY <2>1, <2>2
<1>3. DictOf(F, none) = [h \in Key |-> DictOf(F, none)[h]] /\ D = [h \in Key |-> D[h]]
  BY DEF DictOf
<1>4. ASSUME NEW A, NEW B, A = [h \in Key |-> A[h]], B = [h \in Key |-> B[h]],
             A[k] = x, \A h \in Key : h # k => A[h] = B[h]
      PROVE  A = [B EXCEPT ![k] = x]
  BY <1>4
<1> QED BY <1>1, <1>2, <1>3, <1>4 DEF Update

-----------------------------------------------------------------------------

\* The part of the inductive invariant that is about the array alone.
ArrayInv ==
    /\ groups \in GroupCounts
    /\ slot \in [Slots(groups) -> Entry \cup {EMPTY, TOMB}]
    /\ \A s, t \in Occupied(slot) : slot[s].key = slot[t].key => s = t
    /\ NoLostEntry

Absent(k) == \A s \in Occupied(slot) : slot[s].key # k
Free == {s \in Slots(groups) : slot[s] = EMPTY}

\* A lookup of k gets as far as the group of slot s.
OnPath(k, s) == \E p \in 0 .. groups - 1 :
    /\ Probe(k, groups, p) = s[1]
    /\ \A q \in 0 .. p - 1 :
         ~Has(EMPTY, Probe(k, groups, q)) /\ Probe(k, groups, q) # s[1]

\* A step that writes an entry into the free slot s.
Writes(k, v, s) ==
    /\ slot[s] \in {EMPTY, TOMB}
    /\ slot' = [slot EXCEPT ![s] = [key |-> k, val |-> v]]
    /\ groups' = groups

\* A step after which the array has one more entry and every other as before.
Gains(k, v) == \E s \in Slots(groups) :
    /\ s \notin Occupied(slot)
    /\ Occupied(slot)' = Occupied(slot) \cup {s}
    /\ slot'[s] = [key |-> k, val |-> v]
    /\ \A t \in Occupied(slot) : slot'[t] = slot[t]

\* A step after which the array has one entry.
Single(k, v) == \E s : Occupied(slot)' = {s} /\ slot'[s] = [key |-> k, val |-> v]

\* The occupied slots are a finite set.
LEMMA OccupiedFinite ==
    ASSUME NEW m \in GroupCounts, NEW f, DOMAIN f = Slots(m)
    PROVE  IsFiniteSet(Occupied(f)) /\ Cardinality(Occupied(f)) \in Nat
<1>1. Occupied(f) \in SUBSET Slots(m)
  BY DEF Occupied
<1> QED BY <1>1, SlotsCount, FS_Subset, FS_CardinalityType

\* So are the EMPTY slots, which with the occupied ones are at most all slots.
LEMMA FreeCount ==
    ASSUME groups \in GroupCounts, DOMAIN slot = Slots(groups)
    PROVE  /\ IsFiniteSet(Free) /\ EmptyCount = Cardinality(Free) /\ EmptyCount \in Nat
           /\ EmptyCount + Cardinality(Occupied(slot)) <= Capacity(groups)
<1>1. Free \in SUBSET Slots(groups)
  BY DEF Free
<1>2. IsFiniteSet(Free) /\ EmptyCount = Cardinality(Free) /\ EmptyCount \in Nat
  BY <1>1, SlotsCount, FS_Subset, FS_CardinalityType DEF EmptyCount, Free
<1>3. IsFiniteSet(Occupied(slot)) /\ Cardinality(Occupied(slot)) \in Nat
  BY OccupiedFinite
<1>4. Free \cap Occupied(slot) = {} /\ Free \cup Occupied(slot) \subseteq Slots(groups)
  BY DEF Free, Occupied
<1>5. Cardinality(Free \cup Occupied(slot)) = Cardinality(Free) + Cardinality(Occupied(slot))
  <2>1. Cardinality(Free \cap Occupied(slot)) = 0
    BY <1>4, FS_EmptySet
  <2>2. Cardinality(Free \cup Occupied(slot))
          = Cardinality(Free) + Cardinality(Occupied(slot))
              - Cardinality(Free \cap Occupied(slot))
    BY <1>2, <1>3, FS_Union
  <2> QED BY <1>2, <1>3, <2>1, <2>2
<1>6. Cardinality(Free \cup Occupied(slot)) <= Cardinality(Slots(groups))
  BY <1>4, SlotsCount, FS_Subset
<1>7. Cardinality(Slots(groups)) = Capacity(groups)
  BY SlotsCount
<1> QED BY <1>2, <1>5, <1>6, <1>7

\* A lookup that gives up is right: the key is nowhere in the array.
LEMMA MissMeansAbsent ==
    ASSUME ArrayInv, NEW k \in Key, FindMiss(k)
    PROVE  Absent(k)
<1> SUFFICES ASSUME NEW s \in Occupied(slot), slot[s].key = k
             PROVE  FALSE
  BY DEF Absent
<1>1. groups \in Nat \ {0} /\ s \in Slots(groups)
  BY GroupCountsAssumption DEF ArrayInv, Occupied
<1>2. KeyAt(k, s) /\ s = <<s[1], s[2]>> /\ s[2] \in SlotIdx
  BY <1>1, SlotPair DEF KeyAt, Occupied
<1>3. InGroup(k, s[1])
  BY <1>2 DEF InGroup
<1>4. PICK a \in 0 .. groups - 1 : Reaches(k, a) /\ Probe(k, groups, a) = s[1]
  BY DEF ArrayInv, NoLostEntry, FindHit
<1>5. PICK b \in 0 .. groups - 1 :
        /\ Reaches(k, b)
        /\ ~InGroup(k, Probe(k, groups, b))
        /\ Has(EMPTY, Probe(k, groups, b))
  BY DEF FindMiss
<1>6. ~(b < a)
  <2> SUFFICES ASSUME b < a PROVE FALSE
    OBVIOUS
  <2>1. b \in 0 .. a - 1
    BY <1>1
  <2> QED BY <2>1, <1>4, <1>5 DEF Reaches
<1>7. ~(a < b)
  <2> SUFFICES ASSUME a < b PROVE FALSE
    OBVIOUS
  <2>1. a \in 0 .. b - 1
    BY <1>1
  <2> QED BY <2>1, <1>3, <1>4, <1>5 DEF Reaches
<1>8. a = b
  BY <1>1, <1>6, <1>7
<1> QED BY <1>3, <1>4, <1>5, <1>8

\* A step that turns no slot EMPTY and moves no entry keeps every path of a key
\* that it does not write.
LEMMA PathKept ==
    ASSUME ArrayInv, NEW t \in Occupied(slot), NEW k \in Key, k = slot[t].key,
           groups' = groups, DOMAIN slot' = Slots(groups),
           slot'[t] # EMPTY, slot'[t] # TOMB, slot'[t].key = k,
           \A s \in Slots(groups) : slot'[s] = EMPTY => slot[s] = EMPTY,
           \A s \in Slots(groups) : KeyAt(k, s)' => KeyAt(k, s)
    PROVE  FindHit(k, t)'
<1>1. groups \in GroupCounts /\ groups \in Nat \ {0} /\ t \in Slots(groups)
  BY GroupCountsAssumption DEF ArrayInv, Occupied
<1>2. PICK p \in 0 .. groups - 1 : Reaches(k, p) /\ Probe(k, groups, p) = t[1]
  BY DEF ArrayInv, NoLostEntry, FindHit
<1>3. ASSUME NEW q \in 0 .. p - 1, NEW g, g = Probe(k, groups, q)
      PROVE  ~Has(EMPTY, g)' /\ ~InGroup(k, g)'
  <2>1. g \in 0 .. groups - 1
    BY <1>1, <1>3, ProbeRange
  <2>2. \A j \in SlotIdx : <<g, j>> \in Slots(groups)
    BY <2>1, SlotMake
  <2>3. ~Has(EMPTY, g) /\ ~InGroup(k, g)
    BY <1>2, <1>3 DEF Reaches
  <2>4. ~Has(EMPTY, g)'
    BY <2>2, <2>3 DEF Has
  <2>5. ~InGroup(k, g)'
    BY <2>2, <2>3 DEF InGroup
  <2> QED BY <2>4, <2>5
<1>4. Reaches(k, p)'
  BY <1>3 DEF Reaches
<1>5. KeyAt(k, t)'
  BY DEF KeyAt
<1> QED BY <1>2, <1>4, <1>5 DEF FindHit

\* Writing an absent key into a slot that its lookup reaches.
LEMMA WriteSlot ==
    ASSUME ArrayInv, NEW k \in Key, NEW v \in Value, Absent(k),
           NEW s \in Slots(groups), OnPath(k, s), Writes(k, v, s)
    PROVE  /\ ArrayInv'
           /\ Gains(k, v)
           /\ EmptyCount' = IF slot[s] = EMPTY THEN EmptyCount - 1 ELSE EmptyCount
<1> DEFINE e == [key |-> k, val |-> v]
<1>1. groups \in GroupCounts /\ groups \in Nat \ {0}
      /\ slot \in [Slots(groups) -> Entry \cup {EMPTY, TOMB}]
  BY GroupCountsAssumption DEF ArrayInv
<1>2. e \in Entry /\ e # EMPTY /\ e # TOMB /\ e.key = k
  BY SentinelAssumption DEF Entry
<1>3. slot' = [slot EXCEPT ![s] = e] /\ slot[s] \in {EMPTY, TOMB} /\ groups' = groups
  BY DEF Writes
<1>4. PICK p \in 0 .. groups - 1 :
        /\ Probe(k, groups, p) = s[1]
        /\ \A q \in 0 .. p - 1 :
             ~Has(EMPTY, Probe(k, groups, q)) /\ Probe(k, groups, q) # s[1]
  BY DEF OnPath
<1> HIDE DEF e
<1>5. /\ slot' \in [Slots(groups) -> Entry \cup {EMPTY, TOMB}]
      /\ slot'[s] = e
      /\ \A t \in Slots(groups) : t # s => slot'[t] = slot[t]
  BY <1>1, <1>2, <1>3
<1>6. s \notin Occupied(slot) /\ Occupied(slot') = Occupied(slot) \cup {s}
      /\ \A t \in Occupied(slot) : t \in Slots(groups) /\ t # s
  BY <1>1, <1>2, <1>3, <1>5 DEF Occupied
<1>7. \A t \in Occupied(slot) : slot'[t] = slot[t]
  BY <1>5, <1>6
<1>8. \A t, u \in Occupied(slot') : slot'[t].key = slot'[u].key => t = u
  BY <1>2, <1>5, <1>6, <1>7 DEF ArrayInv, Absent
<1>9. NoLostEntry'
  <2> SUFFICES ASSUME NEW t \in Occupied(slot)', NEW h, h = slot'[t].key
               PROVE  FindHit(h, t)'
    BY DEF NoLostEntry
  <2>1. CASE t = s
    <3>1. h = k /\ KeyAt(k, s)'
      BY <2>1, <1>2, <1>5 DEF KeyAt
    <3>2. ASSUME NEW q \in 0 .. p - 1, NEW g, g = Probe(k, groups, q)
          PROVE  ~Has(EMPTY, g)' /\ ~InGroup(k, g)'
      <4>1. g \in 0 .. groups - 1
        BY <1>1, <3>2, ProbeRange
      <4>2. \A j \in SlotIdx : <<g, j>> \in Slots(groups) /\ <<g, j>> # s
        BY <4>1, <3>2, <1>4, SlotMake
      <4>3. ~Has(EMPTY, g)'
        BY <4>2, <3>2, <1>4, <1>5 DEF Has
      <4>4. ~InGroup(k, g)'
        BY <4>2, <1>1, <1>5 DEF InGroup, KeyAt, Absent, Occupied
      <4> QED BY <4>3, <4>4
    <3>3. Reaches(k, p)'
      BY <1>3, <3>2 DEF Reaches
    <3> QED BY <2>1, <3>1, <3>3, <1>3, <1>4 DEF FindHit
  <2>2. CASE t # s
    <3>1. t \in Occupied(slot) /\ slot'[t] = slot[t] /\ slot[t] # EMPTY /\ slot[t] # TOMB
          /\ h = slot[t].key /\ h \in Key /\ h # k
      BY <2>2, <1>1, <1>6, <1>7 DEF Occupied, Entry, Absent
    <3>2. \A u \in Slots(groups) : slot'[u] = EMPTY => slot[u] = EMPTY
      BY <1>2, <1>5
    <3>3. \A u \in Slots(groups) : KeyAt(h, u)' => KeyAt(h, u)
      BY <1>2, <1>5, <3>1 DEF KeyAt
    <3> QED BY <3>1, <3>2, <3>3, <1>3, <1>5, PathKept
  <2> QED BY <2>1, <2>2
<1>10. EmptyCount' = IF slot[s] = EMPTY THEN EmptyCount - 1 ELSE EmptyCount
  <2>1. Free' = Free \ {s}
    BY <1>2, <1>3, <1>5 DEF Free
  <2>2. IsFiniteSet(Free) /\ EmptyCount = Cardinality(Free) /\ EmptyCount \in Nat
    BY <1>1, FreeCount
  <2>3. EmptyCount' = Cardinality(Free \ {s})
    BY <2>1 DEF EmptyCount, Free
  <2>4. slot[s] = EMPTY => s \in Free
    BY DEF Free
  <2>5. slot[s] # EMPTY => s \notin Free
    BY DEF Free
  <2> QED BY <2>2, <2>3, <2>4, <2>5, FS_RemoveElement
<1>11. ArrayInv'
  BY <1>1, <1>3, <1>5, <1>8, <1>9 DEF ArrayInv
<1> QED BY <1>5, <1>6, <1>7, <1>10, <1>11 DEF e, Gains

\* The slot that insert_no_check and find_or_locate choose is free and on the
\* key's path: no group before it has an EMPTY slot, and none is its group.
LEMMA TargetSlot ==
    ASSUME ArrayInv, NEW k \in Key, NEW s \in Slots(groups), Target(k, s)
    PROVE  /\ slot[s] \in {EMPTY, TOMB}
           /\ OnPath(k, s)
<1>1. PICK stop \in 0 .. groups - 1 :
        /\ StopsAt(k, stop)
        /\ \/ \E p \in 0 .. stop :
                /\ s[1] = Probe(k, groups, p)
                /\ LowestIs(TOMB, s)
                /\ \A q \in 0 .. p - 1 : ~Has(TOMB, Probe(k, groups, q))
           \/ /\ \A q \in 0 .. stop : ~Has(TOMB, Probe(k, groups, q))
              /\ s[1] = Probe(k, groups, stop)
              /\ LowestIs(EMPTY, s)
  BY DEF Target
<1>2. groups \in Nat \ {0} /\ s = <<s[1], s[2]>> /\ s[2] \in SlotIdx
  BY GroupCountsAssumption, SlotPair DEF ArrayInv
<1>3. \A x : slot[s] = x => Has(x, s[1])
  BY <1>2 DEF Has
<1>4. CASE \E p \in 0 .. stop :
             /\ s[1] = Probe(k, groups, p)
             /\ LowestIs(TOMB, s)
             /\ \A q \in 0 .. p - 1 : ~Has(TOMB, Probe(k, groups, q))
  <2>1. PICK p \in 0 .. stop :
          /\ s[1] = Probe(k, groups, p)
          /\ slot[s] = TOMB
          /\ \A q \in 0 .. p - 1 : ~Has(TOMB, Probe(k, groups, q))
    BY <1>4 DEF LowestIs
  <2>2. p \in 0 .. groups - 1 /\ \A q \in 0 .. p - 1 : q \in 0 .. stop - 1
    BY <1>1, <1>2, <2>1
  <2>3. \A q \in 0 .. p - 1 :
          ~Has(EMPTY, Probe(k, groups, q)) /\ Probe(k, groups, q) # s[1]
    BY <1>1, <1>3, <2>1, <2>2 DEF StopsAt
  <2> QED BY <2>1, <2>2, <2>3 DEF OnPath
<1>5. CASE s[1] = Probe(k, groups, stop) /\ LowestIs(EMPTY, s)
  BY <1>1, <1>3, <1>5 DEF StopsAt, LowestIs, OnPath
<1> QED BY <1>1, <1>4, <1>5

\* insert_no_check_impl with an absent key: one EMPTY slot or one tombstone
\* becomes an entry, and growth_left pays for an EMPTY slot.
LEMMA InsertNoCheckInv ==
    ASSUME ArrayInv, NEW k \in Key, NEW v \in Value, Absent(k),
           InsertNoCheck(k, v), groups' = groups
    PROVE  /\ ArrayInv' /\ len' = len + 1
           /\ Gains(k, v)
           /\ \/ EmptyCount' = EmptyCount - 1 /\ growth_left' = growth_left - 1
              \/ EmptyCount' = EmptyCount /\ growth_left' = growth_left
<1>1. PICK s \in Slots(groups) : Target(k, s) /\ Put(k, v, s)
  BY DEF InsertNoCheck
<1>2. slot[s] \in {EMPTY, TOMB} /\ OnPath(k, s)
  BY <1>1, TargetSlot
<1>3. /\ Writes(k, v, s) /\ len' = len + 1
      /\ growth_left' = IF slot[s] = EMPTY THEN growth_left - 1 ELSE growth_left
  BY <1>1, <1>2 DEF Put, Writes
<1>4. /\ ArrayInv' /\ Gains(k, v)
      /\ EmptyCount' = IF slot[s] = EMPTY THEN EmptyCount - 1 ELSE EmptyCount
  BY <1>2, <1>3, WriteSlot
<1> QED BY <1>3, <1>4

\* The fused home-group path of insert_or_replace, which prefers an EMPTY slot.
LEMMA InsertHomeInv ==
    ASSUME ArrayInv, NEW k \in Key, NEW v \in Value, Absent(k),
           InsertHome(k, v), groups' = groups
    PROVE  /\ ArrayInv' /\ len' = len + 1
           /\ Gains(k, v)
           /\ EmptyCount' = EmptyCount - 1 /\ growth_left' = growth_left - 1
<1>1. groups \in GroupCounts /\ groups \in Nat \ {0}
  BY GroupCountsAssumption DEF ArrayInv
<1>2. PICK j \in SlotIdx :
        LET s == <<GroupIndex(k, groups), j>> IN LowestIs(EMPTY, s) /\ Put(k, v, s)
  BY DEF InsertHome
<1>3. <<GroupIndex(k, groups), j>> \in Slots(groups)
      /\ <<GroupIndex(k, groups), j>>[1] = GroupIndex(k, groups)
  BY <1>1, GroupIndexRange, SlotMake
<1>4. PICK s \in Slots(groups) : s = <<GroupIndex(k, groups), j>>
  BY <1>3
<1>5. /\ slot[s] = EMPTY /\ len' = len + 1 /\ growth_left' = growth_left - 1
      /\ Writes(k, v, s)
  BY <1>2, <1>4 DEF LowestIs, Put, Writes
<1>6. OnPath(k, s)
  <2>1. Probe(k, groups, 0) = s[1] /\ 0 \in 0 .. groups - 1
    BY <1>1, <1>3, <1>4, ProbeZero
  <2> QED BY <2>1 DEF OnPath
<1> QED BY <1>5, <1>6, WriteSlot

\* insert_after_resize: one EMPTY slot less, the counters untouched.
LEMMA InsertAfterResizeInv ==
    ASSUME ArrayInv, NEW k \in Key, NEW v \in Value, Absent(k),
           InsertAfterResize(k, v), groups' = groups
    PROVE  /\ ArrayInv' /\ len' = len
           /\ Gains(k, v)
           /\ EmptyCount' = EmptyCount - 1 /\ growth_left' = growth_left
<1>1. groups \in GroupCounts /\ groups \in Nat \ {0}
  BY GroupCountsAssumption DEF ArrayInv
<1>2. PICK p \in 0 .. groups - 1, j \in SlotIdx :
        LET s == <<Probe(k, groups, p), j>> IN
        /\ StopsAt(k, p)
        /\ LowestIs(EMPTY, s)
        /\ slot' = [slot EXCEPT ![s] = [key |-> k, val |-> v]]
        /\ UNCHANGED <<len, growth_left>>
  BY DEF InsertAfterResize
<1>3. Probe(k, groups, p) \in 0 .. groups - 1
  BY <1>1, ProbeRange
<1>4. <<Probe(k, groups, p), j>> \in Slots(groups)
      /\ <<Probe(k, groups, p), j>>[1] = Probe(k, groups, p)
  BY <1>3, SlotMake
<1>5. PICK s \in Slots(groups) : s = <<Probe(k, groups, p), j>> /\ s[1] = Probe(k, groups, p)
  BY <1>4
<1>6. /\ slot[s] = EMPTY /\ len' = len /\ growth_left' = growth_left
      /\ Writes(k, v, s)
      /\ Has(EMPTY, s[1])
      /\ \A q \in 0 .. p - 1 : ~Has(EMPTY, Probe(k, groups, q))
  BY <1>2, <1>5 DEF LowestIs, StopsAt, Writes
<1>7. OnPath(k, s)
  BY <1>5, <1>6 DEF OnPath
<1> QED BY <1>6, <1>7, WriteSlot

\* erase_slot leaves a tombstone: no path gets shorter, no EMPTY slot appears.
LEMMA EraseArray ==
    ASSUME ArrayInv, NEW s \in Occupied(slot),
           slot' = [slot EXCEPT ![s] = TOMB], groups' = groups
    PROVE  /\ ArrayInv'
           /\ Occupied(slot)' = Occupied(slot) \ {s}
           /\ \A t \in Occupied(slot)' : slot'[t] = slot[t]
           /\ EmptyCount' = EmptyCount
<1>1. slot \in [Slots(groups) -> Entry \cup {EMPTY, TOMB}] /\ s \in Slots(groups)
      /\ slot[s] # EMPTY /\ EMPTY # TOMB
  BY SentinelAssumption DEF ArrayInv, Occupied
<1>2. /\ slot' \in [Slots(groups) -> Entry \cup {EMPTY, TOMB}]
      /\ slot'[s] = TOMB
      /\ \A t \in Slots(groups) : t # s => slot'[t] = slot[t]
  BY <1>1
<1>3. Occupied(slot') = Occupied(slot) \ {s}
      /\ \A t \in Occupied(slot') : t \in Slots(groups) /\ slot'[t] = slot[t]
  BY <1>1, <1>2 DEF Occupied
<1>4. NoLostEntry'
  <2> SUFFICES ASSUME NEW t \in Occupied(slot)', NEW h, h = slot'[t].key
               PROVE  FindHit(h, t)'
    BY DEF NoLostEntry
  <2>1. t \in Occupied(slot) /\ slot'[t] = slot[t] /\ slot[t] # EMPTY /\ slot[t] # TOMB
        /\ h = slot[t].key /\ h \in Key
    BY <1>1, <1>3 DEF Occupied, Entry
  <2>2. \A u \in Slots(groups) : slot'[u] = EMPTY => slot[u] = EMPTY
    BY <1>1, <1>2
  <2>3. \A u \in Slots(groups) : KeyAt(h, u)' => KeyAt(h, u)
    BY <1>2 DEF KeyAt
  <2> QED BY <2>1, <2>2, <2>3, <1>2, PathKept
<1>5. Free' = Free
  BY <1>1, <1>2 DEF Free
<1>6. EmptyCount' = EmptyCount
  BY <1>5 DEF EmptyCount, Free
<1>7. ArrayInv'
  BY <1>2, <1>3, <1>4 DEF ArrayInv
<1> QED BY <1>3, <1>6, <1>7

\* insert_or_replace on a stored key changes its value only.
LEMMA ReplaceArray ==
    ASSUME ArrayInv, NEW s \in Occupied(slot), NEW v \in Value,
           slot' = [slot EXCEPT ![s].val = v], groups' = groups
    PROVE  /\ ArrayInv'
           /\ Occupied(slot)' = Occupied(slot)
           /\ slot'[s] = [key |-> slot[s].key, val |-> v]
           /\ \A t \in Occupied(slot) : slot'[t].key = slot[t].key
           /\ \A t \in Occupied(slot) : t # s => slot'[t] = slot[t]
           /\ EmptyCount' = EmptyCount
<1>1. slot \in [Slots(groups) -> Entry \cup {EMPTY, TOMB}] /\ s \in Slots(groups)
      /\ slot[s] \in Entry
  BY DEF ArrayInv, Occupied
<1>2. PICK e : e = [slot[s] EXCEPT !.val = v]
  OBVIOUS
<1>3. e \in Entry /\ e.key = slot[s].key /\ e = [key |-> slot[s].key, val |-> v]
  BY <1>1, <1>2 DEF Entry
<1>4. e # EMPTY /\ e # TOMB
  BY <1>3, SentinelAssumption
<1>5. slot' = [slot EXCEPT ![s] = e]
  BY <1>2
<1>6. /\ slot' \in [Slots(groups) -> Entry \cup {EMPTY, TOMB}]
      /\ slot'[s] = e
      /\ \A t \in Slots(groups) : t # s => slot'[t] = slot[t]
  BY <1>1, <1>3, <1>5
<1>7. Occupied(slot') = Occupied(slot)
  BY <1>1, <1>4, <1>6 DEF Occupied
<1>8. \A t \in Occupied(slot) : t \in Slots(groups) /\ slot'[t].key = slot[t].key
                                /\ (t # s => slot'[t] = slot[t])
  BY <1>1, <1>3, <1>6 DEF Occupied
<1>9. NoLostEntry'
  <2> SUFFICES ASSUME NEW t \in Occupied(slot)', NEW h, h = slot'[t].key
               PROVE  FindHit(h, t)'
    BY DEF NoLostEntry
  <2>1. t \in Occupied(slot) /\ slot'[t] # EMPTY /\ slot'[t] # TOMB
        /\ h = slot[t].key /\ h \in Key
    BY <1>1, <1>6, <1>7, <1>8 DEF Occupied, Entry
  <2>2. \A u \in Slots(groups) : slot'[u] = EMPTY => slot[u] = EMPTY
    BY <1>4, <1>6
  <2>3. \A u \in Slots(groups) : KeyAt(h, u)' => KeyAt(h, u)
    BY <1>1, <1>3, <1>6 DEF KeyAt, Occupied
  <2> QED BY <2>1, <2>2, <2>3, <1>6, PathKept
<1>10. Free' = Free
  BY <1>1, <1>4, <1>6, SentinelAssumption DEF Free
<1>11. EmptyCount' = EmptyCount
  BY <1>10 DEF EmptyCount, Free
<1>12. \A t, u \in Occupied(slot') : slot'[t].key = slot'[u].key => t = u
  <2>1. \A t, u \in Occupied(slot) : slot[t].key = slot[u].key => t = u
    BY DEF ArrayInv
  <2> QED BY <2>1, <1>7, <1>8
<1>13. ArrayInv'
  BY <1>6, <1>9, <1>12 DEF ArrayInv
<1> QED BY <1>3, <1>6, <1>7, <1>8, <1>11, <1>13

\* A new array: every slot EMPTY.
LEMMA FreshArray ==
    ASSUME NEW m \in GroupCounts, groups' = m, slot' = EmptySlots(m)
    PROVE  /\ ArrayInv' /\ Occupied(slot)' = {} /\ Cardinality(Occupied(slot)') = 0
           /\ EmptyCount' = Capacity(m)
<1>1. slot' \in [Slots(m) -> Entry \cup {EMPTY, TOMB}]
  BY DEF EmptySlots
<1>2. Occupied(slot') = {}
  BY DEF Occupied, EmptySlots
<1>3. {s \in Slots(groups') : slot'[s] = EMPTY} = Slots(m)
  BY DEF EmptySlots
<1>4. EmptyCount' = Capacity(m)
  BY <1>3, SlotsCount DEF EmptyCount
<1>5. ArrayInv'
  BY <1>1, <1>2 DEF ArrayInv, NoLostEntry
<1> QED BY <1>2, <1>4, <1>5, FS_EmptySet

\* A new array with one entry in its home group.
LEMMA FirstEntryArray ==
    ASSUME NEW m \in GroupCounts, NEW k \in Key, NEW v \in Value, groups' = m,
           slot' = [EmptySlots(m) EXCEPT ![<<GroupIndex(k, m), 0>>] = [key |-> k, val |-> v]]
    PROVE  /\ ArrayInv'
           /\ Single(k, v)
           /\ Cardinality(Occupied(slot)') = 1
           /\ EmptyCount' = Capacity(m) - 1
<1>1. m \in Nat \ {0} /\ GroupIndex(k, m) \in 0 .. m - 1 /\ 0 \in SlotIdx
  BY GroupIndexRange, GroupSizeAssumption, GroupCountsAssumption DEF SlotIdx
<1>2. <<GroupIndex(k, m), 0>> \in Slots(m)
      /\ <<GroupIndex(k, m), 0>>[1] = GroupIndex(k, m)
  BY <1>1, SlotMake
<1>3. PICK s \in Slots(m) : s = <<GroupIndex(k, m), 0>>
  BY <1>2
<1>4. PICK e \in Entry : e = [key |-> k, val |-> v]
  BY DEF Entry
<1>5. e # EMPTY /\ e # TOMB /\ e.key = k
  BY <1>4, SentinelAssumption
<1>6. slot' = [EmptySlots(m) EXCEPT ![s] = e]
  BY <1>3, <1>4
<1>7. /\ slot' \in [Slots(m) -> Entry \cup {EMPTY, TOMB}]
      /\ slot'[s] = e
      /\ \A t \in Slots(m) : t # s => slot'[t] = EMPTY
  BY <1>6 DEF EmptySlots
<1>8. Occupied(slot') = {s}
  BY <1>5, <1>7 DEF Occupied
<1>9. NoLostEntry'
  <2>1. KeyAt(k, s)'
    BY <1>5, <1>7 DEF KeyAt
  <2>2. 0 \in 0 .. m - 1 /\ Probe(k, m, 0) = s[1]
    BY <1>1, <1>2, <1>3, ProbeZero
  <2>3. Reaches(k, 0)'
    BY DEF Reaches
  <2> QED BY <2>1, <2>2, <2>3, <1>5, <1>7, <1>8 DEF NoLostEntry, FindHit
<1>10. EmptyCount' = Capacity(m) - 1
  <2>1. {t \in Slots(groups') : slot'[t] = EMPTY} = Slots(m) \ {s}
    BY <1>5, <1>7
  <2> QED BY <2>1, <1>3, SlotsCount, FS_RemoveElement DEF EmptyCount
<1>11. Cardinality(Occupied(slot')) = 1
  BY <1>8, FS_Singleton
<1>12. ArrayInv'
  BY <1>7, <1>8, <1>9 DEF ArrayInv
<1> QED BY <1>4, <1>7, <1>8, <1>10, <1>11, <1>12 DEF Single

-----------------------------------------------------------------------------
\* The array part of the inductive invariant, and the numbers in it.
LEMMA ArrayOfInv ==
    ASSUME IndInv
    PROVE  /\ ArrayInv
           /\ groups \in Nat \ {0}
           /\ IsFiniteSet(Occupied(slot)) /\ Cardinality(Occupied(slot)) \in Nat
           /\ IsFiniteSet(Occupied(old)) /\ Cardinality(Occupied(old)) \in Nat
           /\ Moved \in Nat /\ Unplaced \in Nat
           /\ len + growth_left <= MaxLoadFor(groups)
<1>1. ArrayInv
  BY DEF IndInv, TypeOK, UniqueKeys, ArrayInv
<1>2. groups \in GroupCounts /\ groups \in Nat \ {0} /\ DOMAIN slot = Slots(groups)
  BY GroupCountsAssumption DEF IndInv, TypeOK
<1>3. IsFiniteSet(Occupied(slot)) /\ Cardinality(Occupied(slot)) \in Nat
  BY <1>2, OccupiedFinite
<1>4. PICK n \in GroupCounts : DOMAIN old = Slots(n)
  BY DEF IndInv, TypeOK
<1>5. IsFiniteSet(Occupied(old)) /\ Cardinality(Occupied(old)) \in Nat
  BY <1>4, OccupiedFinite
<1>6. Moved \in Nat /\ Unplaced \in Nat
  BY <1>3, <1>5 DEF Moved, Unplaced
<1>7. len + growth_left <= MaxLoadFor(groups)
  <2>1. EmptyCount \in Nat /\ EmptyCount + Cardinality(Occupied(slot)) <= Capacity(groups)
    BY <1>2, FreeCount
  <2>2. MaxLoadFor(groups) \in Nat /\ Capacity(groups) \in Nat
    BY <1>2, LoadLimits
  <2>3. len \in Nat /\ growth_left \in Nat /\ allocated \in BOOLEAN
    BY DEF IndInv, TypeOK
  <2>4. Cardinality(Occupied(slot)) = Moved + len
    BY DEF IndInv, Accounting
  <2>5. CASE allocated
    <3>1. EmptyCount = Capacity(groups) - MaxLoadFor(groups) + growth_left - Moved
      BY <2>5 DEF IndInv, Accounting
    <3> QED BY <3>1, <2>1, <2>2, <2>3, <2>4, <1>3, <1>6
  <2>6. CASE ~allocated
    <3>1. growth_left = 0 /\ Occupied(slot) = {}
      BY <2>6 DEF IndInv, Accounting, Occupied, EmptySlots
    <3>2. len = 0
      BY <3>1, <2>3, <2>4, <1>6, FS_EmptySet
    <3> QED BY <3>1, <3>2, <2>2
  <2> QED BY <2>3, <2>5, <2>6
<1> QED BY <1>1, <1>2, <1>3, <1>5, <1>6, <1>7

\* Between calls nothing is being moved and nothing waits.
LEMMA Quiet ==
    ASSUME IndInv, pc \in {"ready", "retain"}
    PROVE  /\ Moved = 0 /\ Unplaced = 0 /\ Occupied(old) = {} /\ pend = EMPTY
           /\ Cardinality(Occupied(slot)) = len
<1>1. Occupied(old) = {} /\ pend = EMPTY
  BY DEF IndInv
<1>2. Moved = 0 /\ Unplaced = 0
  BY <1>1, FS_EmptySet DEF Moved, Unplaced
<1> QED BY <1>1, <1>2, ArrayOfInv DEF IndInv, Accounting, TypeOK

\* A call that ends at once: the array part and the counters are enough.
LEMMA ReadyStep ==
    ASSUME IndInv, pc = "ready", pc' = "ready", UNCHANGED <<loop, batched>>,
           ArrayInv', len' \in Nat, growth_left' \in Nat, allocated' \in BOOLEAN,
           ret' \in Value \cup {NONE},
           len' = Cardinality(Occupied(slot)'),
           allocated' => EmptyCount' = Capacity(groups') - MaxLoadFor(groups') + growth_left',
           ~allocated' => growth_left' = 0 /\ slot' = EmptySlots(groups')
    PROVE  IndInv'
<1>1. Occupied(old) = {} /\ pend = EMPTY /\ todo = {} /\ old' = old /\ pend' = pend
      /\ todo' = todo /\ old_len' = old_len /\ batched' = batched
  BY Quiet DEF IndInv, loop
<1>2. TypeOK'
  BY <1>1 DEF IndInv, TypeOK, ArrayInv
<1>3. NoLostEntry' /\ UniqueKeys'
  BY <1>1 DEF ArrayInv, UniqueKeys
<1>4. Moved' = 0 /\ Unplaced' = 0
  <2>1. Occupied(old') = {} /\ pend' = EMPTY
    BY <1>1
  <2>2. Cardinality(Occupied(old')) = 0
    BY <2>1, FS_EmptySet
  <2> QED BY <2>1, <2>2 DEF Moved, Unplaced
<1>5. Accounting'
  <2>1. groups' \in GroupCounts
    BY DEF ArrayInv
  <2>2. MaxLoadFor(groups') \in Nat /\ Capacity(groups') \in Nat
    BY <2>1, LoadLimits
  <2>3. Moved' + Unplaced' <= growth_left'
    BY <1>4
  <2>5. len' = Moved' + len'
    BY <1>4
  <2>4. allocated' => EmptyCount' =
          Capacity(groups') - MaxLoadFor(groups') + growth_left' - Moved'
    BY <1>4, <2>2
  <2> QED BY <2>3, <2>4, <2>5 DEF Accounting
<1> QED BY <1>1, <1>2, <1>3, <1>5 DEF IndInv

\* rehash_with: every entry of the old array and the waiting one fit into the
\* ration of the new array.
LEMMA RehashStart ==
    ASSUME IndInv, pc = "ready", batched' = batched,
           NEW m \in GroupCounts, NEW p \in Entry \cup {EMPTY}, Rehash(m, p),
           p # EMPTY => Absent(p.key),
           len + (IF p = EMPTY THEN 0 ELSE 1) <= MaxLoadFor(m)
    PROVE  IndInv'
<1>1. groups' = m /\ slot' = EmptySlots(m) /\ growth_left' = MaxLoadFor(m) /\ allocated' = TRUE
      /\ len' = 0 /\ old_len' = len /\ pend' = p /\ pc' = "rehash" /\ todo' = todo /\ ret' = ret
      /\ old' = IF allocated THEN slot ELSE EmptySlots(1)
  BY DEF Rehash, Allocate
<1>2. ArrayInv' /\ Occupied(slot)' = {} /\ Cardinality(Occupied(slot)') = 0
      /\ EmptyCount' = Capacity(m)
  BY <1>1, FreshArray
<1>3. Moved' = 0
  BY <1>2 DEF Moved
<1>4. MaxLoadFor(m) \in Nat /\ Capacity(m) \in Nat /\ len \in Nat
  BY LoadLimits DEF IndInv, TypeOK
<1>5. ArrayInv /\ Cardinality(Occupied(slot)) = len
  BY ArrayOfInv, Quiet
<1>6. (old' = slot \/ old' = EmptySlots(1)) /\ Cardinality(Occupied(old')) = len
  <2>1. CASE allocated
    BY <2>1, <1>1, <1>5
  <2>2. CASE ~allocated
    <3>1. old' = EmptySlots(1) /\ slot = EmptySlots(groups)
      BY <2>2, <1>1 DEF IndInv, Accounting
    <3>2. Occupied(old') = {} /\ Occupied(slot) = {}
      BY <3>1 DEF Occupied, EmptySlots
    <3> QED BY <3>1, <3>2, <1>5, FS_EmptySet
  <2> QED BY <2>1, <2>2
<1>7. \E n \in GroupCounts : old' \in [Slots(n) -> Entry \cup {EMPTY, TOMB}]
  <2>1. EmptySlots(1) \in [Slots(1) -> Entry \cup {EMPTY, TOMB}] /\ 1 \in GroupCounts
    BY GroupCountsAssumption DEF EmptySlots
  <2>2. slot \in [Slots(groups) -> Entry \cup {EMPTY, TOMB}] /\ groups \in GroupCounts
    BY <1>5 DEF ArrayInv
  <2> QED BY <2>1, <2>2, <1>6
<1>8. todo' = {} /\ todo = {}
  BY <1>1 DEF IndInv
<1>9. TypeOK'
  <2>1. batched' \in BOOLEAN /\ ret' \in Value \cup {NONE}
    BY <1>1 DEF IndInv, TypeOK
  <2>2. groups' \in GroupCounts /\ slot' \in [Slots(groups') -> Entry \cup {EMPTY, TOMB}]
    BY <1>2 DEF ArrayInv
  <2> QED BY <1>1, <1>4, <1>7, <1>8, <2>1, <2>2 DEF TypeOK
<1>10. UniqueKeys'
  <2>1. Occupied(old') = {} \/ old' = slot
    BY <1>6 DEF Occupied, EmptySlots
  <2>2. \A s, t \in Occupied(old') : old'[s].key = old'[t].key => s = t
    BY <2>1, <1>5 DEF ArrayInv
  <2>3. pend' # EMPTY => \A t \in Occupied(old') : old'[t].key # pend'.key
    BY <2>1, <1>1 DEF Absent
  <2> QED BY <2>2, <2>3, <1>2 DEF UniqueKeys
<1>11. Accounting'
  <2>1. Unplaced' = len + (IF p = EMPTY THEN 0 ELSE 1)
    BY <1>1, <1>6 DEF Unplaced
  <2>2. Moved' + Unplaced' <= growth_left'
    BY <2>1, <1>1, <1>3, <1>4
  <2>3. old_len' = Moved' + Cardinality(Occupied(old)')
    BY <1>1, <1>3, <1>4, <1>6
  <2> QED BY <1>1, <1>2, <1>3, <1>4, <2>2, <2>3 DEF Accounting
<1> QED BY <1>1, <1>2, <1>8, <1>9, <1>10, <1>11 DEF IndInv, ArrayInv

\* grow_or_rehash makes room for the entry that waits: a table full of entries
\* doubles, and a table full of tombstones holds fewer entries than its limit.
LEMMA GrowStep ==
    ASSUME IndInv, pc = "ready", batched' = batched,
           NEW p \in Entry, Absent(p.key), GrowOrRehash(p)
    PROVE  IndInv'
<1>1. groups \in GroupCounts /\ len \in Nat /\ growth_left \in Nat /\ p # EMPTY
  BY SentinelAssumption DEF IndInv, TypeOK
<1>2. len <= MaxLoadFor(groups) /\ MaxLoadFor(groups) \in Nat
  BY <1>1, ArrayOfInv, LoadLimits
<1>3. \A m : Rehash(m, p) => m \in GroupCounts
  BY DEF Rehash
<1>4. CASE ~allocated /\ Rehash(1, p)
  <2>1. len = 0
    <3>1. Occupied(slot) = {}
      BY <1>4 DEF IndInv, Accounting, Occupied, EmptySlots
    <3> QED BY <3>1, Quiet, FS_EmptySet
  <2>2. 1 \in GroupCounts /\ 1 <= MaxLoadFor(1)
    BY GroupCountsAssumption, LoadLimits
  <2> QED BY <2>1, <2>2, <1>1, <1>4, RehashStart
<1>5. CASE allocated /\ len >= MaxLoadFor(groups) /\ Rehash(2 * groups, p)
  <2>1. 2 * groups \in GroupCounts
    BY <1>3, <1>5
  <2>2. MaxLoadFor(groups) + 1 <= MaxLoadFor(2 * groups) /\ MaxLoadFor(2 * groups) \in Nat
    BY <1>1, <2>1, LoadLimits
  <2>3. len + 1 <= MaxLoadFor(2 * groups)
    BY <1>1, <1>2, <2>2
  <2> QED BY <2>1, <2>3, <1>1, <1>5, RehashStart
<1>6. CASE allocated /\ len < MaxLoadFor(groups) /\ Rehash(groups, p)
  <2>1. len + 1 <= MaxLoadFor(groups)
    BY <1>1, <1>2, <1>6
  <2> QED BY <2>1, <1>1, <1>6, RehashStart
<1> QED BY <1>4, <1>5, <1>6 DEF GrowOrRehash

\* The three ways an absent key is written, with the ration not used up.
LEMMA PlaceStep ==
    ASSUME IndInv, pc = "ready", batched' = batched, allocated, growth_left > 0,
           NEW k \in Key, NEW v \in Value, Absent(k),
           InsertHome(k, v) \/ InsertNoCheck(k, v),
           ret' = NONE, UNCHANGED <<groups, allocated, pc, loop>>
    PROVE  IndInv' /\ Gains(k, v)
<1>1. len \in Nat /\ growth_left \in Nat /\ groups \in GroupCounts /\ ArrayInv
      /\ IsFiniteSet(Occupied(slot)) /\ len = Cardinality(Occupied(slot)) /\ Moved = 0
      /\ EmptyCount = Capacity(groups) - MaxLoadFor(groups) + growth_left - Moved
  BY ArrayOfInv, Quiet DEF IndInv, TypeOK, Accounting
<1>2. /\ ArrayInv' /\ len' = len + 1 /\ Gains(k, v)
      /\ \/ EmptyCount' = EmptyCount - 1 /\ growth_left' = growth_left - 1
         \/ EmptyCount' = EmptyCount /\ growth_left' = growth_left
  BY <1>1, InsertHomeInv, InsertNoCheckInv
<1>3. len' = Cardinality(Occupied(slot)')
  <2>1. PICK s : s \notin Occupied(slot) /\ Occupied(slot)' = Occupied(slot) \cup {s}
    BY <1>2 DEF Gains
  <2> QED BY <2>1, <1>1, <1>2, FS_AddElement
<1>4. Capacity(groups) \in Nat /\ MaxLoadFor(groups) \in Nat
  BY <1>1, LoadLimits
<1>5. EmptyCount' = Capacity(groups) - MaxLoadFor(groups) + growth_left' /\ growth_left' \in Nat
  BY <1>1, <1>2, <1>4
<1>6. UNCHANGED <<loop, batched>> /\ pc' = "ready" /\ allocated' = TRUE /\ groups' = groups
      /\ len' \in Nat
  BY <1>1, <1>2
<1>7. IndInv'
  BY <1>2, <1>3, <1>5, <1>6, ReadyStep
<1> QED BY <1>2, <1>7

\* insert_or_replace and VacantEntry::insert for an absent key.
LEMMA InsertAbsentStep ==
    ASSUME IndInv, pc = "ready", batched' = batched, allocated,
           NEW k \in Key, NEW v \in Value, Absent(k), InsertAbsent(k, v)
    PROVE  IndInv'
<1>1. PICK e \in Entry : e = [key |-> k, val |-> v] /\ e.key = k
  <2>1. [key |-> k, val |-> v] \in Entry /\ [key |-> k, val |-> v].key = k
    BY DEF Entry
  <2> QED BY <2>1
<1>2. CASE GrowOrRehash([key |-> k, val |-> v])
  BY <1>1, <1>2, GrowStep
<1>3. CASE /\ growth_left > 0
           /\ InsertHome(k, v) \/ InsertNoCheck(k, v)
           /\ ret' = NONE
           /\ UNCHANGED <<groups, allocated, pc, loop>>
  BY <1>3, PlaceStep
<1> QED BY <1>2, <1>3 DEF InsertAbsent

\* The first insert into an unallocated table.
LEMMA InsertFreshStep ==
    ASSUME IndInv, pc = "ready", batched' = batched, ~allocated,
           NEW m \in GroupCounts, NEW k \in Key, NEW v \in Value, InsertFresh(m, k, v)
    PROVE  IndInv'
<1>1. groups' = m /\ growth_left' = MaxLoadFor(m) - 1 /\ allocated' = TRUE /\ len' = len + 1
      /\ ret' = NONE /\ UNCHANGED <<pc, loop>>
      /\ slot' = [EmptySlots(m) EXCEPT ![<<GroupIndex(k, m), 0>>] = [key |-> k, val |-> v]]
  BY DEF InsertFresh
<1>2. len = 0
  <2>1. Occupied(slot) = {}
    BY DEF IndInv, Accounting, Occupied, EmptySlots
  <2> QED BY <2>1, Quiet, FS_EmptySet
<1>3. ArrayInv' /\ Cardinality(Occupied(slot)') = 1 /\ EmptyCount' = Capacity(m) - 1
  BY <1>1, FirstEntryArray
<1>4. MaxLoadFor(m) \in Nat /\ Capacity(m) \in Nat /\ 1 <= MaxLoadFor(m)
  BY LoadLimits
<1>5. growth_left' \in Nat /\ len' = 1
      /\ EmptyCount' = Capacity(groups') - MaxLoadFor(groups') + growth_left'
  BY <1>1, <1>2, <1>3, <1>4
<1> QED BY <1>1, <1>3, <1>5, ReadyStep

\* A hit is a stored entry with the key.
LEMMA HitSlot ==
    ASSUME IndInv, NEW k \in Key, NEW s \in Slots(groups), FindHit(k, s)
    PROVE  s \in Occupied(slot) /\ slot[s].key = k /\ slot[s] \in Entry /\ slot[s].val \in Value
           /\ allocated
<1>1. slot[s] # EMPTY /\ slot[s] # TOMB /\ slot[s].key = k
  BY DEF FindHit, KeyAt
<1>2. slot[s] \in Entry /\ s \in Occupied(slot)
  BY <1>1 DEF IndInv, TypeOK, Occupied
<1>3. allocated
  BY <1>1 DEF IndInv, Accounting, EmptySlots
<1> QED BY <1>1, <1>2, <1>3 DEF Entry

\* A call that leaves the table alone.
LEMMA ReadStep ==
    ASSUME IndInv, pc = "ready", UNCHANGED <<table, pc, loop, batched>>,
           ret' \in Value \cup {NONE}
    PROVE  IndInv'
<1>1. ArrayInv' = ArrayInv /\ EmptyCount' = EmptyCount
      /\ Occupied(slot)' = Occupied(slot) /\ UNCHANGED <<slot, groups, len, growth_left, allocated>>
  BY DEF ArrayInv, EmptyCount, NoLostEntry, FindHit, KeyAt, Reaches, Has, InGroup, table
<1>2. ArrayInv /\ Cardinality(Occupied(slot)) = len /\ Moved = 0
  BY ArrayOfInv, Quiet
<1>3. len \in Nat /\ growth_left \in Nat /\ allocated \in BOOLEAN /\ groups \in GroupCounts
      /\ (allocated => EmptyCount = Capacity(groups) - MaxLoadFor(groups) + growth_left - Moved)
      /\ (~allocated => growth_left = 0 /\ slot = EmptySlots(groups))
  BY DEF IndInv, TypeOK, Accounting
<1>4. Capacity(groups) \in Nat /\ MaxLoadFor(groups) \in Nat
  BY <1>3, LoadLimits
<1>5. allocated => EmptyCount = Capacity(groups) - MaxLoadFor(groups) + growth_left
  BY <1>2, <1>3, <1>4
<1>6. len' = Cardinality(Occupied(slot)') /\ pc' = "ready" /\ UNCHANGED <<loop, batched>>
  BY <1>1, <1>2
<1> QED BY <1>1, <1>2, <1>3, <1>5, <1>6, ReadyStep

\* insert_or_replace.
LEMMA InsertStep ==
    ASSUME IndInv, batched' = batched, NEW k \in Key, NEW v \in Value, Insert(k, v)
    PROVE  IndInv'
<1>1. pc = "ready" /\ ArrayInv
  BY ArrayOfInv DEF Insert
<1>2. CASE ~allocated /\ InsertFresh(1, k, v)
  BY <1>1, <1>2, InsertFreshStep, GroupCountsAssumption
<1>3. CASE allocated /\ FindMiss(k) /\ InsertAbsent(k, v)
  BY <1>1, <1>3, InsertAbsentStep, MissMeansAbsent
<1>4. ASSUME NEW s \in Slots(groups), FindHit(k, s),
             slot' = [slot EXCEPT ![s].val = v], ret' = slot[s].val,
             UNCHANGED <<groups, len, growth_left, allocated, pc, loop>>
      PROVE  IndInv'
  <2>1. s \in Occupied(slot) /\ ret' \in Value /\ allocated
    BY <1>4, HitSlot
  <2>2. ArrayInv' /\ Occupied(slot)' = Occupied(slot) /\ EmptyCount' = EmptyCount
    BY <2>1, <1>1, <1>4, ReplaceArray
  <2>3. len \in Nat /\ growth_left \in Nat /\ groups \in GroupCounts /\ Moved = 0
        /\ len = Cardinality(Occupied(slot))
        /\ EmptyCount = Capacity(groups) - MaxLoadFor(groups) + growth_left - Moved
    BY <2>1, <1>1, Quiet DEF IndInv, TypeOK, Accounting
  <2>4. Capacity(groups) \in Nat /\ MaxLoadFor(groups) \in Nat
    BY <2>3, LoadLimits
  <2>5. EmptyCount' = Capacity(groups') - MaxLoadFor(groups') + growth_left'
    BY <2>2, <2>3, <2>4, <1>4
  <2>6. len' = Cardinality(Occupied(slot)') /\ pc' = "ready" /\ UNCHANGED <<loop, batched>>
        /\ len' \in Nat /\ growth_left' \in Nat /\ allocated' = TRUE
    BY <2>1, <2>2, <2>3, <1>1, <1>4
  <2> QED BY <2>1, <2>2, <2>5, <2>6, <1>1, ReadyStep
<1> QED BY <1>2, <1>3, <1>4 DEF Insert

\* try_insert and entry().or_insert().
LEMMA TryInsertStep ==
    ASSUME IndInv, batched' = batched, NEW k \in Key, NEW v \in Value, TryInsert(k, v)
    PROVE  IndInv'
<1>1. pc = "ready" /\ ArrayInv
  BY ArrayOfInv DEF TryInsert
<1>2. ASSUME ~allocated, NEW m \in GroupCounts, InsertFresh(m, k, v) PROVE IndInv'
  BY <1>1, <1>2, InsertFreshStep
<1>3. CASE allocated /\ FindMiss(k) /\ InsertAbsent(k, v)
  BY <1>1, <1>3, InsertAbsentStep, MissMeansAbsent
<1>4. CASE ret' = v /\ UNCHANGED <<table, pc, loop>>
  BY <1>1, <1>4, ReadStep
<1> QED BY <1>2, <1>3, <1>4 DEF TryInsert

\* RawVacantEntryMut::insert, on an unallocated table too.
LEMMA RawInsertStep ==
    ASSUME IndInv, batched' = batched, NEW k \in Key, NEW v \in Value, RawInsert(k, v)
    PROVE  IndInv'
<1>1. pc = "ready" /\ Absent(k)
  BY ArrayOfInv, MissMeansAbsent DEF RawInsert
<1>2. PICK e \in Entry : e = [key |-> k, val |-> v] /\ e.key = k
  <2>1. [key |-> k, val |-> v] \in Entry /\ [key |-> k, val |-> v].key = k
    BY DEF Entry
  <2> QED BY <2>1
<1>3. CASE GrowOrRehash([key |-> k, val |-> v])
  BY <1>1, <1>2, <1>3, GrowStep
<1>4. CASE /\ growth_left > 0
           /\ InsertNoCheck(k, v)
           /\ ret' = NONE
           /\ UNCHANGED <<groups, allocated, pc, loop>>
  <2>1. allocated
    BY <1>4 DEF IndInv, TypeOK, Accounting
  <2> QED BY <2>1, <1>1, <1>4, PlaceStep
<1> QED BY <1>3, <1>4 DEF RawInsert

\* Erasing a stored entry, in a removal or in a retain.
LEMMA EraseCounts ==
    ASSUME IndInv, pc \in {"ready", "retain"}, NEW s \in Occupied(slot), EraseSlot(s)
    PROVE  /\ ArrayInv' /\ Occupied(slot)' = Occupied(slot) \ {s}
           /\ \A t \in Occupied(slot)' : slot'[t] = slot[t]
           /\ len' \in Nat /\ len' = Cardinality(Occupied(slot)')
           /\ growth_left' = growth_left /\ growth_left \in Nat
           /\ allocated /\ allocated' = TRUE /\ groups' = groups
           /\ EmptyCount' = Capacity(groups') - MaxLoadFor(groups') + growth_left'
<1>1. /\ slot' = [slot EXCEPT ![s] = TOMB] /\ len' = len - 1
      /\ groups' = groups /\ growth_left' = growth_left /\ allocated' = allocated
  BY DEF EraseSlot
<1>2. ArrayInv /\ Moved = 0 /\ len = Cardinality(Occupied(slot)) /\ IsFiniteSet(Occupied(slot))
      /\ len \in Nat /\ growth_left \in Nat /\ groups \in GroupCounts /\ allocated \in BOOLEAN
  BY ArrayOfInv, Quiet DEF IndInv, TypeOK
<1>3. ArrayInv' /\ Occupied(slot)' = Occupied(slot) \ {s} /\ EmptyCount' = EmptyCount
      /\ \A t \in Occupied(slot)' : slot'[t] = slot[t]
  BY <1>1, <1>2, EraseArray
<1>4. allocated
  BY DEF IndInv, Accounting, Occupied, EmptySlots
<1>5. EmptyCount = Capacity(groups) - MaxLoadFor(groups) + growth_left - Moved
  BY <1>4 DEF IndInv, Accounting
<1>6. Capacity(groups) \in Nat /\ MaxLoadFor(groups) \in Nat
  BY <1>2, LoadLimits
<1>7. EmptyCount' = Capacity(groups') - MaxLoadFor(groups') + growth_left'
  BY <1>1, <1>2, <1>3, <1>5, <1>6
<1>8. Cardinality(Occupied(slot)') = len - 1 /\ Cardinality(Occupied(slot)') \in Nat
  BY <1>2, <1>3, FS_RemoveElement, FS_CardinalityType
<1> QED BY <1>1, <1>2, <1>3, <1>4, <1>7, <1>8

\* remove, remove_entry.
LEMMA RemoveStep ==
    ASSUME IndInv, batched' = batched, NEW k \in Key, Remove(k)
    PROVE  IndInv'
<1>1. pc = "ready" /\ UNCHANGED <<pc, loop>>
  BY DEF Remove
<1>2. ASSUME NEW s \in Slots(groups), FindHit(k, s), EraseSlot(s), ret' = slot[s].val
      PROVE  IndInv'
  <2>1. s \in Occupied(slot) /\ ret' \in Value
    BY <1>2, HitSlot
  <2>2. /\ ArrayInv' /\ len' \in Nat /\ len' = Cardinality(Occupied(slot)')
        /\ growth_left' \in Nat /\ allocated' = TRUE
        /\ EmptyCount' = Capacity(groups') - MaxLoadFor(groups') + growth_left'
    BY <2>1, <1>1, <1>2, EraseCounts
  <2> QED BY <2>1, <2>2, <1>1, ReadyStep
<1>3. CASE FindMiss(k) /\ ret' = NONE /\ UNCHANGED table
  BY <1>1, <1>3, ReadStep
<1> QED BY <1>2, <1>3 DEF Remove

\* get.
LEMMA GetStep ==
    ASSUME IndInv, batched' = batched, NEW k \in Key, Get(k)
    PROVE  IndInv'
<1>1. ret' \in Value \cup {NONE}
  BY HitSlot DEF Get
<1> QED BY <1>1, ReadStep DEF Get

\* The table is replaced by Self::new(): shrink_to_fit of an empty map, drain.
LEMMA ResetStep ==
    ASSUME IndInv, pc = "ready", batched' = batched, Reset, UNCHANGED <<pc, loop, ret>>
    PROVE  IndInv'
<1>1. groups' = 1 /\ slot' = EmptySlots(1) /\ len' = 0 /\ growth_left' = 0 /\ allocated' = FALSE
  BY DEF Reset
<1>2. ArrayInv' /\ Cardinality(Occupied(slot)') = 0
  BY <1>1, GroupCountsAssumption, FreshArray
<1>3. ret' \in Value \cup {NONE}
  BY DEF IndInv, TypeOK
<1> QED BY <1>1, <1>2, <1>3, ReadyStep

\* A zeroed array with its whole ration: reserve on an unallocated table, clear.
LEMMA ZeroedStep ==
    ASSUME IndInv, pc = "ready", batched' = batched, NEW m \in GroupCounts,
           groups' = m, slot' = EmptySlots(m), len' = 0, growth_left' = MaxLoadFor(m),
           allocated' = TRUE, UNCHANGED <<pc, loop, ret>>
    PROVE  IndInv'
<1>1. ArrayInv' /\ Cardinality(Occupied(slot)') = 0 /\ EmptyCount' = Capacity(m)
  BY FreshArray
<1>2. MaxLoadFor(m) \in Nat /\ Capacity(m) \in Nat
  BY LoadLimits
<1>3. EmptyCount' = Capacity(groups') - MaxLoadFor(groups') + growth_left'
  BY <1>1, <1>2
<1>4. ret' \in Value \cup {NONE}
  BY DEF IndInv, TypeOK
<1> QED BY <1>1, <1>2, <1>3, <1>4, ReadyStep

\* reserve: groups_for_capacity(len + n) has room for the entries.
LEMMA ReserveStep ==
    ASSUME IndInv, batched' = batched, NEW n \in ReserveArgs, Reserve(n)
    PROVE  IndInv'
<1>1. pc = "ready" /\ n \in Nat /\ len \in Nat
  BY ReserveAssumption DEF Reserve, IndInv, TypeOK
<1>2. PICK m \in GroupCounts :
        /\ GroupsFor(len + n, m)
        /\ \/ ~allocated /\ Allocate(m, EmptySlots(m)) /\ UNCHANGED <<len, pc, loop, ret>>
           \/ Rehash(m, EMPTY)
  BY DEF Reserve
<1>3. CASE ~allocated /\ Allocate(m, EmptySlots(m)) /\ UNCHANGED <<len, pc, loop, ret>>
  <2>1. len = 0
    <3>1. Occupied(slot) = {}
      BY <1>3 DEF IndInv, Accounting, Occupied, EmptySlots
    <3> QED BY <1>1, <3>1, Quiet, FS_EmptySet
  <2> QED BY <2>1, <1>1, <1>3, ZeroedStep DEF Allocate
<1>4. CASE Rehash(m, EMPTY)
  <2>1. MaxLoadFor(m) \in Nat /\ len + n <= MaxLoadFor(m)
    BY <1>1, <1>2, LoadLimits
  <2>2. len + 0 <= MaxLoadFor(m)
    BY <2>1, <1>1
  <2> QED BY <2>2, <1>1, <1>4, RehashStart
<1> QED BY <1>2, <1>3, <1>4

\* shrink_to_fit.
LEMMA ShrinkStep ==
    ASSUME IndInv, batched' = batched, ShrinkToFit
    PROVE  IndInv'
<1>1. pc = "ready" /\ len \in Nat
  BY DEF ShrinkToFit, IndInv, TypeOK
<1>2. CASE Reset /\ UNCHANGED <<pc, loop, ret>>
  BY <1>1, <1>2, ResetStep
<1>3. ASSUME NEW m \in GroupCounts, GroupsFor(len, m), Rehash(m, EMPTY) PROVE IndInv'
  <2>1. MaxLoadFor(m) \in Nat /\ len <= MaxLoadFor(m)
    BY <1>1, <1>3, LoadLimits
  <2>2. len + 0 <= MaxLoadFor(m)
    BY <2>1, <1>1
  <2> QED BY <2>2, <1>1, <1>3, RehashStart
<1> QED BY <1>2, <1>3 DEF ShrinkToFit

\* clear, drain and clone.
LEMMA ClearStep ==
    ASSUME IndInv, batched' = batched, Clear \/ Drain \/ Clone
    PROVE  IndInv'
<1>1. CASE Clear
  <2>1. groups \in GroupCounts
    BY DEF IndInv, TypeOK
  <2>2. groups' \in GroupCounts /\ slot' = EmptySlots(groups') /\ len' = 0
        /\ growth_left' = MaxLoadFor(groups')
        /\ allocated' = TRUE /\ pc = "ready" /\ UNCHANGED <<pc, loop, ret>>
    BY <1>1, <2>1 DEF Clear
  <2>3. PICK m \in GroupCounts : m = groups'
    BY <2>2
  <2> QED BY <2>2, <2>3, ZeroedStep
<1>2. CASE Drain
  BY <1>2, ResetStep DEF Drain
<1>3. CASE Clone
  <2>1. ret \in Value \cup {NONE}
    BY DEF IndInv, TypeOK
  <2> QED BY <2>1, <1>3, ReadStep DEF Clone, table
<1> QED BY <1>1, <1>2, <1>3

\* retain: the positions collected first stay occupied until they are visited.
LEMMA RetainSteps ==
    ASSUME IndInv, batched' = batched, Retain \/ RetainStep \/ RetainDone
    PROVE  IndInv'
<1>1. pc \in {"ready", "retain"} /\ old' = old /\ pend' = pend /\ old_len' = old_len /\ ret' = ret
      /\ pc' \in {"ready", "retain"}
  BY DEF Retain, RetainStep, RetainDone, loop
<1>2. Occupied(old) = {} /\ pend = EMPTY /\ Moved = 0 /\ Unplaced = 0 /\ ArrayInv
      /\ Cardinality(Occupied(slot)) = len
      /\ len \in Nat /\ growth_left \in Nat /\ groups \in GroupCounts /\ allocated \in BOOLEAN
  BY <1>1, Quiet, ArrayOfInv DEF IndInv, TypeOK
<1>3. Capacity(groups) \in Nat /\ MaxLoadFor(groups) \in Nat
  BY <1>2, LoadLimits
<1>4. /\ ArrayInv' /\ len' \in Nat /\ len' = Cardinality(Occupied(slot)')
      /\ growth_left' \in Nat /\ allocated' \in BOOLEAN
      /\ (allocated' => EmptyCount' = Capacity(groups') - MaxLoadFor(groups') + growth_left')
      /\ (~allocated' => growth_left' = 0 /\ slot' = EmptySlots(groups'))
      /\ todo' \subseteq Occupied(slot)'
      /\ (pc' # "retain" => todo' = {})
  <2>1. CASE UNCHANGED table
    <3>1. ArrayInv' = ArrayInv /\ EmptyCount' = EmptyCount /\ Occupied(slot)' = Occupied(slot)
          /\ UNCHANGED <<slot, groups, len, growth_left, allocated>>
      BY <2>1 DEF ArrayInv, EmptyCount, NoLostEntry, FindHit, KeyAt, Reaches, Has, InGroup, table
    <3>2. allocated => EmptyCount = Capacity(groups) - MaxLoadFor(groups) + growth_left - Moved
      BY DEF IndInv, Accounting
    <3>3. allocated => EmptyCount = Capacity(groups) - MaxLoadFor(groups) + growth_left
      BY <3>2, <1>2, <1>3
    <3>4. ~allocated => growth_left = 0 /\ slot = EmptySlots(groups)
      BY DEF IndInv, Accounting
    <3>5. todo' \subseteq Occupied(slot) /\ (pc' # "retain" => todo' = {})
      BY DEF IndInv, Retain, RetainStep, RetainDone, loop
    <3>6. len' = Cardinality(Occupied(slot)')
      BY <3>1, <1>2
    <3> QED BY <3>1, <3>3, <3>4, <3>5, <3>6, <1>2
  <2>2. ASSUME RetainStep, NEW s \in todo, EraseSlot(s), todo' = todo \ {s} 
      PROVE  /\ ArrayInv' /\ len' \in Nat /\ len' = Cardinality(Occupied(slot)')
             /\ growth_left' \in Nat /\ allocated' = TRUE
             /\ EmptyCount' = Capacity(groups') - MaxLoadFor(groups') + growth_left'
             /\ todo' \subseteq Occupied(slot)' /\ pc' = "retain"
    <3>1. s \in Occupied(slot) /\ pc = "retain" /\ pc' = "retain" /\ todo \subseteq Occupied(slot)
      BY <2>2 DEF IndInv, RetainStep
    <3>2. /\ ArrayInv' /\ Occupied(slot)' = Occupied(slot) \ {s}
          /\ len' \in Nat /\ len' = Cardinality(Occupied(slot)')
          /\ growth_left' \in Nat /\ allocated' = TRUE
          /\ EmptyCount' = Capacity(groups') - MaxLoadFor(groups') + growth_left'
      BY <3>1, <2>2, EraseCounts
    <3> QED BY <3>1, <3>2, <2>2
  <2> QED BY <2>1, <2>2 DEF Retain, RetainStep, RetainDone
<1>5. TypeOK'
  <2>1. groups' \in GroupCounts /\ slot' \in [Slots(groups') -> Entry \cup {EMPTY, TOMB}]
    BY <1>4 DEF ArrayInv
  <2>2. todo' \subseteq Slots(groups')
    BY <1>4, <2>1 DEF Occupied
  <2> QED BY <2>1, <2>2, <1>1, <1>4 DEF IndInv, TypeOK
<1>6. Occupied(old') = {} /\ pend' = EMPTY
  BY <1>1, <1>2
<1>7. NoLostEntry' /\ UniqueKeys'
  BY <1>4, <1>6 DEF ArrayInv, UniqueKeys
<1>8. Accounting'
  <2>1. Cardinality(Occupied(old')) = 0
    BY <1>6, FS_EmptySet
  <2>2. Moved' = 0 /\ Unplaced' = 0
    BY <2>1, <1>1, <1>6 DEF Moved, Unplaced
  <2>3. groups' \in GroupCounts
    BY <1>4 DEF ArrayInv
  <2>4. Capacity(groups') \in Nat /\ MaxLoadFor(groups') \in Nat
    BY <2>3, LoadLimits
  <2>5. Moved' + Unplaced' <= growth_left' /\ len' = Moved' + len'
    BY <2>2, <1>4
  <2>6. allocated' => EmptyCount' =
          Capacity(groups') - MaxLoadFor(groups') + growth_left' - Moved'
    BY <1>4, <2>2, <2>4
  <2> QED BY <1>1, <1>4, <2>5, <2>6 DEF Accounting
<1> QED BY <1>1, <1>4, <1>5, <1>6, <1>7, <1>8 DEF IndInv

\* Taking an entry out of the old array.
LEMMA OldShrinks ==
    ASSUME IndInv, NEW s \in Occupied(old), old' = [old EXCEPT ![s] = EMPTY]
    PROVE  /\ \E n \in GroupCounts : old' \in [Slots(n) -> Entry \cup {EMPTY, TOMB}]
           /\ Occupied(old)' = Occupied(old) \ {s}
           /\ \A t \in Occupied(old)' : old'[t] = old[t]
           /\ Cardinality(Occupied(old)') = Cardinality(Occupied(old)) - 1
           /\ Cardinality(Occupied(old)') \in Nat
           /\ old[s] \in Entry /\ old[s].key \in Key /\ old[s].val \in Value
           /\ old[s] = [key |-> old[s].key, val |-> old[s].val]
<1>1. PICK n \in GroupCounts : old \in [Slots(n) -> Entry \cup {EMPTY, TOMB}]
  BY DEF IndInv, TypeOK
<1>2. s \in Slots(n) /\ old[s] \in Entry
  BY <1>1 DEF Occupied
<1>3. old' \in [Slots(n) -> Entry \cup {EMPTY, TOMB}]
      /\ old'[s] = EMPTY /\ \A t \in Slots(n) : t # s => old'[t] = old[t]
  BY <1>1, <1>2
<1>4. Occupied(old') = Occupied(old) \ {s} /\ \A t \in Occupied(old') : old'[t] = old[t]
  BY <1>1, <1>2, <1>3 DEF Occupied
<1>5. IsFiniteSet(Occupied(old))
  BY ArrayOfInv
<1>6. Cardinality(Occupied(old')) = Cardinality(Occupied(old)) - 1
      /\ Cardinality(Occupied(old')) \in Nat
  BY <1>4, <1>5, FS_RemoveElement, FS_CardinalityType
<1> QED BY <1>2, <1>3, <1>4, <1>6 DEF Entry

\* One entry moves: what it takes from the ration was set aside for it.
LEMMA RehashStepInv ==
    ASSUME IndInv, batched' = batched, RehashStep
    PROVE  IndInv'
<1>1. pc = "rehash" /\ UNCHANGED <<groups, allocated, pc, old_len, pend, todo, ret>>
  BY DEF RehashStep
<1>2. PICK s \in Occupied(old) :
        /\ \/ batched /\ InsertAfterResize(old[s].key, old[s].val)
           \/ ~batched /\ InsertNoCheck(old[s].key, old[s].val)
        /\ old' = [old EXCEPT ![s] = EMPTY]
  BY DEF RehashStep
<1>3. /\ \E n \in GroupCounts : old' \in [Slots(n) -> Entry \cup {EMPTY, TOMB}]
      /\ Occupied(old)' = Occupied(old) \ {s}
      /\ \A t \in Occupied(old)' : old'[t] = old[t]
      /\ Cardinality(Occupied(old)') = Cardinality(Occupied(old)) - 1
      /\ Cardinality(Occupied(old)') \in Nat
      /\ old[s].key \in Key /\ old[s].val \in Value
  BY <1>2, OldShrinks
<1>4. PICK k \in Key, v \in Value : k = old[s].key /\ v = old[s].val
  BY <1>3
<1>5. Absent(k)
  BY <1>2, <1>4 DEF Absent, IndInv, UniqueKeys
<1>6. /\ ArrayInv /\ Moved \in Nat /\ Unplaced \in Nat /\ IsFiniteSet(Occupied(slot))
      /\ Cardinality(Occupied(old)) \in Nat /\ Cardinality(Occupied(slot)) \in Nat
      /\ len \in Nat /\ growth_left \in Nat /\ groups \in GroupCounts /\ batched \in BOOLEAN
      /\ allocated \in BOOLEAN /\ old_len \in Nat
  BY ArrayOfInv DEF IndInv, TypeOK
<1>7. /\ ArrayInv' /\ Gains(k, v)
      /\ \/ batched /\ len' = len /\ EmptyCount' = EmptyCount - 1 /\ growth_left' = growth_left
         \/ ~batched /\ len' = len + 1
            /\ EmptyCount' = EmptyCount - 1 /\ growth_left' = growth_left - 1
         \/ ~batched /\ len' = len + 1
            /\ EmptyCount' = EmptyCount /\ growth_left' = growth_left
  BY <1>1, <1>2, <1>4, <1>5, <1>6, InsertAfterResizeInv, InsertNoCheckInv
<1>8. PICK t \in Slots(groups) :
        /\ t \notin Occupied(slot)
        /\ Occupied(slot)' = Occupied(slot) \cup {t}
        /\ slot'[t] = [key |-> k, val |-> v]
        /\ \A u \in Occupied(slot) : slot'[u] = slot[u]
  BY <1>7 DEF Gains
<1>9. Cardinality(Occupied(slot)') = Cardinality(Occupied(slot)) + 1
  BY <1>6, <1>8, FS_AddElement
<1>10. UniqueKeys'
  <2>1. \A u \in Occupied(slot)' : (u = t /\ slot'[u].key = k) \/ (u \in Occupied(slot) /\ slot'[u] = slot[u])
    BY <1>8
  <2>2. \A u \in Occupied(old)' : u \in Occupied(old) /\ old'[u] = old[u] /\ old[u].key # k
    BY <1>2, <1>3, <1>4 DEF IndInv, UniqueKeys
  <2>3. \A u, w \in Occupied(slot)' : slot'[u].key = slot'[w].key => u = w
    BY <1>7 DEF ArrayInv
  <2>4. \A u \in Occupied(slot)', w \in Occupied(old)' : slot'[u].key # old'[w].key
    BY <2>1, <2>2 DEF IndInv, UniqueKeys
  <2>5. pend' # EMPTY =>
          /\ \A u \in Occupied(slot)' : slot'[u].key # pend'.key
          /\ \A w \in Occupied(old)' : old'[w].key # pend'.key
    BY <2>1, <2>2, <1>1, <1>2, <1>4 DEF IndInv, UniqueKeys
  <2>6. \A u, w \in Occupied(old)' : old'[u].key = old'[w].key => u = w
    BY <2>2 DEF IndInv, UniqueKeys
  <2> QED BY <2>3, <2>4, <2>5, <2>6 DEF UniqueKeys
<1>11. Unplaced' = Unplaced - 1
  BY <1>1, <1>3, <1>6 DEF Unplaced
<1>12. Capacity(groups) \in Nat /\ MaxLoadFor(groups) \in Nat
  BY <1>6, LoadLimits
<1>13. Moved + Unplaced <= growth_left /\ Cardinality(Occupied(slot)) = Moved + len
  BY DEF IndInv, Accounting
<1>14. Unplaced >= 1
  <2>1. Cardinality(Occupied(old)) >= 1
    BY <1>3, <1>6
  <2> QED BY <2>1, <1>6 DEF Unplaced
<1>15. allocated
  <2>1. growth_left > 0
    BY <1>6, <1>13, <1>14
  <2> QED BY <2>1, <1>6 DEF IndInv, Accounting
<1>16. EmptyCount = Capacity(groups) - MaxLoadFor(groups) + growth_left - Moved
  BY <1>15 DEF IndInv, Accounting
<1>17. Accounting' /\ growth_left' \in Nat /\ len' \in Nat
  <2>1. CASE batched
    <3>1. len' = len /\ EmptyCount' = EmptyCount - 1 /\ growth_left' = growth_left
      BY <2>1, <1>7
    <3>2. Moved = Cardinality(Occupied(slot)) /\ Moved' = Cardinality(Occupied(slot)')
      BY <2>1, <1>1 DEF Moved
    <3>3. Moved' = Moved + 1
      BY <3>2, <1>9
    <3>4. len = 0 /\ old_len = Moved + Cardinality(Occupied(old))
      BY <2>1, <1>1 DEF IndInv, Accounting
    <3>5. EmptyCount' = Capacity(groups) - MaxLoadFor(groups) + growth_left' - Moved'
      BY <3>1, <3>3, <1>6, <1>12, <1>16
    <3>6. Moved' + Unplaced' <= growth_left'
      BY <3>1, <3>3, <1>6, <1>11, <1>13
    <3>7. old_len' = Moved' + Cardinality(Occupied(old)')
      BY <3>3, <3>4, <1>1, <1>3, <1>6
    <3>8. Cardinality(Occupied(slot)') = Moved' + len'
      BY <3>1, <3>3, <3>4, <1>6, <1>9, <1>13
    <3> QED BY <3>1, <3>4, <3>5, <3>6, <3>7, <3>8, <1>1, <1>6, <1>15 DEF Accounting
  <2>2. CASE ~batched
    <3>1. Moved = 0 /\ Moved' = 0
      BY <2>2 DEF Moved
    <3>2. growth_left' \in Nat /\ len' = len + 1 /\ len' \in Nat
      BY <2>2, <1>6, <1>7, <1>13, <1>14
    <3>3. EmptyCount' = Capacity(groups) - MaxLoadFor(groups) + growth_left' - Moved'
      BY <2>2, <3>1, <1>6, <1>7, <1>12, <1>16
    <3>4. Moved' + Unplaced' <= growth_left'
      BY <2>2, <3>1, <1>6, <1>7, <1>11, <1>13
    <3>5. Cardinality(Occupied(slot)') = Moved' + len'
      BY <3>1, <3>2, <1>6, <1>9, <1>13
    <3> QED BY <2>2, <3>2, <3>3, <3>4, <3>5, <1>1, <1>6, <1>15 DEF Accounting
  <2> QED BY <2>1, <2>2, <1>6
<1>18. todo' = {}
  BY <1>1 DEF IndInv
<1>19. TypeOK'
  <2>1. groups' \in GroupCounts /\ slot' \in [Slots(groups') -> Entry \cup {EMPTY, TOMB}]
    BY <1>7 DEF ArrayInv
  <2> QED BY <2>1, <1>1, <1>3, <1>17, <1>18 DEF IndInv, TypeOK
<1> QED BY <1>1, <1>7, <1>10, <1>17, <1>18, <1>19 DEF IndInv, ArrayInv

\* The end of a rehash: a batched one counts the entries it moved.
LEMMA RehashDoneInv ==
    ASSUME IndInv, batched' = batched, RehashDone
    PROVE  IndInv'
<1>1. pc = "rehash" /\ Occupied(old) = {} /\ old' = EmptySlots(1) /\ old_len' = 0
      /\ UNCHANGED <<groups, slot, allocated, pend, todo, ret>>
      /\ pc' = (IF pend = EMPTY THEN "ready" ELSE "insert")
      /\ len' = (IF batched THEN old_len ELSE len)
      /\ growth_left' = (IF batched THEN growth_left - old_len ELSE growth_left)
  BY DEF RehashDone
<1>2. Occupied(old') = {} /\ Cardinality(Occupied(old')) = 0 /\ Cardinality(Occupied(old)) = 0
  BY <1>1, FS_EmptySet DEF Occupied, EmptySlots
<1>3. /\ ArrayInv /\ Moved \in Nat /\ Unplaced \in Nat
      /\ len \in Nat /\ growth_left \in Nat /\ groups \in GroupCounts /\ batched \in BOOLEAN
      /\ allocated \in BOOLEAN /\ old_len \in Nat
  BY ArrayOfInv DEF IndInv, TypeOK
<1>4. NoLostEntry' /\ EmptyCount' = EmptyCount /\ Occupied(slot)' = Occupied(slot)
      /\ slot' \in [Slots(groups') -> Entry \cup {EMPTY, TOMB}]
  BY <1>1, <1>3 DEF ArrayInv, EmptyCount, NoLostEntry, FindHit, KeyAt, Reaches, Has, InGroup
<1>5. UniqueKeys'
  BY <1>1, <1>2 DEF IndInv, UniqueKeys
<1>6. Moved' = 0 /\ Unplaced' = Unplaced
  <2>1. Moved' = 0
    BY <1>1 DEF Moved
  <2> QED BY <2>1, <1>1, <1>2 DEF Unplaced
<1>7. Capacity(groups) \in Nat /\ MaxLoadFor(groups) \in Nat
  BY <1>3, LoadLimits
<1>8. Moved + Unplaced <= growth_left /\ Cardinality(Occupied(slot)) = Moved + len
      /\ (allocated => EmptyCount = Capacity(groups) - MaxLoadFor(groups) + growth_left - Moved)
      /\ (~allocated => growth_left = 0 /\ slot = EmptySlots(groups))
  BY DEF IndInv, Accounting
<1>9. len' \in Nat /\ growth_left' \in Nat /\ len' = Moved + len
      /\ growth_left' = growth_left - Moved
  <2>1. CASE batched
    <3>1. old_len = Moved + Cardinality(Occupied(old)) /\ len = 0
      BY <2>1, <1>1 DEF IndInv, Accounting
    <3>2. old_len = Moved
      BY <3>1, <1>2, <1>3
    <3> QED BY <2>1, <3>1, <3>2, <1>1, <1>3, <1>8
  <2>2. CASE ~batched
    <3>1. Moved = 0
      BY <2>2 DEF Moved
    <3> QED BY <2>2, <3>1, <1>1, <1>3
  <2> QED BY <2>1, <2>2, <1>3
<1>10. Accounting'
  <2>1. Moved' + Unplaced' <= growth_left'
    BY <1>3, <1>6, <1>8, <1>9
  <2>2. Cardinality(Occupied(slot)') = Moved' + len'
    BY <1>3, <1>4, <1>6, <1>8, <1>9
  <2>3. allocated' => EmptyCount' = Capacity(groups') - MaxLoadFor(groups') + growth_left' - Moved'
    BY <1>1, <1>3, <1>4, <1>6, <1>7, <1>8, <1>9
  <2>4. ~allocated' => growth_left' = 0 /\ slot' = EmptySlots(groups')
    BY <1>1, <1>3, <1>8, <1>9
  <2> QED BY <2>1, <2>2, <2>3, <2>4, <1>1 DEF Accounting
<1>11. todo' = {}
  BY <1>1 DEF IndInv
<1>12. TypeOK'
  <2>1. EmptySlots(1) \in [Slots(1) -> Entry \cup {EMPTY, TOMB}] /\ 1 \in GroupCounts
    BY GroupCountsAssumption DEF EmptySlots
  <2> QED BY <2>1, <1>1, <1>4, <1>9, <1>11 DEF IndInv, TypeOK
<1> QED BY <1>1, <1>2, <1>4, <1>5, <1>10, <1>11, <1>12 DEF IndInv

\* The entry whose insert caused the rehash goes in without another check.
LEMMA InsertPendingInv ==
    ASSUME IndInv, batched' = batched, InsertPending
    PROVE  IndInv' /\ Gains(pend.key, pend.val)
<1>1. pc = "insert" /\ pc' = "ready" /\ pend' = EMPTY /\ ret' = NONE
      /\ UNCHANGED <<groups, allocated, old, old_len, todo>>
      /\ InsertNoCheck(pend.key, pend.val)
  BY DEF InsertPending
<1>2. pend # EMPTY /\ pend \in Entry /\ Occupied(old) = {} /\ todo = {}
  BY <1>1 DEF IndInv, TypeOK
<1>3. PICK k \in Key, v \in Value : k = pend.key /\ v = pend.val
  BY <1>2 DEF Entry
<1>4. Absent(k)
  BY <1>2, <1>3 DEF Absent, IndInv, UniqueKeys
<1>5. /\ ArrayInv /\ Moved = 0 /\ IsFiniteSet(Occupied(slot))
      /\ len \in Nat /\ growth_left \in Nat /\ groups \in GroupCounts /\ allocated \in BOOLEAN
  BY <1>1, ArrayOfInv DEF IndInv, TypeOK, Moved
<1>6. /\ ArrayInv' /\ Gains(k, v) /\ len' = len + 1
      /\ \/ EmptyCount' = EmptyCount - 1 /\ growth_left' = growth_left - 1
         \/ EmptyCount' = EmptyCount /\ growth_left' = growth_left
  BY <1>1, <1>3, <1>4, <1>5, InsertNoCheckInv
<1>7. Cardinality(Occupied(old)) = 0 /\ Unplaced = 1
  BY <1>2, FS_EmptySet DEF Unplaced
<1>8. growth_left >= 1 /\ Cardinality(Occupied(slot)) = len
  BY <1>5, <1>7 DEF IndInv, Accounting
<1>9. allocated
  BY <1>5, <1>8 DEF IndInv, Accounting
<1>10. EmptyCount = Capacity(groups) - MaxLoadFor(groups) + growth_left - Moved
  BY <1>9 DEF IndInv, Accounting
<1>11. Capacity(groups) \in Nat /\ MaxLoadFor(groups) \in Nat
  BY <1>5, LoadLimits
<1>12. growth_left' \in Nat
       /\ EmptyCount' = Capacity(groups) - MaxLoadFor(groups) + growth_left' - 0
  BY <1>5, <1>6, <1>8, <1>10, <1>11
<1>13. PICK s : s \notin Occupied(slot) /\ Occupied(slot)' = Occupied(slot) \cup {s}
  BY <1>6 DEF Gains
<1>14. len' = Cardinality(Occupied(slot)') /\ len' \in Nat
  BY <1>5, <1>6, <1>8, <1>13, FS_AddElement
<1>15. Accounting'
  <2>1. Moved' = 0 /\ Unplaced' = 0
    BY <1>1, <1>7 DEF Moved, Unplaced
  <2>2. Moved' + Unplaced' <= growth_left' /\ len' = Moved' + len'
    BY <2>1, <1>12, <1>14
  <2> QED BY <2>1, <2>2, <1>1, <1>9, <1>12, <1>14 DEF Accounting
<1>16. UniqueKeys'
  BY <1>1, <1>2, <1>6 DEF UniqueKeys, ArrayInv
<1>17. TypeOK'
  <2>1. groups' \in GroupCounts /\ slot' \in [Slots(groups') -> Entry \cup {EMPTY, TOMB}]
    BY <1>6 DEF ArrayInv
  <2> QED BY <2>1, <1>1, <1>2, <1>12, <1>14 DEF IndInv, TypeOK
<1> QED BY <1>1, <1>2, <1>3, <1>6, <1>15, <1>16, <1>17 DEF IndInv, ArrayInv

\* A new map.
LEMMA IndInvInit == Init => IndInv
<1> SUFFICES ASSUME Init PROVE IndInv
  OBVIOUS
<1>1. 1 \in GroupCounts /\ EmptySlots(1) \in [Slots(1) -> Entry \cup {EMPTY, TOMB}]
  BY GroupCountsAssumption DEF EmptySlots
<1>2. Occupied(slot) = {} /\ Occupied(old) = {}
  BY DEF Init, Occupied, EmptySlots
<1>3. Cardinality(Occupied(slot)) = 0 /\ Cardinality(Occupied(old)) = 0
  BY <1>2, FS_EmptySet
<1>4. TypeOK
  BY <1>1 DEF Init, TypeOK
<1>5. NoLostEntry /\ UniqueKeys
  BY <1>2 DEF Init, NoLostEntry, UniqueKeys
<1>6. Accounting
  <2>1. Moved = 0 /\ Unplaced = 0
    BY <1>3 DEF Init, Moved, Unplaced
  <2> QED BY <2>1, <1>3 DEF Init, Accounting
<1> QED BY <1>2, <1>4, <1>5, <1>6 DEF Init, IndInv

\* A step that changes nothing.
LEMMA IndInvStutter ==
    ASSUME IndInv, UNCHANGED vars
    PROVE  IndInv'
<1>1. /\ groups' = groups /\ slot' = slot /\ len' = len /\ growth_left' = growth_left
      /\ allocated' = allocated /\ batched' = batched /\ old_len' = old_len
      /\ old' = old /\ pend' = pend /\ ret' = ret /\ pc' = pc /\ todo' = todo
  BY DEF vars, table, loop
<1>2. TypeOK' /\ UniqueKeys'
  BY <1>1 DEF IndInv, TypeOK, UniqueKeys
<1>3. NoLostEntry'
  BY <1>1 DEF IndInv, NoLostEntry, FindHit, KeyAt, Reaches, Has, InGroup
<1>4. Accounting'
  BY <1>1 DEF IndInv, Accounting, EmptyCount, Moved, Unplaced
<1> QED BY <1>1, <1>2, <1>3, <1>4 DEF IndInv

\* Every call and every step of a loop keeps the inductive invariant.
LEMMA IndInvStep == IndInv /\ [Next]_vars => IndInv'
<1> SUFFICES ASSUME IndInv, [Next]_vars PROVE IndInv'
  OBVIOUS
<1>1. ASSUME batched' = batched, NEW k \in Key, Get(k) \/ Remove(k) PROVE IndInv'
  BY <1>1, GetStep, RemoveStep
<1>2. ASSUME batched' = batched, NEW p \in Pairs,
             Insert(p[1], p[2]) \/ TryInsert(p[1], p[2]) \/ RawInsert(p[1], p[2])
      PROVE  IndInv'
  <2>1. p[1] \in Key /\ p[2] \in Value
    BY PairsAssumption
  <2> QED BY <1>2, <2>1, InsertStep, TryInsertStep, RawInsertStep
<1>3. ASSUME batched' = batched, NEW n \in ReserveArgs, Reserve(n) PROVE IndInv'
  BY <1>3, ReserveStep
<1>4. CASE batched' = batched /\ (ShrinkToFit \/ Clear \/ Drain \/ Clone \/ Retain)
  BY <1>4, ShrinkStep, ClearStep, RetainSteps
<1>5. CASE LoopStep
  BY <1>5, RehashStepInv, RehashDoneInv, InsertPendingInv, RetainSteps DEF LoopStep
<1>6. CASE UNCHANGED vars
  BY <1>6, IndInvStutter
<1> QED BY <1>1, <1>2, <1>3, <1>4, <1>5, <1>6 DEF Next, Call, Operation

-----------------------------------------------------------------------------
\* The inductive invariant holds in every reachable state.
THEOREM IndInvHolds == Spec => []IndInv
BY IndInvInit, IndInvStep, PTL DEF Spec

\* The variables keep their types: no decrement of growth_left ever wraps.
THEOREM TypeCorrect == Spec => []TypeOK
<1>1. IndInv => TypeOK
  BY DEF IndInv
<1> QED BY <1>1, IndInvHolds, PTL

\* Core safety of the tombstone scheme: however entries are inserted, removed
\* and rehashed, find_by_hash finds each one.
THEOREM EntriesFindable == Spec => []NoLostEntry
<1>1. IndInv => NoLostEntry
  BY DEF IndInv
<1> QED BY <1>1, IndInvHolds, PTL

\* Both counters are exact in every state, in either kind of rehash.
THEOREM CountersAreExact == Spec => []CountersExact
<1>1. IndInv => CountersExact
  <2> SUFFICES ASSUME IndInv PROVE CountersExact
    OBVIOUS
  <2>1. Moved \in Nat /\ len \in Nat
    BY ArrayOfInv DEF IndInv, TypeOK
  <2>2. Moved > 0 => batched /\ pc = "rehash"
    BY <2>1 DEF Moved
  <2> QED BY <2>1, <2>2 DEF IndInv, Accounting, CountersExact
<1> QED BY <1>1, IndInvHolds, PTL

\* The unbounded loops of find_by_hash, find_or_locate and insert_no_check end:
\* the 1/8 headroom keeps an EMPTY slot whatever the tombstones.
THEOREM LookupsTerminate == Spec => []LookupsEnd
<1>1. IndInv => LookupsEnd
  <2> SUFFICES ASSUME IndInv PROVE LookupsEnd
    OBVIOUS
  <2>1. groups \in GroupCounts /\ DOMAIN slot = Slots(groups) /\ growth_left \in Nat
        /\ allocated \in BOOLEAN /\ Moved \in Nat /\ Unplaced \in Nat
    BY ArrayOfInv DEF IndInv, TypeOK
  <2>2. Capacity(groups) \in Nat /\ MaxLoadFor(groups) \in Nat
        /\ MaxLoadFor(groups) < Capacity(groups)
    BY <2>1, LoadLimits
  <2>3. EmptyCount > 0
    <3>1. CASE allocated
      <4>1. EmptyCount = Capacity(groups) - MaxLoadFor(groups) + growth_left - Moved
            /\ Moved + Unplaced <= growth_left
        BY <3>1 DEF IndInv, Accounting
      <4> QED BY <4>1, <2>1, <2>2
    <3>2. CASE ~allocated
      <4>1. slot = EmptySlots(groups)
        BY <3>2 DEF IndInv, Accounting
      <4>2. {s \in Slots(groups) : slot[s] = EMPTY} = Slots(groups)
        BY <4>1 DEF EmptySlots
      <4>3. EmptyCount = Capacity(groups)
        BY <4>2, <2>1, SlotsCount DEF EmptyCount
      <4> QED BY <4>3, <2>2
    <3> QED BY <3>1, <3>2, <2>1
  <2>4. PICK s \in Slots(groups) : slot[s] = EMPTY
    <3>1. {s \in Slots(groups) : slot[s] = EMPTY} # {}
      BY <2>3, FS_EmptySet DEF EmptyCount
    <3> QED BY <3>1
  <2>5. s = <<s[1], s[2]>> /\ s[1] \in 0 .. groups - 1 /\ s[2] \in SlotIdx
    BY SlotPair
  <2> QED BY <2>4, <2>5 DEF LookupsEnd, Has
<1> QED BY <1>1, IndInvHolds, PTL

-----------------------------------------------------------------------------
(***************************************************************************)
(* Refinement: the table implements the map of MapSpec.                    *)
(***************************************************************************)
\* What the proofs need of the abstract steps: a call that inserts, removes,
\* reads or empties, and a step the client does not see.
LEMMA MapInsert ==
    ASSUME NEW k \in Key, NEW v \in Value, pc # "retain", pc' # "retain",
           ret' = Dict[k], Dict' = [Dict EXCEPT ![k] = v]
    PROVE  Map!Next
BY DEF Map!Next, Map!Call, Map!Insert

\* try_insert on a stored key.
LEMMA MapTryInsert ==
    ASSUME NEW k \in Key, NEW v \in Value, pc # "retain", pc' # "retain",
           Dict[k] # NONE, ret' = v, Dict' = Dict
    PROVE  Map!Next
BY DEF Map!Next, Map!Call, Map!TryInsert

\* get, and the remove of an absent key.
LEMMA MapGet ==
    ASSUME NEW k \in Key, pc # "retain", pc' # "retain", ret' = Dict[k], Dict' = Dict
    PROVE  Map!Next
BY DEF Map!Next, Map!Call, Map!Get

\* remove.
LEMMA MapRemove ==
    ASSUME NEW k \in Key, pc # "retain", pc' # "retain",
           ret' = Dict[k], Dict' = [Dict EXCEPT ![k] = NONE]
    PROVE  Map!Next
BY DEF Map!Next, Map!Call, Map!Remove

\* clear, drain, and shrink_to_fit of an empty map.
LEMMA MapClear ==
    ASSUME pc # "retain", pc' # "retain", ret' = ret, Dict' = [k \in Key |-> NONE]
    PROVE  Map!Next
BY DEF Map!Next, Map!Call, Map!Clear

\* retain begins or ends.
LEMMA MapRetain ==
    ASSUME pc = "retain" <=> pc' # "retain", ret' = ret, Dict' = Dict
    PROVE  Map!Next
BY DEF Map!Next, Map!Retain

\* retain rejects the entry of k.
LEMMA MapDiscard ==
    ASSUME NEW k \in Key, pc = "retain", pc' = "retain", ret' = ret,
           Dict' = [Dict EXCEPT ![k] = NONE]
    PROVE  Map!Next
BY DEF Map!Next, Map!Discard

\* Growing, shrinking and moving entries are invisible.
LEMMA MapStutter ==
    ASSUME Dict' = Dict, ret' = ret, pc = "retain" <=> pc' = "retain"
    PROVE  UNCHANGED Map!vars
BY DEF Map!vars

\* No key is in two entries.
LEMMA EntriesDiffer ==
    ASSUME NEW f, NEW g,
           \A s, t \in Occupied(f) : f[s].key = f[t].key => s = t,
           \A s, t \in Occupied(g) : g[s].key = g[t].key => s = t,
           \A s \in Occupied(f), t \in Occupied(g) : f[s].key # g[t].key
    PROVE  DifferentKeys({f[s] : s \in Occupied(f)} \cup {g[s] : s \in Occupied(g)})
BY DEF DifferentKeys

\* The entries of a state and of its successor.
LEMMA EntriesOfInv ==
    ASSUME IndInv
    PROVE  /\ DifferentKeys(Entries)
           /\ \A e \in Entries : e \in Entry /\ e.key \in Key /\ e.val \in Value
<1>1. DifferentKeys(Entries)
  <2>1. /\ \A s, t \in Occupied(slot) : slot[s].key = slot[t].key => s = t
        /\ \A s, t \in Occupied(old) : old[s].key = old[t].key => s = t
        /\ \A s \in Occupied(slot), t \in Occupied(old) : slot[s].key # old[t].key
    BY DEF IndInv, UniqueKeys
  <2> QED BY <2>1, EntriesDiffer DEF Entries
<1>2. \A s \in Occupied(slot) : slot[s] \in Entry
  BY DEF IndInv, TypeOK, Occupied
<1>3. \A s \in Occupied(old) : old[s] \in Entry
  BY DEF IndInv, TypeOK, Occupied
<1>4. \A e \in Entries : e \in Entry
  BY <1>2, <1>3 DEF Entries
<1> QED BY <1>1, <1>4 DEF Entry

\* The entries of the next state have different keys too.
LEMMA EntriesOfNext ==
    ASSUME IndInv'
    PROVE  DifferentKeys(Entries')
<1>1. /\ \A s, t \in Occupied(slot') : slot'[s].key = slot'[t].key => s = t
      /\ \A s, t \in Occupied(old') : old'[s].key = old'[t].key => s = t
      /\ \A s \in Occupied(slot'), t \in Occupied(old') : slot'[s].key # old'[t].key
  BY DEF IndInv, UniqueKeys
<1> QED BY <1>1, EntriesDiffer DEF Entries

\* The value of a stored key.
LEMMA DictHit ==
    ASSUME IndInv, NEW s \in Occupied(slot)
    PROVE  /\ Dict[slot[s].key] = slot[s].val
           /\ slot[s].val # NONE
<1>1. slot[s] \in Entries
  BY DEF Entries
<1>2. slot[s].key \in Key /\ slot[s].val \in Value
  BY <1>1, EntriesOfInv
<1> QED BY <1>1, <1>2, EntriesOfInv, DictAt, SentinelAssumption DEF Dict

\* A key in neither array has no value.
LEMMA DictMiss ==
    ASSUME IndInv, NEW k \in Key, Absent(k), \A t \in Occupied(old) : old[t].key # k
    PROVE  Dict[k] = NONE
<1>1. \A e \in Entries : e.key # k
  BY DEF Entries, Absent
<1> QED BY <1>1, EntriesOfInv, DictAt DEF Dict

\* The array gains an entry that the rehash does not hold.
LEMMA DictGains ==
    ASSUME IndInv, IndInv', NEW k \in Key, NEW v \in Value, Gains(k, v),
           Occupied(old) = {}, Occupied(old)' = {}
    PROVE  Dict' = [Dict EXCEPT ![k] = v]
<1>1. PICK s \in Slots(groups) :
        /\ s \notin Occupied(slot)
        /\ Occupied(slot)' = Occupied(slot) \cup {s}
        /\ slot'[s] = [key |-> k, val |-> v]
        /\ \A t \in Occupied(slot) : slot'[t] = slot[t]
  BY DEF Gains
<1>2. PICK e : e = [key |-> k, val |-> v] /\ e.key = k /\ e.val = v
  <2>1. [key |-> k, val |-> v].key = k /\ [key |-> k, val |-> v].val = v
    OBVIOUS
  <2> QED BY <2>1
<1>3. Entries' = Entries \cup {e}
  BY <1>1, <1>2 DEF Entries
<1>4. SameElsewhere(Entries, Entries', k)
  BY <1>2, <1>3 DEF SameElsewhere
<1>5. Holds(Entries', k, v, NONE)
  BY <1>2, <1>3 DEF Holds
<1>6. DifferentKeys(Entries) /\ DifferentKeys(Entries')
  BY EntriesOfInv, EntriesOfNext
<1>7. DictOf(Entries', NONE) = Update(DictOf(Entries, NONE), k, v)
  BY <1>4, <1>5, <1>6, DictOneKey
<1> QED BY <1>7 DEF Dict, Update

\* The array loses the entry in slot s.
LEMMA DictLoses ==
    ASSUME IndInv, IndInv', NEW s \in Occupied(slot),
           Occupied(slot)' = Occupied(slot) \ {s},
           \A t \in Occupied(slot)' : slot'[t] = slot[t],
           Occupied(old) = {}, Occupied(old)' = {}
    PROVE  Dict' = [Dict EXCEPT ![slot[s].key] = NONE]
<1>1. PICK k \in Key : k = slot[s].key
  BY EntriesOfInv DEF Entries
<1>2. Entries' = Entries \ {slot[s]}
  BY DEF Entries, IndInv, UniqueKeys
<1>3. \A e \in Entries : e.key = k => e = slot[s]
  BY <1>1, EntriesOfInv DEF Entries, DifferentKeys
<1>4. SameElsewhere(Entries, Entries', k) /\ Holds(Entries', k, NONE, NONE)
  BY <1>1, <1>2, <1>3 DEF SameElsewhere, Holds
<1>5. DifferentKeys(Entries) /\ DifferentKeys(Entries')
  BY EntriesOfInv, EntriesOfNext
<1>6. DictOf(Entries', NONE) = Update(DictOf(Entries, NONE), k, NONE)
  BY <1>4, <1>5, DictOneKey
<1> QED BY <1>1, <1>6 DEF Dict, Update

\* The value in slot s is replaced.
LEMMA DictReplaces ==
    ASSUME IndInv, IndInv', NEW s \in Occupied(slot), NEW v \in Value,
           Occupied(slot)' = Occupied(slot),
           slot'[s] = [key |-> slot[s].key, val |-> v],
           \A t \in Occupied(slot) : t # s => slot'[t] = slot[t],
           Occupied(old) = {}, Occupied(old)' = {}
    PROVE  Dict' = [Dict EXCEPT ![slot[s].key] = v]
<1>1. PICK k \in Key : k = slot[s].key
  BY EntriesOfInv DEF Entries
<1>2. PICK e : e = [key |-> k, val |-> v] /\ e.key = k /\ e.val = v /\ e = slot'[s]
  BY <1>1
<1>3. Entries = {slot[t] : t \in Occupied(slot)} /\ Entries' = {slot'[t] : t \in Occupied(slot)}
  BY DEF Entries
<1>4. \A t \in Occupied(slot) : t # s => slot[t].key # k
  BY <1>1 DEF IndInv, UniqueKeys
<1>5. SameElsewhere(Entries, Entries', k)
  BY <1>1, <1>2, <1>3, <1>4 DEF SameElsewhere
<1>6. Holds(Entries', k, v, NONE)
  BY <1>2, <1>3 DEF Holds
<1>7. DifferentKeys(Entries) /\ DifferentKeys(Entries')
  BY EntriesOfInv, EntriesOfNext
<1>8. DictOf(Entries', NONE) = Update(DictOf(Entries, NONE), k, v)
  BY <1>5, <1>6, <1>7, DictOneKey
<1> QED BY <1>1, <1>8 DEF Dict, Update

\* Nothing is stored.
LEMMA DictEmpty ==
    ASSUME Occupied(slot)' = {}, Occupied(old)' = {}
    PROVE  Dict' = [k \in Key |-> NONE]
<1>1. Entries' = {}
  BY DEF Entries
<1> QED BY <1>1 DEF Dict, DictOf

\* A step that leaves the entries where they are, or moves them.
LEMMA SameEntries ==
    ASSUME Entries' = Entries, ret' = ret, pc = "retain" <=> pc' = "retain"
    PROVE  UNCHANGED Map!vars
<1>1. Dict' = Dict
  BY DEF Dict
<1> QED BY <1>1, MapStutter

\* A client sees nothing of the start of a rehash.
LEMMA RehashUnseen ==
    ASSUME IndInv, pc = "ready", NEW m, NEW p, Rehash(m, p)
    PROVE  UNCHANGED Map!vars
<1>1. slot' = EmptySlots(m) /\ old' = (IF allocated THEN slot ELSE EmptySlots(1))
      /\ ret' = ret /\ pc' = "rehash"
  BY DEF Rehash, Allocate
<1>2. Occupied(slot') = {} /\ Occupied(EmptySlots(1)) = {} /\ Occupied(old) = {}
  BY <1>1, Quiet DEF Occupied, EmptySlots
<1>3. ~allocated => Occupied(slot) = {}
  BY DEF IndInv, Accounting, Occupied, EmptySlots
<1>4. Entries' = {old'[s] : s \in Occupied(old')}
  BY <1>2 DEF Entries
<1>5. Entries = {slot[s] : s \in Occupied(slot)}
  BY <1>2 DEF Entries
<1>6. CASE allocated
  BY <1>1, <1>4, <1>5, <1>6, SameEntries
<1>7. CASE ~allocated
  <2>1. Occupied(old') = {} /\ Occupied(slot) = {}
    BY <1>1, <1>2, <1>3, <1>7
  <2>2. Entries' = Entries
    BY <2>1, <1>4, <1>5
  <2> QED BY <2>2, <1>1, SameEntries
<1> QED BY <1>6, <1>7

\* A new key goes in at once.
LEMMA PlaceSeen ==
    ASSUME IndInv, IndInv', pc = "ready", pc' = "ready", NEW k \in Key, NEW v \in Value,
           Absent(k), Gains(k, v), ret' = NONE
    PROVE  Map!Next
<1>1. Occupied(old) = {} /\ Occupied(old)' = {}
  BY Quiet DEF IndInv
<1>2. Dict[k] = NONE
  BY <1>1, DictMiss
<1>3. Dict' = [Dict EXCEPT ![k] = v]
  BY <1>1, DictGains
<1> QED BY <1>2, <1>3, MapInsert

\* An absent key of an insert into an allocated table.
LEMMA InsertAbsentSeen ==
    ASSUME IndInv, IndInv', pc = "ready", NEW k \in Key, NEW v \in Value,
           Absent(k), InsertAbsent(k, v)
    PROVE  Map!Next \/ UNCHANGED Map!vars
<1>1. CASE GrowOrRehash([key |-> k, val |-> v])
  BY <1>1, RehashUnseen DEF GrowOrRehash
<1>2. CASE (InsertHome(k, v) \/ InsertNoCheck(k, v)) /\ ret' = NONE
           /\ UNCHANGED <<groups, allocated, pc, loop>>
  <2>1. Gains(k, v)
    BY <1>2, ArrayOfInv, InsertHomeInv, InsertNoCheckInv
  <2> QED BY <2>1, <1>2, PlaceSeen
<1> QED BY <1>1, <1>2 DEF InsertAbsent

\* The first key of an unallocated table.
LEMMA InsertFreshSeen ==
    ASSUME IndInv, IndInv', pc = "ready", ~allocated,
           NEW m \in GroupCounts, NEW k \in Key, NEW v \in Value, InsertFresh(m, k, v)
    PROVE  Map!Next
<1>1. groups' = m /\ ret' = NONE /\ UNCHANGED <<pc, loop>>
      /\ slot' = [EmptySlots(m) EXCEPT ![<<GroupIndex(k, m), 0>>] = [key |-> k, val |-> v]]
  BY DEF InsertFresh
<1>2. Occupied(slot) = {}
  BY DEF IndInv, Accounting, Occupied, EmptySlots
<1>3. Occupied(old) = {} /\ Occupied(old)' = {}
  BY <1>1, Quiet DEF IndInv
<1>4. PICK s : Occupied(slot)' = {s} /\ slot'[s] = [key |-> k, val |-> v]
  <2>1. Single(k, v)
    BY <1>1, FirstEntryArray
  <2> QED BY <2>1 DEF Single
<1>5. PICK e : e = [key |-> k, val |-> v] /\ e.key = k /\ e.val = v
  <2>1. [key |-> k, val |-> v].key = k /\ [key |-> k, val |-> v].val = v
    OBVIOUS
  <2> QED BY <2>1
<1>6. Entries = {} /\ Entries' = {e}
  <2>1. Entries = {}
    BY <1>2, <1>3 DEF Entries
  <2>2. Entries' = {slot'[t] : t \in Occupied(slot)'}
    BY <1>3 DEF Entries
  <2> QED BY <2>1, <2>2, <1>4, <1>5
<1>7. SameElsewhere(Entries, Entries', k) /\ Holds(Entries', k, v, NONE)
  BY <1>5, <1>6 DEF SameElsewhere, Holds
<1>8. DifferentKeys(Entries) /\ DifferentKeys(Entries')
  BY EntriesOfInv, EntriesOfNext
<1>9. DictOf(Entries', NONE) = Update(DictOf(Entries, NONE), k, v)
  BY <1>7, <1>8, DictOneKey
<1>10. Dict[k] = NONE
  BY <1>2, <1>3, DictMiss DEF Absent
<1>11. Dict' = [Dict EXCEPT ![k] = v]
  BY <1>9 DEF Dict, Update
<1> QED BY <1>1, <1>10, <1>11, MapInsert

\* insert_or_replace.
LEMMA InsertSeen ==
    ASSUME IndInv, IndInv', NEW k \in Key, NEW v \in Value, Insert(k, v)
    PROVE  Map!Next \/ UNCHANGED Map!vars
<1>1. pc = "ready" /\ ArrayInv
  BY ArrayOfInv DEF Insert
<1>2. CASE ~allocated /\ InsertFresh(1, k, v)
  BY <1>1, <1>2, InsertFreshSeen, GroupCountsAssumption
<1>3. CASE allocated /\ FindMiss(k) /\ InsertAbsent(k, v)
  BY <1>1, <1>3, InsertAbsentSeen, MissMeansAbsent
<1>4. ASSUME NEW s \in Slots(groups), FindHit(k, s),
             slot' = [slot EXCEPT ![s].val = v], ret' = slot[s].val,
             UNCHANGED <<groups, len, growth_left, allocated, pc, loop>>
      PROVE  Map!Next
  <2>1. s \in Occupied(slot) /\ slot[s].key = k
    BY <1>4, HitSlot
  <2>2. /\ Occupied(slot)' = Occupied(slot)
        /\ slot'[s] = [key |-> slot[s].key, val |-> v]
        /\ \A t \in Occupied(slot) : t # s => slot'[t] = slot[t]
    BY <2>1, <1>1, <1>4, ReplaceArray
  <2>3. Occupied(old) = {} /\ Occupied(old)' = {}
    BY <1>1, <1>4, Quiet DEF IndInv
  <2>4. Dict' = [Dict EXCEPT ![slot[s].key] = v]
    BY <2>1, <2>2, <2>3, DictReplaces
  <2>5. Dict[k] = slot[s].val
    BY <2>1, DictHit
  <2> QED BY <2>1, <2>4, <2>5, <1>1, <1>4, MapInsert
<1> QED BY <1>2, <1>3, <1>4 DEF Insert

\* try_insert and entry().or_insert().
LEMMA TryInsertSeen ==
    ASSUME IndInv, IndInv', NEW k \in Key, NEW v \in Value, TryInsert(k, v)
    PROVE  Map!Next \/ UNCHANGED Map!vars
<1>1. pc = "ready" /\ ArrayInv
  BY ArrayOfInv DEF TryInsert
<1>2. ASSUME ~allocated, NEW m \in GroupCounts, InsertFresh(m, k, v) PROVE Map!Next
  BY <1>1, <1>2, InsertFreshSeen
<1>3. CASE allocated /\ FindMiss(k) /\ InsertAbsent(k, v)
  BY <1>1, <1>3, InsertAbsentSeen, MissMeansAbsent
<1>4. ASSUME NEW s \in Slots(groups), FindHit(k, s), ret' = v, UNCHANGED <<table, pc, loop>>
      PROVE  Map!Next
  <2>1. s \in Occupied(slot) /\ slot[s].key = k
    BY <1>4, HitSlot
  <2>2. Dict[k] # NONE
    BY <2>1, DictHit
  <2>3. Dict' = Dict
    BY <1>4 DEF Dict, Entries, table, loop
  <2> QED BY <2>2, <2>3, <1>1, <1>4, MapTryInsert
<1> QED BY <1>2, <1>3, <1>4 DEF TryInsert

\* RawVacantEntryMut::insert.
LEMMA RawInsertSeen ==
    ASSUME IndInv, IndInv', NEW k \in Key, NEW v \in Value, RawInsert(k, v)
    PROVE  Map!Next \/ UNCHANGED Map!vars
<1>1. pc = "ready" /\ Absent(k) /\ ArrayInv
  BY ArrayOfInv, MissMeansAbsent DEF RawInsert
<1>2. CASE GrowOrRehash([key |-> k, val |-> v])
  BY <1>1, <1>2, RehashUnseen DEF GrowOrRehash
<1>3. CASE InsertNoCheck(k, v) /\ ret' = NONE /\ UNCHANGED <<groups, allocated, pc, loop>>
  <2>1. Gains(k, v)
    BY <1>1, <1>3, InsertNoCheckInv
  <2> QED BY <2>1, <1>1, <1>3, PlaceSeen
<1> QED BY <1>2, <1>3 DEF RawInsert

\* get.
LEMMA GetSeen ==
    ASSUME IndInv, NEW k \in Key, Get(k)
    PROVE  Map!Next
<1>1. pc = "ready" /\ UNCHANGED <<table, pc, loop>>
  BY DEF Get
<1>2. Dict' = Dict
  BY <1>1 DEF Dict, Entries, table, loop
<1>3. ret' = Dict[k]
  <2>1. ASSUME NEW s \in Slots(groups), FindHit(k, s), ret' = slot[s].val PROVE ret' = Dict[k]
    BY <2>1, HitSlot, DictHit
  <2>2. CASE FindMiss(k) /\ ret' = NONE
    BY <2>2, <1>1, ArrayOfInv, Quiet, MissMeansAbsent, DictMiss
  <2> QED BY <2>1, <2>2 DEF Get
<1> QED BY <1>1, <1>2, <1>3, MapGet

\* remove, remove_entry.
LEMMA RemoveSeen ==
    ASSUME IndInv, IndInv', NEW k \in Key, Remove(k)
    PROVE  Map!Next
<1>1. pc = "ready" /\ UNCHANGED <<pc, loop>>
  BY DEF Remove
<1>2. Occupied(old) = {} /\ Occupied(old)' = {}
  BY <1>1, Quiet DEF IndInv
<1>3. ASSUME NEW s \in Slots(groups), FindHit(k, s), EraseSlot(s), ret' = slot[s].val
      PROVE  Map!Next
  <2>1. s \in Occupied(slot) /\ slot[s].key = k
    BY <1>3, HitSlot
  <2>2. Occupied(slot)' = Occupied(slot) \ {s} /\ \A t \in Occupied(slot)' : slot'[t] = slot[t]
    BY <2>1, <1>1, <1>3, EraseCounts
  <2>3. Dict' = [Dict EXCEPT ![slot[s].key] = NONE]
    BY <2>1, <2>2, <1>2, DictLoses
  <2>4. Dict[k] = slot[s].val
    BY <2>1, DictHit
  <2> QED BY <2>1, <2>3, <2>4, <1>1, <1>3, MapRemove
<1>4. CASE FindMiss(k) /\ ret' = NONE /\ UNCHANGED table
  <2>1. Dict[k] = NONE
    BY <1>2, <1>4, ArrayOfInv, MissMeansAbsent, DictMiss
  <2>2. Dict' = Dict
    BY <1>1, <1>4 DEF Dict, Entries, table, loop
  <2> QED BY <2>1, <2>2, <1>1, <1>4, MapGet
<1> QED BY <1>3, <1>4 DEF Remove

\* An empty array replaces the array.
LEMMA EmptiedSeen ==
    ASSUME IndInv, NEW m, pc = "ready", slot' = EmptySlots(m), UNCHANGED <<pc, loop, ret>>
    PROVE  Map!Next
<1>1. Occupied(slot') = {}
  BY DEF Occupied, EmptySlots
<1>2. Occupied(old)' = {} /\ pc' = "ready" /\ ret' = ret
  BY Quiet DEF loop
<1>3. Dict' = [k \in Key |-> NONE]
  BY <1>1, <1>2, DictEmpty
<1> QED BY <1>2, <1>3, MapClear

\* reserve, shrink_to_fit, clear, drain, clone.
LEMMA CapacitySeen ==
    ASSUME IndInv, (\E n \in ReserveArgs : Reserve(n)) \/ ShrinkToFit \/ Clear \/ Drain \/ Clone
    PROVE  Map!Next \/ UNCHANGED Map!vars
<1>1. ASSUME NEW n \in ReserveArgs, Reserve(n) PROVE Map!Next \/ UNCHANGED Map!vars
  <2>1. pc = "ready"
    BY <1>1 DEF Reserve
  <2>2. PICK m \in GroupCounts :
          \/ Allocate(m, EmptySlots(m)) /\ UNCHANGED <<len, pc, loop, ret>>
          \/ Rehash(m, EMPTY)
    BY <1>1 DEF Reserve
  <2>3. CASE Allocate(m, EmptySlots(m)) /\ UNCHANGED <<len, pc, loop, ret>>
    BY <2>1, <2>3, EmptiedSeen DEF Allocate
  <2>4. CASE Rehash(m, EMPTY)
    BY <2>1, <2>4, RehashUnseen
  <2> QED BY <2>2, <2>3, <2>4
<1>2. CASE ShrinkToFit
  <2>1. pc = "ready"
    BY <1>2 DEF ShrinkToFit
  <2>2. CASE Reset /\ UNCHANGED <<pc, loop, ret>>
    BY <2>1, <2>2, EmptiedSeen DEF Reset
  <2>3. ASSUME NEW m, Rehash(m, EMPTY) PROVE UNCHANGED Map!vars
    BY <2>1, <2>3, RehashUnseen
  <2> QED BY <1>2, <2>2, <2>3 DEF ShrinkToFit
<1>3. CASE Clear
  BY <1>3, EmptiedSeen DEF Clear
<1>4. CASE Drain
  BY <1>4, EmptiedSeen DEF Drain, Reset
<1>5. CASE Clone
  <2>1. Entries' = Entries /\ ret' = ret /\ pc' = pc
    BY <1>5 DEF Clone, Entries, loop
  <2> QED BY <2>1, SameEntries
<1> QED BY <1>1, <1>2, <1>3, <1>4, <1>5

\* retain drops entries one at a time.
LEMMA RetainSeen ==
    ASSUME IndInv, IndInv', Retain \/ RetainStep \/ RetainDone
    PROVE  Map!Next \/ UNCHANGED Map!vars
<1>1. CASE Retain \/ RetainDone
  <2>1. Dict' = Dict /\ ret' = ret /\ (pc = "retain" <=> pc' # "retain")
    BY <1>1 DEF Retain, RetainDone, Dict, Entries, table, loop
  <2> QED BY <2>1, MapRetain
<1>2. CASE RetainStep
  <2>1. pc = "retain" /\ pc' = "retain" /\ UNCHANGED <<old, ret>>
    BY <1>2 DEF RetainStep
  <2>2. Occupied(old) = {} /\ Occupied(old)' = {}
    BY <2>1, Quiet DEF IndInv
  <2>3. PICK s \in todo : UNCHANGED table \/ EraseSlot(s)
    BY <1>2 DEF RetainStep
  <2>4. CASE UNCHANGED table
    <3>1. Entries' = Entries
      BY <2>1, <2>4 DEF Entries, table
    <3> QED BY <2>1, <3>1, SameEntries
  <2>5. CASE EraseSlot(s)
    <3>1. s \in Occupied(slot)
      BY DEF IndInv
    <3>2. Occupied(slot)' = Occupied(slot) \ {s} /\ \A t \in Occupied(slot)' : slot'[t] = slot[t]
      BY <3>1, <2>1, <2>5, EraseCounts
    <3>3. Dict' = [Dict EXCEPT ![slot[s].key] = NONE]
      BY <3>1, <3>2, <2>2, DictLoses
    <3>4. slot[s].key \in Key
      BY <3>1, EntriesOfInv DEF Entries
    <3> QED BY <3>3, <3>4, <2>1, MapDiscard
  <2> QED BY <2>3, <2>4, <2>5
<1> QED BY <1>1, <1>2

\* A moved entry is still there.
LEMMA RehashStepUnseen ==
    ASSUME IndInv, RehashStep
    PROVE  UNCHANGED Map!vars
<1>1. pc = "rehash" /\ UNCHANGED <<groups, allocated, pc, old_len, pend, todo, ret>>
  BY DEF RehashStep
<1>2. PICK s \in Occupied(old) :
        /\ \/ InsertAfterResize(old[s].key, old[s].val)
           \/ InsertNoCheck(old[s].key, old[s].val)
        /\ old' = [old EXCEPT ![s] = EMPTY]
  BY DEF RehashStep
<1>3. /\ Occupied(old)' = Occupied(old) \ {s}
      /\ \A t \in Occupied(old)' : old'[t] = old[t]
      /\ old[s].key \in Key /\ old[s].val \in Value
      /\ old[s] = [key |-> old[s].key, val |-> old[s].val]
  BY <1>2, OldShrinks
<1>4. PICK k \in Key, v \in Value : k = old[s].key /\ v = old[s].val
  BY <1>3
<1>5. Absent(k)
  BY <1>2, <1>4 DEF Absent, IndInv, UniqueKeys
<1>6. Gains(k, v)
  BY <1>1, <1>2, <1>4, <1>5, ArrayOfInv, InsertAfterResizeInv, InsertNoCheckInv
<1>7. PICK t \in Slots(groups) :
        /\ Occupied(slot)' = Occupied(slot) \cup {t}
        /\ slot'[t] = [key |-> k, val |-> v]
        /\ \A u \in Occupied(slot) : slot'[u] = slot[u]
  BY <1>6 DEF Gains
<1>8. {slot'[u] : u \in Occupied(slot)'} = {slot[u] : u \in Occupied(slot)} \cup {old[s]}
  BY <1>3, <1>4, <1>7
<1>9. {old'[u] : u \in Occupied(old)'} \cup {old[s]} = {old[u] : u \in Occupied(old)}
  BY <1>3
<1>10. Entries' = Entries
  BY <1>8, <1>9 DEF Entries
<1> QED BY <1>1, <1>10, SameEntries

\* The end of a rehash, and the insert that waited for it.
LEMMA RehashEndSeen ==
    ASSUME IndInv, IndInv', batched' = batched, RehashDone \/ InsertPending
    PROVE  Map!Next \/ UNCHANGED Map!vars
<1>1. CASE RehashDone
  <2>1. Occupied(old) = {} /\ old' = EmptySlots(1) /\ slot' = slot /\ ret' = ret
        /\ pc # "retain" /\ pc' # "retain"
    BY <1>1 DEF RehashDone
  <2>2. Occupied(old') = {}
    BY <2>1 DEF Occupied, EmptySlots
  <2>3. Entries' = Entries
    BY <2>1, <2>2 DEF Entries
  <2> QED BY <2>1, <2>3, SameEntries
<1>2. CASE InsertPending
  <2>1. pc = "insert" /\ pc' = "ready" /\ ret' = NONE /\ old' = old
    BY <1>2 DEF InsertPending
  <2>2. Occupied(old) = {} /\ Occupied(old)' = {} /\ pend # EMPTY /\ pend \in Entry
    BY <2>1 DEF IndInv, TypeOK
  <2>3. PICK k \in Key, v \in Value : k = pend.key /\ v = pend.val
    BY <2>2 DEF Entry
  <2>4. Gains(k, v)
    BY <1>2, <2>3, InsertPendingInv
  <2>5. Absent(k)
    BY <2>2, <2>3 DEF Absent, IndInv, UniqueKeys
  <2>6. Dict[k] = NONE
    BY <2>2, <2>5, DictMiss
  <2>7. Dict' = [Dict EXCEPT ![k] = v]
    BY <2>2, <2>4, DictGains
  <2> QED BY <2>1, <2>6, <2>7, MapInsert
<1> QED BY <1>1, <1>2

\* Every step of the table is a step of the map, or invisible.
LEMMA StepSimulates == IndInv /\ IndInv' /\ [Next]_vars => [Map!Next]_(Map!vars)
<1> SUFFICES ASSUME IndInv, IndInv', [Next]_vars PROVE Map!Next \/ UNCHANGED Map!vars
  OBVIOUS
<1>1. ASSUME NEW k \in Key, Get(k) \/ Remove(k) PROVE Map!Next
  BY <1>1, GetSeen, RemoveSeen
<1>2. ASSUME NEW p \in Pairs,
             Insert(p[1], p[2]) \/ TryInsert(p[1], p[2]) \/ RawInsert(p[1], p[2])
      PROVE  Map!Next \/ UNCHANGED Map!vars
  <2>1. p[1] \in Key /\ p[2] \in Value
    BY PairsAssumption
  <2> QED BY <1>2, <2>1, InsertSeen, TryInsertSeen, RawInsertSeen
<1>3. CASE (\E n \in ReserveArgs : Reserve(n)) \/ ShrinkToFit \/ Clear \/ Drain \/ Clone
  BY <1>3, CapacitySeen
<1>4. CASE Retain \/ RetainStep \/ RetainDone
  BY <1>4, RetainSeen
<1>5. CASE batched' = batched /\ (RehashStep \/ RehashDone \/ InsertPending)
  BY <1>5, RehashStepUnseen, RehashEndSeen
<1>6. CASE UNCHANGED vars
  <2>1. Entries' = Entries /\ ret' = ret /\ pc' = pc
    BY <1>6 DEF vars, table, loop, Entries
  <2> QED BY <2>1, SameEntries
<1> QED BY <1>1, <1>2, <1>3, <1>4, <1>5, <1>6 DEF Next, Call, Operation, LoopStep

\* The tombstone table implements the map: whatever is inserted, removed,
\* reserved, shrunk, cloned or retained, the answers are those of a dictionary.
THEOREM RefinesMap == Spec => ImplementsMap
<1>1. Init => Map!Init
  <2> SUFFICES ASSUME Init PROVE Map!Init
    OBVIOUS
  <2>1. Entries = {}
    BY DEF Init, Entries, Occupied, EmptySlots
  <2>2. Dict = [k \in Key |-> NONE]
    BY <2>1 DEF Dict, DictOf
  <2> QED BY <2>2 DEF Init, Map!Init
<1> QED BY <1>1, IndInvHolds, StepSimulates, PTL DEF Spec, ImplementsMap, Map!Spec
=============================================================================
