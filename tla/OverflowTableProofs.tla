------------------------ MODULE OverflowTableProofs -------------------------
(***************************************************************************)
(* Proofs about OverflowTable, for every set of keys, every hash function, *)
(* every group size and every bound on the number of groups.               *)
(***************************************************************************)
EXTENDS OverflowTable, FiniteSetTheorems, TLAPS

(***************************************************************************)
(* Probing, slots and capacities                                           *)
(***************************************************************************)
\* A remainder is below its divisor.
LEMMA ModRange ==
    ASSUME NEW a \in Nat, NEW m \in Nat \ {0}
    PROVE  a % m \in 0 .. m - 1
OBVIOUS

\* The offset of every probe is a natural number.
LEMMA TriNat == \A p \in Nat : Tri(p) \in Nat
<1> TAKE p \in Nat
<1>1. p * (p + 1) \in Nat
  OBVIOUS
<1>2. \A x \in Nat : x \div 2 \in Nat
  OBVIOUS
<1> QED BY <1>1, <1>2 DEF Tri

\* group_index and every probe stay inside the table.
LEMMA GroupIndexRange ==
    ASSUME NEW k \in Key, NEW m \in GroupCounts
    PROVE  GroupIndex(k, m) \in 0 .. m - 1
<1>1. Hash[k] \in Nat /\ m \in Nat \ {0}
  BY HashAssumption, GroupCountsAssumption
<1>2. CASE IndexHigh
  <2> DEFINE w == HashSpace \div m
  <2>1. w \in Nat \ {0}
    <3>1. HashSpace \in Nat /\ m <= HashSpace
      BY RegionAssumption
    <3> QED BY <1>1, <3>1
  <2>2. Hash[k] \div w \in Nat
    <3> HIDE DEF w
    <3> QED BY <1>1, <2>1
  <2> QED BY <1>1, <1>2, <2>2, ModRange DEF GroupIndex
<1>3. CASE ~IndexHigh
  BY <1>1, <1>3, ModRange DEF GroupIndex
<1> QED BY <1>2, <1>3

\* gi = (gi + probe) & mask: every probe is a group of the table.
LEMMA ProbeRange ==
    ASSUME NEW k \in Key, NEW m \in GroupCounts, NEW p \in Nat
    PROVE  Probe(k, m, p) \in 0 .. m - 1
<1>1. m \in Nat \ {0}
  BY GroupCountsAssumption
<1>2. GroupIndex(k, m) + Tri(p) \in Nat
  BY <1>1, GroupIndexRange, TriNat
<1> QED BY <1>1, <1>2, ModRange DEF Probe

\* Probe 0 is the home group.
LEMMA ProbeZero ==
    ASSUME NEW k \in Key, NEW m \in GroupCounts
    PROVE  Probe(k, m, 0) = GroupIndex(k, m)
<1>1. m \in Nat \ {0}
  BY GroupCountsAssumption
<1>2. Tri(0) = 0
  BY DEF Tri
<1>3. \A g \in 0 .. m - 1 : g % m = g
  BY <1>1
<1> QED BY <1>1, <1>2, <1>3, GroupIndexRange DEF Probe

\* The first m probes of a key reach every group.
LEMMA ProbeReachesAll ==
    ASSUME NEW k \in Key, NEW m \in GroupCounts, NEW g \in 0 .. m - 1
    PROVE  \E p \in 0 .. m - 1 : Probe(k, m, p) = g
BY GroupIndexRange, ProbeCoversAssumption DEF Probe

\* A table has Capacity(m) slots.
LEMMA SlotsCount ==
    ASSUME NEW m \in GroupCounts
    PROVE  IsFiniteSet(Slots(m)) /\ Cardinality(Slots(m)) = Capacity(m)
<1>1. m \in Nat \ {0} /\ GroupSize \in Nat \ {0}
  BY GroupCountsAssumption, GroupSizeAssumption
<1>2. IsFiniteSet(0 .. m - 1) /\ Cardinality(0 .. m - 1) = m
  BY <1>1, FS_Interval
<1>3. IsFiniteSet(SlotIdx) /\ Cardinality(SlotIdx) = GroupSize
  BY <1>1, FS_Interval DEF SlotIdx
<1> QED BY <1>2, <1>3, FS_Product DEF Slots, Capacity

\* The load limit leaves a slot free and is at least one; doubling raises it;
\* groups_for_capacity(c) has a load limit of at least c.
LEMMA LoadLimits ==
    ASSUME NEW m \in GroupCounts
    PROVE  /\ MaxLoadFor(m) \in Nat
           /\ Capacity(m) \in Nat
           /\ MaxLoadFor(m) < Capacity(m)
           /\ 1 <= MaxLoadFor(m)
           /\ MaxLoadFor(m) + 1 <= MaxLoadFor(2 * m)
           /\ \A c \in Nat : GroupsFor(c, m) => c <= MaxLoadFor(m)
<1>1. m \in Nat \ {0} /\ GroupSize \in Nat /\ GroupSize >= 2
  BY GroupCountsAssumption, GroupSizeAssumption
<1> DEFINE c1 == Capacity(m)
<1>2. c1 \in Nat /\ c1 >= 2
  BY <1>1 DEF Capacity
<1>3. Capacity(2 * m) = 2 * c1
  BY <1>1 DEF Capacity
<1> HIDE DEF c1
<1>4. (c1 * 7) \div 8 \in Nat /\ (c1 * 7) \div 8 < c1 /\ 1 <= (c1 * 7) \div 8
  BY <1>2
<1>5. (c1 * 7) \div 8 + 1 <= (2 * c1 * 7) \div 8
  BY <1>2
<1>6. \A c \in Nat : c1 >= (c * 8 + 6) \div 7 => c <= (c1 * 7) \div 8
  BY <1>2
<1> QED BY <1>2, <1>3, <1>4, <1>5, <1>6 DEF MaxLoadFor, GroupsFor, MinSlots, c1

\* A slot is the pair of its coordinates.
LEMMA SlotPair ==
    ASSUME NEW m, NEW s \in Slots(m)
    PROVE  s = <<s[1], s[2]>> /\ s[1] \in 0 .. m - 1 /\ s[2] \in SlotIdx
BY DEF Slots

\* A group index and a slot index in range name a slot.
LEMMA SlotMake ==
    ASSUME NEW m, NEW g \in 0 .. m - 1, NEW j \in SlotIdx
    PROVE  <<g, j>> \in Slots(m) /\ <<g, j>>[1] = g /\ <<g, j>>[2] = j
BY DEF Slots

-----------------------------------------------------------------------------
(***************************************************************************)
(* Dictionaries                                                            *)
(***************************************************************************)
\* The dictionary of a set of entries in which no key occurs twice.
DifferentKeys(E) == \A d, e \in E : d.key = e.key => d = e

\* A stored key has the value of its entry, any other key none.
LEMMA DictAt ==
    ASSUME NEW E, NEW none, DifferentKeys(E)
    PROVE  /\ \A e \in E : e.key \in Key => DictOf(E, none)[e.key] = e.val
           /\ \A k \in Key : (\A e \in E : e.key # k) => DictOf(E, none)[k] = none
<1>1. ASSUME NEW e \in E PROVE (CHOOSE d \in E : d.key = e.key) = e
  BY DEF DifferentKeys
<1> QED BY <1>1 DEF DictOf

\* E and F have the same entries for every key but k.
SameElsewhere(E, F, k) == {e \in E : e.key # k} = {e \in F : e.key # k}

\* The value of k in F is x.
Holds(F, k, x, none) ==
    (\E e \in F : e.key = k /\ e.val = x) \/ (x = none /\ \A e \in F : e.key # k)

\* Dictionary D with x for k.
Update(D, k, x) == [D EXCEPT ![k] = x]

\* Two sets of entries stand for dictionaries that differ in key k at most.
LEMMA DictOneKey ==
    ASSUME NEW E, NEW F, NEW none, NEW k \in Key, NEW x,
           DifferentKeys(E), DifferentKeys(F),
           SameElsewhere(E, F, k), Holds(F, k, x, none)
    PROVE  DictOf(F, none) = Update(DictOf(E, none), k, x)
<1> DEFINE D == DictOf(E, none)
<1>1. DictOf(F, none)[k] = x
  BY DictAt DEF Holds
<1>2. ASSUME NEW h \in Key, h # k PROVE DictOf(F, none)[h] = D[h]
  <2>1. CASE \E e \in E : e.key = h
    <3>1. PICK e \in E : e.key = h
      BY <2>1
    <3>2. e \in F
      BY <3>1, <1>2 DEF SameElsewhere
    <3> QED BY <3>1, <3>2, DictAt
  <2>2. CASE \A e \in E : e.key # h
    <3>1. \A e \in F : e.key # h
      BY <2>2, <1>2 DEF SameElsewhere
    <3> QED BY <2>2, <3>1, DictAt
  <2> QED BY <2>1, <2>2
<1>3. DictOf(F, none) = [h \in Key |-> DictOf(F, none)[h]] /\ D = [h \in Key |-> D[h]]
  BY DEF DictOf
<1>4. ASSUME NEW A, NEW B, A = [h \in Key |-> A[h]], B = [h \in Key |-> B[h]],
             A[k] = x, \A h \in Key : h # k => A[h] = B[h]
      PROVE  A = [B EXCEPT ![k] = x]
  BY <1>4
<1> QED BY <1>1, <1>2, <1>3, <1>4 DEF Update

-----------------------------------------------------------------------------

\* The array does not hold k.
Absent(k) == \A s \in Occupied(slot) : slot[s].key # k

\* A step after which the array has one more entry and every other as before.
Gains(k, v) == \E s \in Slots(groups) :
    /\ s \notin Occupied(slot)
    /\ Occupied(slot)' = Occupied(slot) \cup {s}
    /\ slot'[s] = [key |-> k, val |-> v]
    /\ \A t \in Occupied(slot) : slot'[t] = slot[t]

\* A step after which the array has one entry.
Single(k, v) == \E s : Occupied(slot)' = {s} /\ slot'[s] = [key |-> k, val |-> v]

\* overflow_channel(h) is one of the channels.
LEMMA ChannelRange == \A k \in Key : Channel(k) \in Channels
<1> TAKE k \in Key
<1>1. Hash[k] \in Nat /\ NumChannels \in Nat \ {0}
  BY HashAssumption, ChannelsAssumption
<1> QED BY <1>1, ModRange DEF Channel, Channels

\* The occupied slots are a finite set of at most Capacity(m) slots.
LEMMA OccupiedFinite ==
    ASSUME NEW m \in GroupCounts, NEW f, DOMAIN f = Slots(m)
    PROVE  /\ IsFiniteSet(Occupied(f))
           /\ Cardinality(Occupied(f)) \in Nat
<1>1. Occupied(f) \in SUBSET Slots(m)
  BY DEF Occupied
<1> QED BY <1>1, SlotsCount, FS_Subset, FS_CardinalityType

\* A lookup that gives up is right: the key is nowhere in the array.
LEMMA MissMeansAbsent ==
    ASSUME TableInv, NEW k \in Key, FindMiss(k)
    PROVE  \A s \in Occupied(slot) : slot[s].key # k
<1> SUFFICES ASSUME NEW s \in Occupied(slot), slot[s].key = k
             PROVE  FALSE
  OBVIOUS
<1>1. s \in Slots(groups) /\ slot[s] # EMPTY
  BY DEF TableInv, Occupied
<1>2. KeyAt(k, s) /\ s = <<s[1], s[2]>> /\ s[2] \in SlotIdx
  BY <1>1, SlotPair DEF KeyAt
<1>3. InGroup(k, s[1])
  BY <1>2 DEF InGroup
<1>4. PICK a \in 0 .. groups - 1 :
        /\ Probe(k, groups, a) = s[1]
        /\ \A q \in 0 .. a - 1 : HasOverflow(k, Probe(k, groups, q))
  BY DEF TableInv, PathMarked
<1>5. PICK b \in 0 .. groups - 1 :
        /\ Reaches(k, b)
        /\ ~InGroup(k, Probe(k, groups, b))
        /\ ~HasOverflow(k, Probe(k, groups, b))
  BY DEF FindMiss, MissAt
<1>6. ~(b < a)
  BY <1>4, <1>5
<1>7. ~(a < b)
  <2> SUFFICES ASSUME a < b PROVE FALSE
    OBVIOUS
  <2>1. a \in 0 .. b - 1
    OBVIOUS
  <2> QED BY <2>1, <1>3, <1>4, <1>5 DEF Reaches
<1>8. a = b
  BY <1>6, <1>7
<1> QED BY <1>3, <1>4, <1>5, <1>8

\* Writing an absent key into a free slot that its overflow bits lead to.
LEMMA WriteSlot ==
    ASSUME TableInv,
           NEW k \in Key, NEW v \in Value,
           NEW p \in 0 .. groups - 1, NEW j \in SlotIdx,
           \A s \in Occupied(slot) : slot[s].key # k,
           \A q \in 0 .. p - 1 : ~HasRoom(Probe(k, groups, q)),
           slot[<<Probe(k, groups, p), j>>] = EMPTY,
           slot' = [slot EXCEPT ![<<Probe(k, groups, p), j>>] = [key |-> k, val |-> v]],
           ofw' \in [0 .. groups - 1 -> SUBSET Channels],
           \A h \in 0 .. groups - 1 :
              ofw[h] \subseteq ofw'[h] /\ (HasRoom(h) => ofw'[h] = ofw[h]),
           \A q \in 0 .. p - 1 : Channel(k) \in ofw'[Probe(k, groups, q)],
           len' = len + 1, groups' = groups, max_load' = max_load
    PROVE  /\ TableInv'
           /\ Gains(k, v)
<1> DEFINE g == Probe(k, groups, p)
           s == <<g, j>>
           e == [key |-> k, val |-> v]
<1>1. groups \in GroupCounts /\ groups \in Nat \ {0}
  BY GroupCountsAssumption DEF TableInv
<1>2. g \in 0 .. groups - 1
  BY <1>1, ProbeRange
<1>3. s \in Slots(groups) /\ s[1] = g
  BY <1>2, SlotMake
<1>4. e \in Entry /\ e # EMPTY /\ e.key = k
  BY SentinelAssumption DEF Entry
<1>5. slot \in [Slots(groups) -> Entry \cup {EMPTY}]
  BY DEF TableInv
<1>6. slot[s] = EMPTY /\ slot' = [slot EXCEPT ![s] = e]
  OBVIOUS
<1>7. HasRoom(g)
  BY DEF HasRoom
<1> HIDE DEF s, e, g
<1>8. /\ slot' \in [Slots(groups) -> Entry \cup {EMPTY}]
      /\ slot'[s] = e
      /\ \A t \in Slots(groups) : t # s => slot'[t] = slot[t]
  BY <1>3, <1>4, <1>5, <1>6
<1>9. s \notin Occupied(slot) /\ Occupied(slot') = Occupied(slot) \cup {s}
  BY <1>3, <1>4, <1>5, <1>6, <1>8 DEF Occupied
<1>10. \A t \in Occupied(slot) : slot'[t] = slot[t]
  BY <1>5, <1>8, <1>9 DEF Occupied
<1>11. LenExact'
  <2>1. IsFiniteSet(Occupied(slot)) /\ Cardinality(Occupied(slot)) = len
    BY <1>1, <1>5, OccupiedFinite DEF TableInv, LenExact
  <2>2. Cardinality(Occupied(slot')) = len + 1
    BY <1>9, <2>1, FS_AddElement
  <2> QED BY <2>2 DEF LenExact
<1>12. \A t, u \in Occupied(slot') : slot'[t].key = slot'[u].key => t = u
  <2>1. \A t, u \in Occupied(slot) : slot[t].key = slot[u].key => t = u
    BY DEF TableInv
  <2> QED BY <2>1, <1>4, <1>8, <1>9, <1>10
<1>13. PathMarked'
  <2> SUFFICES ASSUME NEW t \in Occupied(slot')
               PROVE  \E a \in 0 .. groups - 1 :
                         /\ Probe(slot'[t].key, groups, a) = t[1]
                         /\ \A q \in 0 .. a - 1 :
                              /\ Channel(slot'[t].key) \in ofw'[Probe(slot'[t].key, groups, q)]
                              /\ Probe(slot'[t].key, groups, q) # t[1]
    BY DEF PathMarked, HasOverflow
  <2>1. CASE t = s
    <3>1. slot'[t].key = k /\ t[1] = g
      BY <2>1, <1>3, <1>4, <1>8
    <3>2. \A q \in 0 .. p - 1 : Probe(k, groups, q) # g
      BY <1>7 
    <3> QED BY <3>1, <3>2 DEF g
  <2>2. CASE t # s
    <3>1. t \in Occupied(slot) /\ slot'[t] = slot[t]
      BY <2>2, <1>9, <1>10
    <3>2. PICK a \in 0 .. groups - 1 :
            /\ Probe(slot[t].key, groups, a) = t[1]
            /\ \A q \in 0 .. a - 1 :
                 /\ Channel(slot[t].key) \in ofw[Probe(slot[t].key, groups, q)]
                 /\ Probe(slot[t].key, groups, q) # t[1]
      BY <3>1 DEF TableInv, PathMarked, HasOverflow
    <3>3. slot[t].key \in Key
      BY <3>1, <1>5 DEF Occupied, Entry
    <3>4. \A q \in 0 .. a - 1 : Probe(slot[t].key, groups, q) \in 0 .. groups - 1
      BY <1>1, <3>3, ProbeRange
    <3> QED BY <3>1, <3>2, <3>4
  <2> QED BY <2>1, <2>2
<1>14. NumChannels = 1 => DriftAccounted'
  <2> SUFFICES ASSUME NumChannels = 1 PROVE DriftAccounted'
    OBVIOUS
  <2>1. Cardinality(FreeBehindBit) <= MaxLoadFor(groups) - max_load
    BY DEF TableInv, DriftAccounted
  <2>2. FreeBehindBit' \subseteq FreeBehindBit
    <3> SUFFICES ASSUME NEW t \in Slots(groups), slot'[t] = EMPTY, ofw'[t[1]] # {}
                 PROVE  slot[t] = EMPTY /\ ofw[t[1]] # {}
      BY DEF FreeBehindBit
    <3>1. t # s /\ slot[t] = EMPTY
      BY <1>4, <1>8
    <3>2. t[1] \in 0 .. groups - 1 /\ HasRoom(t[1])
      BY <3>1, SlotPair DEF HasRoom
    <3> QED BY <3>1, <3>2
  <2>3. IsFiniteSet(FreeBehindBit)
    <3>1. FreeBehindBit \in SUBSET Slots(groups)
      BY DEF FreeBehindBit
    <3> QED BY <1>1, <3>1, SlotsCount, FS_Subset
  <2>4. /\ Cardinality(FreeBehindBit') <= Cardinality(FreeBehindBit)
        /\ Cardinality(FreeBehindBit) \in Nat /\ Cardinality(FreeBehindBit') \in Nat
    BY <2>2, <2>3, FS_Subset, FS_CardinalityType
  <2>5. MaxLoadFor(groups) \in Nat /\ max_load \in Nat
    BY <1>1, LoadLimits DEF TableInv
  <2>6. Cardinality(FreeBehindBit') <= MaxLoadFor(groups) - max_load
    BY <2>1, <2>4, <2>5
  <2> QED BY <2>6 DEF DriftAccounted
<1>15. TableInv'
  <2>1. groups' \in GroupCounts /\ max_load' \in Nat /\ max_load' <= MaxLoadFor(groups')
    BY DEF TableInv
  <2>2. slot' \in [Slots(groups') -> Entry \cup {EMPTY}]
    BY <1>8
  <2>3. len' \in Nat
    BY DEF TableInv
  <2>4. ofw' \in [0 .. groups' - 1 -> SUBSET Channels]
    OBVIOUS
  <2> QED BY <2>1, <2>2, <2>3, <2>4, <1>11, <1>12, <1>13, <1>14 DEF TableInv
<1> QED BY <1>3, <1>8, <1>9, <1>10, <1>15 DEF e, Gains

\* set_overflow_bit along a path only adds the key's channel to overflow bytes.
LEMMA MarkType ==
    ASSUME TableInv, NEW k \in Key, NEW n
    PROVE  /\ Mark(k, n) \in [0 .. groups - 1 -> SUBSET Channels]
           /\ \A h \in 0 .. groups - 1 :
                /\ ofw[h] \subseteq Mark(k, n)[h]
                /\ Mark(k, n)[h] # ofw[h] =>
                     \E q \in 0 .. n - 1 : Probe(k, groups, q) = h
BY ChannelRange DEF TableInv, Mark

\* insert_no_check_impl keeps TableInv for an absent key when there is room: the
\* groups it passed are full and it marks each of them.
LEMMA InsertNoCheckInv ==
    ASSUME TableInv, NEW k \in Key, NEW v \in Value,
           \A s \in Occupied(slot) : slot[s].key # k,
           InsertNoCheck(k, v), groups' = groups, max_load' = max_load
    PROVE  /\ TableInv'
           /\ len' = len + 1
           /\ Gains(k, v)
<1>1. PICK p \in 0 .. groups - 1, j \in SlotIdx :
        /\ \A q \in 0 .. p - 1 : ~HasRoom(Probe(k, groups, q))
        /\ LowestFree(Probe(k, groups, p), j)
        /\ slot' = [slot EXCEPT ![<<Probe(k, groups, p), j>>] = [key |-> k, val |-> v]]
        /\ ofw' = Mark(k, p)
        /\ len' = len + 1
  BY DEF InsertNoCheck
<1>2. ofw' \in [0 .. groups - 1 -> SUBSET Channels]
  BY <1>1, MarkType
<1>3. \A h \in 0 .. groups - 1 :
        ofw[h] \subseteq ofw'[h] /\ (HasRoom(h) => ofw'[h] = ofw[h])
  BY <1>1, MarkType
<1>4. \A q \in 0 .. p - 1 : Channel(k) \in ofw'[Probe(k, groups, q)]
  <2> TAKE q \in 0 .. p - 1
  <2>1. groups \in GroupCounts /\ q \in Nat
    BY DEF TableInv
  <2>2. Probe(k, groups, q) \in 0 .. groups - 1
    BY <2>1, ProbeRange
  <2> QED BY <2>2, <1>1 DEF Mark, TableInv
<1>5. slot[<<Probe(k, groups, p), j>>] = EMPTY
  BY <1>1 DEF LowestFree
<1> QED BY <1>1, <1>2, <1>3, <1>4, <1>5, WriteSlot

\* The slot an entry probe located is as good as the one insert_no_check takes:
\* the groups before it were passed by the lookup, so their bits are set.
LEMMA EntryInsertAtInv ==
    ASSUME TableInv, NEW k \in Key, NEW v \in Value, EntryInsertAt(k, v)
    PROVE  /\ TableInv'
           /\ len' = len + 1
           /\ Gains(k, v)
<1>1. PICK stop \in 0 .. groups - 1 :
        MissAt(k, stop) /\ \E p \in 0 .. stop, j \in SlotIdx : InsertSlot(k, v, p, j)
  BY DEF EntryInsertAt
<1>2. PICK p \in 0 .. stop, j \in SlotIdx : InsertSlot(k, v, p, j)
  BY <1>1
<1>3. groups \in Nat \ {0} /\ groups \in GroupCounts
  BY GroupCountsAssumption DEF TableInv
<1>4. p \in 0 .. groups - 1
  BY <1>1, <1>2, <1>3
<1> DEFINE n == IF p < MaskBits THEN p ELSE MaskBits
<1>5. /\ \A q \in 0 .. p - 1 : ~HasRoom(Probe(k, groups, q))
      /\ slot[<<Probe(k, groups, p), j>>] = EMPTY
      /\ slot' = [slot EXCEPT ![<<Probe(k, groups, p), j>>] = [key |-> k, val |-> v]]
      /\ ofw' = Mark(k, n)
      /\ len' = len + 1
  BY <1>2 DEF InsertSlot, LowestFree
<1>6. 0 .. n - 1 \subseteq 0 .. p - 1
  BY <1>4, <1>3, MaskBitsAssumption
<1> HIDE DEF n
<1>7. ofw' \in [0 .. groups - 1 -> SUBSET Channels]
  BY <1>5, MarkType
<1>8. \A h \in 0 .. groups - 1 :
        ofw[h] \subseteq ofw'[h] /\ (HasRoom(h) => ofw'[h] = ofw[h])
  BY <1>5, <1>6, MarkType
<1>9. \A q \in 0 .. p - 1 : Channel(k) \in ofw'[Probe(k, groups, q)]
  <2> TAKE q \in 0 .. p - 1
  <2>1. Probe(k, groups, q) \in 0 .. groups - 1
    BY ProbeRange, <1>3
  <2>2. q \in 0 .. stop - 1
    BY <1>1, <1>2, <1>3
  <2>3. Channel(k) \in ofw[Probe(k, groups, q)]
    BY <2>2, <1>1 DEF MissAt, Reaches, HasOverflow
  <2> QED BY <2>1, <2>3, <1>8
<1>10. \A s \in Occupied(slot) : slot[s].key # k
  BY <1>1, MissMeansAbsent DEF FindMiss
<1>11. groups' = groups /\ max_load' = max_load
  BY DEF EntryInsertAt
<1> QED BY <1>4, <1>5, <1>7, <1>8, <1>9, <1>10, <1>11, WriteSlot

\* A zeroed array.
LEMMA FreshInv ==
    ASSUME NEW m \in GroupCounts, groups' = m, slot' = EmptySlots(m),
           ofw' = NoOverflow(m), len' = 0,
           max_load' \in Nat, max_load' <= MaxLoadFor(m)
    PROVE  TableInv' /\ Occupied(slot)' = {}
<1>1. Occupied(slot') = {}
  BY DEF Occupied, EmptySlots
<1>2. slot' \in [Slots(m) -> Entry \cup {EMPTY}] /\ ofw' \in [0 .. m - 1 -> SUBSET Channels]
  BY DEF EmptySlots, NoOverflow
<1>3. LenExact' /\ PathMarked'
  BY <1>1, FS_EmptySet DEF LenExact, PathMarked
<1>4. DriftAccounted'
  <2>1. FreeBehindBit' = {}
    BY SlotPair DEF FreeBehindBit, NoOverflow
  <2>2. MaxLoadFor(m) \in Nat
    BY LoadLimits
  <2> QED BY <2>1, <2>2, FS_EmptySet DEF DriftAccounted
<1> QED BY <1>1, <1>2, <1>3, <1>4 DEF TableInv

\* A zeroed array with one entry in its home group.
LEMMA InsertFreshInv ==
    ASSUME NEW m \in GroupCounts, NEW k \in Key, NEW v \in Value,
           len = 0, InsertFresh(m, k, v)
    PROVE  /\ TableInv'
           /\ len' = 1
           /\ Single(k, v)
<1> DEFINE s == <<GroupIndex(k, m), 0>>
           e == [key |-> k, val |-> v]
<1>1. groups' = m /\ ofw' = NoOverflow(m) /\ max_load' = MaxLoadFor(m) /\ len' = 1
      /\ slot' = [EmptySlots(m) EXCEPT ![s] = e]
  BY DEF InsertFresh, Allocate
<1>2. GroupIndex(k, m) \in 0 .. m - 1 /\ 0 \in SlotIdx
  BY GroupIndexRange, GroupSizeAssumption DEF SlotIdx
<1>3. s \in Slots(m) /\ s[1] = GroupIndex(k, m)
  BY <1>2, SlotMake
<1>4. e \in Entry /\ e # EMPTY /\ e.key = k
  BY SentinelAssumption DEF Entry
<1> HIDE DEF s, e
<1>5. /\ slot' \in [Slots(m) -> Entry \cup {EMPTY}]
      /\ slot'[s] = e
      /\ Occupied(slot') = {s}
  BY <1>1, <1>3, <1>4 DEF EmptySlots, Occupied
<1>6. LenExact'
  BY <1>1, <1>5, FS_Singleton DEF LenExact
<1>7. PathMarked'
  <2>1. m \in Nat \ {0}
    BY GroupCountsAssumption
  <2>2. Probe(k, m, 0) = s[1] /\ 0 \in 0 .. m - 1
    BY <1>3, <2>1, ProbeZero
  <2> QED BY <2>2, <1>1, <1>4, <1>5 DEF PathMarked
<1>8. DriftAccounted'
  <2>1. FreeBehindBit' = {}
    BY <1>1, SlotPair DEF FreeBehindBit, NoOverflow
  <2>2. MaxLoadFor(m) \in Nat
    BY LoadLimits
  <2> QED BY <1>1, <2>1, <2>2, FS_EmptySet DEF DriftAccounted
<1>9. ofw' \in [0 .. m - 1 -> SUBSET Channels]
  BY <1>1 DEF NoOverflow
<1>10. max_load' \in Nat /\ max_load' <= MaxLoadFor(groups')
  BY <1>1, LoadLimits
<1>11. TableInv'
  BY <1>1, <1>5, <1>6, <1>7, <1>8, <1>9, <1>10 DEF TableInv
<1> QED BY <1>1, <1>5, <1>11 DEF Single, e

\* Anti-drift keeps the account: freeing a slot behind a bit costs one of
\* max_load, and a key whose home group has no bit is not behind one.
LEMMA EraseSlotInv ==
    ASSUME TableInv, NEW s \in Occupied(slot), len <= max_load,
           EraseSlot(slot[s].key, s)
    PROVE  /\ TableInv'
           /\ Occupied(slot)' = Occupied(slot) \ {s}
           /\ \A t \in Occupied(slot)' : slot'[t] = slot[t]
           /\ len' = len - 1
           /\ len' <= max_load'
           /\ slot' \in [Slots(groups) -> Entry \cup {EMPTY}]
<1> DEFINE k == slot[s].key
<1>1. groups \in GroupCounts /\ groups \in Nat \ {0} /\ groups' = groups /\ ofw' = ofw
  BY GroupCountsAssumption DEF TableInv, EraseSlot
<1>2. s \in Slots(groups) /\ k \in Key /\ slot[s] # EMPTY
  BY DEF TableInv, Occupied, Entry
<1>3. /\ slot' \in [Slots(groups) -> Entry \cup {EMPTY}]
      /\ slot'[s] = EMPTY
      /\ \A t \in Slots(groups) : t # s => slot'[t] = slot[t]
  BY <1>2 DEF TableInv, EraseSlot
<1>4. DOMAIN slot = Slots(groups) /\ DOMAIN slot' = Slots(groups)
  BY <1>3 DEF TableInv
<1>5. Occupied(slot') = Occupied(slot) \ {s} /\ \A t \in Occupied(slot') : slot'[t] = slot[t]
  BY <1>2, <1>3, <1>4 DEF Occupied
<1>6. IsFiniteSet(Occupied(slot)) /\ Cardinality(Occupied(slot)) = len /\ len \in Nat
  BY <1>1, <1>4, OccupiedFinite DEF TableInv, LenExact
<1>7. len >= 1
  BY <1>6, FS_EmptySet
<1>8. max_load \in Nat /\ max_load >= 1 /\ max_load <= MaxLoadFor(groups)
  BY <1>6, <1>7 DEF TableInv
<1>9. len' = len - 1 /\ len' \in Nat
  BY <1>6, <1>7 DEF EraseSlot
<1>10. max_load' = IF HasOverflow(k, GroupIndex(k, groups)) THEN max_load - 1 ELSE max_load
  BY <1>8 DEF EraseSlot
<1>11. max_load' \in Nat /\ len' <= max_load' /\ max_load' <= MaxLoadFor(groups)
  BY <1>1, <1>6, <1>8, <1>9, <1>10, LoadLimits
<1>12. LenExact'
  BY <1>5, <1>6, <1>9, FS_RemoveElement DEF LenExact
<1>13. PathMarked'
  BY <1>1, <1>5 DEF TableInv, PathMarked, HasOverflow
<1>14. NumChannels = 1 => DriftAccounted'
  <2> SUFFICES ASSUME NumChannels = 1 PROVE DriftAccounted'
    OBVIOUS
  <2>1. Cardinality(FreeBehindBit) <= MaxLoadFor(groups) - max_load
    BY DEF TableInv, DriftAccounted
  <2>2. FreeBehindBit \in SUBSET Slots(groups)
    BY DEF FreeBehindBit
  <2>3. IsFiniteSet(FreeBehindBit) /\ Cardinality(FreeBehindBit) \in Nat
    BY <1>1, <2>2, SlotsCount, FS_Subset, FS_CardinalityType
  <2>4. MaxLoadFor(groups) \in Nat
    BY <1>1, LoadLimits
  <2>5. CASE HasOverflow(k, GroupIndex(k, groups))
    <3>1. FreeBehindBit' \subseteq FreeBehindBit \cup {s}
      BY <1>1, <1>3 DEF FreeBehindBit
    <3>2. /\ IsFiniteSet(FreeBehindBit \cup {s})
          /\ Cardinality(FreeBehindBit \cup {s}) <= Cardinality(FreeBehindBit) + 1
          /\ Cardinality(FreeBehindBit \cup {s}) \in Nat
      BY <2>3, FS_AddElement, FS_CardinalityType
    <3>3. /\ Cardinality(FreeBehindBit') <= Cardinality(FreeBehindBit \cup {s})
          /\ Cardinality(FreeBehindBit') \in Nat
      BY <3>1, <3>2, FS_Subset, FS_CardinalityType
    <3> QED BY <3>2, <3>3, <2>1, <2>3, <2>4, <2>5, <1>1, <1>8, <1>10 DEF DriftAccounted
  <2>6. CASE ~HasOverflow(k, GroupIndex(k, groups))
    <3>1. PICK a \in 0 .. groups - 1 :
            /\ Probe(k, groups, a) = s[1]
            /\ \A q \in 0 .. a - 1 : HasOverflow(k, Probe(k, groups, q))
      BY DEF TableInv, PathMarked
    <3>2. a = 0
      <4>1. ~(0 \in 0 .. a - 1)
        BY <3>1, <2>6, <1>1, <1>2, ProbeZero
      <4> QED BY <4>1
    <3>3. s[1] = GroupIndex(k, groups) /\ s[1] \in 0 .. groups - 1
      BY <3>1, <3>2, <1>1, <1>2, ProbeZero, GroupIndexRange
    <3>4. Channels = {0} /\ Channel(k) = 0
      BY <1>2, ChannelRange DEF Channels
    <3>5. ofw[s[1]] = {}
      BY <2>6, <3>3, <3>4 DEF HasOverflow, TableInv
    <3>6. FreeBehindBit' = FreeBehindBit
      BY <1>1, <1>2, <1>3, <3>5 DEF FreeBehindBit
    <3> QED BY <3>6, <2>1, <2>6, <1>1, <1>10 DEF DriftAccounted
  <2> QED BY <2>5, <2>6
<1>15. \A t, u \in Occupied(slot') : slot'[t].key = slot'[u].key => t = u
  BY <1>5 DEF TableInv
<1>16. TableInv'
  BY <1>1, <1>3, <1>9, <1>11, <1>12, <1>13, <1>14, <1>15 DEF TableInv
<1> QED BY <1>3, <1>5, <1>9, <1>11, <1>16

-----------------------------------------------------------------------------
\* Outside of a rehash the stored entries are within max_load.
LEMMA ReadyLoad ==
    ASSUME IndInv, pc # "rehash"
    PROVE  len <= max_load /\ len \in Nat /\ max_load \in Nat
<1>1. Cardinality(Occupied(old)) = 0 /\ pend = EMPTY
  BY FS_EmptySet DEF IndInv
<1>2. len \in Nat /\ max_load \in Nat
  BY DEF IndInv, TypeOK
<1> QED BY <1>1, <1>2 DEF IndInv, LoadWithinLimit

\* A call that starts and ends outside the loops.
LEMMA ReadyStep ==
    ASSUME IndInv, pc = "ready", pc' \in {"ready", "spin"}, UNCHANGED loop,
           TableInv', len' <= max_load',
           ctrl' \in {"static", "heap"}, leaked' \in BOOLEAN,
           ret' \in Value \cup {NONE}
    PROVE  IndInv'
<1>1. old' = old /\ pend' = pend /\ todo' = todo
  BY DEF loop
<1>2. Occupied(old) = {} /\ pend = EMPTY /\ todo = {}
  BY DEF IndInv
<1>3. len' \in Nat /\ max_load' \in Nat
  BY DEF TableInv
<1>4. TypeOK'
  BY <1>1, <1>2, <1>3 DEF IndInv, TypeOK, TableInv
<1>5. UniqueKeys'
  BY <1>1, <1>2 DEF UniqueKeys, TableInv
<1>6. LoadWithinLimit'
  BY <1>1, <1>2, <1>3, FS_EmptySet DEF LoadWithinLimit
<1>7. RetainPositionsLive'
  BY <1>1, <1>2 DEF RetainPositionsLive
<1> QED BY <1>1, <1>2, <1>4, <1>5, <1>6, <1>7 DEF IndInv

\* The start of a rehash: the entries move to `old`, and with the one that
\* waits they fit under the new limit.
LEMMA RehashStart ==
    ASSUME IndInv, pc = "ready", NEW m, NEW p \in Entry \cup {EMPTY},
           p # EMPTY => \A s \in Occupied(slot) : slot[s].key # p.key,
           m \in GroupCounts,
           max_load > 0 => len + (IF p = EMPTY THEN 0 ELSE 1) <= MaxLoadFor(m),
           Rehash(m, p)
    PROVE  IndInv'
<1>1. /\ groups' = m /\ slot' = EmptySlots(m) /\ ofw' = NoOverflow(m)
      /\ len' = 0 /\ max_load' = MaxLoadFor(m)
      /\ ctrl' = "heap" /\ leaked' \in BOOLEAN /\ pend' = p /\ pc' = "rehash"
      /\ todo' = todo /\ ret' = ret
      /\ old' = IF max_load > 0 THEN slot ELSE EmptySlots(1)
  BY DEF Rehash, Allocate, IndInv, TypeOK
<1>2. MaxLoadFor(m) \in Nat /\ 1 <= MaxLoadFor(m)
  BY LoadLimits
<1>3. TableInv' /\ Occupied(slot') = {}
  BY <1>1, <1>2, FreshInv
<1>4. todo = {}
  BY DEF IndInv
<1>5. Occupied(EmptySlots(1)) = {} /\ EmptySlots(1) \in [Slots(1) -> Entry \cup {EMPTY}]
  BY DEF Occupied, EmptySlots
<1>6. TypeOK'
  <2>1. \E n \in GroupCounts : old' \in [Slots(n) -> Entry \cup {EMPTY}]
    BY <1>1, <1>5, GroupCountsAssumption DEF IndInv, TypeOK
  <2> QED BY <2>1, <1>1, <1>3, <1>4 DEF TypeOK, TableInv, IndInv
<1>7. UniqueKeys'
  <2>1. CASE max_load > 0
    BY <2>1, <1>1, <1>3 DEF UniqueKeys, IndInv, TableInv
  <2>2. CASE ~(max_load > 0)
    BY <2>2, <1>1, <1>3, <1>5 DEF UniqueKeys
  <2> QED BY <2>1, <2>2
<1>8. LoadWithinLimit'
  <2>1. CASE max_load > 0
    <3>1. Cardinality(Occupied(old')) = len /\ len \in Nat
      BY <2>1, <1>1 DEF IndInv, TableInv, LenExact
    <3> QED BY <2>1, <3>1, <1>1, <1>2 DEF LoadWithinLimit
  <2>2. CASE ~(max_load > 0)
    <3>1. Cardinality(Occupied(old')) = 0
      BY <2>2, <1>1, <1>5, FS_EmptySet
    <3> QED BY <3>1, <1>1, <1>2 DEF LoadWithinLimit
  <2> QED BY <2>1, <2>2
<1>9. RetainPositionsLive'
  BY <1>1, <1>4 DEF RetainPositionsLive
<1> QED BY <1>1, <1>3, <1>4, <1>6, <1>7, <1>8, <1>9 DEF IndInv

\* grow_and_rehash, with the entry that waits for it, starts a rehash with room.
LEMMA GrowStep ==
    ASSUME IndInv, pc = "ready", NEW k \in Key, NEW v \in Value, FindMiss(k),
           Grow([key |-> k, val |-> v])
    PROVE  IndInv'
<1> DEFINE e == [key |-> k, val |-> v]
           m == IF max_load = 0 THEN 1 ELSE 2 * groups
<1>1. e \in Entry /\ e # EMPTY /\ e.key = k
  BY SentinelAssumption DEF Entry
<1>2. \A s \in Occupied(slot) : slot[s].key # k
  BY MissMeansAbsent DEF IndInv
<1>3. Rehash(m, e) /\ m \in GroupCounts
  BY DEF Grow, Rehash
<1>4. max_load > 0 => len + 1 <= MaxLoadFor(m)
  <2>1. groups \in GroupCounts /\ max_load <= MaxLoadFor(groups)
    BY DEF IndInv, TableInv
  <2>2. len <= max_load /\ len \in Nat /\ max_load \in Nat
    BY ReadyLoad
  <2>3. MaxLoadFor(groups) \in Nat /\ MaxLoadFor(groups) + 1 <= MaxLoadFor(2 * groups)
    BY <2>1, LoadLimits
  <2>4. CASE max_load > 0
    <3>1. m = 2 * groups /\ MaxLoadFor(m) \in Nat
      BY <2>2, <2>4, <1>3, LoadLimits
    <3> HIDE DEF m
    <3> QED BY <2>1, <2>2, <2>3, <3>1
  <2> QED BY <2>4
<1> HIDE DEF e, m
<1> QED BY <1>1, <1>2, <1>3, <1>4, RehashStart

\* Inserting a key a lookup has just missed.
LEMMA InsertAbsentStep ==
    ASSUME IndInv, pc = "ready", NEW k \in Key, NEW v \in Value, FindMiss(k),
           InsertAbsent(k, v)
    PROVE  IndInv'
<1>1. CASE len >= max_load /\ Grow([key |-> k, val |-> v])
  BY <1>1, GrowStep
<1>2. CASE /\ len < max_load
           /\ InsertNoCheck(k, v)
           /\ ret' = NONE
           /\ UNCHANGED <<groups, max_load, ctrl, leaked, pc, loop>>
  <2>1. TableInv /\ \A s \in Occupied(slot) : slot[s].key # k
    BY MissMeansAbsent DEF IndInv
  <2>2. TableInv' /\ len' = len + 1
    BY <1>2, <2>1, InsertNoCheckInv
  <2>3. len' <= max_load'
    BY <1>2, <2>2, ReadyLoad
  <2>4. ctrl' \in {"static", "heap"} /\ leaked' \in BOOLEAN
    BY <1>2 DEF IndInv, TypeOK
  <2> QED BY <1>2, <2>2, <2>3, <2>4, ReadyStep
<1> QED BY <1>1, <1>2 DEF InsertAbsent

\* The first insert into a table without an array.
LEMMA InsertFreshStep ==
    ASSUME IndInv, pc = "ready", max_load = 0, NEW m \in GroupCounts,
           NEW k \in Key, NEW v \in Value, InsertFresh(m, k, v)
    PROVE  IndInv'
<1>1. len = 0
  BY ReadyLoad
<1>2. TableInv' /\ len' = 1
  BY <1>1, InsertFreshInv
<1>3. max_load' = MaxLoadFor(m) /\ ctrl' = "heap" /\ leaked' \in BOOLEAN
      /\ ret' = NONE /\ UNCHANGED <<pc, loop>>
  BY DEF InsertFresh, Allocate, IndInv, TypeOK
<1>4. len' <= max_load'
  BY <1>2, <1>3, LoadLimits
<1> QED BY <1>2, <1>3, <1>4, ReadyStep

\* A table replaced by Self::new().
LEMMA ResetStep ==
    ASSUME IndInv, pc = "ready", Reset, UNCHANGED <<pc, loop, ret>>
    PROVE  IndInv'
<1>1. 1 \in GroupCounts /\ MaxLoadFor(1) \in Nat
  BY GroupCountsAssumption, LoadLimits
<1>2. /\ groups' = 1 /\ slot' = EmptySlots(1) /\ ofw' = NoOverflow(1) /\ len' = 0
      /\ max_load' = 0 /\ ctrl' = "static" /\ leaked' \in BOOLEAN
  BY DEF Reset, IndInv, TypeOK
<1>3. TableInv'
  BY <1>1, <1>2, FreshInv
<1>4. ret' \in Value \cup {NONE}
  BY DEF IndInv, TypeOK
<1> QED BY <1>2, <1>3, <1>4, ReadyStep

-----------------------------------------------------------------------------
\* GenericMap::new: the unallocated table satisfies the invariant.
LEMMA IndInvInit == Init => IndInv
<1> SUFFICES ASSUME Init PROVE IndInv
  OBVIOUS
<1>1. 1 \in GroupCounts /\ MaxLoadFor(1) \in Nat
  BY GroupCountsAssumption, LoadLimits
<1>2. /\ slot \in [Slots(1) -> Entry \cup {EMPTY}]
      /\ ofw \in [0 .. 1 - 1 -> SUBSET Channels]
      /\ Occupied(slot) = {} /\ Occupied(old) = {} /\ groups = 1
  BY DEF Init, EmptySlots, NoOverflow, Occupied
<1>3. TypeOK
  BY <1>1, <1>2 DEF TypeOK, Init, EmptySlots
<1>4. LenExact /\ PathMarked /\ LoadWithinLimit
  BY <1>2, FS_EmptySet DEF LenExact, PathMarked, LoadWithinLimit, Init
<1>5. DriftAccounted
  <2>1. FreeBehindBit = {}
    BY <1>2, SlotPair DEF FreeBehindBit, Init, NoOverflow
  <2> QED BY <1>1, <1>2, <2>1, FS_EmptySet DEF DriftAccounted, Init
<1>6. TableInv
  BY <1>1, <1>2, <1>4, <1>5 DEF TableInv, Init
<1> QED BY <1>2, <1>3, <1>4, <1>6 DEF IndInv, Init, UniqueKeys, RetainPositionsLive

\* What FindHit returns is an occupied slot that holds the key.
LEMMA HitSlot ==
    ASSUME TableInv, NEW k, NEW s \in Slots(groups), FindHit(k, s)
    PROVE  /\ s \in Occupied(slot) /\ slot[s].key = k
           /\ slot[s] \in Entry /\ slot[s].val \in Value
BY DEF TableInv, FindHit, KeyAt, Occupied, Entry

\* A replaced value changes nothing the invariant is about.
LEMMA ReplaceInv ==
    ASSUME TableInv, NEW s \in Occupied(slot), NEW v \in Value,
           slot' = [slot EXCEPT ![s].val = v],
           UNCHANGED <<groups, ofw, len, max_load>>
    PROVE  TableInv'
<1>1. DOMAIN slot = Slots(groups) /\ s \in Slots(groups) /\ slot[s] \in Entry
  BY DEF TableInv, Occupied
<1>2. slot'[s] \in Entry /\ slot'[s].key = slot[s].key
  BY <1>1 DEF Entry
<1>3. \A t \in Slots(groups) : t # s => slot'[t] = slot[t]
  BY <1>1
<1>4. slot' \in [Slots(groups) -> Entry \cup {EMPTY}]
  BY <1>1, <1>2 DEF TableInv, Entry
<1>5. slot'[s] # EMPTY /\ slot[s] # EMPTY
  BY <1>1, <1>2, SentinelAssumption
<1>6. Occupied(slot') = Occupied(slot) /\ \A t \in Slots(groups) : slot'[t] = EMPTY <=> slot[t] = EMPTY
  BY <1>1, <1>3, <1>4, <1>5 DEF Occupied
<1>7. \A t \in Occupied(slot) : slot'[t].key = slot[t].key
  BY <1>1, <1>2, <1>3 DEF Occupied
<1>8. LenExact'
  BY <1>6 DEF TableInv, LenExact
<1>11. PathMarked'
  <2> SUFFICES ASSUME NEW t \in Occupied(slot)
               PROVE  \E p \in 0 .. groups - 1 :
                        /\ Probe(slot[t].key, groups, p) = t[1]
                        /\ \A q \in 0 .. p - 1 :
                             /\ HasOverflow(slot[t].key, Probe(slot[t].key, groups, q))
                             /\ Probe(slot[t].key, groups, q) # t[1]
    BY <1>6, <1>7 DEF PathMarked, HasOverflow
  <2> QED BY DEF TableInv, PathMarked
<1>9. FreeBehindBit' = FreeBehindBit
  BY <1>6 DEF FreeBehindBit
<1>10. NumChannels = 1 => DriftAccounted'
  BY <1>9 DEF TableInv, DriftAccounted
<1> QED BY <1>4, <1>6, <1>7, <1>8, <1>10, <1>11 DEF TableInv

\* insert_or_replace, in its three outcomes.
LEMMA InsertStep ==
    ASSUME IndInv, NEW k \in Key, NEW v \in Value, Insert(k, v)
    PROVE  IndInv'
<1>1. pc = "ready" /\ TableInv
  BY DEF Insert, IndInv
<1>2. CASE max_load = 0 /\ InsertFresh(1, k, v)
  BY <1>1, <1>2, GroupCountsAssumption, InsertFreshStep
<1>3. CASE max_load > 0 /\ FindMiss(k) /\ InsertAbsent(k, v)
  BY <1>1, <1>3, InsertAbsentStep
<1>4. CASE \E s \in Slots(groups) :
             /\ max_load > 0 /\ FindHit(k, s)
             /\ slot' = [slot EXCEPT ![s].val = v]
             /\ ret' = slot[s].val
             /\ UNCHANGED <<groups, ofw, len, max_load, ctrl, leaked, pc, loop>>
  <2>1. PICK s \in Slots(groups) :
             /\ FindHit(k, s)
             /\ slot' = [slot EXCEPT ![s].val = v]
             /\ ret' = slot[s].val
             /\ UNCHANGED <<groups, ofw, len, max_load, ctrl, leaked, pc, loop>>
    BY <1>4
  <2>2. s \in Occupied(slot) /\ ret' \in Value
    BY <1>1, <2>1, HitSlot
  <2>3. TableInv'
    BY <1>1, <2>1, <2>2, ReplaceInv
  <2>4. len' <= max_load' /\ ctrl' \in {"static", "heap"} /\ leaked' \in BOOLEAN
    BY <1>1, <2>1, ReadyLoad DEF IndInv, TypeOK
  <2> QED BY <1>1, <2>1, <2>2, <2>3, <2>4, ReadyStep
<1> QED BY <1>2, <1>3, <1>4 DEF Insert

\* A call that leaves the table as it is.
LEMMA QuietStep ==
    ASSUME IndInv, pc = "ready", UNCHANGED <<table, loop>>,
           pc' \in {"ready", "spin"}, ret' \in Value \cup {NONE}
    PROVE  IndInv'
<1>1. /\ groups' = groups /\ slot' = slot /\ ofw' = ofw /\ len' = len
      /\ max_load' = max_load /\ ctrl' = ctrl /\ leaked' = leaked
  BY DEF table
<1>3. TableInv'
  BY <1>1 DEF IndInv, TableInv, LenExact, PathMarked, HasOverflow, DriftAccounted, FreeBehindBit
<1>2. len' <= max_load' /\ ctrl' \in {"static", "heap"} /\ leaked' \in BOOLEAN
  BY <1>1, ReadyLoad DEF IndInv, TypeOK
<1> QED BY <1>1, <1>2, <1>3, ReadyStep

\* entry().or_insert: located slot, no slot, occupied, unallocated.
LEMMA TryInsertStep ==
    ASSUME IndInv, NEW k \in Key, NEW v \in Value, TryInsert(k, v)
    PROVE  IndInv'
<1>1. pc = "ready" /\ TableInv
  BY DEF TryInsert, IndInv
<1>2. CASE max_load = 0 /\ \E m \in GroupCounts :
             GroupsFor(len + 1, m) /\ InsertFresh(m, k, v)
  BY <1>1, <1>2, InsertFreshStep
<1>3. CASE EntryInsertAt(k, v)
  <2>1. TableInv' /\ len' = len + 1
    BY <1>1, <1>3, EntryInsertAtInv
  <2>2. /\ len < max_load /\ ret' = NONE
        /\ UNCHANGED <<groups, max_load, ctrl, leaked, pc, loop>>
    BY <1>3 DEF EntryInsertAt
  <2>3. len' <= max_load' /\ ctrl' \in {"static", "heap"} /\ leaked' \in BOOLEAN
    BY <1>1, <2>1, <2>2, ReadyLoad DEF IndInv, TypeOK
  <2> QED BY <1>1, <2>1, <2>2, <2>3, ReadyStep
<1>4. CASE EntryInsertNoSlot(k, v)
  <2>1. FindMiss(k) /\ InsertAbsent(k, v)
    BY <1>4 DEF EntryInsertNoSlot, FindMiss
  <2> QED BY <1>1, <2>1, InsertAbsentStep
<1>5. CASE \E s \in Slots(groups) :
             max_load > 0 /\ FindHit(k, s) /\ ret' = v /\ UNCHANGED <<table, pc, loop>>
  BY <1>1, <1>5, QuietStep
<1> QED BY <1>2, <1>3, <1>4, <1>5 DEF TryInsert

\* remove_by_hash, hit or miss.
LEMMA RemoveStep ==
    ASSUME IndInv, NEW k \in Key, Remove(k)
    PROVE  IndInv'
<1>1. pc = "ready" /\ TableInv /\ UNCHANGED <<pc, loop>>
  BY DEF Remove, IndInv
<1>2. CASE \E s \in Slots(groups) :
             FindHit(k, s) /\ EraseSlot(k, s) /\ ret' = slot[s].val
  <2>1. PICK s \in Slots(groups) :
             FindHit(k, s) /\ EraseSlot(k, s) /\ ret' = slot[s].val
    BY <1>2
  <2>2. s \in Occupied(slot) /\ slot[s].key = k /\ ret' \in Value
    BY <1>1, <2>1, HitSlot
  <2>3. TableInv' /\ len' <= max_load'
    BY <1>1, <2>1, <2>2, EraseSlotInv, ReadyLoad
  <2>4. ctrl' \in {"static", "heap"} /\ leaked' \in BOOLEAN
    BY <2>1 DEF EraseSlot, IndInv, TypeOK
  <2> QED BY <1>1, <2>2, <2>3, <2>4, ReadyStep
<1>3. CASE FindMiss(k) /\ ret' = NONE /\ UNCHANGED table
  BY <1>1, <1>3, QuietStep
<1> QED BY <1>2, <1>3 DEF Remove

\* reserve: allocate, or rehash into an array groups_for_capacity chose.
LEMMA ReserveStep ==
    ASSUME IndInv, NEW n \in ReserveArgs, Reserve(n)
    PROVE  IndInv'
<1>1. pc = "ready" /\ TableInv /\ n \in Nat
  BY ReserveAssumption DEF Reserve, IndInv
<1>2. PICK m \in GroupCounts :
         /\ GroupsFor(len + n, m)
         /\ \/ /\ max_load = 0
               /\ Allocate(m, EmptySlots(m))
               /\ leaked' = (leaked \/ ctrl = "heap")
               /\ UNCHANGED <<len, pc, loop, ret>>
            \/ max_load > 0 /\ len + n > max_load /\ m > groups /\ Rehash(m, EMPTY)
  BY DEF Reserve
<1>3. CASE /\ max_load = 0
           /\ Allocate(m, EmptySlots(m))
           /\ leaked' = (leaked \/ ctrl = "heap")
           /\ UNCHANGED <<len, pc, loop, ret>>
  <2>1. len' = 0
    BY <1>1, <1>3, ReadyLoad
  <2>2. groups' = m /\ slot' = EmptySlots(m) /\ ofw' = NoOverflow(m)
        /\ max_load' = MaxLoadFor(m) /\ ctrl' = "heap" /\ leaked' \in BOOLEAN
    BY <1>3 DEF Allocate, IndInv, TypeOK
  <2>3. TableInv' /\ len' <= max_load'
    BY <2>1, <2>2, LoadLimits, FreshInv
  <2>4. ret' \in Value \cup {NONE}
    BY <1>3 DEF IndInv, TypeOK
  <2> QED BY <1>1, <1>3, <2>2, <2>3, <2>4, ReadyStep
<1>4. CASE max_load > 0 /\ Rehash(m, EMPTY)
  <2>1. len \in Nat /\ len + n <= MaxLoadFor(m) /\ MaxLoadFor(m) \in Nat
    BY <1>1, <1>2, LoadLimits DEF TableInv
  <2>2. len + 0 <= MaxLoadFor(m)
    BY <1>1, <2>1
  <2> QED BY <1>1, <1>4, <2>2, RehashStart
<1> QED BY <1>2, <1>3, <1>4

\* shrink_to_fit: the smaller array still holds the entries.
LEMMA ShrinkStep ==
    ASSUME IndInv, ShrinkToFit
    PROVE  IndInv'
<1>1. pc = "ready" /\ TableInv
  BY DEF ShrinkToFit, IndInv
<1>2. CASE len = 0 /\ Reset /\ UNCHANGED <<pc, loop, ret>>
  BY <1>1, <1>2, ResetStep
<1>3. CASE len > 0 /\ \E m \in GroupCounts :
             GroupsFor(len, m) /\ m < groups /\ Rehash(m, EMPTY)
  <2>1. PICK m \in GroupCounts : GroupsFor(len, m) /\ Rehash(m, EMPTY)
    BY <1>3
  <2>2. len + 0 <= MaxLoadFor(m)
    BY <1>1, <2>1, LoadLimits DEF TableInv
  <2> QED BY <1>1, <2>1, <2>2, RehashStart
<1> QED BY <1>2, <1>3 DEF ShrinkToFit

\* clear keeps the array, zeroed, with its full max_load.
LEMMA ClearStep ==
    ASSUME IndInv, Clear
    PROVE  IndInv'
<1>1. pc = "ready" /\ groups \in GroupCounts
  BY DEF Clear, IndInv, TableInv
<1>2. MaxLoadFor(groups) \in Nat
  BY <1>1, LoadLimits
<1>3. TableInv' /\ len' <= max_load'
  BY <1>1, <1>2, FreshInv DEF Clear
<1>4. /\ UNCHANGED <<pc, loop>> /\ ctrl' \in {"static", "heap"} /\ leaked' \in BOOLEAN
      /\ ret' \in Value \cup {NONE}
  BY DEF Clear, IndInv, TypeOK
<1> QED BY <1>1, <1>3, <1>4, ReadyStep

\* One position of a retain: kept, or erased while the later ones stay occupied.
LEMMA RetainStepInv ==
    ASSUME IndInv, RetainStep
    PROVE  IndInv'
<1>1. PICK s \in todo :
        todo' = todo \ {s} /\ (UNCHANGED table \/ EraseSlot(slot[s].key, s))
  BY DEF RetainStep
<1>2. /\ pc = "retain" /\ pc' = pc /\ old' = old /\ pend' = pend /\ ret' = ret
      /\ TableInv /\ Occupied(old) = {} /\ pend = EMPTY
  BY DEF RetainStep, IndInv
<1>3. todo \subseteq Slots(groups) /\ todo \subseteq Occupied(slot)
  BY DEF IndInv, TypeOK, RetainPositionsLive, TableInv, Occupied
<1>4. /\ TableInv' /\ len' <= max_load' /\ groups' = groups
      /\ ctrl' = ctrl /\ leaked' = leaked /\ todo' \subseteq Occupied(slot')
  <2>1. CASE UNCHANGED table
    <3>1. /\ groups' = groups /\ slot' = slot /\ ofw' = ofw /\ len' = len
          /\ max_load' = max_load /\ ctrl' = ctrl /\ leaked' = leaked
      BY <2>1 DEF table
    <3>2. TableInv'
      BY <1>2, <3>1 DEF TableInv, LenExact, PathMarked, HasOverflow, DriftAccounted, FreeBehindBit
    <3> QED BY <1>1, <1>2, <1>3, <3>1, <3>2, ReadyLoad
  <2>2. CASE EraseSlot(slot[s].key, s)
    <3>1. len <= max_load
      BY <1>2, ReadyLoad
    <3>2. TableInv' /\ len' <= max_load' /\ Occupied(slot') = Occupied(slot) \ {s}
      BY <1>2, <1>3, <2>2, <3>1, EraseSlotInv
    <3> QED BY <1>1, <1>3, <2>2, <3>2 DEF EraseSlot
  <2> QED BY <1>1, <2>1, <2>2
<1>5. len' \in Nat /\ max_load' \in Nat
  BY <1>4 DEF TableInv
<1>6. TypeOK'
  BY <1>1, <1>2, <1>3, <1>4, <1>5 DEF IndInv, TypeOK, TableInv
<1>7. UniqueKeys'
  BY <1>2, <1>4 DEF UniqueKeys, TableInv
<1>8. LoadWithinLimit'
  BY <1>2, <1>4, <1>5, FS_EmptySet DEF LoadWithinLimit
<1>9. RetainPositionsLive'
  BY <1>4 DEF RetainPositionsLive, Occupied
<1> QED BY <1>2, <1>4, <1>6, <1>7, <1>8, <1>9 DEF IndInv

\* One entry moved by rehash_with_impl: it leaves the old array and is not yet in
\* the new one, which has room for it.
LEMMA RehashStepInv ==
    ASSUME IndInv, RehashStep
    PROVE  IndInv'
<1>1. PICK s \in Occupied(old) :
        /\ InsertNoCheck(old[s].key, old[s].val)
        /\ old' = [old EXCEPT ![s] = EMPTY]
  BY DEF RehashStep
<1>2. /\ pc = "rehash" /\ UNCHANGED <<groups, max_load, ctrl, leaked, pc, pend, todo, ret>>
      /\ TableInv /\ todo = {}
  BY DEF RehashStep, IndInv
<1> DEFINE k == old[s].key
           v == old[s].val
<1>3. PICK n \in GroupCounts : old \in [Slots(n) -> Entry \cup {EMPTY}]
  BY DEF IndInv, TypeOK
<1>4. s \in Slots(n) /\ old[s] # EMPTY /\ k \in Key /\ v \in Value
  BY <1>3 DEF Occupied, Entry
<1>5. /\ old' \in [Slots(n) -> Entry \cup {EMPTY}]
      /\ Occupied(old') = Occupied(old) \ {s}
      /\ \A t \in Occupied(old') : old'[t] = old[t]
  BY <1>1, <1>3, <1>4 DEF Occupied
<1>6. \A t \in Occupied(slot) : slot[t].key # k
  BY DEF IndInv, UniqueKeys
<1>7. TableInv' /\ len' = len + 1
  BY <1>1, <1>2, <1>4, <1>6, InsertNoCheckInv
<1>8. PICK u \in Slots(groups) :
        /\ u \notin Occupied(slot)
        /\ Occupied(slot') = Occupied(slot) \cup {u}
        /\ slot'[u] = [key |-> k, val |-> v]
        /\ \A t \in Occupied(slot) : slot'[t] = slot[t]
  <2>1. Gains(k, v)
    BY <1>1, <1>2, <1>4, <1>6, InsertNoCheckInv
  <2> QED BY <2>1 DEF Gains
<1>9. slot'[u].key = k
  BY <1>8
<1>10. UniqueKeys'
  <2>1. \A t, w \in Occupied(old') : old'[t].key = old'[w].key => t = w
    BY <1>5 DEF IndInv, UniqueKeys
  <2>2. \A t \in Occupied(slot'), w \in Occupied(old') : slot'[t].key # old'[w].key
    <3> TAKE t \in Occupied(slot'), w \in Occupied(old')
    <3>1. w \in Occupied(old) /\ w # s /\ old'[w] = old[w]
      BY <1>5
    <3>2. CASE t = u
      BY <3>1, <3>2, <1>9 DEF IndInv, UniqueKeys
    <3>3. CASE t # u
      BY <3>1, <3>3, <1>8 DEF IndInv, UniqueKeys
    <3> QED BY <3>2, <3>3
  <2>3. pend # EMPTY =>
          /\ \A t \in Occupied(slot') : slot'[t].key # pend.key
          /\ \A t \in Occupied(old') : old'[t].key # pend.key
    BY <1>5, <1>8, <1>9 DEF IndInv, UniqueKeys
  <2>4. \A t, w \in Occupied(slot') : slot'[t].key = slot'[w].key => t = w
    BY <1>7 DEF TableInv
  <2> QED BY <2>1, <2>2, <2>3, <2>4, <1>2 DEF UniqueKeys
<1>11. LoadWithinLimit'
  <2>1. DOMAIN old = Slots(n)
    BY <1>3
  <2>2. IsFiniteSet(Occupied(old)) /\ Cardinality(Occupied(old)) \in Nat
    BY <2>1, OccupiedFinite
  <2>3. Cardinality(Occupied(old')) = Cardinality(Occupied(old)) - 1
    BY <1>5, <2>2, FS_RemoveElement
  <2>4. len \in Nat /\ max_load \in Nat
    BY <1>2 DEF TableInv
  <2> QED BY <1>2, <1>7, <2>2, <2>3, <2>4 DEF IndInv, LoadWithinLimit
<1>12. TypeOK'
  <2>1. len' \in Nat
    BY <1>7 DEF TableInv
  <2>2. \E i \in GroupCounts : old' \in [Slots(i) -> Entry \cup {EMPTY}]
    BY <1>5
  <2> QED BY <1>2, <1>7, <2>1, <2>2 DEF IndInv, TypeOK, TableInv
<1>13. RetainPositionsLive'
  BY <1>2 DEF RetainPositionsLive
<1> QED BY <1>2, <1>7, <1>10, <1>11, <1>12, <1>13 DEF IndInv

\* The end of a rehash, and the insert that waited for it.
LEMMA RehashDoneInv ==
    ASSUME IndInv, RehashDone
    PROVE  IndInv'
<1>1. /\ Occupied(old) = {} /\ old' = EmptySlots(1) /\ pend' = EMPTY /\ pc' = "ready"
      /\ UNCHANGED <<groups, max_load, ctrl, leaked, todo>> /\ TableInv
      /\ pc = "rehash" /\ todo = {}
  BY DEF RehashDone, IndInv
<1>2. len \in Nat /\ max_load \in Nat /\ Cardinality(Occupied(old)) = 0
  BY <1>1, FS_EmptySet DEF TableInv
<1>3. len + (IF pend = EMPTY THEN 0 ELSE 1) <= max_load
  BY <1>2 DEF IndInv, LoadWithinLimit
<1>4. TableInv' /\ len' <= max_load' /\ ret' \in Value \cup {NONE}
  <2>1. CASE pend = EMPTY /\ UNCHANGED <<slot, ofw, len, ret>>
    <3>1. TableInv'
      BY <1>1, <2>1 DEF TableInv, LenExact, PathMarked, HasOverflow, DriftAccounted, FreeBehindBit
    <3> QED BY <1>1, <1>2, <1>3, <2>1, <3>1 DEF IndInv, TypeOK
  <2>2. CASE pend # EMPTY /\ InsertNoCheck(pend.key, pend.val) /\ ret' = NONE
    <3>1. pend.key \in Key /\ pend.val \in Value
      BY <2>2 DEF IndInv, TypeOK, Entry
    <3>2. \A s \in Occupied(slot) : slot[s].key # pend.key
      BY <2>2 DEF IndInv, UniqueKeys
    <3>3. TableInv' /\ len' = len + 1
      BY <1>1, <2>2, <3>1, <3>2, InsertNoCheckInv
    <3> QED BY <1>1, <1>2, <1>3, <2>2, <3>3
  <2> QED BY <2>1, <2>2 DEF RehashDone
<1>5. Occupied(old') = {} /\ old' \in [Slots(1) -> Entry \cup {EMPTY}]
  BY <1>1 DEF Occupied, EmptySlots
<1>6. len' \in Nat /\ max_load' \in Nat
  BY <1>4 DEF TableInv
<1>7. TypeOK'
  <2>1. \E i \in GroupCounts : old' \in [Slots(i) -> Entry \cup {EMPTY}]
    BY <1>5, GroupCountsAssumption
  <2> QED BY <1>1, <1>4, <1>6, <2>1 DEF IndInv, TypeOK, TableInv
<1>8. UniqueKeys'
  BY <1>1, <1>4, <1>5 DEF UniqueKeys, TableInv
<1>9. LoadWithinLimit'
  BY <1>1, <1>4, <1>5, <1>6, FS_EmptySet DEF LoadWithinLimit
<1>10. RetainPositionsLive'
  BY <1>1 DEF RetainPositionsLive
<1> QED BY <1>1, <1>4, <1>5, <1>7, <1>8, <1>9, <1>10 DEF IndInv

\* retain's list holds occupied positions.
LEMMA RetainBegins ==
    ASSUME IndInv, Retain
    PROVE  IndInv'
<1>1. /\ groups' = groups /\ slot' = slot /\ ofw' = ofw /\ len' = len
      /\ max_load' = max_load /\ ctrl' = ctrl /\ leaked' = leaked
      /\ old' = old /\ pend' = pend /\ ret' = ret
      /\ pc = "ready" /\ pc' = "retain" /\ todo' = Occupied(slot)
  BY DEF Retain, table
<1>2. todo' \subseteq Slots(groups)
  BY <1>1 DEF IndInv, TypeOK, Occupied
<1>3. TypeOK' /\ RetainPositionsLive'
  BY <1>1, <1>2 DEF IndInv, TypeOK, RetainPositionsLive, Occupied
<1>4. TableInv'
  BY <1>1 DEF IndInv, TableInv, LenExact, PathMarked, HasOverflow, DriftAccounted, FreeBehindBit
<1>5. UniqueKeys' /\ LoadWithinLimit'
  BY <1>1 DEF IndInv, UniqueKeys, LoadWithinLimit
<1> QED BY <1>1, <1>3, <1>4, <1>5 DEF IndInv

\* The end of a retain.
LEMMA RetainEnds ==
    ASSUME IndInv, RetainDone
    PROVE  IndInv'
<1>1. /\ groups' = groups /\ slot' = slot /\ ofw' = ofw /\ len' = len
      /\ max_load' = max_load /\ ctrl' = ctrl /\ leaked' = leaked
      /\ old' = old /\ pend' = pend /\ ret' = ret
      /\ pc = "retain" /\ pc' = "ready" /\ todo' = todo /\ todo = {}
  BY DEF RetainDone, table, loop
<1>2. TypeOK' /\ RetainPositionsLive'
  BY <1>1 DEF IndInv, TypeOK, RetainPositionsLive
<1>3. TableInv'
  BY <1>1 DEF IndInv, TableInv, LenExact, PathMarked, HasOverflow, DriftAccounted, FreeBehindBit
<1>4. UniqueKeys' /\ LoadWithinLimit'
  BY <1>1 DEF IndInv, UniqueKeys, LoadWithinLimit
<1> QED BY <1>1, <1>2, <1>3, <1>4 DEF IndInv

\* A step that changes no variable.
LEMMA IndInvStutter ==
    ASSUME IndInv, UNCHANGED vars
    PROVE  IndInv'
<1>1. /\ groups' = groups /\ slot' = slot /\ ofw' = ofw /\ len' = len
      /\ max_load' = max_load /\ ctrl' = ctrl /\ leaked' = leaked
      /\ old' = old /\ pend' = pend /\ ret' = ret /\ pc' = pc /\ todo' = todo
  BY DEF vars, table, loop
<1>2. TypeOK' /\ RetainPositionsLive' /\ UniqueKeys' /\ LoadWithinLimit'
  BY <1>1 DEF IndInv, TypeOK, RetainPositionsLive, UniqueKeys, LoadWithinLimit
<1>3. TableInv'
  BY <1>1 DEF IndInv, TableInv, LenExact, PathMarked, HasOverflow, DriftAccounted, FreeBehindBit
<1> QED BY <1>1, <1>2, <1>3 DEF IndInv

\* Calls that only read: get, a lookup that never ends, a clone.
LEMMA ReadStep ==
    ASSUME IndInv, NEW k \in Key, Get(k) \/ Lookup(k)
    PROVE  IndInv'
<1>1. TableInv /\ ret \in Value \cup {NONE}
  BY DEF IndInv, TypeOK
<1>2. CASE Get(k)
  <2>1. pc = "ready" /\ UNCHANGED <<table, loop>> /\ pc' = "ready"
    BY <1>2 DEF Get
  <2>2. ret' \in Value \cup {NONE}
    BY <1>1, <1>2, HitSlot DEF Get
  <2> QED BY <2>1, <2>2, QuietStep
<1>3. CASE Lookup(k)
  <2>1. pc = "ready" /\ UNCHANGED <<table, loop>> /\ pc' = "spin" /\ ret' = ret
    BY <1>3 DEF Lookup, Hang
  <2> QED BY <1>1, <2>1, QuietStep
<1> QED BY <1>2, <1>3

\* A clone with max_load 0 is a new table; it has no entries to lose.
LEMMA CloneStep ==
    ASSUME IndInv, Clone
    PROVE  IndInv'
<1>1. pc = "ready" /\ UNCHANGED <<pc, loop, ret>> /\ ret \in Value \cup {NONE}
  BY DEF Clone, IndInv, TypeOK
<1>2. CASE Reset
  BY <1>1, <1>2, ResetStep
<1>3. CASE UNCHANGED table
  BY <1>1, <1>3, QuietStep
<1> QED BY <1>2, <1>3 DEF Clone

-----------------------------------------------------------------------------
\* IndInv is inductive: no call, no step of a rehash or of a retain, and no
\* interruption between them breaks it.
THEOREM IndInvHolds == Spec => []IndInv
<1>1. ASSUME IndInv, [Next]_vars
      PROVE  IndInv'
  <2>1. CASE \E k \in Key : Get(k) \/ Remove(k) \/ Lookup(k)
    BY <1>1, <2>1, ReadStep, RemoveStep
  <2>2. CASE \E k \in Key, v \in Value : Insert(k, v) \/ TryInsert(k, v) \/ RawInsert(k, v)
    BY <1>1, <2>2, InsertStep, TryInsertStep, InsertAbsentStep DEF RawInsert
  <2>3. CASE \E n \in ReserveArgs : Reserve(n)
    BY <1>1, <2>3, ReserveStep
  <2>4. CASE ShrinkToFit \/ Clear
    BY <1>1, <2>4, ShrinkStep, ClearStep
  <2>5. CASE Drain \/ Clone
    BY <1>1, <2>5, ResetStep, CloneStep DEF Drain
  <2>6. CASE Retain \/ RetainStep \/ RetainDone
    BY <1>1, <2>6, RetainBegins, RetainStepInv, RetainEnds
  <2>7. CASE RehashStep \/ RehashDone
    BY <1>1, <2>7, RehashStepInv, RehashDoneInv
  <2>8. CASE Spin \/ UNCHANGED vars
    BY <1>1, <2>8, IndInvStutter DEF Spin
  <2> QED BY <1>1, <2>1, <2>2, <2>3, <2>4, <2>5, <2>6, <2>7, <2>8 DEF Next, Call, LoopStep
<1> QED BY <1>1, IndInvInit, PTL DEF Spec

\* The variables keep their types; the arrays have the size the mask says.
THEOREM TypeCorrect == Spec => []TypeOK
<1>1. IndInv => TypeOK
  BY DEF IndInv
<1> QED BY <1>1, IndInvHolds, PTL

\* Core safety of the overflow-bit scheme, for any number of channels: however
\* entries are displaced, removed and rehashed, find_by_hash finds each one.
THEOREM EntriesFindable == Spec => []NoLostEntry
<1>1. IndInv => NoLostEntry
  <2> SUFFICES ASSUME IndInv, NEW s \in Occupied(slot)
               PROVE  FindHit(slot[s].key, s)
    BY DEF NoLostEntry
  <2> DEFINE k == slot[s].key
  <2>1. KeyAt(k, s) /\ s \in Slots(groups)
    BY DEF KeyAt, Occupied, IndInv, TableInv
  <2>2. PICK p \in 0 .. groups - 1 :
          /\ Probe(k, groups, p) = s[1]
          /\ \A q \in 0 .. p - 1 :
               HasOverflow(k, Probe(k, groups, q)) /\ Probe(k, groups, q) # s[1]
    BY DEF IndInv, TableInv, PathMarked
  <2>3. \A q \in 0 .. p - 1 : ~InGroup(k, Probe(k, groups, q))
    <3> SUFFICES ASSUME NEW q \in 0 .. p - 1, NEW j \in SlotIdx,
                        KeyAt(k, <<Probe(k, groups, q), j>>)
                 PROVE  FALSE
      BY DEF InGroup
    <3> DEFINE t == <<Probe(k, groups, q), j>>
    <3>1. groups \in GroupCounts /\ k \in Key /\ q \in Nat
      BY <2>1 DEF IndInv, TableInv, Occupied, Entry
    <3>2. t \in Slots(groups) /\ t[1] = Probe(k, groups, q)
      BY <3>1, ProbeRange, SlotMake
    <3>3. t \in Occupied(slot) /\ slot[t].key = k
      BY <3>2 DEF KeyAt, Occupied, IndInv, TableInv
    <3>4. t = s
      BY <3>3 DEF IndInv, TableInv
    <3> QED BY <3>2, <3>4, <2>2
  <2>4. Reaches(k, p)
    BY <2>2, <2>3 DEF Reaches
  <2> QED BY <2>1, <2>2, <2>4 DEF FindHit
<1> QED BY <1>1, IndInvHolds, PTL

\* No sequence of calls stores a key twice, rehashes in progress included.
THEOREM KeysUnique == Spec => []UniqueKeys
<1>1. IndInv => UniqueKeys
  BY DEF IndInv
<1> QED BY <1>1, IndInvHolds, PTL

\* The stored, moving and waiting entries always fit under max_load.
THEOREM LoadBounded == Spec => []LoadWithinLimit
<1>1. IndInv => LoadWithinLimit
  BY DEF IndInv
<1> QED BY <1>1, IndInvHolds, PTL

\* insert_no_check always meets a free slot, so its unbounded loop ends.
THEOREM InsertTerminates == Spec => []InsertEnds
<1>1. IndInv => InsertEnds
  <2> SUFFICES ASSUME IndInv PROVE InsertEnds
    OBVIOUS
  <2>1. /\ groups \in GroupCounts /\ DOMAIN slot = Slots(groups)
        /\ len = Cardinality(Occupied(slot)) /\ len \in Nat /\ max_load \in Nat
        /\ max_load <= MaxLoadFor(groups)
    BY DEF IndInv, TableInv, LenExact
  <2>2. len <= max_load
    <3>1. PICK n \in GroupCounts : DOMAIN old = Slots(n)
      BY DEF IndInv, TypeOK
    <3>2. Cardinality(Occupied(old)) \in Nat
      BY <3>1, OccupiedFinite
    <3> QED BY <2>1, <3>2 DEF IndInv, LoadWithinLimit
  <2>3. Occupied(slot) # Slots(groups)
    BY <2>1, <2>2, LoadLimits, SlotsCount
  <2>4. PICK s \in Slots(groups) : slot[s] = EMPTY
    BY <2>1, <2>3 DEF Occupied
  <2> QED BY <2>4, SlotPair DEF InsertEnds, HasRoom
<1> QED BY <1>1, IndInvHolds, PTL

\* With one overflow bit per group (BitSeparate) anti-drift does its job: some
\* group on every path has a clear bit, so every lookup, hit or miss, ends.
THEOREM LookupsTerminate ==
    ASSUME NumChannels = 1
    PROVE  Spec => []LookupsEnd
<1>1. IndInv => LookupsEnd
  <2> SUFFICES ASSUME IndInv, NEW k \in Key, FindNeverEnds(k)
               PROVE  FALSE
    BY DEF LookupsEnd
  <2>1. /\ groups \in GroupCounts /\ groups \in Nat /\ DOMAIN slot = Slots(groups)
        /\ len = Cardinality(Occupied(slot)) /\ len \in Nat /\ max_load \in Nat
        /\ Cardinality(FreeBehindBit) <= MaxLoadFor(groups) - max_load
    BY GroupCountsAssumption DEF IndInv, TableInv, LenExact, DriftAccounted
  <2>2. \A g \in 0 .. groups - 1 : ofw[g] # {}
    <3> TAKE g \in 0 .. groups - 1
    <3>1. PICK p \in 0 .. groups - 1 : Probe(k, groups, p) = g
      BY <2>1, ProbeReachesAll
    <3> QED BY <3>1 DEF FindNeverEnds, Reaches, HasOverflow
  <2>3. FreeBehindBit = Slots(groups) \ Occupied(slot)
    BY <2>1, <2>2, SlotPair DEF FreeBehindBit, Occupied
  <2>4. Cardinality(FreeBehindBit) = Capacity(groups) - len
    <3>1. Slots(groups) \cap Occupied(slot) = Occupied(slot)
      BY <2>1 DEF Occupied
    <3>2. IsFiniteSet(Slots(groups)) /\ Cardinality(Slots(groups)) = Capacity(groups)
      BY <2>1, SlotsCount
    <3>3. Cardinality(Slots(groups) \ Occupied(slot))
             = Cardinality(Slots(groups)) - Cardinality(Slots(groups) \cap Occupied(slot))
      BY <3>2, FS_Difference
    <3> QED BY <2>1, <2>3, <3>1, <3>2, <3>3
  <2>5. len <= max_load
    <3>1. PICK n \in GroupCounts : DOMAIN old = Slots(n)
      BY DEF IndInv, TypeOK
    <3>2. Cardinality(Occupied(old)) \in Nat
      BY <3>1, OccupiedFinite
    <3> QED BY <2>1, <3>2 DEF IndInv, LoadWithinLimit
  <2>6. MaxLoadFor(groups) < Capacity(groups)
        /\ MaxLoadFor(groups) \in Nat /\ Capacity(groups) \in Nat
    BY <2>1, LoadLimits
  <2> QED BY <2>1, <2>4, <2>5, <2>6
<1> QED BY <1>1, IndInvHolds, PTL

\* With one overflow bit per group, every free slot behind a bit was paid for by
\* a decrement of max_load: the account of anti-drift never goes into the red.
THEOREM DriftBounded ==
    ASSUME NumChannels = 1
    PROVE  Spec => []DriftAccounted
<1>1. IndInv => DriftAccounted
  BY DEF IndInv, TableInv
<1> QED BY <1>1, IndInvHolds, PTL

\* Anti-drift never takes max_load to 0 while an entry is stored, so the insert
\* that finds max_load 0 and allocates anew loses nothing.
THEOREM UnallocatedHoldsNothing == Spec => []UnallocatedIsEmpty
<1>1. IndInv => UnallocatedIsEmpty
  <2> SUFFICES ASSUME IndInv, max_load = 0
               PROVE  len = 0 /\ Occupied(slot) = {}
    BY DEF UnallocatedIsEmpty
  <2>1. /\ groups \in GroupCounts /\ DOMAIN slot = Slots(groups)
        /\ len = Cardinality(Occupied(slot)) /\ len \in Nat
    BY DEF IndInv, TableInv, LenExact
  <2>2. len = 0
    <3>1. PICK n \in GroupCounts : DOMAIN old = Slots(n)
      BY DEF IndInv, TypeOK
    <3>2. Cardinality(Occupied(old)) \in Nat
      BY <3>1, OccupiedFinite
    <3> QED BY <2>1, <3>2 DEF IndInv, LoadWithinLimit
  <2>3. IsFiniteSet(Occupied(slot))
    BY <2>1, OccupiedFinite
  <2> QED BY <2>1, <2>2, <2>3, FS_EmptySet
<1> QED BY <1>1, IndInvHolds, PTL

-----------------------------------------------------------------------------
(***************************************************************************)
(* Refinement: the table implements the map of MapSpec.                    *)
(***************************************************************************)
\* What the proofs need of the abstract steps: a call that inserts, removes,
\* reads or empties, and a step the client does not see.
LEMMA MapInsert ==
    ASSUME NEW k \in Key, NEW v \in Value, pc # "retain", pc' # "retain",
           ret' = Dict[k], Dict' = [Dict EXCEPT ![k] = v]
    PROVE  Map!Next
BY DEF Map!Next, Map!Call, Map!Insert

\* try_insert on a stored key.
LEMMA MapTryInsert ==
    ASSUME NEW k \in Key, NEW v \in Value, pc # "retain", pc' # "retain",
           Dict[k] # NONE, ret' = v, Dict' = Dict
    PROVE  Map!Next
BY DEF Map!Next, Map!Call, Map!TryInsert

\* get, and the remove of an absent key.
LEMMA MapGet ==
    ASSUME NEW k \in Key, pc # "retain", pc' # "retain", ret' = Dict[k], Dict' = Dict
    PROVE  Map!Next
BY DEF Map!Next, Map!Call, Map!Get

\* remove.
LEMMA MapRemove ==
    ASSUME NEW k \in Key, pc # "retain", pc' # "retain",
           ret' = Dict[k], Dict' = [Dict EXCEPT ![k] = NONE]
    PROVE  Map!Next
BY DEF Map!Next, Map!Call, Map!Remove

\* clear, drain, and shrink_to_fit of an empty map.
LEMMA MapClear ==
    ASSUME pc # "retain", pc' # "retain", ret' = ret, Dict' = [k \in Key |-> NONE]
    PROVE  Map!Next
BY DEF Map!Next, Map!Call, Map!Clear

\* retain begins or ends.
LEMMA MapRetain ==
    ASSUME pc = "retain" <=> pc' # "retain", ret' = ret, Dict' = Dict
    PROVE  Map!Next
BY DEF Map!Next, Map!Retain

\* retain rejects the entry of k.
LEMMA MapDiscard ==
    ASSUME NEW k \in Key, pc = "retain", pc' = "retain", ret' = ret,
           Dict' = [Dict EXCEPT ![k] = NONE]
    PROVE  Map!Next
BY DEF Map!Next, Map!Discard

\* Growing, shrinking and moving entries are invisible.
LEMMA MapStutter ==
    ASSUME Dict' = Dict, ret' = ret, pc = "retain" <=> pc' = "retain"
    PROVE  UNCHANGED Map!vars
BY DEF Map!vars

\* No key is in two entries.
LEMMA EntriesDiffer ==
    ASSUME NEW f, NEW g,
           \A s, t \in Occupied(f) : f[s].key = f[t].key => s = t,
           \A s, t \in Occupied(g) : g[s].key = g[t].key => s = t,
           \A s \in Occupied(f), t \in Occupied(g) : f[s].key # g[t].key
    PROVE  DifferentKeys({f[s] : s \in Occupied(f)} \cup {g[s] : s \in Occupied(g)})
BY DEF DifferentKeys

\* The entries of a state and of its successor.
LEMMA EntriesOfInv ==
    ASSUME IndInv
    PROVE  /\ DifferentKeys(Entries)
           /\ \A e \in Entries : e \in Entry /\ e.key \in Key /\ e.val \in Value
<1>1. DifferentKeys(Entries)
  <2>1. /\ \A s, t \in Occupied(slot) : slot[s].key = slot[t].key => s = t
        /\ \A s, t \in Occupied(old) : old[s].key = old[t].key => s = t
        /\ \A s \in Occupied(slot), t \in Occupied(old) : slot[s].key # old[t].key
    BY DEF IndInv, UniqueKeys
  <2> QED BY <2>1, EntriesDiffer DEF Entries
<1>2. \A s \in Occupied(slot) : slot[s] \in Entry
  BY DEF IndInv, TypeOK, Occupied
<1>3. \A s \in Occupied(old) : old[s] \in Entry
  BY DEF IndInv, TypeOK, Occupied
<1>4. \A e \in Entries : e \in Entry
  BY <1>2, <1>3 DEF Entries
<1> QED BY <1>1, <1>4 DEF Entry

\* The entries of the next state have different keys too.
LEMMA EntriesOfNext ==
    ASSUME IndInv'
    PROVE  DifferentKeys(Entries')
<1>1. /\ \A s, t \in Occupied(slot') : slot'[s].key = slot'[t].key => s = t
      /\ \A s, t \in Occupied(old') : old'[s].key = old'[t].key => s = t
      /\ \A s \in Occupied(slot'), t \in Occupied(old') : slot'[s].key # old'[t].key
  BY DEF IndInv, UniqueKeys
<1> QED BY <1>1, EntriesDiffer DEF Entries

\* The value of a stored key.
LEMMA DictHit ==
    ASSUME IndInv, NEW s \in Occupied(slot)
    PROVE  /\ Dict[slot[s].key] = slot[s].val
           /\ slot[s].val # NONE
<1>1. slot[s] \in Entries
  BY DEF Entries
<1>2. slot[s].key \in Key /\ slot[s].val \in Value
  BY <1>1, EntriesOfInv
<1> QED BY <1>1, <1>2, EntriesOfInv, DictAt, SentinelAssumption DEF Dict

\* A key in neither array has no value.
LEMMA DictMiss ==
    ASSUME IndInv, NEW k \in Key, Absent(k), \A t \in Occupied(old) : old[t].key # k
    PROVE  Dict[k] = NONE
<1>1. \A e \in Entries : e.key # k
  BY DEF Entries, Absent
<1> QED BY <1>1, EntriesOfInv, DictAt DEF Dict

\* The array gains an entry that the rehash does not hold.
LEMMA DictGains ==
    ASSUME IndInv, IndInv', NEW k \in Key, NEW v \in Value, Gains(k, v),
           Occupied(old) = {}, Occupied(old)' = {}
    PROVE  Dict' = [Dict EXCEPT ![k] = v]
<1>1. PICK s \in Slots(groups) :
        /\ s \notin Occupied(slot)
        /\ Occupied(slot)' = Occupied(slot) \cup {s}
        /\ slot'[s] = [key |-> k, val |-> v]
        /\ \A t \in Occupied(slot) : slot'[t] = slot[t]
  BY DEF Gains
<1>2. PICK e : e = [key |-> k, val |-> v] /\ e.key = k /\ e.val = v
  <2>1. [key |-> k, val |-> v].key = k /\ [key |-> k, val |-> v].val = v
    OBVIOUS
  <2> QED BY <2>1
<1>3. Entries' = Entries \cup {e}
  BY <1>1, <1>2 DEF Entries
<1>4. SameElsewhere(Entries, Entries', k)
  BY <1>2, <1>3 DEF SameElsewhere
<1>5. Holds(Entries', k, v, NONE)
  BY <1>2, <1>3 DEF Holds
<1>6. DifferentKeys(Entries) /\ DifferentKeys(Entries')
  BY EntriesOfInv, EntriesOfNext
<1>7. DictOf(Entries', NONE) = Update(DictOf(Entries, NONE), k, v)
  BY <1>4, <1>5, <1>6, DictOneKey
<1> QED BY <1>7 DEF Dict, Update

\* The array loses the entry in slot s.
LEMMA DictLoses ==
    ASSUME IndInv, IndInv', NEW s \in Occupied(slot),
           Occupied(slot)' = Occupied(slot) \ {s},
           \A t \in Occupied(slot)' : slot'[t] = slot[t],
           Occupied(old) = {}, Occupied(old)' = {}
    PROVE  Dict' = [Dict EXCEPT ![slot[s].key] = NONE]
<1>1. PICK k \in Key : k = slot[s].key
  BY EntriesOfInv DEF Entries
<1>2. Entries' = Entries \ {slot[s]}
  BY DEF Entries, IndInv, UniqueKeys
<1>3. \A e \in Entries : e.key = k => e = slot[s]
  BY <1>1, EntriesOfInv DEF Entries, DifferentKeys
<1>4. SameElsewhere(Entries, Entries', k) /\ Holds(Entries', k, NONE, NONE)
  BY <1>1, <1>2, <1>3 DEF SameElsewhere, Holds
<1>5. DifferentKeys(Entries) /\ DifferentKeys(Entries')
  BY EntriesOfInv, EntriesOfNext
<1>6. DictOf(Entries', NONE) = Update(DictOf(Entries, NONE), k, NONE)
  BY <1>4, <1>5, DictOneKey
<1> QED BY <1>1, <1>6 DEF Dict, Update

\* The value in slot s is replaced.
LEMMA DictReplaces ==
    ASSUME IndInv, IndInv', NEW s \in Occupied(slot), NEW v \in Value,
           Occupied(slot)' = Occupied(slot),
           slot'[s] = [key |-> slot[s].key, val |-> v],
           \A t \in Occupied(slot) : t # s => slot'[t] = slot[t],
           Occupied(old) = {}, Occupied(old)' = {}
    PROVE  Dict' = [Dict EXCEPT ![slot[s].key] = v]
<1>1. PICK k \in Key : k = slot[s].key
  BY EntriesOfInv DEF Entries
<1>2. PICK e : e = [key |-> k, val |-> v] /\ e.key = k /\ e.val = v /\ e = slot'[s]
  BY <1>1
<1>3. Entries = {slot[t] : t \in Occupied(slot)} /\ Entries' = {slot'[t] : t \in Occupied(slot)}
  BY DEF Entries
<1>4. \A t \in Occupied(slot) : t # s => slot[t].key # k
  BY <1>1 DEF IndInv, UniqueKeys
<1>5. SameElsewhere(Entries, Entries', k)
  BY <1>1, <1>2, <1>3, <1>4 DEF SameElsewhere
<1>6. Holds(Entries', k, v, NONE)
  BY <1>2, <1>3 DEF Holds
<1>7. DifferentKeys(Entries) /\ DifferentKeys(Entries')
  BY EntriesOfInv, EntriesOfNext
<1>8. DictOf(Entries', NONE) = Update(DictOf(Entries, NONE), k, v)
  BY <1>5, <1>6, <1>7, DictOneKey
<1> QED BY <1>1, <1>8 DEF Dict, Update

\* Nothing is stored.
LEMMA DictEmpty ==
    ASSUME Occupied(slot)' = {}, Occupied(old)' = {}
    PROVE  Dict' = [k \in Key |-> NONE]
<1>1. Entries' = {}
  BY DEF Entries
<1> QED BY <1>1 DEF Dict, DictOf

\* A step that leaves the entries where they are, or moves them.
LEMMA SameEntries ==
    ASSUME Entries' = Entries, ret' = ret, pc = "retain" <=> pc' = "retain"
    PROVE  UNCHANGED Map!vars
<1>1. Dict' = Dict
  BY DEF Dict
<1> QED BY <1>1, MapStutter

\* An unallocated table holds nothing.
LEMMA UnallocatedEmpty ==
    ASSUME IndInv, pc = "ready", max_load = 0
    PROVE  Occupied(slot) = {}
<1>1. len = 0
  BY ReadyLoad
<1>2. groups \in GroupCounts /\ DOMAIN slot = Slots(groups) /\ Cardinality(Occupied(slot)) = 0
  BY <1>1 DEF IndInv, TableInv, LenExact
<1>3. IsFiniteSet(Occupied(slot))
  BY <1>2, OccupiedFinite
<1> QED BY <1>2, <1>3, FS_EmptySet

\* A client sees nothing of the start of a rehash.
LEMMA RehashUnseen ==
    ASSUME IndInv, pc = "ready", NEW m, NEW p, Rehash(m, p)
    PROVE  UNCHANGED Map!vars
<1>1. slot' = EmptySlots(m) /\ old' = (IF max_load > 0 THEN slot ELSE EmptySlots(1))
      /\ ret' = ret /\ pc' = "rehash"
  BY DEF Rehash, Allocate
<1>2. Occupied(slot') = {} /\ Occupied(EmptySlots(1)) = {} /\ Occupied(old) = {}
  BY <1>1 DEF Occupied, EmptySlots, IndInv
<1>3. Entries' = {old'[s] : s \in Occupied(old')} /\ Entries = {slot[s] : s \in Occupied(slot)}
  BY <1>2 DEF Entries
<1>4. CASE max_load > 0
  BY <1>1, <1>3, <1>4, SameEntries
<1>5. CASE max_load = 0
  <2>1. Occupied(old') = {} /\ Occupied(slot) = {}
    BY <1>1, <1>2, <1>5, UnallocatedEmpty
  <2>2. Entries' = Entries
    BY <2>1, <1>3
  <2> QED BY <2>2, <1>1, SameEntries
<1> QED BY <1>4, <1>5, ReadyLoad

\* A new key goes in at once.
LEMMA PlaceSeen ==
    ASSUME IndInv, IndInv', pc = "ready", pc' = "ready", NEW k \in Key, NEW v \in Value,
           Absent(k), Gains(k, v), ret' = NONE
    PROVE  Map!Next
<1>1. Occupied(old) = {} /\ Occupied(old)' = {}
  BY DEF IndInv
<1>2. Dict[k] = NONE
  BY <1>1, DictMiss
<1>3. Dict' = [Dict EXCEPT ![k] = v]
  BY <1>1, DictGains
<1> QED BY <1>2, <1>3, MapInsert

\* An absent key of an insert: the table grows first, or takes it.
LEMMA InsertAbsentSeen ==
    ASSUME IndInv, IndInv', pc = "ready", NEW k \in Key, NEW v \in Value,
           FindMiss(k), InsertAbsent(k, v)
    PROVE  Map!Next \/ UNCHANGED Map!vars
<1>1. CASE Grow([key |-> k, val |-> v])
  BY <1>1, RehashUnseen DEF Grow
<1>2. CASE InsertNoCheck(k, v) /\ ret' = NONE
           /\ UNCHANGED <<groups, max_load, ctrl, leaked, pc, loop>>
  <2>1. TableInv /\ \A s \in Occupied(slot) : slot[s].key # k
    BY MissMeansAbsent DEF IndInv
  <2>2. Gains(k, v) /\ Absent(k)
    BY <1>2, <2>1, InsertNoCheckInv DEF Absent
  <2> QED BY <2>2, <1>2, PlaceSeen
<1> QED BY <1>1, <1>2 DEF InsertAbsent

\* The first key of an unallocated table.
LEMMA InsertFreshSeen ==
    ASSUME IndInv, IndInv', pc = "ready", max_load = 0,
           NEW m \in GroupCounts, NEW k \in Key, NEW v \in Value, InsertFresh(m, k, v)
    PROVE  Map!Next
<1>1. ret' = NONE /\ UNCHANGED <<pc, loop>>
  BY DEF InsertFresh
<1>2. Occupied(slot) = {} /\ Occupied(old) = {} /\ Occupied(old)' = {}
  BY <1>1, UnallocatedEmpty DEF IndInv
<1>3. PICK s : Occupied(slot)' = {s} /\ slot'[s] = [key |-> k, val |-> v]
  <2>1. Single(k, v)
    BY ReadyLoad, InsertFreshInv
  <2> QED BY <2>1 DEF Single
<1>4. PICK e : e = [key |-> k, val |-> v] /\ e.key = k /\ e.val = v
  <2>1. [key |-> k, val |-> v].key = k /\ [key |-> k, val |-> v].val = v
    OBVIOUS
  <2> QED BY <2>1
<1>5. Entries = {} /\ Entries' = {e}
  <2>1. Entries = {}
    BY <1>2 DEF Entries
  <2>2. Entries' = {slot'[t] : t \in Occupied(slot)'}
    BY <1>2 DEF Entries
  <2> QED BY <2>1, <2>2, <1>3, <1>4
<1>6. SameElsewhere(Entries, Entries', k) /\ Holds(Entries', k, v, NONE)
  BY <1>4, <1>5 DEF SameElsewhere, Holds
<1>7. DifferentKeys(Entries) /\ DifferentKeys(Entries')
  BY EntriesOfInv, EntriesOfNext
<1>8. DictOf(Entries', NONE) = Update(DictOf(Entries, NONE), k, v)
  BY <1>6, <1>7, DictOneKey
<1>9. Dict[k] = NONE
  BY <1>2, DictMiss DEF Absent
<1>10. Dict' = [Dict EXCEPT ![k] = v]
  BY <1>8 DEF Dict, Update
<1> QED BY <1>1, <1>9, <1>10, MapInsert

\* insert_or_replace.
LEMMA InsertSeen ==
    ASSUME IndInv, IndInv', NEW k \in Key, NEW v \in Value, Insert(k, v)
    PROVE  Map!Next \/ UNCHANGED Map!vars
<1>1. pc = "ready" /\ TableInv
  BY DEF Insert, IndInv
<1>2. CASE max_load = 0 /\ InsertFresh(1, k, v)
  BY <1>1, <1>2, InsertFreshSeen, GroupCountsAssumption
<1>3. CASE max_load > 0 /\ FindMiss(k) /\ InsertAbsent(k, v)
  BY <1>1, <1>3, InsertAbsentSeen
<1>4. ASSUME NEW s \in Slots(groups), FindHit(k, s),
             slot' = [slot EXCEPT ![s].val = v], ret' = slot[s].val,
             UNCHANGED <<groups, ofw, len, max_load, ctrl, leaked, pc, loop>>
      PROVE  Map!Next
  <2>1. s \in Occupied(slot) /\ slot[s].key = k /\ slot[s] \in Entry
        /\ slot \in [Slots(groups) -> Entry \cup {EMPTY}]
    BY <1>1, <1>4, HitSlot DEF TableInv
  <2>2. PICK e : e = [slot[s] EXCEPT !.val = v]
    OBVIOUS
  <2>3. e \in Entry /\ e = [key |-> slot[s].key, val |-> v] /\ e # EMPTY
    BY <2>1, <2>2, SentinelAssumption DEF Entry
  <2>4. slot'[s] = e /\ DOMAIN slot' = Slots(groups)
        /\ \A t \in Slots(groups) : t # s => slot'[t] = slot[t]
    BY <1>4, <2>1, <2>2
  <2>5. /\ Occupied(slot)' = Occupied(slot)
        /\ slot'[s] = [key |-> slot[s].key, val |-> v]
        /\ \A t \in Occupied(slot) : t # s => slot'[t] = slot[t]
    BY <2>1, <2>3, <2>4 DEF Occupied
  <2>6. Occupied(old) = {} /\ Occupied(old)' = {}
    BY <1>1, <1>4 DEF IndInv
  <2>7. Dict' = [Dict EXCEPT ![slot[s].key] = v]
    BY <2>1, <2>5, <2>6, DictReplaces
  <2>8. Dict[k] = slot[s].val
    BY <2>1, DictHit
  <2> QED BY <2>1, <2>7, <2>8, <1>1, <1>4, MapInsert
<1> QED BY <1>2, <1>3, <1>4 DEF Insert

\* try_insert and entry().or_insert(), with or without a located slot.
LEMMA TryInsertSeen ==
    ASSUME IndInv, IndInv', NEW k \in Key, NEW v \in Value, TryInsert(k, v)
    PROVE  Map!Next \/ UNCHANGED Map!vars
<1>1. pc = "ready" /\ TableInv
  BY DEF TryInsert, IndInv
<1>2. ASSUME max_load = 0, NEW m \in GroupCounts, InsertFresh(m, k, v) PROVE Map!Next
  BY <1>1, <1>2, InsertFreshSeen
<1>3. CASE EntryInsertAt(k, v)
  <2>1. Gains(k, v) /\ ret' = NONE /\ pc' = pc
    BY <1>1, <1>3, EntryInsertAtInv DEF EntryInsertAt
  <2>2. FindMiss(k)
    BY <1>3 DEF EntryInsertAt, FindMiss
  <2>3. Absent(k)
    BY <2>2, <1>1, MissMeansAbsent DEF Absent
  <2> QED BY <2>1, <2>3, <1>1, PlaceSeen
<1>4. CASE EntryInsertNoSlot(k, v)
  <2>1. FindMiss(k) /\ InsertAbsent(k, v)
    BY <1>4 DEF EntryInsertNoSlot, FindMiss
  <2> QED BY <2>1, <1>1, InsertAbsentSeen
<1>5. ASSUME NEW s \in Slots(groups), FindHit(k, s), ret' = v, UNCHANGED <<table, pc, loop>>
      PROVE  Map!Next
  <2>1. s \in Occupied(slot) /\ slot[s].key = k
    BY <1>1, <1>5, HitSlot
  <2>2. Dict[k] # NONE
    BY <2>1, DictHit
  <2>3. Dict' = Dict
    BY <1>5 DEF Dict, Entries, table, loop
  <2> QED BY <2>2, <2>3, <1>1, <1>5, MapTryInsert
<1> QED BY <1>2, <1>3, <1>4, <1>5 DEF TryInsert

\* RawVacantEntryMut::insert.
LEMMA RawInsertSeen ==
    ASSUME IndInv, IndInv', NEW k \in Key, NEW v \in Value, RawInsert(k, v)
    PROVE  Map!Next \/ UNCHANGED Map!vars
BY InsertAbsentSeen DEF RawInsert

\* A key the lookup misses has no value.
LEMMA MissSeen ==
    ASSUME IndInv, pc = "ready", NEW k \in Key, FindMiss(k)
    PROVE  Dict[k] = NONE
<1>1. TableInv /\ Occupied(old) = {}
  BY DEF IndInv
<1>2. Absent(k)
  BY <1>1, MissMeansAbsent DEF Absent
<1> QED BY <1>1, <1>2, DictMiss

\* get.
LEMMA GetSeen ==
    ASSUME IndInv, NEW k \in Key, Get(k)
    PROVE  Map!Next
<1>1. pc = "ready" /\ UNCHANGED <<table, pc, loop>>
  BY DEF Get
<1>2. Dict' = Dict
  BY <1>1 DEF Dict, Entries, table, loop
<1>3. ret' = Dict[k]
  <2>1. ASSUME NEW s \in Slots(groups), FindHit(k, s), ret' = slot[s].val PROVE ret' = Dict[k]
    <3>1. s \in Occupied(slot) /\ slot[s].key = k
      BY <2>1, HitSlot DEF IndInv
    <3> QED BY <2>1, <3>1, DictHit
  <2>2. CASE FindMiss(k) /\ ret' = NONE
    BY <2>2, <1>1, MissSeen
  <2> QED BY <2>1, <2>2 DEF Get
<1> QED BY <1>1, <1>2, <1>3, MapGet

\* remove, remove_entry.
LEMMA RemoveSeen ==
    ASSUME IndInv, IndInv', NEW k \in Key, Remove(k)
    PROVE  Map!Next
<1>1. pc = "ready" /\ UNCHANGED <<pc, loop>> /\ TableInv
  BY DEF Remove, IndInv
<1>2. Occupied(old) = {} /\ Occupied(old)' = {}
  BY <1>1 DEF IndInv
<1>3. ASSUME NEW s \in Slots(groups), FindHit(k, s), EraseSlot(k, s), ret' = slot[s].val
      PROVE  Map!Next
  <2>1. s \in Occupied(slot) /\ slot[s].key = k
    BY <1>1, <1>3, HitSlot
  <2>2. Occupied(slot)' = Occupied(slot) \ {s} /\ \A t \in Occupied(slot)' : slot'[t] = slot[t]
    BY <2>1, <1>1, <1>3, EraseSlotInv, ReadyLoad
  <2>3. Dict' = [Dict EXCEPT ![slot[s].key] = NONE]
    BY <2>1, <2>2, <1>2, DictLoses
  <2>4. Dict[k] = slot[s].val
    BY <2>1, DictHit
  <2> QED BY <2>1, <2>3, <2>4, <1>1, <1>3, MapRemove
<1>4. CASE FindMiss(k) /\ ret' = NONE /\ UNCHANGED table
  <2>1. Dict[k] = NONE
    BY <1>1, <1>4, MissSeen
  <2>2. Dict' = Dict
    BY <1>1, <1>4 DEF Dict, Entries, table, loop
  <2> QED BY <2>1, <2>2, <1>1, <1>4, MapGet
<1> QED BY <1>3, <1>4 DEF Remove

\* An empty array replaces the array.
LEMMA EmptiedSeen ==
    ASSUME IndInv, NEW m, pc = "ready", slot' = EmptySlots(m), UNCHANGED <<pc, loop, ret>>
    PROVE  Map!Next
<1>1. Occupied(slot') = {}
  BY DEF Occupied, EmptySlots
<1>2. Occupied(old)' = {} /\ pc' = "ready" /\ ret' = ret
  BY DEF IndInv, loop
<1>3. Dict' = [k \in Key |-> NONE]
  BY <1>1, <1>2, DictEmpty
<1> QED BY <1>2, <1>3, MapClear

\* reserve, shrink_to_fit, clear, drain, clone.
LEMMA CapacitySeen ==
    ASSUME IndInv, (\E n \in ReserveArgs : Reserve(n)) \/ ShrinkToFit \/ Clear \/ Drain \/ Clone
    PROVE  Map!Next \/ UNCHANGED Map!vars
<1>1. ASSUME NEW n \in ReserveArgs, Reserve(n) PROVE Map!Next \/ UNCHANGED Map!vars
  <2>1. pc = "ready"
    BY <1>1 DEF Reserve
  <2>2. PICK m \in GroupCounts :
          \/ Allocate(m, EmptySlots(m)) /\ UNCHANGED <<len, pc, loop, ret>>
          \/ Rehash(m, EMPTY)
    BY <1>1 DEF Reserve
  <2>3. CASE Allocate(m, EmptySlots(m)) /\ UNCHANGED <<len, pc, loop, ret>>
    BY <2>1, <2>3, EmptiedSeen DEF Allocate
  <2>4. CASE Rehash(m, EMPTY)
    BY <2>1, <2>4, RehashUnseen
  <2> QED BY <2>2, <2>3, <2>4
<1>2. CASE ShrinkToFit
  <2>1. pc = "ready"
    BY <1>2 DEF ShrinkToFit
  <2>2. CASE Reset /\ UNCHANGED <<pc, loop, ret>>
    BY <2>1, <2>2, EmptiedSeen DEF Reset
  <2>3. ASSUME NEW m, Rehash(m, EMPTY) PROVE UNCHANGED Map!vars
    BY <2>1, <2>3, RehashUnseen
  <2> QED BY <1>2, <2>2, <2>3 DEF ShrinkToFit
<1>3. CASE Clear
  BY <1>3, EmptiedSeen DEF Clear
<1>4. CASE Drain
  BY <1>4, EmptiedSeen DEF Drain, Reset
<1>5. CASE Clone
  <2>1. CASE Reset
    BY <1>5, <2>1, EmptiedSeen DEF Clone, Reset
  <2>2. CASE UNCHANGED table
    <3>1. Entries' = Entries /\ ret' = ret /\ pc' = pc
      BY <1>5, <2>2 DEF Clone, Entries, loop, table
    <3> QED BY <3>1, SameEntries
  <2> QED BY <1>5, <2>1, <2>2 DEF Clone
<1> QED BY <1>1, <1>2, <1>3, <1>4, <1>5

\* retain drops entries one at a time.
LEMMA RetainSeen ==
    ASSUME IndInv, IndInv', Retain \/ RetainStep \/ RetainDone
    PROVE  Map!Next \/ UNCHANGED Map!vars
<1>1. CASE Retain \/ RetainDone
  <2>1. Dict' = Dict /\ ret' = ret /\ (pc = "retain" <=> pc' # "retain")
    BY <1>1 DEF Retain, RetainDone, Dict, Entries, table, loop
  <2> QED BY <2>1, MapRetain
<1>2. CASE RetainStep
  <2>1. pc = "retain" /\ pc' = "retain" /\ UNCHANGED <<old, ret>> /\ TableInv
    BY <1>2 DEF RetainStep, IndInv
  <2>2. Occupied(old) = {} /\ Occupied(old)' = {}
    BY <2>1 DEF IndInv
  <2>3. PICK s \in todo : UNCHANGED table \/ EraseSlot(slot[s].key, s)
    BY <1>2 DEF RetainStep
  <2>4. CASE UNCHANGED table
    <3>1. Entries' = Entries
      BY <2>1, <2>4 DEF Entries, table
    <3> QED BY <2>1, <3>1, SameEntries
  <2>5. CASE EraseSlot(slot[s].key, s)
    <3>1. s \in Occupied(slot)
      BY DEF IndInv, TypeOK, RetainPositionsLive, TableInv, Occupied
    <3>2. Occupied(slot)' = Occupied(slot) \ {s} /\ \A t \in Occupied(slot)' : slot'[t] = slot[t]
      BY <3>1, <2>1, <2>5, EraseSlotInv, ReadyLoad
    <3>3. Dict' = [Dict EXCEPT ![slot[s].key] = NONE]
      BY <3>1, <3>2, <2>2, DictLoses
    <3>4. slot[s].key \in Key
      BY <3>1, EntriesOfInv DEF Entries
    <3> QED BY <3>3, <3>4, <2>1, MapDiscard
  <2> QED BY <2>3, <2>4, <2>5
<1> QED BY <1>1, <1>2

\* A moved entry is still there.
LEMMA RehashStepUnseen ==
    ASSUME IndInv, RehashStep
    PROVE  UNCHANGED Map!vars
<1>1. pc = "rehash" /\ UNCHANGED <<groups, max_load, ctrl, leaked, pc, pend, todo, ret>> /\ TableInv
  BY DEF RehashStep, IndInv
<1>2. PICK s \in Occupied(old) :
        /\ InsertNoCheck(old[s].key, old[s].val)
        /\ old' = [old EXCEPT ![s] = EMPTY]
  BY DEF RehashStep
<1>3. PICK n \in GroupCounts : old \in [Slots(n) -> Entry \cup {EMPTY}]
  BY DEF IndInv, TypeOK
<1>4. old[s] \in Entry /\ s \in Slots(n)
  BY <1>3 DEF Occupied
<1>5. PICK k \in Key, v \in Value :
        k = old[s].key /\ v = old[s].val /\ old[s] = [key |-> k, val |-> v]
  BY <1>4 DEF Entry
<1>6. Occupied(old)' = Occupied(old) \ {s} /\ \A t \in Occupied(old)' : old'[t] = old[t]
  BY <1>2, <1>3, <1>4 DEF Occupied
<1>7. \A t \in Occupied(slot) : slot[t].key # k
  BY <1>2, <1>5 DEF IndInv, UniqueKeys
<1>8. Gains(k, v)
  BY <1>1, <1>2, <1>5, <1>7, InsertNoCheckInv
<1>9. PICK t \in Slots(groups) :
        /\ Occupied(slot)' = Occupied(slot) \cup {t}
        /\ slot'[t] = [key |-> k, val |-> v]
        /\ \A u \in Occupied(slot) : slot'[u] = slot[u]
  BY <1>8 DEF Gains
<1>10. {slot'[u] : u \in Occupied(slot)'} = {slot[u] : u \in Occupied(slot)} \cup {old[s]}
  BY <1>5, <1>9
<1>11. {old'[u] : u \in Occupied(old)'} \cup {old[s]} = {old[u] : u \in Occupied(old)}
  BY <1>6
<1>12. Entries' = Entries
  BY <1>10, <1>11 DEF Entries
<1> QED BY <1>1, <1>12, SameEntries

\* The end of a rehash, and the insert that waited for it.
LEMMA RehashEndSeen ==
    ASSUME IndInv, IndInv', RehashDone
    PROVE  Map!Next \/ UNCHANGED Map!vars
<1>1. /\ pc = "rehash" /\ pc' = "ready" /\ Occupied(old) = {} /\ old' = EmptySlots(1)
      /\ TableInv /\ UNCHANGED <<groups, max_load, ctrl, leaked, todo>>
  BY DEF RehashDone, IndInv
<1>2. Occupied(old') = {}
  BY <1>1 DEF Occupied, EmptySlots
<1>3. CASE pend = EMPTY /\ UNCHANGED <<slot, ofw, len, ret>>
  <2>1. Entries' = Entries
    BY <1>1, <1>2, <1>3 DEF Entries
  <2> QED BY <1>1, <1>3, <2>1, SameEntries
<1>4. CASE pend # EMPTY /\ InsertNoCheck(pend.key, pend.val) /\ ret' = NONE
  <2>1. PICK k \in Key, v \in Value : k = pend.key /\ v = pend.val
    BY <1>4 DEF IndInv, TypeOK, Entry
  <2>2. \A s \in Occupied(slot) : slot[s].key # k
    BY <1>4, <2>1 DEF IndInv, UniqueKeys
  <2>3. Gains(k, v) /\ Absent(k)
    BY <1>1, <1>4, <2>1, <2>2, InsertNoCheckInv DEF Absent
  <2>4. Dict[k] = NONE
    BY <1>1, <2>3, DictMiss
  <2>5. Dict' = [Dict EXCEPT ![k] = v]
    BY <1>1, <1>2, <2>3, DictGains
  <2> QED BY <1>1, <1>4, <2>4, <2>5, MapInsert
<1> QED BY <1>3, <1>4 DEF RehashDone

\* Every step of the table is a step of the map, or invisible.
LEMMA StepSimulates == IndInv /\ IndInv' /\ [Next]_vars => [Map!Next]_(Map!vars)
<1> SUFFICES ASSUME IndInv, IndInv', [Next]_vars PROVE Map!Next \/ UNCHANGED Map!vars
  OBVIOUS
<1>1. ASSUME NEW k \in Key, Get(k) \/ Remove(k) PROVE Map!Next
  BY <1>1, GetSeen, RemoveSeen
<1>2. ASSUME NEW k \in Key, Lookup(k) PROVE UNCHANGED Map!vars
  <2>1. Entries' = Entries /\ ret' = ret /\ pc = "ready" /\ pc' = "spin"
    BY <1>2 DEF Lookup, Hang, table, loop, Entries
  <2> QED BY <2>1, SameEntries
<1>3. ASSUME NEW k \in Key, NEW v \in Value, Insert(k, v) \/ TryInsert(k, v) \/ RawInsert(k, v)
      PROVE  Map!Next \/ UNCHANGED Map!vars
  BY <1>3, InsertSeen, TryInsertSeen, RawInsertSeen
<1>4. CASE (\E n \in ReserveArgs : Reserve(n)) \/ ShrinkToFit \/ Clear \/ Drain \/ Clone
  BY <1>4, CapacitySeen
<1>5. CASE Retain \/ RetainStep \/ RetainDone
  BY <1>5, RetainSeen
<1>6. CASE RehashStep \/ RehashDone
  BY <1>6, RehashStepUnseen, RehashEndSeen
<1>7. CASE UNCHANGED vars
  <2>1. Entries' = Entries /\ ret' = ret /\ pc' = pc
    BY <1>7 DEF vars, table, loop, Entries
  <2> QED BY <2>1, SameEntries
<1> QED BY <1>1, <1>2, <1>3, <1>4, <1>5, <1>6, <1>7 DEF Next, Call, LoopStep, Spin

\* The overflow-bit table implements the map: a displaced key, a rehash, an
\* anti-drift decrement and a hung lookup never change what a client is told.
THEOREM RefinesMap == Spec => ImplementsMap
<1>1. Init => Map!Init
  <2> SUFFICES ASSUME Init PROVE Map!Init
    OBVIOUS
  <2>1. Entries = {}
    BY DEF Init, Entries, Occupied, EmptySlots
  <2>2. Dict = [k \in Key |-> NONE]
    BY <2>1 DEF Dict, DictOf
  <2> QED BY <2>2 DEF Init, Map!Init
<1> QED BY <1>1, IndInvHolds, StepSimulates, PTL DEF Spec, ImplementsMap, Map!Spec
=============================================================================
