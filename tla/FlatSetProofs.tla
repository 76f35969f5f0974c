--------------------------- MODULE FlatSetProofs ----------------------------
(***************************************************************************)
(* Proofs about FlatSet, for every set of elements, every hash function,   *)
(* group size and bound on the groups: the set is sound whenever a client  *)
(* can call it, after panics of the client's code too, and it is a set.    *)
(*                                                                         *)
(* A table is a value, so the lemmas about find, insert and erase are      *)
(* about any table that satisfies TableInv.                                *)
(***************************************************************************)
EXTENDS FlatSet, FiniteSetTheorems, WellFoundedInduction, TLAPS

(***************************************************************************)
(* Probing, slots and capacities                                           *)
(***************************************************************************)
\* A remainder is below its divisor.
LEMMA ModRange ==
    ASSUME NEW a \in Nat, NEW m \in Nat \ {0}
    PROVE  a % m \in 0 .. m - 1
OBVIOUS

\* The offset of every probe is a natural number.
LEMMA TriNat == \A p \in Nat : Tri(p) \in Nat
<1> TAKE p \in Nat
<1>1. p * (p + 1) \in Nat
  OBVIOUS
<1>2. \A x \in Nat : x \div 2 \in Nat
  OBVIOUS
<1> QED BY <1>1, <1>2 DEF Tri

\* group_index and every probe stay inside the table.
LEMMA GroupIndexRange ==
    ASSUME NEW k \in Key, NEW m \in GroupCounts
    PROVE  GroupIndex(k, m) \in 0 .. m - 1
<1>1. Hash[k] \in Nat /\ m \in Nat \ {0}
  BY HashAssumption, GroupCountsAssumption
<1>2. CASE IndexHigh
  <2> DEFINE w == HashSpace \div m
  <2>1. w \in Nat \ {0}
    <3>1. HashSpace \in Nat /\ m <= HashSpace
      BY RegionAssumption
    <3> QED BY <1>1, <3>1
  <2>2. Hash[k] \div w \in Nat
    <3> HIDE DEF w
    <3> QED BY <1>1, <2>1
  <2> QED BY <1>1, <1>2, <2>2, ModRange DEF GroupIndex
<1>3. CASE ~IndexHigh
  BY <1>1, <1>3, ModRange DEF GroupIndex
<1> QED BY <1>2, <1>3

\* gi = (gi + probe) & mask: every probe is a group of the table.
LEMMA ProbeRange ==
    ASSUME NEW k \in Key, NEW m \in GroupCounts, NEW p \in Nat
    PROVE  Probe(k, m, p) \in 0 .. m - 1
<1>1. m \in Nat \ {0}
  BY GroupCountsAssumption
<1>2. GroupIndex(k, m) + Tri(p) \in Nat
  BY <1>1, GroupIndexRange, TriNat
<1> QED BY <1>1, <1>2, ModRange DEF Probe

\* The first m probes of a key reach every group.
LEMMA ProbeReachesAll ==
    ASSUME NEW k \in Key, NEW m \in GroupCounts, NEW g \in 0 .. m - 1
    PROVE  \E p \in 0 .. m - 1 : Probe(k, m, p) = g
BY GroupIndexRange, ProbeCoversAssumption DEF Probe

\* A table has Capacity(m) slots.
LEMMA SlotsCount ==
    ASSUME NEW m \in GroupCounts
    PROVE  IsFiniteSet(Slots(m)) /\ Cardinality(Slots(m)) = Capacity(m)
<1>1. m \in Nat \ {0} /\ GroupSize \in Nat \ {0}
  BY GroupCountsAssumption, GroupSizeAssumption
<1>2. IsFiniteSet(0 .. m - 1) /\ Cardinality(0 .. m - 1) = m
  BY <1>1, FS_Interval
<1>3. IsFiniteSet(SlotIdx) /\ Cardinality(SlotIdx) = GroupSize
  BY <1>1, FS_Interval DEF SlotIdx
<1> QED BY <1>2, <1>3, FS_Product DEF Slots, Capacity

\* The load limit leaves a slot free and is at least one; doubling raises it;
\* groups_for_capacity(c) has a load limit of at least c.
LEMMA LoadLimits ==
    ASSUME NEW m \in GroupCounts
    PROVE  /\ MaxLoadFor(m) \in Nat
           /\ Capacity(m) \in Nat
           /\ MaxLoadFor(m) < Capacity(m)
           /\ 1 <= MaxLoadFor(m)
           /\ MaxLoadFor(m) + 1 <= MaxLoadFor(2 * m)
           /\ \A c \in Nat : GroupsFor(c, m) => c <= MaxLoadFor(m)
<1>1. m \in Nat \ {0} /\ GroupSize \in Nat /\ GroupSize >= 2
  BY GroupCountsAssumption, GroupSizeAssumption
<1> DEFINE c1 == Capacity(m)
<1>2. c1 \in Nat /\ c1 >= 2
  BY <1>1 DEF Capacity
<1>3. Capacity(2 * m) = 2 * c1
  BY <1>1 DEF Capacity
<1> HIDE DEF c1
<1>4. (c1 * 7) \div 8 \in Nat /\ (c1 * 7) \div 8 < c1 /\ 1 <= (c1 * 7) \div 8
  BY <1>2
<1>5. (c1 * 7) \div 8 + 1 <= (2 * c1 * 7) \div 8
  BY <1>2
<1>6. \A c \in Nat : c1 >= (c * 8 + 6) \div 7 => c <= (c1 * 7) \div 8
  BY <1>2
<1> QED BY <1>2, <1>3, <1>4, <1>5, <1>6 DEF MaxLoadFor, GroupsFor, MinSlots, c1

\* A slot is the pair of its coordinates.
LEMMA SlotPair ==
    ASSUME NEW m, NEW s \in Slots(m)
    PROVE  s = <<s[1], s[2]>> /\ s[1] \in 0 .. m - 1 /\ s[2] \in SlotIdx
BY DEF Slots

\* A group index and a slot index in range name a slot.
LEMMA SlotMake ==
    ASSUME NEW m, NEW g \in 0 .. m - 1, NEW j \in SlotIdx
    PROVE  <<g, j>> \in Slots(m) /\ <<g, j>>[1] = g /\ <<g, j>>[2] = j
BY DEF Slots

-----------------------------------------------------------------------------

\* The channel of an element is a number.
LEMMA ChannelNat == \A k \in Key : Channel(k) \in Nat
<1> TAKE k \in Key
<1>1. Hash[k] \in Nat /\ NumChannels \in Nat \ {0}
  BY HashAssumption, FlatSetAssumption
<1> QED BY <1>1, ModRange DEF Channel

\* A set of natural numbers that is not empty has a smallest element: Min.
LEMMA MinOfNats ==
    ASSUME NEW S \in SUBSET Nat, S # {}
    PROVE  Min(S) \in S /\ \A y \in S : Min(S) <= y
<1>1. PICK x \in S : \A y \in S : ~(<<y, x>> \in OpToRel(<, Nat))
  BY NatLessThanWellFounded, WFMin, Zenon
<1>2. ASSUME NEW y \in S PROVE x <= y
  <2>1. x \in Nat /\ y \in Nat
    OBVIOUS
  <2>2. ~(<<y, x>> \in OpToRel(<, Nat))
    BY <1>1
  <2>3. ~(y < x)
    BY <2>1, <2>2 DEF OpToRel
  <2> QED BY <2>1, <2>3
<1>3. \E z \in S : \A y \in S : z <= y
  BY <1>2
<1> QED BY <1>3 DEF Min

-----------------------------------------------------------------------------
(***************************************************************************)
(* Arrays of elements                                                      *)
(***************************************************************************)
Arrays(m) == [Slots(m) -> Key \cup {EMPTY}]

\* The occupied slots are a finite set.
LEMMA OccupiedFinite ==
    ASSUME NEW m \in GroupCounts, NEW f \in Arrays(m)
    PROVE  /\ IsFiniteSet(Occupied(f)) /\ Cardinality(Occupied(f)) \in Nat
           /\ Occupied(f) \subseteq Slots(m)
           /\ \A s \in Occupied(f) : f[s] \in Key
           /\ EMPTY \notin Elements(f) /\ Elements(f) \subseteq Key
<1>1. Occupied(f) \in SUBSET Slots(m) /\ \A s \in Occupied(f) : f[s] \in Key
  BY DEF Occupied, Arrays
<1>2. EMPTY \notin Elements(f) /\ Elements(f) \subseteq Key
  BY <1>1 DEF Elements, Occupied
<1> QED BY <1>1, <1>2, SlotsCount, FS_Subset, FS_CardinalityType

\* An element is written into a free slot.
LEMMA WriteElement ==
    ASSUME NEW m \in GroupCounts, NEW f \in Arrays(m), NEW k \in Key,
           NEW s \in Slots(m), f[s] = EMPTY, Once(f), k \notin Elements(f)
    PROVE  /\ [f EXCEPT ![s] = k] \in Arrays(m)
           /\ Once([f EXCEPT ![s] = k])
           /\ Occupied([f EXCEPT ![s] = k]) = Occupied(f) \cup {s}
           /\ s \notin Occupied(f)
           /\ Elements([f EXCEPT ![s] = k]) = Elements(f) \cup {k}
           /\ Cardinality(Occupied([f EXCEPT ![s] = k])) = Cardinality(Occupied(f)) + 1
<1>1. PICK h : h = [f EXCEPT ![s] = k]
  OBVIOUS
<1>2. /\ h \in Arrays(m) /\ h[s] = k
      /\ \A t \in Slots(m) : t # s => h[t] = f[t]
      /\ DOMAIN h = Slots(m) /\ DOMAIN f = Slots(m)
  BY <1>1 DEF Arrays
<1>3. k # EMPTY
  BY FlatSetAssumption
<1>4. Occupied(h) = Occupied(f) \cup {s} /\ s \notin Occupied(f)
  BY <1>2, <1>3 DEF Occupied
<1>5. \A t \in Occupied(f) : h[t] = f[t] /\ t # s
  BY <1>2, <1>4 DEF Occupied
<1>6. Elements(h) = Elements(f) \cup {k}
  BY <1>2, <1>4, <1>5 DEF Elements
<1>7. Once(h)
  <2> SUFFICES ASSUME NEW t \in Occupied(h), NEW u \in Occupied(h), h[t] = h[u]
               PROVE  t = u
    BY DEF Once
  <2>1. \A v \in Occupied(f) : h[v] # k
    BY <1>5 DEF Elements
  <2>2. CASE t = s
    BY <2>1, <2>2, <1>2, <1>4
  <2>3. CASE u = s
    BY <2>1, <2>3, <1>2, <1>4
  <2>4. CASE t # s /\ u # s
    BY <2>4, <1>4, <1>5 DEF Once
  <2> QED BY <2>2, <2>3, <2>4
<1>8. Cardinality(Occupied(h)) = Cardinality(Occupied(f)) + 1
  BY <1>4, OccupiedFinite, FS_AddElement
<1> QED BY <1>1, <1>2, <1>4, <1>6, <1>7, <1>8

\* An array with slot s empty.
Freed(f, s) == [f EXCEPT ![s] = EMPTY]

\* An element is taken out of its slot.
LEMMA FreeElement ==
    ASSUME NEW m \in GroupCounts, NEW f \in Arrays(m), NEW s \in Occupied(f), Once(f)
    PROVE  /\ Freed(f, s) \in Arrays(m)
           /\ Once(Freed(f, s))
           /\ Occupied(Freed(f, s)) = Occupied(f) \ {s}
           /\ Elements(Freed(f, s)) = Elements(f) \ {f[s]}
           /\ Cardinality(Occupied(Freed(f, s))) = Cardinality(Occupied(f)) - 1
<1>1. PICK h : h = Freed(f, s)
  OBVIOUS
<1>2. /\ h \in Arrays(m) /\ h[s] = EMPTY
      /\ \A t \in Slots(m) : t # s => h[t] = f[t]
      /\ DOMAIN h = Slots(m) /\ DOMAIN f = Slots(m)
  BY <1>1 DEF Freed, Arrays, Occupied
<1>3. Occupied(h) = Occupied(f) \ {s}
  BY <1>2 DEF Occupied
<1>4. \A t \in Occupied(h) : h[t] = f[t] /\ t \in Occupied(f) /\ t # s
  BY <1>2, <1>3 DEF Occupied
<1>5. Elements(h) = Elements(f) \ {f[s]}
  BY <1>3, <1>4 DEF Elements, Once
<1>6. Once(h)
  BY <1>4 DEF Once
<1>7. Cardinality(Occupied(h)) = Cardinality(Occupied(f)) - 1
  BY <1>3, OccupiedFinite, FS_RemoveElement
<1> QED BY <1>1, <1>2, <1>3, <1>5, <1>6, <1>7

-----------------------------------------------------------------------------
(***************************************************************************)
(* Lookups                                                                 *)
(***************************************************************************)
\* The parts of a table.
LEMMA TableTyped ==
    ASSUME NEW t, TableInv(t)
    PROVE  /\ t.groups \in GroupCounts /\ t.groups \in Nat \ {0}
           /\ t.slot \in Arrays(t.groups) /\ DOMAIN t.slot = Slots(t.groups)
           /\ t.len \in Nat /\ t.max_load \in Nat
BY GroupCountsAssumption, OccupiedFinite DEF TableInv, Arrays

\* Every element is found, at its slot.
LEMMA StoredIsFound ==
    ASSUME NEW t, TableInv(t), NEW s \in Occupied(t.slot)
    PROVE  Finds(t, t.slot[s], s)
<1>1. PICK k : k = t.slot[s]
  OBVIOUS
<1>2. PICK p \in 0..t.groups - 1 :
        /\ Probe(k, t.groups, p) = s[1]
        /\ \A q \in 0..p - 1 :
             /\ Channel(k) \in t.ofw[Probe(k, t.groups, q)]
             /\ Probe(k, t.groups, q) # s[1]
  BY <1>1 DEF TableInv, PathMarked
<1>3. k \in Key /\ k # EMPTY
  BY <1>1, TableTyped, OccupiedFinite, FlatSetAssumption
<1>4. ASSUME NEW g, g # s[1], InGroup(t, k, g), g \in 0..t.groups - 1
      PROVE  FALSE
  <2>1. PICK j \in SlotIdx : t.slot[<<g, j>>] = k
    BY <1>4 DEF InGroup
  <2>2. <<g, j>> \in Slots(t.groups) /\ <<g, j>>[1] = g
    BY <1>4, SlotMake
  <2>3. <<g, j>> \in Occupied(t.slot)
    BY <2>1, <2>2, <1>3, TableTyped DEF Occupied
  <2>4. <<g, j>> = s
    BY <2>1, <2>3, <1>1 DEF TableInv, Once
  <2> QED BY <2>2, <2>4, <1>4
<1>5. Reaches(t, k, p)
  <2> SUFFICES ASSUME NEW q \in 0..p - 1
               PROVE  /\ Channel(k) \in t.ofw[Probe(k, t.groups, q)]
                      /\ ~InGroup(t, k, Probe(k, t.groups, q))
    BY DEF Reaches
  <2>1. Probe(k, t.groups, q) \in 0..t.groups - 1
    BY <1>3, TableTyped, ProbeRange
  <2> QED BY <2>1, <1>2, <1>4
<1> QED BY <1>1, <1>2, <1>5 DEF Finds

\* contains answers as it should.
LEMMA FoundIsStored ==
    ASSUME NEW t, TableInv(t), NEW k \in Key
    PROVE  Found(t, k) <=> k \in Elements(t.slot)
<1>1. ASSUME Found(t, k) PROVE k \in Elements(t.slot)
  <2>1. PICK s \in DOMAIN t.slot : t.slot[s] = k
    BY <1>1 DEF Found, Finds
  <2> QED BY <2>1, FlatSetAssumption DEF Elements, Occupied
<1>2. ASSUME k \in Elements(t.slot) PROVE Found(t, k)
  <2>1. PICK s \in Occupied(t.slot) : k = t.slot[s]
    BY <1>2 DEF Elements
  <2>2. Finds(t, k, s)
    BY <2>1, StoredIsFound
  <2> QED BY <2>2 DEF Found, Occupied
<1> QED BY <1>1, <1>2

\* A table in which all is in order is sound.
LEMMA InvIsSound ==
    ASSUME NEW t, TableInv(t), t.len <= t.max_load
    PROVE  Sound(t)
<1>1. t.len <= MaxLoadFor(t.groups)
  <2>1. t.len \in Nat /\ t.max_load \in Nat /\ MaxLoadFor(t.groups) \in Nat
        /\ t.max_load <= MaxLoadFor(t.groups)
    BY TableTyped, LoadLimits DEF TableInv
  <2> QED BY <2>1
<1> QED BY <1>1, StoredIsFound DEF TableInv, Once, Sound

\* A table that counts as unallocated is empty.
LEMMA UnallocatedEmpty ==
    ASSUME NEW t, TableInv(t), t.len <= t.max_load, ~is_allocated(t)
    PROVE  t.len = 0 /\ Occupied(t.slot) = {} /\ Elements(t.slot) = {}
<1>1. t.len = 0
  BY TableTyped DEF is_allocated
<1>2. Occupied(t.slot) = {}
  BY <1>1, TableTyped, OccupiedFinite, FS_EmptySet DEF TableInv
<1> QED BY <1>1, <1>2 DEF Elements

-----------------------------------------------------------------------------
(***************************************************************************)
(* Allocating, inserting and erasing                                       *)
(***************************************************************************)
\* A zeroed array.
LEMMA AllocatedInv ==
    ASSUME NEW m \in GroupCounts
    PROVE  /\ TableInv(Allocated(m)) /\ Allocated(m).len = 0
           /\ Allocated(m).groups = m /\ Allocated(m).max_load = MaxLoadFor(m)
           /\ Occupied(Allocated(m).slot) = {} /\ Elements(Allocated(m).slot) = {}
<1>1. PICK t : t = Allocated(m)
  OBVIOUS
<1>2. /\ t = [groups |-> t.groups, slot |-> t.slot, ofw |-> t.ofw,
              len |-> t.len, max_load |-> t.max_load]
      /\ t.groups = m /\ t.slot = [s \in Slots(m) |-> EMPTY]
      /\ t.ofw = [g \in 0..m - 1 |-> {}] /\ t.len = 0 /\ t.max_load = MaxLoadFor(m)
  BY <1>1 DEF Allocated
<1>3. Occupied(t.slot) = {}
  BY <1>2 DEF Occupied
<1>4. t.slot \in [Slots(m) -> Key \cup {EMPTY}] /\ t.ofw \in [0..m - 1 -> SUBSET Nat]
  BY <1>2
<1>5. MaxLoadFor(m) \in Nat
  BY LoadLimits
<1>6. TableInv(t)
  BY <1>2, <1>3, <1>4, <1>5, FS_EmptySet DEF TableInv, Once, PathMarked
<1> QED BY <1>1, <1>2, <1>3, <1>6 DEF Elements

\* RawTable::new.
LEMMA NewInv ==
    /\ TableInv(New) /\ New.len = 0 /\ New.max_load = 0
    /\ Occupied(New.slot) = {} /\ Elements(New.slot) = {} /\ Array(New.slot)
<1>1. 1 \in GroupCounts
  BY GroupCountsAssumption
<1>2. PICK a : a = Allocated(1)
  OBVIOUS
<1>3. /\ TableInv(a) /\ a.len = 0 /\ Occupied(a.slot) = {} /\ Elements(a.slot) = {}
      /\ a.groups = 1
  BY <1>1, <1>2, AllocatedInv
<1>4. PICK t : t = New
  OBVIOUS
<1>5. t = [groups |-> a.groups, slot |-> a.slot, ofw |-> a.ofw, len |-> a.len, max_load |-> 0]
  <2>1. a = [groups |-> a.groups, slot |-> a.slot, ofw |-> a.ofw, len |-> a.len,
             max_load |-> a.max_load]
    BY <1>3 DEF TableInv
  <2>2. t = [a EXCEPT !.max_load = 0]
    BY <1>2, <1>4 DEF New
  <2> QED BY <2>1, <2>2
<1>6. t.groups = a.groups /\ t.slot = a.slot /\ t.ofw = a.ofw /\ t.len = a.len /\ t.max_load = 0
  BY <1>5
<1>7. TableInv(t)
  <2>1. 0 <= MaxLoadFor(t.groups)
    BY <1>1, <1>3, <1>6, LoadLimits
  <2>2. PathMarked(t)
    BY <1>3, <1>6 DEF PathMarked
  <2> QED BY <1>3, <1>5, <1>6, <2>1, <2>2 DEF TableInv
<1>8. Array(t.slot)
  BY <1>1, <1>3, <1>6, <1>7 DEF Array, TableInv
<1> QED BY <1>3, <1>4, <1>6, <1>7, <1>8

\* Below its capacity a table has a group with room on every path.
LEMMA RoomExists ==
    ASSUME NEW t, TableInv(t), NEW k \in Key, t.len < Capacity(t.groups)
    PROVE  \E p \in 0..t.groups - 1 : HasRoom(t, Probe(k, t.groups, p))
<1> SUFFICES ASSUME \A p \in 0..t.groups - 1 : ~HasRoom(t, Probe(k, t.groups, p))
             PROVE  FALSE
  OBVIOUS
<1>1. t.groups \in GroupCounts /\ DOMAIN t.slot = Slots(t.groups) /\ t.len \in Nat
  BY TableTyped
<1>2. ASSUME NEW s \in Slots(t.groups) PROVE t.slot[s] # EMPTY
  <2>1. s = <<s[1], s[2]>> /\ s[1] \in 0..t.groups - 1 /\ s[2] \in SlotIdx
    BY SlotPair
  <2>2. PICK p \in 0..t.groups - 1 : Probe(k, t.groups, p) = s[1]
    BY <1>1, <2>1, ProbeReachesAll
  <2>3. ~HasRoom(t, s[1])
    BY <2>2
  <2> QED BY <2>1, <2>3 DEF HasRoom, InGroup
<1>3. Occupied(t.slot) = Slots(t.groups)
  BY <1>1, <1>2 DEF Occupied
<1>4. t.len = Capacity(t.groups)
  BY <1>1, <1>3, SlotsCount DEF TableInv
<1> QED BY <1>1, <1>4, LoadLimits

\* k goes to slot j of probe p, which is free, and the groups before are full.
PutAt(t, k, p, j) ==
    /\ p \in 0..t.groups - 1 /\ j \in SlotIdx
    /\ t.slot[<<Probe(k, t.groups, p), j>>] = EMPTY
    /\ \A q \in 0..p - 1 : ~HasRoom(t, Probe(k, t.groups, q))
    /\ Put(t, k).slot = [t.slot EXCEPT ![<<Probe(k, t.groups, p), j>>] = k]
    /\ Put(t, k).ofw = [h \in 0..t.groups - 1 |->
                          IF \E q \in 0..p - 1 : Probe(k, t.groups, q) = h
                          THEN t.ofw[h] \cup {Channel(k)} ELSE t.ofw[h]]
    /\ Put(t, k).groups = t.groups /\ Put(t, k).len = t.len + 1
    /\ Put(t, k).max_load = t.max_load
    /\ Put(t, k) = [groups |-> Put(t, k).groups, slot |-> Put(t, k).slot,
                    ofw |-> Put(t, k).ofw, len |-> Put(t, k).len,
                    max_load |-> Put(t, k).max_load]

\* insert_no_check finds such a slot.
LEMMA PutIs ==
    ASSUME NEW t, TableInv(t), NEW k \in Key, t.len < Capacity(t.groups)
    PROVE  \E p, j : PutAt(t, k, p, j)
<1> DEFINE P == {q \in 0..t.groups - 1 : HasRoom(t, Probe(k, t.groups, q))}
           p == Min(P)
           g == Probe(k, t.groups, p)
           J == {i \in SlotIdx : t.slot[<<g, i>>] = EMPTY}
           j == Min(J)
           full == {Probe(k, t.groups, q) : q \in 0..p - 1}
<1>1. t.groups \in Nat /\ t.ofw \in [0..t.groups - 1 -> SUBSET Nat]
  BY TableTyped DEF TableInv
<1>2. P \in SUBSET Nat /\ P # {}
  BY <1>1, RoomExists
<1>3. p \in P /\ \A y \in P : p <= y
  <2> HIDE DEF P
  <2> QED BY <1>2, MinOfNats
<1>4. p \in 0..t.groups - 1 /\ HasRoom(t, g)
  BY <1>3
<1>5. ASSUME NEW q \in 0..p - 1 PROVE ~HasRoom(t, Probe(k, t.groups, q))
  <2> HIDE DEF p
  <2>1. q \in 0..t.groups - 1 /\ ~(p <= q)
    BY <1>1, <1>4
  <2> QED BY <2>1, <1>3
<1>6. J \in SUBSET Nat /\ J # {}
  <2> HIDE DEF p, g
  <2>1. \E i \in SlotIdx : t.slot[<<g, i>>] = EMPTY
    BY <1>4 DEF HasRoom, InGroup
  <2>2. SlotIdx \subseteq Nat
    BY GroupSizeAssumption DEF SlotIdx
  <2> QED BY <2>1, <2>2
<1>7. j \in J
  <2> HIDE DEF J
  <2> QED BY <1>6, MinOfNats
<1>8. j \in SlotIdx /\ t.slot[<<g, j>>] = EMPTY
  BY <1>7
<1>9. Put(t, k) = [t EXCEPT !.slot[<<g, j>>] = k, !.len = @ + 1,
                     !.ofw = [h \in DOMAIN @ |-> IF h \in full THEN @[h] \cup {Channel(k)}
                                                             ELSE @[h]]]
  BY DEF Put
<1> HIDE DEF P, p, J, j, g
<1>10. PICK a : a = [t.slot EXCEPT ![<<g, j>>] = k]
  OBVIOUS
<1>11. PICK b : b = [h \in DOMAIN t.ofw |-> IF h \in full THEN t.ofw[h] \cup {Channel(k)}
                                                        ELSE t.ofw[h]]
  OBVIOUS
<1>12. b = [h \in 0..t.groups - 1 |->
              IF \E q \in 0..p - 1 : Probe(k, t.groups, q) = h
              THEN t.ofw[h] \cup {Channel(k)} ELSE t.ofw[h]]
  BY <1>1, <1>11
<1>13. t = [groups |-> t.groups, slot |-> t.slot, ofw |-> t.ofw,
            len |-> t.len, max_load |-> t.max_load]
  BY DEF TableInv
<1>14. Put(t, k) = [groups |-> t.groups, slot |-> a, ofw |-> b,
                    len |-> t.len + 1, max_load |-> t.max_load]
  BY <1>9, <1>10, <1>11, <1>13
<1>15. /\ Put(t, k).groups = t.groups /\ Put(t, k).slot = a /\ Put(t, k).ofw = b
       /\ Put(t, k).len = t.len + 1 /\ Put(t, k).max_load = t.max_load
       /\ Put(t, k) = [groups |-> Put(t, k).groups, slot |-> Put(t, k).slot,
                       ofw |-> Put(t, k).ofw, len |-> Put(t, k).len,
                       max_load |-> Put(t, k).max_load]
  BY <1>14
<1>16. PutAt(t, k, p, j)
  BY <1>4, <1>5, <1>8, <1>10, <1>12, <1>15 DEF PutAt, g
<1> QED BY <1>16

\* insert_no_check of a new element keeps the table in order: the groups it
\* passed are full and it marks each of them.
LEMMA PutInv ==
    ASSUME NEW t, TableInv(t), NEW k \in Key, k \notin Elements(t.slot),
           t.len < Capacity(t.groups)
    PROVE  /\ TableInv(Put(t, k))
           /\ Put(t, k).len = t.len + 1
           /\ Put(t, k).max_load = t.max_load
           /\ Elements(Put(t, k).slot) = Elements(t.slot) \cup {k}
<1>1. PICK p, j : PutAt(t, k, p, j)
  BY PutIs
<1>2. PICK u : u = Put(t, k)
  OBVIOUS
<1>3. PICK m : m = t.groups
  OBVIOUS
<1>4. PICK g : g = Probe(k, m, p)
  OBVIOUS
<1>5. m \in GroupCounts /\ m \in Nat \ {0} /\ t.slot \in Arrays(m) /\ t.len \in Nat
      /\ DOMAIN t.slot = Slots(m)
  BY <1>3, TableTyped
<1>6. p \in 0..m - 1 /\ j \in SlotIdx /\ p \in Nat
  BY <1>1, <1>3, <1>5 DEF PutAt
<1>7. g \in 0..m - 1
  BY <1>4, <1>5, <1>6, ProbeRange
<1>8. PICK s : s = <<g, j>>
  OBVIOUS
<1>9. s \in Slots(m) /\ s[1] = g
  BY <1>6, <1>7, <1>8, SlotMake
<1>10. t.slot[s] = EMPTY /\ u.slot = [t.slot EXCEPT ![s] = k]
  BY <1>1, <1>2, <1>3, <1>4, <1>8 DEF PutAt
<1>11. HasRoom(t, g)
  BY <1>6, <1>8, <1>10 DEF HasRoom, InGroup
<1>12. \A q \in 0..p - 1 : ~HasRoom(t, Probe(k, m, q))
  BY <1>1, <1>3 DEF PutAt
<1>13. u.ofw = [h \in 0..m - 1 |-> IF \E q \in 0..p - 1 : Probe(k, m, q) = h
                                   THEN t.ofw[h] \cup {Channel(k)} ELSE t.ofw[h]]
  BY <1>1, <1>2, <1>3 DEF PutAt
<1>14. /\ u.groups = m /\ u.len = t.len + 1 /\ u.max_load = t.max_load
       /\ u = [groups |-> u.groups, slot |-> u.slot, ofw |-> u.ofw,
               len |-> u.len, max_load |-> u.max_load]
  BY <1>1, <1>2, <1>3 DEF PutAt
<1>15. Once(t.slot) /\ t.len = Cardinality(Occupied(t.slot))
       /\ t.ofw \in [0..m - 1 -> SUBSET Nat] /\ PathMarked(t)
  BY <1>3 DEF TableInv
<1>16. /\ u.slot \in Arrays(m) /\ Once(u.slot) /\ Occupied(u.slot) = Occupied(t.slot) \cup {s}
       /\ s \notin Occupied(t.slot)
       /\ Elements(u.slot) = Elements(t.slot) \cup {k}
       /\ Cardinality(Occupied(u.slot)) = t.len + 1
  BY <1>5, <1>9, <1>10, <1>15, WriteElement
<1>17. u.ofw \in [0..m - 1 -> SUBSET Nat] /\ \A h \in 0..m - 1 : t.ofw[h] \subseteq u.ofw[h]
  <2>1. PICK D : D = 0..m - 1
    OBVIOUS
  <2>2. PICK M : M = {h \in D : \E q \in 0..p - 1 : Probe(k, m, q) = h}
    OBVIOUS
  <2>3. u.ofw = [h \in D |-> IF h \in M THEN t.ofw[h] \cup {Channel(k)} ELSE t.ofw[h]]
    BY <1>13, <2>1, <2>2
  <2>4. Channel(k) \in Nat /\ t.ofw \in [D -> SUBSET Nat]
    BY <1>15, <2>1, ChannelNat
  <2>5. u.ofw \in [D -> SUBSET Nat] /\ \A h \in D : t.ofw[h] \subseteq u.ofw[h]
    BY <2>3, <2>4
  <2> QED BY <2>1, <2>5
<1>18. \A q \in 0..p - 1 : Channel(k) \in u.ofw[Probe(k, m, q)] /\ Probe(k, m, q) # g
  <2> TAKE q \in 0..p - 1
  <2>1. Probe(k, m, q) \in 0..m - 1
    BY <1>5, <1>6, ProbeRange
  <2>2. Channel(k) \in u.ofw[Probe(k, m, q)]
    BY <1>13, <2>1
  <2>3. Probe(k, m, q) # g
    BY <1>11, <1>12
  <2> QED BY <2>2, <2>3
<1>19. u.slot[s] = k /\ \A v \in Occupied(t.slot) : u.slot[v] = t.slot[v]
  <2>1. \A v \in Slots(m) : v # s => u.slot[v] = t.slot[v]
    BY <1>5, <1>9, <1>10 DEF Arrays
  <2>2. \A v \in Occupied(t.slot) : v \in Slots(m) /\ v # s
    BY <1>5, <1>16, OccupiedFinite
  <2>3. u.slot[s] = k
    BY <1>5, <1>9, <1>10 DEF Arrays
  <2> QED BY <2>1, <2>2, <2>3
<1>20. PathMarked(u)
  <2> SUFFICES ASSUME NEW v \in Occupied(u.slot)
               PROVE  \E a \in 0..m - 1 :
                        /\ Probe(u.slot[v], m, a) = v[1]
                        /\ \A q \in 0..a - 1 :
                             /\ Channel(u.slot[v]) \in u.ofw[Probe(u.slot[v], m, q)]
                             /\ Probe(u.slot[v], m, q) # v[1]
    BY <1>14 DEF PathMarked
  <2>1. CASE v = s
    BY <2>1, <1>4, <1>6, <1>9, <1>18, <1>19
  <2>2. CASE v \in Occupied(t.slot)
    <3>1. PICK x : x = t.slot[v]
      OBVIOUS
    <3>2. u.slot[v] = x /\ x \in Key
      BY <2>2, <3>1, <1>5, <1>19, OccupiedFinite
    <3>3. PICK a \in 0..m - 1 :
            /\ Probe(x, m, a) = v[1]
            /\ \A q \in 0..a - 1 : Channel(x) \in t.ofw[Probe(x, m, q)] /\ Probe(x, m, q) # v[1]
      BY <2>2, <3>1, <1>3, <1>15 DEF PathMarked
    <3>4. \A q \in 0..a - 1 : Probe(x, m, q) \in 0..m - 1
      BY <3>2, <1>5, ProbeRange
    <3>5. \A q \in 0..a - 1 : Channel(x) \in u.ofw[Probe(x, m, q)]
      BY <3>3, <3>4, <1>17
    <3> QED BY <3>2, <3>3, <3>5
  <2> QED BY <1>16, <2>1, <2>2
<1>21. t.max_load \in Nat /\ t.max_load <= MaxLoadFor(m)
  BY <1>3 DEF TableInv
<1>22. TableInv(u)
  BY <1>5, <1>14, <1>16, <1>17, <1>20, <1>21 DEF TableInv, Arrays
<1> QED BY <1>2, <1>14, <1>16, <1>22

\* Erasing an element keeps the table in order, whether or not its removal
\* lowers the limit.
LEMMA EraseInv ==
    ASSUME NEW t, TableInv(t), NEW s \in Occupied(t.slot), NEW k, k = t.slot[s],
           t.len <= t.max_load
    PROVE  /\ TableInv(Erase(t, k, s))
           /\ Erase(t, k, s).len <= Erase(t, k, s).max_load
           /\ Occupied(Erase(t, k, s).slot) = Occupied(t.slot) \ {s}
           /\ Elements(Erase(t, k, s).slot) = Elements(t.slot) \ {k}
<1>1. PICK u : u = Erase(t, k, s)
  OBVIOUS
<1>2. PICK m : m = t.groups
  OBVIOUS
<1>3. m \in GroupCounts /\ t.slot \in Arrays(m) /\ t.len \in Nat /\ t.max_load \in Nat
  BY <1>2, TableTyped
<1>4. PICK a : a = Freed(t.slot, s)
  OBVIOUS
<1>5. PICK l : l = IF Channel(k) \in t.ofw[GroupIndex(k, t.groups)] /\ t.max_load > 0
                   THEN t.max_load - 1 ELSE t.max_load
  OBVIOUS
<1>6. t = [groups |-> t.groups, slot |-> t.slot, ofw |-> t.ofw,
           len |-> t.len, max_load |-> t.max_load]
  BY DEF TableInv
<1>7. u = [groups |-> m, slot |-> a, ofw |-> t.ofw, len |-> t.len - 1, max_load |-> l]
  BY <1>1, <1>2, <1>4, <1>5, <1>6 DEF Erase, Freed
<1>8. u.groups = m /\ u.slot = a /\ u.ofw = t.ofw /\ u.len = t.len - 1 /\ u.max_load = l
  BY <1>7
<1>9. Once(t.slot) /\ t.len = Cardinality(Occupied(t.slot))
       /\ t.ofw \in [0..m - 1 -> SUBSET Nat] /\ PathMarked(t) /\ t.max_load <= MaxLoadFor(m)
  BY <1>2 DEF TableInv
<1>10. /\ a \in Arrays(m) /\ Once(a) /\ Occupied(a) = Occupied(t.slot) \ {s}
       /\ Elements(a) = Elements(t.slot) \ {k}
       /\ Cardinality(Occupied(a)) = t.len - 1
  BY <1>3, <1>4, <1>9, FreeElement
<1>11. t.len - 1 \in Nat
  BY <1>3, <1>10, OccupiedFinite
<1>12. l \in Nat /\ l <= MaxLoadFor(m) /\ t.len - 1 <= l
  <2>1. MaxLoadFor(m) \in Nat
    BY <1>3, LoadLimits
  <2>2. l = t.max_load \/ (l = t.max_load - 1 /\ t.max_load > 0)
    BY <1>5
  <2> QED BY <1>3, <1>9, <1>11, <2>1, <2>2
<1>13. \A v \in Occupied(a) : v \in Occupied(t.slot) /\ a[v] = t.slot[v]
  BY <1>3, <1>4, <1>10 DEF Freed, Occupied, Arrays
<1>14. PathMarked(u)
  BY <1>2, <1>8, <1>9, <1>13 DEF PathMarked
<1>15. TableInv(u)
  BY <1>3, <1>7, <1>8, <1>9, <1>10, <1>12, <1>14 DEF TableInv, Arrays
<1> QED BY <1>1, <1>8, <1>10, <1>12, <1>15

-----------------------------------------------------------------------------
(***************************************************************************)
(* Every operation preserves the invariant                                 *)
(***************************************************************************)
\* What holds when no rehash runs.
LEMMA NoRehash ==
    ASSUME IndInv, pc # "rehash"
    PROVE  /\ TableInv(tab) /\ tab.len <= tab.max_load
           /\ Occupied(old) = {} /\ Elements(old) = {} /\ pend = EMPTY
<1>1. Occupied(old) = {} /\ pend = EMPTY /\ TableInv(tab)
      /\ tab.len + Cardinality(Occupied(old)) + Waiting <= tab.max_load
  BY DEF IndInv
<1>2. Cardinality(Occupied(old)) = 0 /\ Waiting = 0
  BY <1>1, FS_EmptySet DEF Waiting
<1>3. tab.len \in Nat /\ tab.max_load \in Nat
  BY <1>1, TableTyped
<1>4. tab.len <= tab.max_load
  BY <1>1, <1>2, <1>3
<1> QED BY <1>1, <1>4 DEF Elements

\* What a step outside a rehash has to establish.
LEMMA OutsideRehash ==
    ASSUME IndInv, pc # "rehash", pc' \in {"ready", "retain", "drain", "spin"},
           NEW t, tab' = t, TableInv(t), t.len <= t.max_load,
           old' = old, pend' = pend,
           todo' \subseteq Occupied(t.slot), pc' # "retain" => todo' = {},
           pc' = "retain" => ret' = NONE,
           Array(iter'.slot), iter'.len = Cardinality(Occupied(iter'.slot))
    PROVE  IndInv'
<1>1. Occupied(old) = {} /\ Elements(old) = {} /\ pend = EMPTY
  BY NoRehash
<1>2. t.len \in Nat /\ t.max_load \in Nat /\ EMPTY \notin Elements(t.slot)
  BY TableTyped, OccupiedFinite
<1>3. Cardinality(Occupied(old)) = 0 /\ Waiting' = 0
  BY <1>1, FS_EmptySet DEF Waiting
<1>4. tab'.len + Cardinality(Occupied(old')) + Waiting' <= tab'.max_load
  BY <1>2, <1>3
<1>5. Array(old')
  BY DEF IndInv
<1> QED BY <1>1, <1>2, <1>4, <1>5 DEF IndInv

\* A call that leaves the set ready, with a table in order.
LEMMA ReadyInv ==
    ASSUME IndInv, pc = "ready", NEW t, tab' = t, TableInv(t), t.len <= t.max_load,
           iter' = iter, Quiet
    PROVE  IndInv'
<1>1. pc' = "ready" /\ old' = old /\ pend' = pend /\ todo' = {}
  BY DEF Quiet, IndInv
<1>2. Array(iter'.slot) /\ iter'.len = Cardinality(Occupied(iter'.slot))
  BY DEF IndInv
<1> QED BY <1>1, <1>2, OutsideRehash

\* A rehash begins: the elements move to `old`, and with the one that waits
\* they fit under the new limit.
LEMMA RehashInv ==
    ASSUME IndInv, pc = "ready", NEW m \in GroupCounts, NEW k \in Key \cup {EMPTY},
           k \notin Elements(tab.slot), is_allocated(tab),
           tab.len + (IF k = EMPTY THEN 0 ELSE 1) <= MaxLoadFor(m), Rehash(m, k)
    PROVE  IndInv'
<1>1. /\ tab' = Allocated(m) /\ old' = tab.slot /\ pend' = k /\ pc' = "rehash"
      /\ iter' = iter /\ todo' = todo
  BY DEF Rehash
<1>2. PICK t : t = Allocated(m)
  OBVIOUS
<1>3. TableInv(t) /\ t.len = 0 /\ t.max_load = MaxLoadFor(m) /\ Elements(t.slot) = {}
  BY <1>2, AllocatedInv
<1>4. TableInv(tab) /\ tab.len \in Nat
  BY NoRehash, TableTyped
<1>5. Array(old')
  BY <1>1, <1>4 DEF Array, TableInv
<1>6. tab'.len + Cardinality(Occupied(old')) + Waiting' <= tab'.max_load
  <2>1. Cardinality(Occupied(old')) = tab.len
    BY <1>1, <1>4 DEF TableInv
  <2>2. Waiting' = IF k = EMPTY THEN 0 ELSE 1
    BY <1>1 DEF Waiting
  <2>3. Waiting' \in Nat /\ tab'.len = 0 /\ tab'.max_load = MaxLoadFor(m)
    BY <2>2, <1>1, <1>2, <1>3
  <2> QED BY <2>1, <2>2, <2>3, <1>4
<1>7. todo' = {}
  BY <1>1 DEF IndInv
<1>8. TableInv(tab') /\ Elements(tab'.slot) = {}
  BY <1>1, <1>2, <1>3
<1>9. Array(iter'.slot) /\ iter'.len = Cardinality(Occupied(iter'.slot))
  BY <1>1 DEF IndInv
<1> QED BY <1>1, <1>5, <1>6, <1>7, <1>8, <1>9 DEF IndInv

\* An element that is to be inserted where it is not, with the limit ahead.
LEMMA PutUnderLimit ==
    ASSUME NEW t, TableInv(t), NEW k \in Key, k \notin Elements(t.slot),
           t.len < t.max_load
    PROVE  /\ TableInv(Put(t, k)) /\ Put(t, k).len = t.len + 1
           /\ Put(t, k).max_load = t.max_load
           /\ Put(t, k).len <= Put(t, k).max_load
           /\ Elements(Put(t, k).slot) = Elements(t.slot) \cup {k}
<1>1. t.groups \in GroupCounts /\ t.len \in Nat /\ t.max_load \in Nat
      /\ t.max_load <= MaxLoadFor(t.groups)
  BY TableTyped DEF TableInv
<1>2. MaxLoadFor(t.groups) < Capacity(t.groups) /\ MaxLoadFor(t.groups) \in Nat
      /\ Capacity(t.groups) \in Nat
  BY <1>1, LoadLimits
<1>3. t.len < Capacity(t.groups)
  BY <1>1, <1>2
<1>4. /\ TableInv(Put(t, k)) /\ Put(t, k).len = t.len + 1
      /\ Put(t, k).max_load = t.max_load
      /\ Elements(Put(t, k).slot) = Elements(t.slot) \cup {k}
  BY <1>3, PutInv
<1> QED BY <1>1, <1>4

\* insert where no rehash is due: the table afterwards.
LEMMA InsertIntoInv ==
    ASSUME IndInv, pc = "ready", NEW k \in Key,
           ~(is_allocated(tab) /\ ~Found(tab, k) /\ tab.len >= tab.max_load)
    PROVE  /\ TableInv(InsertInto(tab, k))
           /\ InsertInto(tab, k).len <= InsertInto(tab, k).max_load
           /\ Elements(InsertInto(tab, k).slot) = Elements(tab.slot) \cup {k}
<1>1. TableInv(tab) /\ tab.len <= tab.max_load /\ tab.len \in Nat /\ tab.max_load \in Nat
  BY NoRehash, TableTyped
<1>2. CASE ~is_allocated(tab)
  <2>1. PICK a : a = Allocated(1)
    OBVIOUS
  <2>2. 1 \in GroupCounts
    BY GroupCountsAssumption
  <2>3. TableInv(a) /\ a.len = 0 /\ a.max_load = MaxLoadFor(1) /\ Elements(a.slot) = {}
    BY <2>1, <2>2, AllocatedInv
  <2>4. a.len < a.max_load
    BY <2>2, <2>3, LoadLimits
  <2>5. Elements(tab.slot) = {}
    BY <1>1, <1>2, UnallocatedEmpty
  <2>6. InsertInto(tab, k) = Put(a, k)
    BY <1>2, <2>1 DEF InsertInto
  <2> QED BY <2>3, <2>4, <2>5, <2>6, PutUnderLimit
<1>3. CASE is_allocated(tab) /\ Found(tab, k)
  <2>1. InsertInto(tab, k) = tab
    BY <1>3 DEF InsertInto
  <2>2. k \in Elements(tab.slot)
    BY <1>1, <1>3, FoundIsStored
  <2> QED BY <1>1, <2>1, <2>2
<1>4. CASE is_allocated(tab) /\ ~Found(tab, k)
  <2>1. ~(tab.len >= tab.max_load)
    BY <1>4
  <2>2. InsertInto(tab, k) = Put(tab, k)
    BY <1>4, <2>1 DEF InsertInto
  <2>3. tab.len < tab.max_load
    BY <1>1, <2>1
  <2>4. k \notin Elements(tab.slot)
    BY <1>1, <1>4, FoundIsStored
  <2> QED BY <1>1, <2>2, <2>3, <2>4, PutUnderLimit
<1> QED BY <1>2, <1>3, <1>4

\* A full table has room for one more element in twice the groups.
LEMMA GrowRoom ==
    ASSUME IndInv, pc = "ready", 2 * tab.groups \in GroupCounts
    PROVE  tab.len + 1 <= MaxLoadFor(2 * tab.groups)
<1>1. /\ tab.groups \in GroupCounts /\ tab.len \in Nat /\ tab.max_load \in Nat
      /\ tab.len <= tab.max_load /\ tab.max_load <= MaxLoadFor(tab.groups)
  BY NoRehash, TableTyped DEF TableInv
<1>2. /\ MaxLoadFor(tab.groups) \in Nat /\ MaxLoadFor(2 * tab.groups) \in Nat
      /\ MaxLoadFor(tab.groups) + 1 <= MaxLoadFor(2 * tab.groups)
  BY <1>1, LoadLimits
<1> QED BY <1>1, <1>2

\* insert.
LEMMA InsertInv ==
    ASSUME IndInv, NEW k \in Key, Insert(k)
    PROVE  IndInv'
<1>1. pc = "ready"
  BY DEF Insert
<1>2. CASE is_allocated(tab) /\ ~Found(tab, k) /\ Rehash(2 * tab.groups, k)
  <2>1. 2 * tab.groups \in GroupCounts
    BY <1>2 DEF Rehash
  <2>2. tab.len + 1 <= MaxLoadFor(2 * tab.groups)
    BY <1>1, <2>1, GrowRoom
  <2>3. k \notin Elements(tab.slot) /\ k # EMPTY
    BY <1>1, <1>2, NoRehash, FoundIsStored, FlatSetAssumption
  <2> QED BY <1>1, <1>2, <2>1, <2>2, <2>3, RehashInv
<1>3. CASE /\ ~(is_allocated(tab) /\ ~Found(tab, k) /\ tab.len >= tab.max_load)
           /\ tab' = InsertInto(tab, k) /\ iter' = iter /\ Quiet
  BY <1>1, <1>3, InsertIntoInv, ReadyInv
<1> QED BY <1>2, <1>3 DEF Insert

\* A rehash moves an element: what the two arrays hold afterwards.
LEMMA MoveOne ==
    ASSUME IndInv, RehashStep
    PROVE  /\ TableInv(tab') /\ Array(old')
           /\ tab'.len + Cardinality(Occupied(old')) + Waiting <= tab'.max_load
           /\ \E k \in Elements(old) : /\ Elements(tab'.slot) = Elements(tab.slot) \cup {k}
                                       /\ Elements(old') = Elements(old) \ {k}
<1>1. PICK s \in Occupied(old) : tab' = Put(tab, old[s]) /\ old' = [old EXCEPT ![s] = EMPTY]
  BY DEF RehashStep
<1>2. TableInv(tab) /\ Array(old) /\ Elements(tab.slot) \cap Elements(old) = {}
      /\ tab.len + Cardinality(Occupied(old)) + Waiting <= tab.max_load
  BY DEF IndInv
<1>3. PICK m \in GroupCounts : old \in Arrays(m)
  BY <1>2 DEF Array, Arrays
<1>4. PICK k : k = old[s]
  OBVIOUS
<1>5. k \in Key /\ k \in Elements(old)
  BY <1>3, <1>4, OccupiedFinite DEF Elements
<1>6. PICK c : c = Cardinality(Occupied(old))
  OBVIOUS
<1>7. c \in Nat /\ Cardinality(Occupied(old')) = c - 1 /\ Array(old')
      /\ Elements(old') = Elements(old) \ {k}
  <2>1. Once(old)
    BY <1>2 DEF Array
  <2>2. PICK f : f = Freed(old, s)
    OBVIOUS
  <2>3. f \in Arrays(m) /\ Once(f) /\ Elements(f) = Elements(old) \ {k}
        /\ Cardinality(Occupied(f)) = c - 1
    BY <1>3, <1>4, <1>6, <2>1, <2>2, FreeElement
  <2>4. Array(f)
    BY <2>3 DEF Array, Arrays
  <2>5. old' = f
    BY <1>1, <2>2 DEF Freed
  <2> QED BY <1>3, <1>6, <2>3, <2>4, <2>5, OccupiedFinite
<1>8. c >= 1
  <2>1. Cardinality(Occupied(old')) \in Nat
    <3>1. PICK n \in GroupCounts : old' \in Arrays(n)
      BY <1>7 DEF Array, Arrays
    <3> QED BY <3>1, OccupiedFinite
  <2> QED BY <1>7, <2>1
<1>9. tab.len \in Nat /\ tab.max_load \in Nat /\ Waiting \in Nat
  BY <1>2, TableTyped DEF Waiting
<1>10. tab.len + c + Waiting <= tab.max_load
  BY <1>2, <1>6
<1>11. tab.len < tab.max_load
  BY <1>7, <1>8, <1>9, <1>10
<1>12. PICK u : u = Put(tab, k)
  OBVIOUS
<1>13. TableInv(u) /\ u.len = tab.len + 1 /\ u.max_load = tab.max_load
       /\ Elements(u.slot) = Elements(tab.slot) \cup {k}
  BY <1>2, <1>5, <1>11, <1>12, PutUnderLimit
<1>14. tab' = u
  BY <1>1, <1>4, <1>12
<1>15. u.len + (c - 1) + Waiting <= u.max_load
  BY <1>7, <1>9, <1>10, <1>13
<1> QED BY <1>5, <1>7, <1>13, <1>14, <1>15

\* A rehash step.
LEMMA RehashStepInv ==
    ASSUME IndInv, RehashStep
    PROVE  IndInv'
<1>1. pc = "rehash" /\ pc' = pc /\ pend' = pend /\ todo' = todo /\ iter' = iter /\ ret' = ret
  BY DEF RehashStep
<1>2. TableInv(tab') /\ Array(old')
      /\ tab'.len + Cardinality(Occupied(old')) + Waiting <= tab'.max_load
  BY MoveOne
<1>3. PICK k \in Elements(old) : /\ Elements(tab'.slot) = Elements(tab.slot) \cup {k}
                                 /\ Elements(old') = Elements(old) \ {k}
  BY MoveOne
<1>4. Waiting' = Waiting
  BY <1>1 DEF Waiting
<1>5. /\ Elements(tab.slot) \cap Elements(old) = {} /\ todo = {}
      /\ pend \in Key \cup {EMPTY} /\ pend \notin Elements(tab.slot) \cup Elements(old)
  BY <1>1 DEF IndInv
<1>6. Elements(tab'.slot) \cap Elements(old') = {}
  BY <1>3, <1>5
<1>7. pend' \in Key \cup {EMPTY} /\ pend' \notin Elements(tab'.slot) \cup Elements(old')
  BY <1>1, <1>3, <1>5
<1>8. tab'.len + Cardinality(Occupied(old')) + Waiting' <= tab'.max_load
  BY <1>2, <1>4
<1>9. Array(iter'.slot) /\ iter'.len = Cardinality(Occupied(iter'.slot))
  BY <1>1 DEF IndInv
<1> QED BY <1>1, <1>2, <1>5, <1>6, <1>7, <1>8, <1>9 DEF IndInv

\* The end of a rehash: the table, with the element that waited.
LEMMA RehashEnds ==
    ASSUME IndInv, RehashDone
    PROVE  /\ TableInv(tab') /\ tab'.len <= tab'.max_load
           /\ pend = EMPTY => tab' = tab /\ ret' = ret
           /\ pend # EMPTY => /\ pend \in Key /\ ret' = "inserted"
                              /\ pend \notin Elements(tab.slot)
                              /\ Elements(tab'.slot) = Elements(tab.slot) \cup {pend}
<1>1. /\ TableInv(tab) /\ pend \in Key \cup {EMPTY} /\ pend \notin Elements(tab.slot)
      /\ tab.len + Cardinality(Occupied(old)) + Waiting <= tab.max_load
  BY DEF IndInv
<1>2. Cardinality(Occupied(old)) = 0
  BY FS_EmptySet DEF RehashDone
<1>3. tab.len \in Nat /\ tab.max_load \in Nat
  BY <1>1, TableTyped
<1>4. CASE pend = EMPTY
  <2>1. Waiting = 0 /\ tab' = tab /\ ret' = ret
    BY <1>4 DEF Waiting, RehashDone
  <2>2. tab.len <= tab.max_load
    BY <1>1, <1>2, <1>3, <2>1
  <2> QED BY <1>1, <1>4, <2>1, <2>2
<1>5. CASE pend # EMPTY
  <2>1. Waiting = 1 /\ tab' = Put(tab, pend) /\ ret' = "inserted"
    BY <1>5 DEF Waiting, RehashDone
  <2>2. tab.len < tab.max_load
    BY <1>1, <1>2, <1>3, <2>1
  <2>3. pend \in Key
    BY <1>1, <1>5
  <2> QED BY <1>1, <1>5, <2>1, <2>2, <2>3, PutUnderLimit
<1> QED BY <1>4, <1>5

\* What a step that leaves `old` empty and nothing waiting has to establish.
LEMMA EndsReady ==
    ASSUME IndInv, pc' = "ready", TableInv(tab'), tab'.len <= tab'.max_load,
           Array(old'), Occupied(old') = {}, pend' = EMPTY, todo' = {}, iter' = iter
    PROVE  IndInv'
<1>1. PICK t : t = tab'
  OBVIOUS
<1>2. TableInv(t) /\ t.len <= t.max_load
  BY <1>1
<1>3. t.len \in Nat /\ t.max_load \in Nat /\ EMPTY \notin Elements(t.slot)
  BY <1>2, TableTyped, OccupiedFinite
<1>4. Cardinality(Occupied(old')) = 0 /\ Waiting' = 0 /\ Elements(old') = {}
  BY FS_EmptySet DEF Waiting, Elements
<1>5. tab'.len + Cardinality(Occupied(old')) + Waiting' <= tab'.max_load
  BY <1>1, <1>2, <1>3, <1>4
<1>6. Array(iter'.slot) /\ iter'.len = Cardinality(Occupied(iter'.slot))
  BY DEF IndInv
<1>7. Elements(tab'.slot) \cap Elements(old') = {}
      /\ pend' \notin Elements(tab'.slot) \cup Elements(old')
  BY <1>1, <1>3, <1>4
<1> QED BY <1>5, <1>6, <1>7 DEF IndInv

\* A rehash is over, and the element that waited inserted.
LEMMA RehashDoneInv ==
    ASSUME IndInv, RehashDone
    PROVE  IndInv'
<1>1. pc' = "ready" /\ pend' = EMPTY /\ old' = old /\ iter' = iter /\ todo' = todo
      /\ Occupied(old) = {} /\ pc = "rehash"
  BY DEF RehashDone
<1>2. Array(old) /\ todo = {}
  BY <1>1 DEF IndInv
<1>3. TableInv(tab') /\ tab'.len <= tab'.max_load
  BY RehashEnds
<1> QED BY <1>1, <1>2, <1>3, EndsReady

\* A slot that a lookup finds is occupied by the element it looks for.
LEMMA FindsOccupied ==
    ASSUME NEW t, NEW k \in Key, NEW s \in DOMAIN t.slot, Finds(t, k, s)
    PROVE  s \in Occupied(t.slot) /\ k = t.slot[s]
BY FlatSetAssumption DEF Finds, Occupied

\* remove and take.
LEMMA TakeInv ==
    ASSUME IndInv, NEW k \in Key, Take(k)
    PROVE  IndInv'
<1>1. pc = "ready" /\ iter' = iter /\ Quiet
  BY DEF Take
<1>2. TableInv(tab) /\ tab.len <= tab.max_load
  BY <1>1, NoRehash
<1>3. CASE \E s \in DOMAIN tab.slot : Finds(tab, k, s) /\ tab' = Erase(tab, k, s)
  <2>1. PICK s \in DOMAIN tab.slot : Finds(tab, k, s) /\ tab' = Erase(tab, k, s)
    BY <1>3
  <2>2. s \in Occupied(tab.slot) /\ k = tab.slot[s]
    BY <2>1, FindsOccupied
  <2>3. TableInv(Erase(tab, k, s)) /\ Erase(tab, k, s).len <= Erase(tab, k, s).max_load
    BY <1>2, <2>2, EraseInv
  <2> QED BY <1>1, <2>1, <2>3, ReadyInv
<1>4. CASE tab' = tab
  BY <1>1, <1>2, <1>4, ReadyInv
<1> QED BY <1>3, <1>4 DEF Take

\* reserve: the new array has room for the elements.
LEMMA ReserveInv ==
    ASSUME IndInv, NEW n \in ReserveArgs, Reserve(n)
    PROVE  IndInv'
<1>1. pc = "ready" /\ n \in Nat
  BY FlatSetAssumption DEF Reserve
<1>2. TableInv(tab) /\ tab.len \in Nat /\ EMPTY \notin Elements(tab.slot)
  BY <1>1, NoRehash, TableTyped, OccupiedFinite
<1>3. PICK m \in GroupCounts :
        /\ GroupsFor(tab.len + n, m)
        /\ \/ tab' = Allocated(m) /\ iter' = iter /\ Quiet
           \/ is_allocated(tab) /\ Rehash(m, EMPTY)
  BY DEF Reserve
<1>4. CASE tab' = Allocated(m) /\ iter' = iter /\ Quiet
  <2>1. TableInv(Allocated(m)) /\ Allocated(m).len <= Allocated(m).max_load
    BY AllocatedInv, LoadLimits
  <2> QED BY <1>1, <1>4, <2>1, ReadyInv
<1>5. CASE is_allocated(tab) /\ Rehash(m, EMPTY)
  <2>1. tab.len + n <= MaxLoadFor(m) /\ MaxLoadFor(m) \in Nat
    BY <1>1, <1>2, <1>3, LoadLimits
  <2>2. tab.len + 0 <= MaxLoadFor(m)
    BY <1>1, <1>2, <2>1
  <2> QED BY <1>1, <1>2, <1>5, <2>2, RehashInv
<1> QED BY <1>3, <1>4, <1>5

\* shrink_to_fit.
LEMMA ShrinkToFitInv ==
    ASSUME IndInv, ShrinkToFit
    PROVE  IndInv'
<1>1. pc = "ready"
  BY DEF ShrinkToFit
<1>2. TableInv(tab) /\ tab.len \in Nat /\ tab.len <= tab.max_load /\ tab.max_load \in Nat
      /\ EMPTY \notin Elements(tab.slot)
  BY <1>1, NoRehash, TableTyped, OccupiedFinite
<1>3. CASE tab' = New /\ iter' = iter /\ Quiet
  BY <1>1, <1>3, NewInv, ReadyInv
<1>4. CASE tab.len > 0 /\ \E m \in GroupCounts : GroupsFor(tab.len, m) /\ Rehash(m, EMPTY)
  <2>1. PICK m \in GroupCounts : GroupsFor(tab.len, m) /\ Rehash(m, EMPTY)
    BY <1>4
  <2>2. is_allocated(tab)
    BY <1>2, <1>4 DEF is_allocated
  <2>3. tab.len + 0 <= MaxLoadFor(m)
    BY <1>2, <2>1, LoadLimits
  <2> QED BY <1>1, <1>2, <2>1, <2>2, <2>3, RehashInv
<1> QED BY <1>3, <1>4 DEF ShrinkToFit

\* clear keeps the array.
LEMMA ClearInv ==
    ASSUME IndInv, Clear
    PROVE  IndInv'
<1>1. pc = "ready" /\ tab' = Allocated(tab.groups) /\ iter' = iter /\ Quiet
  BY DEF Clear
<1>2. tab.groups \in GroupCounts
  BY <1>1, NoRehash, TableTyped
<1>3. TableInv(Allocated(tab.groups)) /\ Allocated(tab.groups).len <= Allocated(tab.groups).max_load
  BY <1>2, AllocatedInv, LoadLimits
<1> QED BY <1>1, <1>3, ReadyInv

\* Clone, FromIter and HasElement leave a table in order.
LEMMA CloneInv ==
    ASSUME IndInv, Clone
    PROVE  IndInv'
<1>1. pc = "ready" /\ iter' = iter /\ Quiet /\ (tab' = tab \/ tab' = New)
  BY DEF Clone, CloneOf
<1> QED BY <1>1, NoRehash, NewInv, ReadyInv

\* The table stays as it is.
LEMMA SameTable ==
    ASSUME IndInv, pc = "ready", tab' = tab, iter' = iter, Quiet
    PROVE  IndInv'
BY NoRehash, ReadyInv

\* A panic in the Hash of insert's argument.
LEMMA PanicInInsertInv ==
    ASSUME IndInv, PanicInInsert
    PROVE  IndInv'
<1>1. pc = "ready" /\ tab' = Allocated(1) /\ iter' = iter /\ Quiet /\ 1 \in GroupCounts
  BY GroupCountsAssumption DEF PanicInInsert
<1>2. TableInv(Allocated(1)) /\ Allocated(1).len <= Allocated(1).max_load
  BY <1>1, AllocatedInv, LoadLimits
<1> QED BY <1>1, <1>2, ReadyInv

\* A panic in a rehash: what was not moved is lost, the rest is in order.
LEMMA PanicInRehashInv ==
    ASSUME IndInv, PanicInRehash
    PROVE  IndInv'
<1>1. /\ pc = "rehash" /\ old' = New.slot /\ pend' = EMPTY /\ pc' = "ready"
      /\ tab' = tab /\ iter' = iter /\ todo' = todo
  BY DEF PanicInRehash
<1>2. TableInv(tab) /\ todo = {} /\ Array(old)
      /\ tab.len + Cardinality(Occupied(old)) + Waiting <= tab.max_load
  BY <1>1 DEF IndInv
<1>3. tab.len \in Nat /\ tab.max_load \in Nat /\ Waiting \in Nat
  BY <1>2, TableTyped DEF Waiting
<1>4. Cardinality(Occupied(old)) \in Nat
  <2>1. PICK m \in GroupCounts : old \in Arrays(m)
    BY <1>2 DEF Array, Arrays
  <2> QED BY <2>1, OccupiedFinite
<1>5. tab.len <= tab.max_load
  BY <1>2, <1>3, <1>4
<1>6. Array(old') /\ Occupied(old') = {}
  BY <1>1, NewInv
<1> QED BY <1>1, <1>2, <1>5, <1>6, EndsReady

\* retain begins.
LEMMA RetainInv ==
    ASSUME IndInv, Retain
    PROVE  IndInv'
<1>1. /\ pc = "ready" /\ pc' = "retain" /\ todo' = Occupied(tab.slot) /\ ret' = NONE
      /\ tab' = tab /\ iter' = iter /\ old' = old /\ pend' = pend
  BY DEF Retain
<1>2. Array(iter'.slot) /\ iter'.len = Cardinality(Occupied(iter'.slot))
  BY <1>1 DEF IndInv
<1> QED BY <1>1, <1>2, NoRehash, OutsideRehash

\* retain visits a slot, and keeps or erases the element there.
LEMMA RetainStepInv ==
    ASSUME IndInv, RetainStep
    PROVE  IndInv'
<1>1. /\ pc = "retain" /\ pc' = "retain" /\ iter' = iter /\ old' = old /\ pend' = pend
      /\ ret' = ret
  BY DEF RetainStep
<1>2. PICK s \in todo : /\ todo' = todo \ {s}
                        /\ tab' = tab \/ tab' = Erase(tab, tab.slot[s], s)
  BY DEF RetainStep
<1>3. Array(iter'.slot) /\ iter'.len = Cardinality(Occupied(iter'.slot))
  BY <1>1 DEF IndInv
<1>4. todo \subseteq Occupied(tab.slot) /\ ret = NONE /\ TableInv(tab) /\ tab.len <= tab.max_load
  BY <1>1, NoRehash DEF IndInv
<1>5. CASE tab' = tab
  BY <1>1, <1>2, <1>3, <1>4, <1>5, OutsideRehash
<1>6. CASE tab' = Erase(tab, tab.slot[s], s)
  <2>1. PICK u : u = Erase(tab, tab.slot[s], s)
    OBVIOUS
  <2>2. TableInv(u) /\ u.len <= u.max_load /\ Occupied(u.slot) = Occupied(tab.slot) \ {s}
    BY <1>4, <2>1, EraseInv
  <2>3. todo' \subseteq Occupied(u.slot)
    BY <1>2, <1>4, <2>2
  <2> QED BY <1>1, <1>3, <1>4, <1>6, <2>1, <2>2, <2>3, OutsideRehash
<1> QED BY <1>2, <1>5, <1>6

\* retain ends, by itself or in a panic; a lookup hangs.
LEMMA RetainEndsInv ==
    ASSUME IndInv, RetainDone \/ PanicInRetain \/ (\E k \in Key : Hang(k))
    PROVE  IndInv'
<1>1. /\ pc \in {"ready", "retain"} /\ pc' \in {"ready", "spin"} /\ tab' = tab /\ iter' = iter
      /\ old' = old /\ pend' = pend /\ todo' = {}
  BY DEF RetainDone, PanicInRetain, Hang, IndInv
<1>2. Array(iter'.slot) /\ iter'.len = Cardinality(Occupied(iter'.slot))
  BY <1>1 DEF IndInv
<1> QED BY <1>1, <1>2, NoRehash, OutsideRehash

\* drain takes the table and leaves a new one.
LEMMA DrainInv ==
    ASSUME IndInv, Drain
    PROVE  IndInv'
<1>1. /\ pc = "ready" /\ pc' = "drain" /\ iter' = [slot |-> tab.slot, len |-> tab.len]
      /\ tab' = New /\ old' = old /\ pend' = pend /\ todo' = {}
  BY DEF Drain, IndInv
<1>2. iter'.slot = tab.slot /\ iter'.len = tab.len /\ TableInv(tab)
  BY <1>1, NoRehash
<1>3. Array(iter'.slot) /\ iter'.len = Cardinality(Occupied(iter'.slot))
  BY <1>2 DEF Array, TableInv
<1> QED BY <1>1, <1>3, NewInv, OutsideRehash

\* The iterator gives out an element.
LEMMA IterTakes ==
    ASSUME IndInv, IterNext
    PROVE  /\ Array(iter'.slot) /\ iter'.len = Cardinality(Occupied(iter'.slot))
           /\ \E k \in Key : k \in Elements(iter.slot)
                             /\ Elements(iter'.slot) = Elements(iter.slot) \ {k}
<1>1. PICK s \in Occupied(iter.slot) :
        iter' = [slot |-> [iter.slot EXCEPT ![s] = EMPTY], len |-> iter.len - 1]
  BY DEF IterNext
<1>2. PICK f : f = Freed(iter.slot, s)
  OBVIOUS
<1>3. iter'.slot = f /\ iter'.len = iter.len - 1
  BY <1>1, <1>2 DEF Freed
<1>4. Array(iter.slot) /\ iter.len = Cardinality(Occupied(iter.slot))
  BY DEF IndInv
<1>5. PICK m \in GroupCounts : iter.slot \in Arrays(m)
  BY <1>4 DEF Array, Arrays
<1>6. /\ f \in Arrays(m) /\ Once(f) /\ Elements(f) = Elements(iter.slot) \ {iter.slot[s]}
      /\ Cardinality(Occupied(f)) = Cardinality(Occupied(iter.slot)) - 1
  BY <1>2, <1>4, <1>5, FreeElement DEF Array
<1>7. iter.slot[s] \in Key /\ iter.slot[s] \in Elements(iter.slot)
  BY <1>5, OccupiedFinite DEF Elements
<1>8. Array(f)
  BY <1>6 DEF Array, Arrays
<1> QED BY <1>3, <1>4, <1>6, <1>7, <1>8

\* The iterator's steps leave the set alone.
LEMMA IterInv ==
    ASSUME IndInv, IterNext \/ IterDrop
    PROVE  IndInv'
<1>1. /\ pc = "drain" /\ pc' \in {"drain", "ready"} /\ tab' = tab /\ old' = old /\ pend' = pend
      /\ todo' = {}
  BY DEF IterNext, IterDrop, Quiet, IndInv
<1>2. Array(iter'.slot) /\ iter'.len = Cardinality(Occupied(iter'.slot))
  <2>1. CASE IterNext
    BY <2>1, IterTakes
  <2>2. CASE IterDrop
    <3>1. iter'.slot = New.slot /\ iter'.len = 0
      BY <2>2 DEF IterDrop, NoIter
    <3> QED BY <3>1, NewInv, FS_EmptySet
  <2> QED BY <2>1, <2>2
<1> QED BY <1>1, <1>2, NoRehash, OutsideRehash

\* Every step.
LEMMA NextInv ==
    ASSUME IndInv, [Next]_vars
    PROVE  IndInv'
<1>1. CASE UNCHANGED vars
  BY <1>1 DEF vars, IndInv, Waiting
<1>2. CASE \E k \in Key : HasElement(k) \/ Insert(k) \/ Take(k) \/ Hang(k)
  <2>1. PICK k \in Key : HasElement(k) \/ Insert(k) \/ Take(k) \/ Hang(k)
    BY <1>2
  <2>2. CASE HasElement(k)
    <3>1. pc = "ready" /\ tab' = tab /\ iter' = iter /\ Quiet
      BY <2>2 DEF HasElement
    <3> QED BY <3>1, SameTable
  <2> QED BY <2>1, <2>2, InsertInv, TakeInv, RetainEndsInv
<1>3. CASE (\E items \in OtherSets : FromIter(items)) \/ \E k \in OtherTaken : TakeOther(k)
  <2>1. pc = "ready" /\ tab' = tab /\ iter' = iter /\ Quiet
    BY <1>3 DEF FromIter, TakeOther
  <2> QED BY <2>1, SameTable
<1>4. CASE \E n \in ReserveArgs : Reserve(n)
  BY <1>4, ReserveInv
<1>5. CASE ShrinkToFit \/ Clear \/ Clone \/ Retain \/ Drain \/ IterNext \/ IterDrop
  BY <1>5, ShrinkToFitInv, ClearInv, CloneInv, RetainInv, DrainInv, IterInv
<1>6. CASE RehashStep \/ RehashDone \/ RetainStep \/ RetainDone
  BY <1>6, RehashStepInv, RehashDoneInv, RetainStepInv, RetainEndsInv
<1>7. CASE PanicInInsert \/ PanicInRehash \/ PanicInRetain
  BY <1>7, PanicInInsertInv, PanicInRehashInv, RetainEndsInv
<1> QED BY <1>1, <1>2, <1>3, <1>4, <1>5, <1>6, <1>7 DEF Next

\* Init.
LEMMA InitInv == Init => IndInv
<1> SUFFICES ASSUME Init PROVE IndInv
  OBVIOUS
<1>1. /\ tab = New /\ iter = NoIter /\ pc = "ready" /\ old = New.slot /\ pend = EMPTY
      /\ todo = {} /\ ret = NONE
  BY DEF Init
<1>2. iter.slot = New.slot /\ iter.len = 0
  BY <1>1 DEF NoIter
<1>3. Cardinality({}) = 0 /\ Waiting = 0
  BY <1>1, FS_EmptySet DEF Waiting
<1>4. tab.len + Cardinality(Occupied(old)) + Waiting <= tab.max_load
  BY <1>1, <1>3, NewInv
<1> QED BY <1>1, <1>2, <1>3, <1>4, NewInv DEF IndInv

-----------------------------------------------------------------------------
(***************************************************************************)
(* The invariant holds in every reachable state: at all times the table    *)
(* stores no element twice, marks the way to every element, counts them,   *)
(* and has room for what a rehash still has to move.                       *)
(***************************************************************************)
THEOREM IndInvHolds == Spec => []IndInv
<1>1. IndInv /\ [Next]_vars => IndInv'
  BY NextInv
<1> QED BY <1>1, InitInv, PTL DEF Spec

(***************************************************************************)
(* Whenever a client can call the set, after any number of panics in its   *)
(* own Hash, Eq or predicate, every element is found at its slot, none is  *)
(* there twice and len counts them; a drain iterator's len is exact.       *)
(***************************************************************************)
THEOREM StaysSound == Spec => []SoundAfterPanic
<1>1. IndInv => SoundAfterPanic
  <2> SUFFICES ASSUME IndInv PROVE SoundAfterPanic
    OBVIOUS
  <2>1. ASSUME pc = "ready" PROVE Sound(tab)
    BY <2>1, NoRehash, InvIsSound
  <2> QED BY <2>1 DEF SoundAfterPanic, IndInv
<1> QED BY <1>1, IndInvHolds, PTL

-----------------------------------------------------------------------------
(***************************************************************************)
(* The set is a set                                                        *)
(***************************************************************************)
Members == Elements(tab.slot) \cup Elements(old)
Drained == Elements(iter.slot)

\* The client is answered nothing new and sees no change.
LEMMA StutterSim ==
    ASSUME Members' = Members, Drained' = Drained, ret' = ret
    PROVE  [Abstract!Next]_Abstract!vars
BY DEF Members, Drained, Abstract!vars

\* A call without an answer changes nothing the client sees.
LEMMA NoAnswerSim ==
    ASSUME Members' = Members, Drained' = Drained, ret' = NONE
    PROVE  [Abstract!Next]_Abstract!vars
<1>1. Abstract!NoAnswer
  BY DEF Members, Drained, Abstract!NoAnswer
<1> QED BY <1>1 DEF Abstract!Next

\* A panic may lose elements, and does nothing else.
LEMMA PanicSim ==
    ASSUME Members' \subseteq Members, Drained' = Drained, ret' = "panic"
    PROVE  [Abstract!Next]_Abstract!vars
<1>1. Abstract!Panic
  BY DEF Members, Drained, Abstract!Panic
<1> QED BY <1>1 DEF Abstract!Next

\* Outside a rehash the members are in the table.
LEMMA MembersOf ==
    ASSUME IndInv, pc # "rehash"
    PROVE  Members = Elements(tab.slot) /\ (old' = old => Members' = Elements(tab'.slot))
<1>1. Elements(old) = {}
  BY NoRehash
<1> QED BY <1>1 DEF Members

\* A rehash that begins moves the members to the old array.
LEMMA RehashSim ==
    ASSUME IndInv, pc = "ready", is_allocated(tab), NEW m \in GroupCounts, NEW k, Rehash(m, k)
    PROVE  [Abstract!Next]_Abstract!vars
<1>1. tab' = Allocated(m) /\ old' = tab.slot /\ iter' = iter /\ ret' = NONE
  BY DEF Rehash
<1>2. Elements(Allocated(m).slot) = {}
  BY AllocatedInv
<1>3. Members' = Elements(tab.slot)
  BY <1>1, <1>2 DEF Members
<1>4. Members' = Members /\ Drained' = Drained
  BY <1>1, <1>3, MembersOf DEF Drained
<1> QED BY <1>1, <1>4, NoAnswerSim

\* contains.
LEMMA HasElementSim ==
    ASSUME IndInv, NEW k \in Key, HasElement(k)
    PROVE  [Abstract!Next]_Abstract!vars
<1>1. pc = "ready" /\ tab' = tab /\ iter' = iter /\ old' = old
      /\ ret' = IF Found(tab, k) THEN "yes" ELSE "no"
  BY DEF HasElement, Quiet
<1>2. Found(tab, k) <=> k \in Members
  BY <1>1, NoRehash, FoundIsStored, MembersOf
<1>3. Abstract!Contains(k)
  BY <1>1, <1>2 DEF Members, Abstract!Contains
<1> QED BY <1>3 DEF Abstract!Next

\* insert: answered at once, or after the rehash that it starts.
LEMMA InsertSim ==
    ASSUME IndInv, NEW k \in Key, Insert(k)
    PROVE  [Abstract!Next]_Abstract!vars
<1>1. pc = "ready"
  BY DEF Insert
<1>2. CASE is_allocated(tab) /\ Rehash(2 * tab.groups, k)
  <2>1. 2 * tab.groups \in GroupCounts
    BY <1>2 DEF Rehash
  <2> QED BY <1>1, <1>2, <2>1, RehashSim
<1>3. CASE /\ ~(is_allocated(tab) /\ ~Found(tab, k) /\ tab.len >= tab.max_load)
           /\ ret' = IF Found(tab, k) THEN "present" ELSE "inserted"
           /\ tab' = InsertInto(tab, k) /\ iter' = iter /\ Quiet
  <2>1. Elements(tab'.slot) = Elements(tab.slot) \cup {k}
    BY <1>1, <1>3, InsertIntoInv
  <2>2. old' = old
    BY <1>3 DEF Quiet
  <2>3. Members' = Members \cup {k} /\ Drained' = Drained
    BY <1>1, <1>3, <2>1, <2>2, MembersOf DEF Drained
  <2>4. Found(tab, k) <=> k \in Members
    BY <1>1, NoRehash, FoundIsStored, MembersOf
  <2>5. Abstract!Insert(k)
    BY <1>3, <2>3, <2>4 DEF Members, Drained, Abstract!Insert
  <2> QED BY <2>5 DEF Abstract!Next
<1> QED BY <1>2, <1>3 DEF Insert

\* The answer of an insert that had to grow the table first.
LEMMA RehashDoneSim ==
    ASSUME IndInv, RehashDone
    PROVE  [Abstract!Next]_Abstract!vars
<1>1. old' = old /\ iter' = iter /\ pc = "rehash" /\ Occupied(old) = {}
  BY DEF RehashDone
<1>2. Elements(old) = {}
  BY <1>1 DEF Elements
<1>3. Members = Elements(tab.slot) /\ Members' = Elements(tab'.slot) /\ Drained' = Drained
  BY <1>1, <1>2 DEF Members, Drained
<1>4. CASE pend = EMPTY
  <2>1. tab' = tab /\ ret' = ret
    BY <1>4, RehashEnds
  <2> QED BY <1>3, <2>1, StutterSim
<1>5. CASE pend # EMPTY
  <2>1. PICK k : k = pend
    OBVIOUS
  <2>2. /\ k \in Key /\ ret' = "inserted" /\ k \notin Elements(tab.slot)
        /\ Elements(tab'.slot) = Elements(tab.slot) \cup {k}
    BY <1>5, <2>1, RehashEnds
  <2>3. k \notin Members /\ Members' = Members \cup {k}
    BY <1>3, <2>2
  <2>4. Abstract!Insert(k)
    BY <1>3, <2>2, <2>3 DEF Members, Drained, Abstract!Insert
  <2> QED BY <2>2, <2>4 DEF Abstract!Next
<1> QED BY <1>4, <1>5

\* A rehash on its way hides nothing: what left the old array is in the new.
LEMMA RehashStepSim ==
    ASSUME IndInv, RehashStep
    PROVE  [Abstract!Next]_Abstract!vars
<1>1. iter' = iter /\ ret' = ret
  BY DEF RehashStep
<1>2. PICK k \in Elements(old) : /\ Elements(tab'.slot) = Elements(tab.slot) \cup {k}
                                 /\ Elements(old') = Elements(old) \ {k}
  BY MoveOne
<1>3. Members' = Members /\ Drained' = Drained
  BY <1>1, <1>2 DEF Members, Drained
<1> QED BY <1>1, <1>3, StutterSim

\* remove and take.
LEMMA TakeSim ==
    ASSUME IndInv, NEW k \in Key, Take(k)
    PROVE  [Abstract!Next]_Abstract!vars
<1>1. pc = "ready" /\ iter' = iter /\ old' = old
  BY DEF Take, Quiet
<1>2. TableInv(tab) /\ tab.len <= tab.max_load
  BY <1>1, NoRehash
<1>3. Members = Elements(tab.slot) /\ Members' = Elements(tab'.slot) /\ Drained' = Drained
  BY <1>1, MembersOf DEF Drained
<1>4. Members' = Members \ {k} /\ ret' = IF k \in Members THEN "taken" ELSE "absent"
  <2>1. CASE \E s \in DOMAIN tab.slot :
               Finds(tab, k, s) /\ tab' = Erase(tab, k, s) /\ ret' = "taken"
    <3>1. PICK s \in DOMAIN tab.slot :
            Finds(tab, k, s) /\ tab' = Erase(tab, k, s) /\ ret' = "taken"
      BY <2>1
    <3>2. s \in Occupied(tab.slot) /\ k = tab.slot[s]
      BY <3>1, FindsOccupied
    <3>3. Elements(Erase(tab, k, s).slot) = Elements(tab.slot) \ {k}
      BY <1>2, <3>2, EraseInv
    <3>4. k \in Members
      BY <1>3, <3>2 DEF Elements
    <3> QED BY <1>3, <3>1, <3>3, <3>4
  <2>2. CASE ~Found(tab, k) /\ ret' = "absent" /\ tab' = tab
    <3>1. k \notin Members
      BY <1>2, <1>3, <2>2, FoundIsStored
    <3> QED BY <1>3, <2>2, <3>1
  <2> QED BY <2>1, <2>2 DEF Take
<1>5. Abstract!Take(k)
  BY <1>3, <1>4 DEF Members, Drained, Abstract!Take
<1> QED BY <1>5 DEF Abstract!Next

\* reserve.
LEMMA ReserveSim ==
    ASSUME IndInv, NEW n \in ReserveArgs, Reserve(n)
    PROVE  [Abstract!Next]_Abstract!vars
<1>1. pc = "ready"
  BY DEF Reserve
<1>2. PICK m \in GroupCounts :
        \/ ~is_allocated(tab) /\ tab' = Allocated(m) /\ ret' = NONE /\ iter' = iter /\ Quiet
        \/ is_allocated(tab) /\ Rehash(m, EMPTY)
  BY DEF Reserve
<1>3. CASE ~is_allocated(tab) /\ tab' = Allocated(m) /\ ret' = NONE /\ iter' = iter /\ Quiet
  <2>1. Elements(tab.slot) = {}
    BY <1>1, <1>3, NoRehash, UnallocatedEmpty
  <2>2. Elements(Allocated(m).slot) = {}
    BY AllocatedInv
  <2>3. old' = old
    BY <1>3 DEF Quiet
  <2>4. Members' = Members /\ Drained' = Drained
    BY <1>1, <1>3, <2>1, <2>2, <2>3, MembersOf DEF Drained
  <2> QED BY <1>3, <2>4, NoAnswerSim
<1>4. CASE is_allocated(tab) /\ Rehash(m, EMPTY)
  BY <1>1, <1>4, RehashSim
<1> QED BY <1>2, <1>3, <1>4

\* A table without elements, by its count.
LEMMA NoElements ==
    ASSUME IndInv, pc = "ready", tab.len = 0
    PROVE  Elements(tab.slot) = {}
<1>1. TableInv(tab) /\ IsFiniteSet(Occupied(tab.slot))
  BY NoRehash, TableTyped, OccupiedFinite
<1>2. Occupied(tab.slot) = {}
  BY <1>1, FS_EmptySet DEF TableInv
<1> QED BY <1>2 DEF Elements

\* shrink_to_fit.
LEMMA ShrinkToFitSim ==
    ASSUME IndInv, ShrinkToFit
    PROVE  [Abstract!Next]_Abstract!vars
<1>1. pc = "ready"
  BY DEF ShrinkToFit
<1>2. CASE tab.len = 0 /\ tab' = New /\ ret' = NONE /\ iter' = iter /\ Quiet
  <2>1. old' = old
    BY <1>2 DEF Quiet
  <2>2. Members' = Members /\ Drained' = Drained
    BY <1>1, <1>2, <2>1, NoElements, NewInv, MembersOf DEF Drained
  <2> QED BY <1>2, <2>2, NoAnswerSim
<1>3. CASE tab.len > 0 /\ \E m \in GroupCounts : Rehash(m, EMPTY)
  <2>1. is_allocated(tab)
    <3>1. tab.len \in Nat /\ tab.max_load \in Nat /\ tab.len <= tab.max_load
      BY <1>1, NoRehash, TableTyped
    <3> QED BY <1>3, <3>1 DEF is_allocated
  <2> QED BY <1>1, <1>3, <2>1, RehashSim
<1> QED BY <1>2, <1>3 DEF ShrinkToFit

\* clear, and the clone that replaces the set.
LEMMA ClearSim ==
    ASSUME IndInv, Clear
    PROVE  [Abstract!Next]_Abstract!vars
<1>1. pc = "ready" /\ tab' = Allocated(tab.groups) /\ iter' = iter /\ old' = old
      /\ ret' = "cleared"
  BY DEF Clear, Quiet
<1>2. Elements(Allocated(tab.groups).slot) = {}
  BY <1>1, NoRehash, TableTyped, AllocatedInv
<1>3. Members' = {} /\ Drained' = Drained
  BY <1>1, <1>2, MembersOf DEF Drained
<1>4. Abstract!Clear
  BY <1>1, <1>3 DEF Members, Drained, Abstract!Clear
<1> QED BY <1>4 DEF Abstract!Next

\* A clone has the same elements.
LEMMA CloneSim ==
    ASSUME IndInv, Clone
    PROVE  [Abstract!Next]_Abstract!vars
<1>1. pc = "ready" /\ tab' = CloneOf(tab) /\ iter' = iter /\ old' = old /\ ret' = NONE
  BY DEF Clone, Quiet
<1>2. Elements(tab'.slot) = Elements(tab.slot)
  <2>1. CASE is_allocated(tab)
    BY <1>1, <2>1 DEF CloneOf
  <2>2. CASE ~is_allocated(tab)
    BY <1>1, <2>2, NoRehash, UnallocatedEmpty, NewInv DEF CloneOf
  <2> QED BY <2>1, <2>2
<1>3. Members' = Members /\ Drained' = Drained
  BY <1>1, <1>2, MembersOf DEF Drained
<1> QED BY <1>1, <1>3, NoAnswerSim

\* retain rejects an element or keeps it.
LEMMA RetainStepSim ==
    ASSUME IndInv, RetainStep
    PROVE  [Abstract!Next]_Abstract!vars
<1>1. pc = "retain" /\ iter' = iter /\ old' = old /\ ret' = ret
  BY DEF RetainStep
<1>2. PICK s \in todo : tab' = tab \/ tab' = Erase(tab, tab.slot[s], s)
  BY DEF RetainStep
<1>3. s \in Occupied(tab.slot) /\ ret = NONE /\ TableInv(tab) /\ tab.len <= tab.max_load
  BY <1>1, NoRehash DEF IndInv
<1>4. Members = Elements(tab.slot) /\ Members' = Elements(tab'.slot) /\ Drained' = Drained
  BY <1>1, MembersOf DEF Drained
<1>5. CASE tab' = tab
  BY <1>1, <1>4, <1>5, StutterSim
<1>6. CASE tab' = Erase(tab, tab.slot[s], s)
  <2>1. PICK k : k = tab.slot[s]
    OBVIOUS
  <2>2. Elements(Erase(tab, k, s).slot) = Elements(tab.slot) \ {k}
    BY <1>3, <2>1, EraseInv
  <2>3. k \in Key /\ k \in Members
    BY <1>3, <1>4, <2>1, TableTyped, OccupiedFinite DEF Elements
  <2>4. Abstract!Reject(k)
    BY <1>1, <1>3, <1>4, <1>6, <2>1, <2>2, <2>3 DEF Members, Drained, Abstract!Reject
  <2> QED BY <2>3, <2>4 DEF Abstract!Next
<1> QED BY <1>2, <1>5, <1>6

\* drain hands every member to the iterator.
LEMMA DrainSim ==
    ASSUME IndInv, Drain
    PROVE  [Abstract!Next]_Abstract!vars
<1>1. /\ pc = "ready" /\ iter' = [slot |-> tab.slot, len |-> tab.len] /\ tab' = New
      /\ old' = old /\ ret' = NONE
  BY DEF Drain
<1>2. Drained' = Members /\ Members' = {}
  <2>1. iter'.slot = tab.slot
    BY <1>1
  <2>2. Elements(tab'.slot) = {}
    BY <1>1, NewInv
  <2> QED BY <1>1, <2>1, <2>2, MembersOf DEF Drained
<1>3. Abstract!Drain
  BY <1>1, <1>2 DEF Members, Drained, Abstract!Drain
<1> QED BY <1>3 DEF Abstract!Next

\* The iterator gives an element out once, and drops the rest.
LEMMA IterSim ==
    ASSUME IndInv, IterNext \/ IterDrop
    PROVE  [Abstract!Next]_Abstract!vars
<1>1. tab' = tab /\ old' = old /\ ret' = ret
  BY DEF IterNext, IterDrop, Quiet
<1>2. Members' = Members
  BY <1>1 DEF Members
<1>3. CASE IterNext
  <2>1. PICK k \in Key : k \in Drained /\ Drained' = Drained \ {k}
    BY <1>3, IterTakes DEF Drained
  <2>2. Abstract!NextDrained(k)
    BY <1>1, <1>2, <2>1 DEF Members, Drained, Abstract!NextDrained
  <2> QED BY <2>2 DEF Abstract!Next
<1>4. CASE IterDrop
  <2>1. iter'.slot = New.slot
    BY <1>4 DEF IterDrop, NoIter
  <2>2. Drained' = {}
    BY <2>1, NewInv DEF Drained
  <2>3. Abstract!DropIter
    BY <1>1, <1>2, <2>2 DEF Members, Drained, Abstract!DropIter
  <2> QED BY <2>3 DEF Abstract!Next
<1> QED BY <1>3, <1>4

\* Panics: the first array may have appeared, the elements a rehash had not
\* moved are lost, a retain stops.
LEMMA PanicsSim ==
    ASSUME IndInv, PanicInInsert \/ PanicInRehash \/ PanicInRetain
    PROVE  [Abstract!Next]_Abstract!vars
<1>1. iter' = iter /\ ret' = "panic"
  BY DEF PanicInInsert, PanicInRehash, PanicInRetain
<1>2. Drained' = Drained
  BY <1>1 DEF Drained
<1>3. CASE PanicInInsert
  <2>1. pc = "ready" /\ tab' = Allocated(1) /\ old' = old /\ 1 \in GroupCounts
    BY <1>3, GroupCountsAssumption DEF PanicInInsert, Quiet
  <2>2. Members' = {}
    BY <2>1, AllocatedInv, MembersOf
  <2> QED BY <1>1, <1>2, <2>2, PanicSim
<1>4. CASE PanicInRehash
  <2>1. tab' = tab /\ old' = New.slot
    BY <1>4 DEF PanicInRehash
  <2>2. Members' \subseteq Members
    BY <2>1, NewInv DEF Members
  <2> QED BY <1>1, <1>2, <2>2, PanicSim
<1>5. CASE PanicInRetain
  <2>1. Members' = Members
    BY <1>5 DEF PanicInRetain, Members
  <2> QED BY <1>1, <1>2, <2>1, PanicSim
<1> QED BY <1>3, <1>4, <1>5

\* Every step of the set's code is a step of the set, or invisible.
LEMMA StepSimulates ==
    ASSUME IndInv, [Next]_vars
    PROVE  [Abstract!Next]_Abstract!vars
<1>1. CASE UNCHANGED vars \/ RetainDone \/ \E k \in Key : Hang(k)
  <2>1. Members' = Members /\ Drained' = Drained /\ ret' = ret
    BY <1>1 DEF vars, RetainDone, Hang, Members, Drained
  <2> QED BY <2>1, StutterSim
<1>2. CASE Retain \/ (\E items \in OtherSets : FromIter(items)) \/ \E k \in OtherTaken : TakeOther(k)
  <2>1. Members' = Members /\ Drained' = Drained /\ ret' = NONE
    BY <1>2 DEF Retain, FromIter, TakeOther, Quiet, Members, Drained
  <2> QED BY <2>1, NoAnswerSim
<1>3. CASE \E k \in Key : HasElement(k) \/ Insert(k) \/ Take(k)
  BY <1>3, HasElementSim, InsertSim, TakeSim
<1>4. CASE \E n \in ReserveArgs : Reserve(n)
  BY <1>4, ReserveSim
<1>5. CASE ShrinkToFit \/ Clear \/ Clone \/ Drain \/ IterNext \/ IterDrop
  BY <1>5, ShrinkToFitSim, ClearSim, CloneSim, DrainSim, IterSim
<1>6. CASE RehashStep \/ RehashDone \/ RetainStep
  BY <1>6, RehashStepSim, RehashDoneSim, RetainStepSim
<1>7. CASE PanicInInsert \/ PanicInRehash \/ PanicInRetain
  BY <1>7, PanicsSim
<1> QED BY <1>1, <1>2, <1>3, <1>4, <1>5, <1>6, <1>7 DEF Next

(***************************************************************************)
(* UnorderedFlatSet is a set, for every set of elements and every hash     *)
(* function: insert, take and contains answer like one, a rehash loses or  *)
(* duplicates nothing unless the client's Hash panics in it, and drain     *)
(* hands out every element exactly once.                                   *)
(***************************************************************************)
THEOREM RefinesSet == Spec => ImplementsSet
<1>1. Init => Abstract!Init
  <2> SUFFICES ASSUME Init PROVE Abstract!Init
    OBVIOUS
  <2>1. iter.slot = New.slot
    BY DEF Init, NoIter
  <2> QED BY <2>1, NewInv DEF Init, Abstract!Init
<1> QED BY <1>1, IndInvHolds, StepSimulates, PTL DEF Spec, ImplementsSet, Abstract!Spec
=============================================================================
