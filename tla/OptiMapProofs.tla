--------------------------- MODULE OptiMapProofs ----------------------------
(***************************************************************************)
(* Proofs about OptiMap, for every set of keys, policies, group sizes and  *)
(* capacities: the table a transition builds never grows during the move,  *)
(* a map that was made to be sorted stays sorted, and the whole is a map   *)
(* (SortedMapSpec) whatever backend holds the entries.                     *)
(***************************************************************************)
EXTENDS OptiMap, FiniteSetTheorems, WellFoundedInduction, TLAPS

-----------------------------------------------------------------------------
(***************************************************************************)
(* Smallest and largest elements                                           *)
(***************************************************************************)
\* A set of natural numbers that is not empty has a smallest element.
LEMMA NatMin ==
    ASSUME NEW S \in SUBSET Nat, S # {}
    PROVE  \E x \in S : \A y \in S : x <= y
<1>1. \E x \in S : \A y \in S : ~(<<y, x>> \in OpToRel(<, Nat))
  BY NatLessThanWellFounded, WFMin, Zenon
<1>2. PICK x \in S : \A y \in S : ~(<<y, x>> \in OpToRel(<, Nat))
  BY <1>1
<1>3. ASSUME NEW y \in S PROVE x <= y
  <2>1. ~(<<y, x>> \in OpToRel(<, Nat))
    BY <1>2
  <2>2. x \in Nat /\ y \in Nat
    OBVIOUS
  <2>3. ~(y < x)
    BY <2>1, <2>2 DEF OpToRel
  <2> QED BY <2>2, <2>3
<1> QED BY <1>2, <1>3

\* Min is the smallest element when there is one.
LEMMA MinIs ==
    ASSUME NEW S, \E x \in S : \A y \in S : x <= y
    PROVE  Min(S) \in S /\ \A y \in S : Min(S) <= y
BY DEF Min

\* Max is the largest element when there is one.
LEMMA MaxIs ==
    ASSUME NEW S, \E x \in S : \A y \in S : x >= y
    PROVE  Max(S) \in S /\ \A y \in S : Max(S) >= y
BY DEF Max

\* A set of natural numbers with a bound has a largest element.
LEMMA NatMax ==
    ASSUME NEW S \in SUBSET Nat, S # {}, NEW c \in Nat, \A s \in S : s <= c
    PROVE  \E x \in S : \A y \in S : x >= y
<1> DEFINE T == {c - s : s \in S}
<1>1. T \in SUBSET Nat /\ T # {}
  <2>1. \A s \in S : s \in Nat /\ s <= c
    OBVIOUS
  <2>2. \A s \in S : c - s \in Nat
    BY <2>1
  <2> QED BY <2>2
<1> HIDE DEF T
<1>2. PICK m \in T : \A y \in T : m <= y
  BY <1>1, NatMin
<1>3. PICK x \in S : m = c - x
  BY <1>2 DEF T
<1>4. ASSUME NEW y \in S PROVE x >= y
  <2>1. c - y \in T
    BY DEF T
  <2>2. m <= c - y
    BY <1>2, <2>1
  <2>3. x \in Nat /\ y \in Nat
    OBVIOUS
  <2> QED BY <1>3, <2>2, <2>3
<1> QED BY <1>4

\* A finite set of integers that is not empty has a smallest and a largest
\* element.
LEMMA FiniteEnds ==
    ASSUME NEW S \in SUBSET Int, IsFiniteSet(S), S # {}
    PROVE  /\ \E x \in S : \A y \in S : x <= y
           /\ \E x \in S : \A y \in S : x >= y
<1> DEFINE Good(T) == /\ \E x \in T : \A y \in T : x <= y
                      /\ \E x \in T : \A y \in T : x >= y
           Bad == {n \in Nat : \E T \in SUBSET S : T # {} /\ ~Good(T) /\ Cardinality(T) = n}
<1> SUFFICES Good(S)
  OBVIOUS
<1>1. Cardinality(S) \in Nat
  BY FS_CardinalityType
<1> SUFFICES ASSUME Bad # {} PROVE FALSE
  BY <1>1
<1>2. PICK n \in Bad : \A m \in Bad : n <= m
  <2>1. Bad \in SUBSET Nat
    OBVIOUS
  <2> HIDE DEF Bad
  <2> QED BY <2>1, NatMin
<1>3. PICK T \in SUBSET S : T # {} /\ ~Good(T) /\ Cardinality(T) = n
  BY <1>2
<1>4. IsFiniteSet(T)
  BY FS_Subset
<1>5. PICK t \in T : TRUE
  BY <1>3
<1> DEFINE U == T \ {t}
<1>6. U \in SUBSET S /\ Cardinality(U) = n - 1 /\ n \in Nat
  <2>1. Cardinality(U) = n - 1
    BY <1>3, <1>4, <1>5, FS_RemoveElement
  <2> QED BY <2>1, <1>2
<1>7. Cardinality(U) \in Nat
  <2>1. IsFiniteSet(U)
    BY <1>4, FS_RemoveElement
  <2> QED BY <2>1, FS_CardinalityType
<1>8. U # {} => Good(U)
  <2> SUFFICES ASSUME U # {}, ~Good(U) PROVE FALSE
    OBVIOUS
  <2>1. Cardinality(U) \in Bad
    BY <1>6, <1>7
  <2>2. n <= Cardinality(U)
    BY <1>2, <2>1
  <2> QED BY <1>6, <2>2
<1>9. T \subseteq Int /\ t \in Int
  BY <1>5
<1>10. CASE U = {}
  <2>1. T = {t}
    BY <1>10, <1>5
  <2>2. Good(T)
    BY <2>1, <1>9
  <2> QED BY <2>2, <1>3
<1>11. CASE U # {}
  <2>1. PICK a \in U : \A y \in U : a <= y
    BY <1>8, <1>11
  <2>2. PICK b \in U : \A y \in U : b >= y
    BY <1>8, <1>11
  <2>3. a \in Int /\ b \in Int /\ a \in T /\ b \in T
    BY <1>9
  <2>4. \E x \in T : \A y \in T : x <= y
    <3>1. CASE a <= t
      <4>1. \A y \in T : a <= y
        BY <2>1, <3>1
      <4> QED BY <4>1, <2>3
    <3>2. CASE ~(a <= t)
      <4>1. \A y \in T : t <= y
        BY <2>1, <2>3, <3>2, <1>9
      <4> QED BY <4>1, <1>5
    <3> QED BY <3>1, <3>2
  <2>5. \E x \in T : \A y \in T : x >= y
    <3>1. CASE b >= t
      <4>1. \A y \in T : b >= y
        BY <2>2, <3>1
      <4> QED BY <4>1, <2>3
    <3>2. CASE ~(b >= t)
      <4>1. \A y \in T : t >= y
        BY <2>2, <2>3, <3>2, <1>9
      <4> QED BY <4>1, <1>5
    <3> QED BY <3>1, <3>2
  <2> QED BY <2>4, <2>5, <1>3
<1> QED BY <1>10, <1>11

-----------------------------------------------------------------------------
(***************************************************************************)
(* Policies and capacities                                                 *)
(***************************************************************************)
\* backend_for always names a backend, and one of the policy's own bands when
\* there are bands.
LEMMA BackendForBand ==
    ASSUME NEW p \in Policies, NEW c \in Nat
    PROVE  /\ BackendFor(p, c) \in MapType
           /\ DOMAIN p # {} => \E d \in DOMAIN p : BackendFor(p, c) = p[d]
<1> DEFINE D == DOMAIN p
           below == {d \in D : d <= c}
<1>1. D \in SUBSET Nat /\ \A d \in D : p[d] \in MapType
  BY PoliciesAssumption
<1>2. BackendFor(p, c) = IF D = {} THEN "Splitsies"
                         ELSE IF below = {} THEN p[Min(D)] ELSE p[Max(below)]
  BY DEF BackendFor
<1>3. below \in SUBSET Nat /\ below \subseteq D /\ \A d \in below : d <= c
  BY <1>1
<1>4. D # {} => Min(D) \in D
  <2> HIDE DEF D
  <2> QED BY <1>1, NatMin, MinIs
<1>5. below # {} => Max(below) \in below
  <2> HIDE DEF below
  <2> QED BY <1>3, NatMax, MaxIs
<1>6. "Splitsies" \in MapType
  BY KindsAssumption DEF MapType
<1> HIDE DEF D, below
<1>7. D # {} => \E d \in D : BackendFor(p, c) = p[d]
  <2>1. CASE below = {}
    BY <2>1, <1>2, <1>4
  <2>2. CASE below # {}
    BY <2>2, <1>2, <1>3, <1>5
  <2> QED BY <2>1, <2>2
<1>8. BackendFor(p, c) \in MapType
  BY <1>1, <1>2, <1>6, <1>7
<1> QED BY <1>7, <1>8 DEF D

\* The slots of a group of a hash backend.
LEMMA GroupSizeIs ==
    ASSUME NEW t \in HashKinds
    PROVE  GroupSize[t] \in Nat /\ GroupSize[t] >= 2
<1>1. GroupSize[t] \in Nat \ {0, 1}
  BY SizesAssumption
<1> QED BY <1>1

\* A number of groups times their size is a capacity.
LEMMA GroupsAreSlots ==
    ASSUME NEW t \in HashKinds, NEW m \in GroupCounts
    PROVE  m * GroupSize[t] \in Nat /\ m * GroupSize[t] >= 2 /\ m * GroupSize[t] >= GroupSize[t]
<1>1. PICK g \in Nat : g = GroupSize[t]
  BY GroupSizeIs
<1>2. g >= 2
  BY <1>1, GroupSizeIs
<1>3. m \in Nat /\ m >= 1
  <2>1. m \in Nat \ {0}
    BY SizesAssumption
  <2> QED BY <2>1
<1>4. m * g \in Nat /\ m * g >= g
  BY <1>2, <1>3
<1> QED BY <1>1, <1>2, <1>4

\* Seven eighths: the load limit is at most the capacity, is monotonic, takes
\* one more entry in twice the slots, and eight sevenths of n are enough for n.
LEMMA LoadLimit ==
    ASSUME NEW c \in Nat
    PROVE  /\ MaxLoad(c) \in Nat /\ MaxLoad(c) <= c
           /\ c >= 2 => MaxLoad(c) + 1 <= MaxLoad(2 * c)
           /\ c >= 2 => MaxLoad(c) >= 1
           /\ \A n \in Nat : c >= (n * 8 + 6) \div 7 => n <= MaxLoad(c)
           /\ \A n \in Nat : n <= MaxLoad(c) => c >= (n * 8 + 6) \div 7
<1>1. MaxLoad(c) \in Nat /\ MaxLoad(c) <= c
  BY DEF MaxLoad
<1>2. c >= 2 => MaxLoad(c) + 1 <= MaxLoad(2 * c)
  BY DEF MaxLoad
<1>3. c >= 2 => MaxLoad(c) >= 1
  BY DEF MaxLoad
<1>4. \A n \in Nat : c >= (n * 8 + 6) \div 7 => n <= MaxLoad(c)
  BY DEF MaxLoad
<1>5. \A n \in Nat : n <= MaxLoad(c) => c >= (n * 8 + 6) \div 7
  BY DEF MaxLoad
<1> QED BY <1>1, <1>2, <1>3, <1>4, <1>5

\* The smallest number of groups that is enough for n entries has room for n.
LEMMA CapForRoom ==
    ASSUME NEW t \in HashKinds, NEW n \in Nat, Fits(t, n)
    PROVE  /\ CapFor(t, n) \in Nat
           /\ n <= MaxLoad(CapFor(t, n))
           /\ \E m \in GroupCounts : CapFor(t, n) = m * GroupSize[t]
<1> DEFINE enough == {m \in GroupCounts : m * GroupSize[t] >= (n * 8 + 6) \div 7}
           caps == {m * GroupSize[t] : m \in enough}
<1>1. caps \in SUBSET Nat
  BY GroupsAreSlots
<1>2. caps # {}
  BY DEF Fits
<1>3. CapFor(t, n) = Min(caps)
  BY DEF CapFor
<1>4. CapFor(t, n) \in caps
  <2> HIDE DEF caps
  <2> QED BY <1>1, <1>2, <1>3, NatMin, MinIs
<1>5. PICK m \in enough : CapFor(t, n) = m * GroupSize[t]
  BY <1>4
<1>6. CapFor(t, n) \in Nat
  BY <1>1, <1>4
<1>7. CapFor(t, n) >= (n * 8 + 6) \div 7
  BY <1>5
<1> QED BY <1>5, <1>6, <1>7, LoadLimit

\* with_capacity(n) of a hash backend has room for n entries.
LEMMA BuildCapRoom ==
    ASSUME NEW t \in HashKinds, NEW n \in Nat, Fits(t, n)
    PROVE  /\ BuildCap(t, n) \in Nat
           /\ n <= MaxLoad(BuildCap(t, n))
           /\ BuildCap(t, n) = 0 \/ \E m \in GroupCounts : BuildCap(t, n) = m * GroupSize[t]
<1>1. t # Tree
  BY KindsAssumption
<1>2. CASE n = 0
  BY <1>1, <1>2, LoadLimit DEF BuildCap
<1>3. CASE n # 0
  BY <1>1, <1>3, CapForRoom DEF BuildCap
<1> QED BY <1>2, <1>3

-----------------------------------------------------------------------------
(***************************************************************************)
(* Contents                                                                *)
(***************************************************************************)
Dicts == [Key -> Value \cup {NONE}]

\* A new key adds one entry.
LEMMA PresentAdd ==
    ASSUME NEW d \in Dicts, NEW k \in Key, NEW v \in Value, IsFiniteSet(Present(d))
    PROVE  /\ [d EXCEPT ![k] = v] \in Dicts
           /\ Present([d EXCEPT ![k] = v]) = Present(d) \cup {k}
           /\ IsFiniteSet(Present([d EXCEPT ![k] = v]))
           /\ d[k] = NONE =>
                Cardinality(Present([d EXCEPT ![k] = v])) = Cardinality(Present(d)) + 1
<1>1. [d EXCEPT ![k] = v] \in Dicts
  BY DEF Dicts
<1>2. Present([d EXCEPT ![k] = v]) = Present(d) \cup {k}
  BY KeysAssumption DEF Dicts, Present
<1>3. d[k] = NONE => k \notin Present(d)
  BY DEF Present
<1> QED BY <1>1, <1>2, <1>3, FS_AddElement

\* A removal takes one entry away.
LEMMA PresentDrop ==
    ASSUME NEW d \in Dicts, NEW k \in Key, IsFiniteSet(Present(d))
    PROVE  /\ [d EXCEPT ![k] = NONE] \in Dicts
           /\ Present([d EXCEPT ![k] = NONE]) = Present(d) \ {k}
           /\ IsFiniteSet(Present([d EXCEPT ![k] = NONE]))
           /\ d[k] # NONE =>
                Cardinality(Present([d EXCEPT ![k] = NONE])) = Cardinality(Present(d)) - 1
<1>1. [d EXCEPT ![k] = NONE] \in Dicts
  BY DEF Dicts
<1>2. Present([d EXCEPT ![k] = NONE]) = Present(d) \ {k}
  BY DEF Dicts, Present
<1>3. d[k] # NONE => k \in Present(d)
  BY DEF Present
<1> QED BY <1>1, <1>2, <1>3, FS_RemoveElement

\* The empty map has no entries.
LEMMA PresentNothing ==
    /\ Nothing \in Dicts
    /\ Present(Nothing) = {}
    /\ IsFiniteSet(Present(Nothing))
    /\ Cardinality(Present(Nothing)) = 0
<1>1. Nothing \in Dicts /\ Present(Nothing) = {}
  BY DEF Nothing, Dicts, Present
<1> QED BY <1>1, FS_EmptySet

\* Only the empty map has no entries.
LEMMA NothingOnly ==
    ASSUME NEW d \in Dicts, Present(d) = {}
    PROVE  d = Nothing
BY DEF Dicts, Present, Nothing

\* The counts are numbers.
LEMMA CountsTyped ==
    ASSUME Typed
    PROVE  len \in Nat /\ Cardinality(Present(rest)) \in Nat /\ MaxLoad(cap) \in Nat
BY FS_CardinalityType, LoadLimit DEF Typed, len

-----------------------------------------------------------------------------
(***************************************************************************)
(* The backends' own steps                                                 *)
(***************************************************************************)
\* A whole number of groups of backend t.
Whole(t, c) == c = 0 \/ \E m \in GroupCounts : c = m * GroupSize[t]

\* A hash table that takes a new key, of a client's call (r = r1 = 0) or of a
\* move (r1 = r - 1), has room for the r1 entries to come.
LEMMA HashInsertRoom ==
    ASSUME Typed, kind \in HashKinds, Whole(kind, cap),
           NEW r \in Nat, NEW r1 \in Nat, (r = 0 /\ r1 = 0) \/ r = r1 + 1,
           len + r + lost <= MaxLoad(cap), len' = len + 1, HashInsert
    PROVE  /\ cap' \in Nat /\ lost' \in Nat
           /\ len' + r1 + lost' <= MaxLoad(cap')
           /\ Whole(kind, cap')
<1>1. len \in Nat /\ cap \in Nat /\ lost \in Nat /\ MaxLoad(cap) \in Nat
  BY CountsTyped DEF Typed
<1>2. CASE cap = 0 /\ cap' = GroupSize[kind] /\ lost' = 0
  <2>1. MaxLoad(cap) = 0
    BY <1>1, <1>2, LoadLimit
  <2>2. len = 0 /\ r1 = 0
    BY <1>1, <2>1
  <2>3. cap' \in Nat /\ MaxLoad(cap') >= 1 /\ MaxLoad(cap') \in Nat
    BY <1>2, GroupSizeIs, LoadLimit
  <2>4. Whole(kind, cap')
    <3>1. 1 \in GroupCounts /\ GroupSize[kind] = 1 * GroupSize[kind]
      BY GroupSizeIs, SizesAssumption
    <3> QED BY <1>2, <3>1 DEF Whole
  <2> QED BY <1>2, <2>2, <2>3, <2>4
<1>3. CASE /\ cap > 0 /\ ~Full
           /\ cap' = cap
           /\ \/ lost' = lost
              \/ kind \in Tombstoned /\ lost > 0 /\ lost' = lost - 1
  <2>1. lost' \in Nat /\ lost' <= lost
    BY <1>1, <1>3
  <2>2. len + lost < MaxLoad(cap)
    BY <1>1, <1>3 DEF Full
  <2> QED BY <1>1, <1>3, <2>1, <2>2
<1>4. CASE /\ cap > 0 /\ Full
           /\ cap' = IF kind \in Tombstoned /\ len < MaxLoad(cap) THEN cap ELSE 2 * cap
           /\ \E m \in GroupCounts : cap' = m * GroupSize[kind]
           /\ lost' = 0
  <2>1. len + lost >= MaxLoad(cap)
    BY <1>4 DEF Full
  <2>2. r = 0 /\ r1 = 0
    BY <1>1, <2>1
  <2>3. cap >= 2
    BY <1>4, GroupsAreSlots DEF Whole
  <2>4. Whole(kind, cap') /\ cap' \in Nat
    BY <1>1, <1>4 DEF Whole
  <2>5. len <= MaxLoad(cap)
    BY <1>1
  <2>6. len + 1 <= MaxLoad(cap')
    <3>1. CASE cap' = cap /\ len < MaxLoad(cap)
      BY <1>1, <3>1
    <3>2. CASE cap' = 2 * cap
      <4>1. MaxLoad(cap) + 1 <= MaxLoad(2 * cap) /\ MaxLoad(2 * cap) \in Nat
        BY <1>1, <2>3, LoadLimit
      <4> QED BY <1>1, <2>5, <3>2, <4>1
    <3> QED BY <1>4, <3>1, <3>2
  <2>7. MaxLoad(cap') \in Nat
    BY <2>4, LoadLimit
  <2> QED BY <1>1, <1>4, <2>2, <2>4, <2>6, <2>7
<1> QED BY <1>2, <1>3, <1>4 DEF HashInsert

\* What holds of the backend after a new key was stored, with r1 entries to come.
Stored(k, v, r1) ==
    /\ kind' = kind
    /\ dict' = [dict EXCEPT ![k] = v]
    /\ cap' \in Nat /\ lost' \in Nat
    /\ kind \in HashKinds => len' + r1 + lost' <= MaxLoad(cap') /\ Whole(kind, cap')
    /\ kind = Tree => len' <= cap' /\ lost' = 0

\* A backend stores a new key.
LEMMA BackendInsertStores ==
    ASSUME Typed, Room, NEW k \in Key, NEW v \in Value, dict[k] = NONE,
           NEW r1 \in Nat,
           \/ Cardinality(Present(rest)) = 0 /\ r1 = 0
           \/ Cardinality(Present(rest)) = r1 + 1,
           BackendInsert(k, v)
    PROVE  Stored(k, v, r1)
<1>1. dict' = [dict EXCEPT ![k] = v] /\ kind' = kind
  BY DEF BackendInsert
<1>2. dict \in Dicts /\ IsFiniteSet(Present(dict))
  BY DEF Typed, Dicts
<1>3. len' = len + 1
  <2>1. Cardinality(Present([dict EXCEPT ![k] = v])) = Cardinality(Present(dict)) + 1
    BY <1>2, PresentAdd
  <2> QED BY <1>1, <2>1 DEF len
<1>4. Cardinality(Present(rest)) \in Nat /\ len \in Nat
  BY CountsTyped
<1>5. CASE kind \in HashKinds /\ HashInsert
  <2>1. len + Cardinality(Present(rest)) + lost <= MaxLoad(cap) /\ Whole(kind, cap)
    BY <1>5 DEF Room, Whole
  <2>2. /\ cap' \in Nat /\ lost' \in Nat
        /\ len' + r1 + lost' <= MaxLoad(cap')
        /\ Whole(kind, cap')
    BY <1>3, <1>4, <1>5, <2>1, HashInsertRoom
  <2>3. kind # Tree
    BY <1>5, KindsAssumption
  <2> QED BY <1>1, <2>2, <2>3 DEF Stored
<1>6. CASE kind = Tree /\ TreeInsert
  <2>1. PICK n \in 0 .. MaxNewNodes :
          cap' = cap + n * LeafCap /\ len + 1 <= cap' /\ lost' = 0
    BY <1>6 DEF TreeInsert
  <2>2. n \in Nat /\ LeafCap \in Nat /\ cap \in Nat
    BY <2>1, SizesAssumption DEF Typed
  <2>3. n * LeafCap \in Nat
    BY <2>2
  <2>4. cap' \in Nat
    BY <2>1, <2>2, <2>3
  <2>5. kind \notin HashKinds
    BY <1>6, KindsAssumption
  <2> QED BY <1>1, <1>3, <2>1, <2>4, <2>5 DEF Stored
<1> QED BY <1>5, <1>6 DEF BackendInsert

\* What holds of the backend after a key was removed.
Erased(k) ==
    /\ kind' = kind
    /\ dict' = [dict EXCEPT ![k] = NONE]
    /\ cap' \in Nat /\ lost' \in Nat
    /\ kind \in HashKinds => len' + lost' <= MaxLoad(cap') /\ Whole(kind, cap')
    /\ kind = Tree => len' <= cap' /\ lost' = 0

\* A backend removes a key it holds: a tombstone takes the entry's place in the
\* load limit, and a limit that has been lowered to 0 belongs to an empty table.
LEMMA EraseKeepsRoom ==
    ASSUME Typed, Room, NEW k \in Key, dict[k] # NONE, Erase(k)
    PROVE  Erased(k)
<1>1. dict' = [dict EXCEPT ![k] = NONE] /\ kind' = kind
  BY DEF Erase
<1>2. dict \in Dicts /\ IsFiniteSet(Present(dict))
  BY DEF Typed, Dicts
<1>3. len' = len - 1
  <2>1. Cardinality(Present([dict EXCEPT ![k] = NONE])) = Cardinality(Present(dict)) - 1
    BY <1>2, PresentDrop
  <2> QED BY <1>1, <2>1 DEF len
<1>4. len' \in Nat
  <2>1. IsFiniteSet(Present(dict'))
    BY <1>1, <1>2, PresentDrop
  <2> QED BY <2>1, FS_CardinalityType DEF len
<1>5. cap \in Nat /\ lost \in Nat /\ len \in Nat /\ MaxLoad(cap) \in Nat
      /\ Cardinality(Present(rest)) \in Nat
  BY CountsTyped DEF Typed
<1>6. CASE kind \in HashKinds
  <2>1. len + lost <= MaxLoad(cap) /\ Whole(kind, cap)
    BY <1>5, <1>6 DEF Room, Whole
  <2>2. kind # Tree
    BY <1>6, KindsAssumption
  <2>3. CASE lost' = lost + 1 /\ cap' = cap
    BY <1>1, <1>3, <1>5, <2>1, <2>2, <2>3 DEF Erased
  <2>4. CASE lost' = lost /\ cap' = cap
    BY <1>1, <1>3, <1>5, <2>1, <2>2, <2>4 DEF Erased
  <2>5. CASE lost + 1 = MaxLoad(cap) /\ lost' = 0 /\ cap' = 0
    <3>1. len' = 0
      BY <1>3, <1>4, <1>5, <2>1, <2>5
    <3>2. MaxLoad(0) \in Nat
      BY LoadLimit
    <3>3. Whole(kind, cap')
      BY <2>5 DEF Whole
    <3> QED BY <1>1, <2>2, <2>5, <3>1, <3>2, <3>3 DEF Erased
  <2> QED BY <2>3, <2>4, <2>5 DEF Erase
<1>7. CASE kind = Tree
  <2>1. kind \notin HashKinds /\ kind \notin Tombstoned
    BY <1>7, KindsAssumption
  <2>2. cap' = cap /\ lost' = lost
    BY <2>1 DEF Erase
  <2>3. len <= cap /\ lost = 0
    BY <1>7 DEF Room
  <2> QED BY <1>1, <1>3, <1>5, <2>1, <2>2, <2>3 DEF Erased
<1> QED BY <1>6, <1>7 DEF Typed, MapType

-----------------------------------------------------------------------------
(***************************************************************************)
(* The invariant                                                           *)
(***************************************************************************)
\* A backend outside a transition.
Sound ==
    /\ kind \in MapType /\ cap \in Nat /\ lost \in Nat
    /\ dict \in Dicts /\ IsFiniteSet(Present(dict))
    /\ kind \in HashKinds => len + lost <= MaxLoad(cap) /\ Whole(kind, cap)
    /\ kind = Tree => len <= cap /\ lost = 0

\* Outside a transition nothing waits.
LEMMA NothingWaits ==
    ASSUME IndInv, pc # "move"
    PROVE  rest = Nothing /\ Cardinality(Present(rest)) = 0
BY PresentNothing DEF IndInv, Phases

\* The invariant says that the backend is sound when no transition runs.
LEMMA SoundNow ==
    ASSUME IndInv, pc # "move"
    PROVE  Sound
<1>1. Cardinality(Present(rest)) = 0
  BY NothingWaits
<1>2. len \in Nat /\ lost \in Nat /\ MaxLoad(cap) \in Nat
  BY CountsTyped DEF IndInv, Typed
<1>3. len + Cardinality(Present(rest)) + lost = len + lost
  BY <1>1, <1>2
<1> QED BY <1>3 DEF IndInv, Typed, Room, Sound, Dicts, Whole

\* A backend that has stored a key of a client's call is sound.
LEMMA StoredSound ==
    ASSUME IndInv, pc # "move", NEW k \in Key, NEW v \in Value, Stored(k, v, 0)
    PROVE  Sound'
<1>1. dict \in Dicts /\ IsFiniteSet(Present(dict)) /\ kind \in MapType
  BY SoundNow DEF Sound
<1>2. dict' \in Dicts /\ IsFiniteSet(Present(dict'))
  BY <1>1, PresentAdd DEF Stored
<1>3. len' \in Nat /\ lost' \in Nat /\ cap' \in Nat /\ kind' = kind
  BY <1>2, FS_CardinalityType DEF len, Stored
<1>4. len' + 0 + lost' = len' + lost'
  BY <1>3
<1>5. kind' \in HashKinds => len' + lost' <= MaxLoad(cap') /\ Whole(kind', cap')
  BY <1>3, <1>4 DEF Stored
<1>6. kind' = Tree => len' <= cap' /\ lost' = 0
  BY <1>3 DEF Stored
<1> QED BY <1>1, <1>2, <1>3, <1>5, <1>6 DEF Sound

\* A backend that has removed a key is sound.
LEMMA ErasedSound ==
    ASSUME IndInv, pc # "move", NEW k \in Key, Erased(k)
    PROVE  Sound'
<1>1. dict \in Dicts /\ IsFiniteSet(Present(dict)) /\ kind \in MapType
  BY SoundNow DEF Sound
<1>2. dict' \in Dicts /\ IsFiniteSet(Present(dict'))
  BY <1>1, PresentDrop DEF Erased
<1>3. kind' = kind
  BY DEF Erased
<1>4. kind' \in HashKinds => len' + lost' <= MaxLoad(cap') /\ Whole(kind', cap')
  BY <1>3 DEF Erased
<1>5. kind' = Tree => len' <= cap' /\ lost' = 0
  BY <1>3 DEF Erased
<1> QED BY <1>1, <1>2, <1>3, <1>4, <1>5 DEF Sound, Erased

\* A backend that is as it was is sound.
LEMMA SameSound ==
    ASSUME IndInv, pc # "move", UNCHANGED backend
    PROVE  Sound'
<1>1. Sound
  BY SoundNow
<1> QED BY <1>1 DEF Sound, backend, len

\* A map that keeps its backend, its pin and its policy stays sorted.
LEMMA SortedKept ==
    ASSUME IndInv, kind' = kind, pinned' = pinned, policy' = policy
    PROVE  MadeSorted' => kind' = Tree
BY DEF IndInv, Phases, MadeSorted

\* What a step outside a transition has to establish.
LEMMA OutsideMove ==
    ASSUME IndInv, pc # "move", Sound', rest' = rest, policy' = policy,
           pinned' \in BOOLEAN, pc' \in {"ready", "grown", "retain"},
           todo' \subseteq Present(dict'), pc' # "retain" => todo' = {},
           pc' = "grown" => ~pinned', MadeSorted' => kind' = Tree
    PROVE  IndInv'
<1>1. rest' = Nothing
  BY NothingWaits
<1>2. /\ rest' \in Dicts /\ Present(rest') = {}
      /\ IsFiniteSet(Present(rest')) /\ Cardinality(Present(rest')) = 0
  BY <1>1, PresentNothing
<1>3. Typed'
  BY <1>2 DEF Typed, Sound, Dicts, IndInv
<1>4. Room'
  <2>1. len' \in Nat /\ lost' \in Nat
    BY FS_CardinalityType DEF Sound, len
  <2>2. len' + Cardinality(Present(rest')) + lost' = len' + lost'
    BY <1>2, <2>1
  <2> QED BY <2>2 DEF Sound, Room, Whole
<1>5. Phases'
  BY <1>1, <1>2 DEF Phases
<1> QED BY <1>3, <1>4, <1>5 DEF IndInv

\* A policy's map that is made to be sorted is never sent to another backend.
LEMMA BackendForSorted ==
    ASSUME NEW p \in Policies, NEW c \in Nat,
           DOMAIN p # {}, \A d \in DOMAIN p : p[d] = Tree
    PROVE  BackendFor(p, c) = Tree
BY BackendForBand

\* transition_to begins: the new backend has room for all that is moved.
LEMMA StartMoveInv ==
    ASSUME IndInv, pc \in {"ready", "grown"}, ~pinned,
           NEW c \in Nat, NEW n \in Nat, len <= n,
           StartMove(BackendFor(policy, c), n),
           UNCHANGED <<pinned, policy, todo>>
    PROVE  IndInv'
<1> DEFINE t == BackendFor(policy, c)
<1>1. t \in MapType
  BY BackendForBand DEF IndInv, Typed
<1>2. Fits(t, n) /\ kind' = t /\ cap' = BuildCap(t, n) /\ lost' = 0
      /\ dict' = Nothing /\ rest' = dict /\ pc' = "move"
  BY DEF StartMove
<1>3. len' = 0 /\ Present(dict') = {} /\ dict' \in Dicts /\ IsFiniteSet(Present(dict'))
  BY <1>2, PresentNothing DEF len
<1>4. rest' \in Dicts /\ IsFiniteSet(Present(rest')) /\ Cardinality(Present(rest')) = len
      /\ len \in Nat
  <2>1. dict \in Dicts /\ IsFiniteSet(Present(dict)) /\ len \in Nat
    BY CountsTyped DEF IndInv, Typed, Dicts
  <2> QED BY <1>2, <2>1 DEF len
<1>5. cap' \in Nat
  <2>1. CASE t = Tree
    BY <1>2, <2>1 DEF BuildCap
  <2>2. CASE t \in HashKinds
    BY <1>2, <2>2, BuildCapRoom
  <2> QED BY <1>1, <2>1, <2>2 DEF MapType
<1>6. MadeSorted' => kind' = Tree
  <2> SUFFICES ASSUME MadeSorted' PROVE kind' = Tree
    OBVIOUS
  <2>1. DOMAIN policy # {} /\ \A d \in DOMAIN policy : policy[d] = Tree
    BY DEF MadeSorted
  <2> QED BY <1>2, <2>1, BackendForSorted DEF IndInv, Typed
<1>7. Typed'
  BY <1>1, <1>2, <1>3, <1>4, <1>5 DEF Typed, Dicts, IndInv
<1>8. Room'
  <2>1. ASSUME kind' \in HashKinds
        PROVE  len' + Cardinality(Present(rest')) + lost' <= MaxLoad(cap') /\ Whole(kind', cap')
    <3>1. n <= MaxLoad(cap') /\ Whole(kind', cap')
      BY <1>2, <2>1, BuildCapRoom DEF Whole
    <3>2. MaxLoad(cap') \in Nat
      BY <1>5, LoadLimit
    <3> QED BY <1>2, <1>3, <1>4, <3>1, <3>2
  <2>2. kind' = Tree => len' <= cap' /\ lost' = 0
    BY <1>2, <1>3, <1>5
  <2> QED BY <2>1, <2>2 DEF Room, Whole
<1>9. Phases'
  <2>1. todo = {}
    BY DEF IndInv, Phases
  <2> QED BY <1>2, <1>3, <1>6, <2>1 DEF Phases
<1> QED BY <1>7, <1>8, <1>9 DEF IndInv

-----------------------------------------------------------------------------
(***************************************************************************)
(* Every operation preserves the invariant                                 *)
(***************************************************************************)
\* What a call finds: no entry waits and no retain runs.
LEMMA Idle ==
    ASSUME IndInv, pc = "ready"
    PROVE  /\ Sound /\ todo = {} /\ pinned \in BOOLEAN
           /\ Cardinality(Present(rest)) = 0 /\ pc # "move"
           /\ len \in Nat
BY SoundNow, NothingWaits, CountsTyped DEF IndInv, Phases, Typed

\* Calls that answer and change nothing.
LEMMA ReadInv ==
    ASSUME IndInv, pc = "ready",
           UNCHANGED <<backend, pinned, policy, pc, rest, todo>>
    PROVE  IndInv'
<1>1. Sound'
  BY SameSound, Idle
<1>2. MadeSorted' => kind' = Tree
  BY SortedKept DEF backend
<1> QED BY <1>1, <1>2, Idle, OutsideMove

\* A call of a ready map that leaves it ready, with a sound backend of the
\* same kind.
LEMMA SameKindInv ==
    ASSUME IndInv, pc = "ready", Sound', kind' = kind,
           UNCHANGED <<pinned, policy, pc, rest, todo>>
    PROVE  IndInv'
<1>1. MadeSorted' => kind' = Tree
  BY SortedKept
<1> QED BY <1>1, Idle, OutsideMove

\* A value is changed in its place.
LEMMA OverwriteSound ==
    ASSUME IndInv, pc = "ready", NEW k \in Key, NEW v \in Value, dict[k] # NONE,
           dict' = [dict EXCEPT ![k] = v], UNCHANGED <<kind, cap, lost>>
    PROVE  Sound'
<1>1. Sound
  BY Idle
<1>2. dict' \in Dicts /\ Present(dict') = Present(dict) \cup {k}
  BY <1>1, PresentAdd DEF Sound
<1>3. Present(dict') = Present(dict)
  BY <1>2 DEF Present
<1> QED BY <1>1, <1>2, <1>3 DEF Sound, len

\* insert, which puts an entry in place or starts to grow.
LEMMA InsertInv ==
    ASSUME IndInv, NEW k \in Key, NEW v \in Value, Insert(k, v)
    PROVE  IndInv'
<1>1. pc = "ready" /\ UNCHANGED <<pinned, policy, rest, todo>>
  BY DEF Insert
<1>2. CASE dict[k] # NONE
  <2>1. dict' = [dict EXCEPT ![k] = v] /\ UNCHANGED <<kind, cap, lost, pc>>
    BY <1>2 DEF Insert
  <2>2. Sound'
    BY <1>1, <1>2, <2>1, OverwriteSound
  <2> QED BY <1>1, <2>1, <2>2, SameKindInv
<1>3. CASE dict[k] = NONE
  <2>1. BackendInsert(k, v) /\ pc' = IF ~pinned /\ cap' # cap THEN "grown" ELSE "ready"
    BY <1>3 DEF Insert
  <2>2. Stored(k, v, 0)
    BY <1>1, <1>3, <2>1, Idle, BackendInsertStores DEF IndInv
  <2>3. Sound' /\ kind' = kind
    BY <1>1, <2>2, Idle, StoredSound DEF Stored
  <2>4. MadeSorted' => kind' = Tree
    BY <1>1, <2>3, SortedKept
  <2>5. todo' = {} /\ pinned' \in BOOLEAN
    BY <1>1, Idle
  <2>6. pc' \in {"ready", "grown"} /\ (pc' = "grown" => ~pinned')
    BY <1>1, <2>1
  <2> QED BY <1>1, <2>3, <2>4, <2>5, <2>6, OutsideMove
<1> QED BY <1>2, <1>3

\* try_insert and the vacant entry, which grow without asking the policy.
LEMMA TryInsertInv ==
    ASSUME IndInv, NEW k \in Key, NEW v \in Value, TryInsert(k, v)
    PROVE  IndInv'
<1>1. pc = "ready" /\ UNCHANGED <<pinned, policy, pc, rest, todo>>
  BY DEF TryInsert
<1>2. CASE dict[k] # NONE
  BY <1>1, <1>2, ReadInv DEF TryInsert
<1>3. CASE dict[k] = NONE
  <2>1. BackendInsert(k, v)
    BY <1>3 DEF TryInsert
  <2>2. Stored(k, v, 0)
    BY <1>1, <1>3, <2>1, Idle, BackendInsertStores DEF IndInv
  <2>3. Sound' /\ kind' = kind
    BY <1>1, <2>2, Idle, StoredSound DEF Stored
  <2> QED BY <1>1, <2>3, SameKindInv
<1> QED BY <1>2, <1>3

\* A write through a reference changes a value, never a key.
LEMMA GetMutInv ==
    ASSUME IndInv, NEW k \in Key, NEW v \in Value, GetMut(k, v)
    PROVE  IndInv'
<1>1. pc = "ready" /\ UNCHANGED <<pinned, policy, pc, rest, todo>> /\ kind' = kind
  BY DEF GetMut
<1>2. Sound'
  BY OverwriteSound DEF GetMut
<1> QED BY <1>1, <1>2, SameKindInv

\* remove, which may cost the backend some of its limit.
LEMMA RemoveInv ==
    ASSUME IndInv, NEW k \in Key, Remove(k)
    PROVE  IndInv'
<1>1. pc = "ready" /\ UNCHANGED <<pinned, policy, pc, rest, todo>>
  BY DEF Remove
<1>2. CASE dict[k] = NONE
  BY <1>1, <1>2, ReadInv DEF Remove
<1>3. CASE dict[k] # NONE
  <2>1. Erased(k)
    BY <1>3, EraseKeepsRoom DEF IndInv, Remove
  <2>2. Sound' /\ kind' = kind
    BY <1>1, <2>1, Idle, ErasedSound DEF Erased
  <2> QED BY <1>1, <2>2, SameKindInv
<1> QED BY <1>2, <1>3

\* The policy is asked for the capacity the backend has grown to, which is at
\* least the number of entries.
LEMMA AfterGrowInv ==
    ASSUME IndInv, AfterGrow
    PROVE  IndInv'
<1>1. pc = "grown" /\ UNCHANGED <<pinned, policy, todo>> /\ ~pinned /\ todo = {}
  BY DEF AfterGrow, IndInv, Phases
<1>2. CASE BackendFor(policy, cap) = kind /\ pc' = "ready" /\ UNCHANGED <<backend, rest>>
  <2>1. Sound' /\ kind' = kind
    BY <1>1, <1>2, SameSound DEF backend
  <2>2. MadeSorted' => kind' = Tree
    BY <1>1, <2>1, SortedKept
  <2> QED BY <1>1, <1>2, <2>1, <2>2, OutsideMove DEF IndInv, Typed
<1>3. CASE StartMove(BackendFor(policy, cap), cap)
  <2>1. cap \in Nat /\ len \in Nat /\ lost \in Nat /\ MaxLoad(cap) <= cap /\ MaxLoad(cap) \in Nat
    BY CountsTyped, LoadLimit DEF IndInv, Typed
  <2>2. len <= cap
    <3>1. Sound
      BY <1>1, SoundNow
    <3>2. CASE kind = Tree
      BY <3>1, <3>2 DEF Sound
    <3>3. CASE kind \in HashKinds
      <4>1. len + lost <= MaxLoad(cap)
        BY <3>1, <3>3 DEF Sound
      <4> QED BY <2>1, <4>1
    <3> QED BY <3>1, <3>2, <3>3 DEF Sound, MapType
  <2> QED BY <1>1, <1>3, <2>1, <2>2, StartMoveInv
<1> QED BY <1>2, <1>3 DEF AfterGrow

\* One entry moves from the old backend to the new one.
LEMMA MoveStepInv ==
    ASSUME IndInv, MoveStep
    PROVE  IndInv'
<1>1. pc = "move" /\ UNCHANGED <<pinned, policy, pc, todo>>
  BY DEF MoveStep
<1>2. PICK k \in Present(rest) : BackendInsert(k, rest[k]) /\ rest' = [rest EXCEPT ![k] = NONE]
  BY DEF MoveStep
<1>3. rest \in Dicts /\ dict \in Dicts /\ IsFiniteSet(Present(rest)) /\ IsFiniteSet(Present(dict))
      /\ kind \in MapType /\ policy \in Policies /\ pinned \in BOOLEAN
  BY DEF IndInv, Typed, Dicts
<1>4. k \in Key /\ rest[k] # NONE /\ rest[k] \in Value
  BY <1>3 DEF Present, Dicts
<1>5. dict[k] = NONE
  BY <1>2, <1>4 DEF IndInv, Phases, Present
<1>6. /\ rest' \in Dicts /\ IsFiniteSet(Present(rest'))
      /\ Present(rest') = Present(rest) \ {k}
      /\ Cardinality(Present(rest')) = Cardinality(Present(rest)) - 1
  BY <1>2, <1>3, <1>4, PresentDrop
<1>7. PICK r1 : r1 = Cardinality(Present(rest'))
  OBVIOUS
<1>8. r1 \in Nat /\ Cardinality(Present(rest)) = r1 + 1
  <2>1. Cardinality(Present(rest)) \in Nat /\ Cardinality(Present(rest')) \in Nat
    BY <1>3, <1>6, FS_CardinalityType
  <2> QED BY <1>6, <1>7, <2>1
<1>9. Stored(k, rest[k], r1)
  BY <1>2, <1>4, <1>5, <1>8, BackendInsertStores DEF IndInv
<1>10. /\ dict' \in Dicts /\ IsFiniteSet(Present(dict'))
       /\ Present(dict') = Present(dict) \cup {k}
  BY <1>3, <1>4, <1>9, PresentAdd DEF Stored
<1>11. kind' = kind /\ cap' \in Nat /\ lost' \in Nat
  BY <1>9 DEF Stored
<1>12. Typed'
  BY <1>1, <1>3, <1>6, <1>10, <1>11 DEF Typed, Dicts
<1>13. Room'
  <2>1. kind' \in HashKinds => len' + Cardinality(Present(rest')) + lost' <= MaxLoad(cap')
    BY <1>7, <1>9, <1>11 DEF Stored
  <2>2. kind' \in HashKinds => cap' = 0 \/ \E m \in GroupCounts : cap' = m * GroupSize[kind']
    BY <1>9, <1>11 DEF Stored, Whole
  <2>3. kind' = Tree => len' <= cap' /\ lost' = 0
    BY <1>9, <1>11 DEF Stored
  <2> QED BY <2>1, <2>2, <2>3 DEF Room
<1>14. Phases'
  <2>1. MadeSorted' => kind' = Tree
    BY <1>1, <1>11, SortedKept
  <2>2. Present(dict') \cap Present(rest') = {}
    BY <1>6, <1>10 DEF IndInv, Phases
  <2>3. todo' = {}
    BY <1>1 DEF IndInv, Phases
  <2> QED BY <1>1, <2>1, <2>2, <2>3 DEF Phases
<1> QED BY <1>12, <1>13, <1>14 DEF IndInv

\* The move is over when nothing waits any more.
LEMMA MoveDoneInv ==
    ASSUME IndInv, MoveDone
    PROVE  IndInv'
<1>1. rest = Nothing
  BY NothingOnly DEF MoveDone, IndInv, Typed, Dicts
<1>2. Typed' /\ Room'
  BY DEF MoveDone, IndInv, Typed, Room, backend, len
<1>3. MadeSorted' => kind' = Tree
  BY SortedKept DEF MoveDone, backend
<1>4. Phases'
  <2>1. pc' = "ready" /\ rest' = Nothing /\ dict' = dict /\ todo' = todo /\ pc = "move"
    BY <1>1 DEF MoveDone, backend
  <2> QED BY <1>1, <1>3, <2>1 DEF IndInv, Phases
<1> QED BY <1>2, <1>4 DEF IndInv

\* A table of a capacity that was computed for n entries, or more.
LEMMA SizedSound ==
    ASSUME IndInv, pc = "ready", kind \in HashKinds, NEW n \in Nat, len <= n,
           Fits(kind, n), cap' = CapFor(kind, n), lost' = 0, UNCHANGED <<kind, dict>>
    PROVE  Sound'
<1>1. Sound /\ len \in Nat
  BY Idle
<1>2. cap' \in Nat /\ n <= MaxLoad(cap') /\ Whole(kind, cap')
  BY CapForRoom DEF Whole
<1>3. MaxLoad(cap') \in Nat
  BY <1>2, LoadLimit
<1>4. len' = len
  BY DEF len
<1>5. len' + lost' <= MaxLoad(cap')
  BY <1>1, <1>2, <1>3, <1>4
<1>6. kind # Tree
  BY KindsAssumption
<1> QED BY <1>1, <1>2, <1>5, <1>6 DEF Sound

\* reserve: the backend the policy names, or the present one, grown.
LEMMA ReserveInv ==
    ASSUME IndInv, NEW n \in ReserveArgs, Reserve(n)
    PROVE  IndInv'
<1>1. pc = "ready" /\ UNCHANGED <<pinned, policy, todo>>
  BY DEF Reserve
<1>2. len \in Nat /\ n \in Nat
  BY <1>1, Idle, SizesAssumption
<1>3. len + n \in Nat /\ len <= len + n
  BY <1>2
<1>4. CASE ~pinned /\ StartMove(BackendFor(policy, len + n), len + n)
  BY <1>1, <1>3, <1>4, StartMoveInv
<1>5. CASE BackendReserve(n)
  <2>1. kind \in HashKinds /\ Fits(kind, len + n) /\ cap' = CapFor(kind, len + n)
        /\ lost' = 0 /\ UNCHANGED <<kind, dict, pc, rest>>
    BY <1>5 DEF BackendReserve
  <2>2. Sound'
    BY <1>1, <1>3, <2>1, SizedSound
  <2> QED BY <1>1, <2>1, <2>2, SameKindInv
<1> QED BY <1>4, <1>5 DEF Reserve

\* An emptied backend is sound.
LEMMA EmptySound ==
    ASSUME IndInv, pc = "ready", NEW c \in Nat,
           kind \in HashKinds => Whole(kind, c), Empty(c)
    PROVE  Sound'
<1>1. dict' = Nothing /\ cap' = c /\ lost' = 0 /\ kind' = kind
  BY DEF Empty
<1>2. len' = 0 /\ dict' \in Dicts /\ IsFiniteSet(Present(dict'))
  BY <1>1, PresentNothing DEF len
<1>3. MaxLoad(cap') \in Nat
  BY <1>1, LoadLimit
<1>4. kind \in MapType
  BY Idle DEF Sound
<1> QED BY <1>1, <1>2, <1>3, <1>4 DEF Sound

\* shrink_to_fit rebuilds the backend for what it holds.
LEMMA ShrinkToFitInv ==
    ASSUME IndInv, ShrinkToFit
    PROVE  IndInv'
<1>1. pc = "ready" /\ UNCHANGED <<pinned, policy, pc, rest, todo>>
  BY DEF ShrinkToFit
<1>2. Sound /\ len \in Nat
  BY <1>1, Idle
<1>3. cap \in Nat /\ lost \in Nat /\ MaxLoad(cap) \in Nat
  BY <1>2, LoadLimit DEF Sound
<1>4. CASE len = 0 /\ Empty(0)
  <2>1. Sound' /\ kind' = kind
    BY <1>1, <1>4, EmptySound DEF Empty, Whole
  <2> QED BY <1>1, <2>1, SameKindInv
<1>5. CASE /\ len > 0 /\ kind \in HashKinds
           /\ cap' = CapFor(kind, len) /\ lost' = 0 /\ UNCHANGED <<kind, dict>>
  <2>1. len + lost <= MaxLoad(cap) /\ Whole(kind, cap)
    BY <1>2, <1>5 DEF Sound
  <2>2. len <= MaxLoad(cap)
    BY <1>2, <1>3, <2>1
  <2>3. cap >= (len * 8 + 6) \div 7
    BY <1>2, <1>3, <2>2, LoadLimit
  <2>4. cap # 0
    BY <1>2, <1>3, <1>5, <2>2, LoadLimit
  <2>5. Fits(kind, len)
    BY <2>1, <2>3, <2>4 DEF Whole, Fits
  <2>6. Sound'
    BY <1>1, <1>2, <1>5, <2>5, SizedSound
  <2> QED BY <1>1, <1>5, <2>6, SameKindInv
<1>6. CASE /\ kind = Tree /\ UNCHANGED <<kind, dict, lost>>
           /\ \E n \in 1 .. MaxNodes : len <= n * LeafCap /\ cap' = n * LeafCap
  <2>1. PICK n \in 1 .. MaxNodes : len <= n * LeafCap /\ cap' = n * LeafCap
    BY <1>6
  <2>2. n \in Nat /\ LeafCap \in Nat
    BY SizesAssumption
  <2>3. n * LeafCap \in Nat
    BY <2>2
  <2>4. cap' \in Nat /\ len' <= cap' /\ kind \notin HashKinds
    BY <1>6, <2>1, <2>3, KindsAssumption DEF len
  <2>5. Sound'
    BY <1>2, <1>6, <2>4 DEF Sound
  <2> QED BY <1>1, <1>6, <2>5, SameKindInv
<1> QED BY <1>4, <1>5, <1>6 DEF ShrinkToFit

\* clear and drain leave an empty backend of the same kind.
LEMMA ClearInv ==
    ASSUME IndInv, Clear \/ Drain
    PROVE  IndInv'
<1>1. pc = "ready" /\ UNCHANGED <<pinned, policy, pc, rest, todo>>
  BY DEF Clear, Drain
<1>2. PICK c \in {0, cap} : Empty(c)
  BY DEF Clear, Drain
<1>3. c \in Nat /\ (kind \in HashKinds => Whole(kind, c))
  BY <1>1, <1>2, Idle DEF Sound, Whole
<1>4. Sound' /\ kind' = kind
  BY <1>1, <1>2, <1>3, EmptySound DEF Empty
<1> QED BY <1>1, <1>4, SameKindInv

\* retain begins with every key to be visited.
LEMMA RetainInv ==
    ASSUME IndInv, Retain
    PROVE  IndInv'
<1>1. pc = "ready" /\ pc' = "retain" /\ UNCHANGED <<backend, pinned, policy, rest>>
      /\ todo' = Present(dict)
  BY DEF Retain
<1>2. Sound' /\ kind' = kind /\ dict' = dict
  BY <1>1, SameSound DEF backend
<1>3. MadeSorted' => kind' = Tree
  BY <1>1, <1>2, SortedKept
<1> QED BY <1>1, <1>2, <1>3, Idle, OutsideMove

\* retain keeps an entry or removes it.
LEMMA RetainStepInv ==
    ASSUME IndInv, RetainStep
    PROVE  IndInv'
<1>1. pc = "retain" /\ UNCHANGED <<pinned, policy, pc, rest>>
  BY DEF RetainStep
<1>2. PICK k \in todo :
        /\ todo' = todo \ {k}
        /\ \/ UNCHANGED backend
           \/ kind \in HashKinds /\ Erase(k)
           \/ kind = Tree /\ dict' = [dict EXCEPT ![k] = NONE] /\ UNCHANGED <<kind, cap, lost>>
  BY DEF RetainStep
<1>3. todo \subseteq Present(dict) /\ pinned \in BOOLEAN
  BY DEF IndInv, Phases, Typed
<1>4. k \in Key /\ dict[k] # NONE
  BY <1>2, <1>3 DEF Present
<1>5. Sound /\ pc # "move"
  BY <1>1, SoundNow
<1>6. Present([dict EXCEPT ![k] = NONE]) = Present(dict) \ {k}
  BY <1>4, <1>5, PresentDrop DEF Sound
<1>7. Sound' /\ kind' = kind /\ (dict' = dict \/ dict' = [dict EXCEPT ![k] = NONE])
  <2>1. CASE UNCHANGED backend
    BY <1>5, <2>1, SameSound DEF backend
  <2>2. CASE kind \in HashKinds /\ Erase(k)
    <3>1. Erased(k)
      BY <1>4, <2>2, EraseKeepsRoom DEF IndInv
    <3> QED BY <1>4, <1>5, <3>1, ErasedSound DEF Erased
  <2>3. CASE kind = Tree /\ dict' = [dict EXCEPT ![k] = NONE] /\ UNCHANGED <<kind, cap, lost>>
    <3>1. Erase(k)
      BY <2>3, KindsAssumption DEF Erase
    <3>2. Erased(k)
      BY <1>4, <3>1, EraseKeepsRoom DEF IndInv
    <3> QED BY <1>4, <1>5, <3>2, ErasedSound DEF Erased
  <2> QED BY <1>2, <2>1, <2>2, <2>3
<1>8. todo' \subseteq Present(dict')
  BY <1>2, <1>3, <1>6, <1>7
<1>9. MadeSorted' => kind' = Tree
  BY <1>1, <1>7, SortedKept
<1> QED BY <1>1, <1>3, <1>5, <1>7, <1>8, <1>9, OutsideMove

\* retain ends when every key has been visited.
LEMMA RetainDoneInv ==
    ASSUME IndInv, RetainDone
    PROVE  IndInv'
<1>1. pc = "retain" /\ pc' = "ready" /\ todo = {}
      /\ UNCHANGED <<kind, lost, dict, pinned, policy, rest, todo>>
  BY DEF RetainDone
<1>2. Sound /\ pinned \in BOOLEAN
  BY <1>1, SoundNow DEF IndInv, Typed
<1>3. cap' = cap \/ (kind = Tree /\ len = 0 /\ cap' = 0)
  <2>1. cap' = IF kind = Tree /\ len = 0 THEN 0 ELSE cap
    BY DEF RetainDone
  <2> QED BY <2>1
<1>4. Sound'
  <2>1. len' = len
    BY <1>1 DEF len
  <2>2. CASE cap' = cap
    BY <1>1, <1>2, <2>1, <2>2 DEF Sound
  <2>3. CASE kind = Tree /\ len = 0 /\ cap' = 0
    BY <1>1, <1>2, <2>1, <2>3, KindsAssumption DEF Sound
  <2> QED BY <1>3, <2>2, <2>3
<1>5. MadeSorted' => kind' = Tree
  BY <1>1, SortedKept
<1> QED BY <1>1, <1>2, <1>4, <1>5, OutsideMove

\* The end of a tree that is not empty is one of its keys, and no key is
\* beyond it.
LEMMA EndKeyIs ==
    ASSUME IndInv, pc = "ready", len # 0, NEW low \in BOOLEAN
    PROVE  /\ EndKey(low) \in Present(dict)
           /\ \A j \in Present(dict) : IF low THEN EndKey(low) <= j ELSE j <= EndKey(low)
<1>1. IsFiniteSet(Present(dict))
  BY Idle DEF Sound
<1>2. Present(dict) # {}
  BY FS_EmptySet DEF len
<1>3. Present(dict) \in SUBSET Int
  BY KeysAssumption DEF Present
<1>4. PICK S : S = Present(dict)
  OBVIOUS
<1>5. Min(S) \in S /\ \A y \in S : Min(S) <= y
  BY <1>1, <1>2, <1>3, <1>4, FiniteEnds, MinIs
<1>6. Max(S) \in S /\ \A y \in S : Max(S) >= y
  BY <1>1, <1>2, <1>3, <1>4, FiniteEnds, MaxIs
<1>7. \A y \in S : y <= Max(S)
  BY <1>3, <1>4, <1>6
<1>8. EndKey(low) = IF low THEN Min(S) ELSE Max(S)
  BY <1>4 DEF EndKey
<1> QED BY <1>4, <1>5, <1>6, <1>7, <1>8

\* pop_first and pop_last remove one entry of a tree.
LEMMA PopFirstInv ==
    ASSUME IndInv, NEW low \in BOOLEAN, PopFirst(low)
    PROVE  IndInv'
<1>1. pc = "ready" /\ kind = Tree /\ kind' = Tree /\ UNCHANGED <<pinned, policy, pc, rest, todo>>
  BY DEF PopFirst, SortedIdle
<1>2. CASE len = 0 /\ UNCHANGED <<cap, lost, dict>>
  BY <1>1, <1>2, ReadInv DEF backend
<1>3. CASE len > 0 /\ Erase(EndKey(low))
  <2>1. len # 0
    BY <1>3, <1>1, Idle
  <2>2. EndKey(low) \in Present(dict)
    BY <1>1, <2>1, EndKeyIs
  <2>3. PICK k : k = EndKey(low)
    OBVIOUS
  <2>4. k \in Key /\ dict[k] # NONE /\ Erase(k)
    BY <1>3, <2>2, <2>3 DEF Present
  <2>5. Erased(k)
    BY <2>4, EraseKeepsRoom DEF IndInv
  <2>6. Sound'
    BY <1>1, <2>4, <2>5, Idle, ErasedSound
  <2> QED BY <1>1, <2>6, SameKindInv
<1> QED BY <1>2, <1>3 DEF PopFirst

\* A new tree is sound.
LEMMA NewTreeSound ==
    ASSUME NEW d \in Dicts, IsFiniteSet(Present(d)), NewTree(d), kind' = Tree
    PROVE  Sound'
<1>1. dict' = d /\ lost' = 0 /\ cap' \in TreeCaps(Cardinality(Present(d)))
  BY DEF NewTree
<1>2. PICK m \in 0 .. MaxNodes : cap' = m * LeafCap /\ Cardinality(Present(d)) <= cap'
  BY <1>1 DEF TreeCaps
<1>3. m \in Nat /\ LeafCap \in Nat
  BY SizesAssumption
<1>4. m * LeafCap \in Nat
  BY <1>3
<1>5. len' <= cap' /\ cap' \in Nat
  BY <1>1, <1>2, <1>4 DEF len
<1>6. kind' \notin HashKinds /\ kind' \in MapType
  BY KindsAssumption DEF MapType
<1> QED BY <1>1, <1>5, <1>6 DEF Sound

\* A part of a finite map is a finite map.
LEMMA PartFinite ==
    ASSUME NEW d \in Dicts, IsFiniteSet(Present(d)), NEW e \in Dicts,
           \A k \in Key : e[k] # NONE => d[k] # NONE
    PROVE  IsFiniteSet(Present(e))
<1>1. Present(e) \in SUBSET Present(d)
  BY DEF Present
<1> QED BY <1>1, FS_Subset

\* The two halves of split_off.
Below(d, at) == [k \in Key |-> IF k < at THEN d[k] ELSE NONE]
NotBelow(d, at) == [k \in Key |-> IF k < at THEN NONE ELSE d[k]]

\* Each half is a finite map.
LEMMA HalvesFinite ==
    ASSUME NEW d \in Dicts, IsFiniteSet(Present(d)), NEW at \in Key
    PROVE  /\ Below(d, at) \in Dicts /\ IsFiniteSet(Present(Below(d, at)))
           /\ NotBelow(d, at) \in Dicts /\ IsFiniteSet(Present(NotBelow(d, at)))
<1>1. Below(d, at) \in Dicts /\ NotBelow(d, at) \in Dicts
  BY DEF Dicts, Below, NotBelow
<1>2. /\ \A k \in Key : Below(d, at)[k] # NONE => d[k] # NONE
      /\ \A k \in Key : NotBelow(d, at)[k] # NONE => d[k] # NONE
  BY DEF Below, NotBelow
<1> QED BY <1>1, <1>2, PartFinite

\* The new tree takes the place of a sorted one, pinned or as it was.
LEMMA NewTreeInv ==
    ASSUME IndInv, pc = "ready", NEW d \in Dicts, IsFiniteSet(Present(d)), NewTree(d),
           kind' = Tree, pinned' \in BOOLEAN, UNCHANGED <<policy, pc, rest, todo>>
    PROVE  IndInv'
<1>1. Sound'
  BY NewTreeSound
<1> QED BY <1>1, Idle, OutsideMove

\* split_off leaves either half in a tree.
LEMMA SplitOffInv ==
    ASSUME IndInv, NEW at \in Key, SplitOff(at)
    PROVE  IndInv'
<1>1. pc = "ready" /\ kind' = Tree /\ UNCHANGED <<policy, pc, rest, todo>>
  BY DEF SplitOff, SortedIdle
<1>2. dict \in Dicts /\ IsFiniteSet(Present(dict)) /\ pinned \in BOOLEAN
  BY <1>1, Idle DEF Sound
<1>3. \/ NewTree(Below(dict, at)) /\ pinned' = pinned
      \/ NewTree(NotBelow(dict, at)) /\ pinned' = TRUE
  BY DEF SplitOff, Below, NotBelow
<1>4. CASE NewTree(Below(dict, at)) /\ pinned' = pinned
  BY <1>1, <1>2, <1>4, HalvesFinite, NewTreeInv
<1>5. CASE NewTree(NotBelow(dict, at)) /\ pinned' = TRUE
  BY <1>1, <1>2, <1>5, HalvesFinite, NewTreeInv
<1> QED BY <1>3, <1>4, <1>5

\* The union of two maps in which the first one wins.
Over(d, e) == [k \in Key |-> IF d[k] # NONE THEN d[k] ELSE e[k]]

\* It is a finite map.
LEMMA OverFinite ==
    ASSUME NEW d \in Dicts, IsFiniteSet(Present(d)),
           NEW e \in Dicts, IsFiniteSet(Present(e))
    PROVE  Over(d, e) \in Dicts /\ IsFiniteSet(Present(Over(d, e)))
<1>1. Over(d, e) \in Dicts
  BY DEF Dicts, Over
<1>2. Present(Over(d, e)) = Present(d) \cup Present(e)
  BY DEF Present, Over
<1> QED BY <1>1, <1>2, FS_Union

\* The other maps a call may be given are finite maps.
LEMMA OthersFinite ==
    ASSUME NEW o \in Others
    PROVE  /\ o.dict \in Dicts /\ IsFiniteSet(Present(o.dict))
           /\ o.sorted \in BOOLEAN /\ (o.sorted => o.kind = Tree)
BY OthersAssumption DEF Dicts, Present

\* append takes in the entries of another map.
LEMMA AppendMapInv ==
    ASSUME IndInv, NEW o \in Others, AppendMap(o)
    PROVE  IndInv'
<1> DEFINE d == o.dict
<1>1. pc = "ready" /\ kind = Tree /\ kind' = Tree /\ UNCHANGED <<pinned, policy, pc, rest, todo>>
  BY DEF AppendMap, SortedIdle
<1>2. CASE UNCHANGED <<cap, lost, dict>>
  BY <1>1, <1>2, ReadInv DEF backend
<1>3. CASE NewTree(Over(d, dict))
  <2>1. Over(d, dict) \in Dicts /\ IsFiniteSet(Present(Over(d, dict))) /\ pinned \in BOOLEAN
    BY <1>1, Idle, OthersFinite, OverFinite DEF Sound
  <2> QED BY <1>1, <1>3, <2>1, NewTreeInv
<1> QED BY <1>2, <1>3 DEF AppendMap, Over

\* from_sorted_iter makes a tree of the given entries.
LEMMA FromSortedIterInv ==
    ASSUME IndInv, NEW o \in Others, FromSortedIter(o.dict)
    PROVE  IndInv'
BY OthersFinite, NewTreeInv DEF FromSortedIter

\* A clone has the backend, the policy and the entries of the original.
LEMMA CloneInv ==
    ASSUME IndInv, Clone
    PROVE  IndInv'
<1>1. pc = "ready" /\ UNCHANGED <<kind, lost, dict, pinned, policy, pc, rest, todo>>
      /\ (cap' = cap \/ (kind = Tree /\ len = 0 /\ cap' = 0))
  BY DEF Clone
<1>2. Sound
  BY <1>1, Idle
<1>3. Sound'
  <2>1. len' = len
    BY <1>1 DEF len
  <2>2. CASE cap' = cap
    BY <1>1, <1>2, <2>1, <2>2 DEF Sound
  <2>3. CASE kind = Tree /\ len = 0 /\ cap' = 0
    BY <1>1, <1>2, <2>1, <2>3, KindsAssumption DEF Sound
  <2> QED BY <1>1, <2>2, <2>3
<1> QED BY <1>1, <1>3, SameKindInv

\* Every initial map satisfies the invariant.
LEMMA InitInv ==
    ASSUME Init
    PROVE  IndInv
<1>1. PICK n \in StartCaps : /\ kind \in IF pinned THEN MapType ELSE {BackendFor(policy, n)}
                             /\ Fits(kind, n) /\ cap = BuildCap(kind, n)
  BY DEF Init
<1>2. n \in Nat
  BY SizesAssumption
<1>3. /\ policy \in Policies /\ pinned \in BOOLEAN /\ lost = 0 /\ dict = Nothing
      /\ pc = "ready" /\ rest = Nothing /\ todo = {}
  BY DEF Init
<1>4. kind \in MapType /\ (MadeSorted => kind = Tree)
  <2>1. CASE pinned
    BY <1>1, <2>1 DEF MadeSorted
  <2>2. CASE ~pinned
    BY <1>1, <1>2, <1>3, <2>2, BackendForBand, BackendForSorted DEF MadeSorted
  <2> QED BY <2>1, <2>2
<1>5. /\ dict \in Dicts /\ Present(dict) = {} /\ IsFiniteSet(Present(dict)) /\ len = 0
      /\ rest \in Dicts /\ Present(rest) = {} /\ IsFiniteSet(Present(rest))
      /\ Cardinality(Present(rest)) = 0
  BY <1>3, PresentNothing DEF len
<1>6. cap \in Nat /\ (kind \in HashKinds => Whole(kind, cap)) /\ MaxLoad(cap) \in Nat
  <2>1. CASE kind \in HashKinds
    BY <1>1, <1>2, <2>1, BuildCapRoom, LoadLimit DEF Whole
  <2>2. CASE kind = Tree
    BY <1>1, <2>2, KindsAssumption, LoadLimit DEF BuildCap
  <2> QED BY <1>4, <2>1, <2>2 DEF MapType
<1>7. Typed
  BY <1>3, <1>4, <1>5, <1>6 DEF Typed, Dicts
<1>8. Room
  BY <1>3, <1>5, <1>6 DEF Room, Whole
<1>9. Phases
  BY <1>3, <1>4, <1>5 DEF Phases
<1> QED BY <1>7, <1>8, <1>9 DEF IndInv

\* Every step preserves the invariant.
LEMMA StepInv ==
    ASSUME IndInv, [Next]_vars
    PROVE  IndInv'
<1>1. CASE UNCHANGED vars
  <2>1. UNCHANGED <<kind, cap, lost, dict, pinned, policy, pc, rest, todo>>
    BY <1>1 DEF vars, backend
  <2> QED BY <2>1 DEF IndInv, Typed, Room, Phases, MadeSorted, len
<1>2. ASSUME NEW k \in Key, Get(k) PROVE IndInv'
  BY <1>2, ReadInv DEF Get
<1>3. ASSUME NEW low \in BOOLEAN, FirstKeyValue(low) PROVE IndInv'
  BY <1>3, ReadInv DEF FirstKeyValue, SortedIdle, backend
<1>4. CASE NotFlatBTree
  BY <1>4, ReadInv DEF NotFlatBTree
<1>5. ASSUME NEW o \in Others, Eq(o.dict) \/ AppendPanics(o) PROVE IndInv'
  BY <1>5, ReadInv DEF Eq, AppendPanics
<1>6. CASE Call
  BY <1>2, <1>3, <1>4, <1>5, <1>6, RemoveInv, InsertInv, TryInsertInv, GetMutInv,
     ReserveInv, ShrinkToFitInv, ClearInv, RetainInv, CloneInv, PopFirstInv, SplitOffInv,
     AppendMapInv, FromSortedIterInv DEF Call
<1>7. CASE LoopStep
  BY <1>7, AfterGrowInv, MoveStepInv, MoveDoneInv, RetainStepInv, RetainDoneInv DEF LoopStep
<1> QED BY <1>1, <1>6, <1>7 DEF Next

\* The inductive invariant holds in every reachable state.
THEOREM IndInvHolds == Spec => []IndInv
BY InitInv, StepInv, PTL DEF Spec

\* The table a transition builds never grows while the entries are moved: what
\* insert and reserve hand to transition_to is always enough, for every policy,
\* group size and set of capacities.
THEOREM TransitionsFit == Spec => []TransitionHasRoom
<1>1. IndInv => TransitionHasRoom
  <2> SUFFICES ASSUME IndInv, pc = "move", kind \in HashKinds
               PROVE  len + Cardinality(Present(rest)) + lost <= MaxLoad(cap)
    BY DEF TransitionHasRoom
  <2> QED BY DEF IndInv, Room
<1> QED BY <1>1, IndInvHolds, PTL

-----------------------------------------------------------------------------
(***************************************************************************)
(* An OptiMap is a map                                                     *)
(***************************************************************************)
\* Outside a transition the backend has all entries.
LEMMA ContentsIs ==
    ASSUME IndInv, pc # "move"
    PROVE  Contents = dict
<1>1. dict \in Dicts /\ rest = Nothing
  BY NothingWaits DEF IndInv, Typed, Dicts
<1>2. \A k \in Key : (IF dict[k] # NONE THEN dict[k] ELSE rest[k]) = dict[k]
  BY <1>1 DEF Nothing
<1> QED BY <1>1, <1>2 DEF Contents, Dicts

\* And so it has after a step.
LEMMA ContentsNext ==
    ASSUME IndInv', pc' # "move"
    PROVE  Contents' = dict'
<1>1. dict' \in Dicts /\ rest' = Nothing
  BY DEF IndInv, Phases, Typed, Dicts
<1>2. \A k \in Key : (IF dict'[k] # NONE THEN dict'[k] ELSE rest'[k]) = dict'[k]
  BY <1>1 DEF Nothing
<1> QED BY <1>1, <1>2 DEF Contents, Dicts

\* A step of the map that is no sorted call.
LEMMA MapCallSim ==
    ASSUME pc = "ready", pc' # "retain", MadeSorted' = MadeSorted, Map!Call
    PROVE  Map!SortedNext
BY DEF Map!SortedNext, Map!Next

\* A sorted call.
LEMMA SortedCallSim ==
    ASSUME pc = "ready", pc' # "retain", Map!SortedCall
    PROVE  Map!SortedNext
BY DEF Map!SortedNext

\* A step the client cannot see.
LEMMA StutterSim ==
    ASSUME Contents' = Contents, ret' = ret, (pc' = "retain") = (pc = "retain"),
           MadeSorted' = MadeSorted
    PROVE  UNCHANGED Map!sortedVars
BY DEF Map!sortedVars, Map!vars

\* A map that keeps its backend, its pin and its policy is as sorted as it was.
LEMMA SameSorted ==
    ASSUME kind' = kind, pinned' = pinned, policy' = policy
    PROVE  MadeSorted' = MadeSorted
BY DEF MadeSorted

\* get answers with the value stored for the key.
LEMMA GetSim ==
    ASSUME IndInv, IndInv', NEW k \in Key, Get(k)
    PROVE  Map!SortedNext
<1>1. pc = "ready" /\ pc' = "ready" /\ ret' = dict[k] /\ dict' = dict /\ kind' = kind
      /\ pinned' = pinned /\ policy' = policy
  BY DEF Get, backend
<1>2. Contents = dict /\ Contents' = dict'
  BY <1>1, ContentsIs, ContentsNext
<1>3. Map!Get(k)
  BY <1>1, <1>2 DEF Map!Get
<1>4. Map!Call
  BY <1>3 DEF Map!Call
<1> QED BY <1>1, <1>4, SameSorted, MapCallSim

\* insert, and every way to change a value in its place.
LEMMA InsertSim ==
    ASSUME IndInv, IndInv', NEW k \in Key, NEW v \in Value, Insert(k, v) \/ GetMut(k, v)
    PROVE  Map!SortedNext
<1>1. pc = "ready" /\ pc' \in {"ready", "grown"} /\ ret' = dict[k]
      /\ dict' = [dict EXCEPT ![k] = v]
      /\ kind' = kind /\ pinned' = pinned /\ policy' = policy
  BY DEF Insert, GetMut, BackendInsert
<1>2. Contents = dict /\ Contents' = dict'
  BY <1>1, ContentsIs, ContentsNext
<1>3. Map!Insert(k, v)
  BY <1>1, <1>2 DEF Map!Insert
<1>4. Map!Call
  BY <1>3 DEF Map!Call
<1> QED BY <1>1, <1>4, SameSorted, MapCallSim

\* try_insert answers as the map does, or grows first.
LEMMA TryInsertSim ==
    ASSUME IndInv, IndInv', NEW k \in Key, NEW v \in Value, TryInsert(k, v)
    PROVE  Map!SortedNext
<1>1. pc = "ready" /\ pc' = "ready"
      /\ kind' = kind /\ pinned' = pinned /\ policy' = policy
  BY DEF TryInsert, BackendInsert, backend
<1>2. Contents = dict /\ Contents' = dict'
  BY <1>1, ContentsIs, ContentsNext
<1>3. \/ dict[k] = NONE /\ ret' = NONE /\ dict' = [dict EXCEPT ![k] = v]
      \/ dict[k] # NONE /\ ret' = v /\ dict' = dict
  BY DEF TryInsert, BackendInsert, backend
<1>4. Map!TryInsert(k, v)
  BY <1>2, <1>3 DEF Map!TryInsert
<1>5. Map!Call
  BY <1>4 DEF Map!Call
<1> QED BY <1>1, <1>5, SameSorted, MapCallSim

\* remove takes the entry out and answers with its value.
LEMMA RemoveSim ==
    ASSUME IndInv, IndInv', NEW k \in Key, Remove(k)
    PROVE  Map!SortedNext
<1>1. pc = "ready" /\ pc' = "ready" /\ ret' = dict[k]
      /\ kind' = kind /\ pinned' = pinned /\ policy' = policy
  BY DEF Remove, Erase, backend
<1>2. Contents = dict /\ Contents' = dict'
  BY <1>1, ContentsIs, ContentsNext
<1>3. dict' = [dict EXCEPT ![k] = NONE]
  <2>1. CASE dict[k] # NONE
    BY <2>1 DEF Remove, Erase
  <2>2. CASE dict[k] = NONE
    <3>1. dict' = dict
      BY <2>2 DEF Remove, backend
    <3>2. dict \in [Key -> Value \cup {NONE}]
      BY DEF IndInv, Typed
    <3> QED BY <2>2, <3>1, <3>2
  <2> QED BY <2>1, <2>2
<1>4. Map!Remove(k)
  BY <1>1, <1>2, <1>3 DEF Map!Remove
<1>5. Map!Call
  BY <1>4 DEF Map!Call
<1> QED BY <1>1, <1>5, SameSorted, MapCallSim

\* clear, drain, and shrink_to_fit of an empty map.
LEMMA ClearSim ==
    ASSUME IndInv, IndInv', pc = "ready", NEW c, Empty(c),
           UNCHANGED <<pinned, policy, pc, rest, todo, ret>>
    PROVE  Map!SortedNext
<1>1. dict' = Nothing /\ kind' = kind
  BY DEF Empty
<1>2. Contents' = dict'
  BY ContentsIs, ContentsNext
<1>3. Map!Clear
  BY <1>1, <1>2 DEF Map!Clear, Nothing
<1>4. Map!Call
  BY <1>3 DEF Map!Call
<1> QED BY <1>1, <1>4, SameSorted, MapCallSim

\* A step that leaves the entries and the client's view alone.
LEMMA SameDictSim ==
    ASSUME IndInv, IndInv', pc \in {"ready", "grown"}, pc' \in {"ready", "grown"},
           UNCHANGED <<kind, dict, pinned, policy, ret>>
    PROVE  UNCHANGED Map!sortedVars
<1>1. Contents' = Contents
  BY ContentsIs, ContentsNext
<1> QED BY <1>1, SameSorted, StutterSim

\* transition_to begins: the entries wait, none is lost.
LEMMA StartMoveSim ==
    ASSUME IndInv, IndInv', pc \in {"ready", "grown"}, ~pinned, NEW t, NEW n,
           StartMove(t, n), UNCHANGED <<pinned, policy, ret>>
    PROVE  UNCHANGED Map!sortedVars
<1>1. dict' = Nothing /\ rest' = dict /\ pc' = "move"
  BY DEF StartMove
<1>2. dict \in [Key -> Value \cup {NONE}] /\ Contents = dict
  BY ContentsIs DEF IndInv, Typed
<1>3. Contents' = dict
  <2>1. Contents' = [k \in Key |-> IF dict'[k] # NONE THEN dict'[k] ELSE rest'[k]]
    BY DEF Contents
  <2>2. \A k \in Key : dict'[k] = NONE
    BY <1>1 DEF Nothing
  <2>3. Contents' = [k \in Key |-> dict[k]]
    BY <1>1, <2>1, <2>2
  <2> QED BY <1>2, <2>3
<1>4. MadeSorted' = MadeSorted
  BY DEF MadeSorted
<1> QED BY <1>1, <1>2, <1>3, <1>4, StutterSim

\* reserve changes nothing the client sees.
LEMMA ReserveSim ==
    ASSUME IndInv, IndInv', NEW n, Reserve(n)
    PROVE  UNCHANGED Map!sortedVars
<1>1. pc = "ready" /\ UNCHANGED <<pinned, policy, ret>>
  BY DEF Reserve
<1>2. CASE ~pinned /\ StartMove(BackendFor(policy, len + n), len + n)
  BY <1>1, <1>2, StartMoveSim
<1>3. CASE BackendReserve(n)
  BY <1>1, <1>3, SameDictSim DEF BackendReserve
<1> QED BY <1>2, <1>3 DEF Reserve

\* shrink_to_fit changes nothing the client sees.
LEMMA ShrinkToFitSim ==
    ASSUME IndInv, IndInv', ShrinkToFit
    PROVE  [Map!SortedNext]_Map!sortedVars
<1>1. pc = "ready" /\ UNCHANGED <<pinned, policy, pc, rest, todo, ret>>
  BY DEF ShrinkToFit
<1>2. CASE Empty(0)
  BY <1>1, <1>2, ClearSim
<1>3. CASE UNCHANGED <<kind, dict>>
  BY <1>1, <1>3, SameDictSim
<1> QED BY <1>2, <1>3 DEF ShrinkToFit

\* clear and drain.
LEMMA ClearDrainSim ==
    ASSUME IndInv, IndInv', Clear \/ Drain
    PROVE  Map!SortedNext
<1>1. pc = "ready" /\ UNCHANGED <<pinned, policy, pc, rest, todo, ret>>
  BY DEF Clear, Drain
<1>2. PICK c : Empty(c)
  BY DEF Clear, Drain
<1> QED BY <1>1, <1>2, ClearSim

\* The decision after a grow: keep the backend or begin a transition. The client sees nothing.
LEMMA AfterGrowSim ==
    ASSUME IndInv, IndInv', AfterGrow
    PROVE  UNCHANGED Map!sortedVars
<1>1. pc = "grown" /\ ~pinned /\ UNCHANGED <<pinned, policy, ret>>
  BY DEF AfterGrow, IndInv, Phases
<1>2. CASE pc' = "ready" /\ UNCHANGED backend
  BY <1>1, <1>2, SameDictSim DEF backend
<1>3. CASE StartMove(BackendFor(policy, cap), cap)
  BY <1>1, <1>3, StartMoveSim
<1> QED BY <1>2, <1>3 DEF AfterGrow

\* An entry is either in the old backend or in the new one.
LEMMA MoveStepSim ==
    ASSUME IndInv, IndInv', MoveStep
    PROVE  UNCHANGED Map!sortedVars
<1>1. pc = "move" /\ UNCHANGED <<pinned, policy, pc, ret>>
  BY DEF MoveStep
<1>2. PICK k \in Present(rest) : BackendInsert(k, rest[k]) /\ rest' = [rest EXCEPT ![k] = NONE]
  BY DEF MoveStep
<1>3. rest \in Dicts /\ dict \in Dicts
  BY DEF IndInv, Typed, Dicts
<1>4. k \in Key /\ rest[k] # NONE /\ dict[k] = NONE
  BY <1>2 DEF IndInv, Phases, Present
<1>5. dict' = [dict EXCEPT ![k] = rest[k]] /\ kind' = kind
  BY <1>2 DEF BackendInsert
<1>6. \A j \in Key : (IF dict'[j] # NONE THEN dict'[j] ELSE rest'[j])
                     = (IF dict[j] # NONE THEN dict[j] ELSE rest[j])
  BY <1>2, <1>3, <1>4, <1>5 DEF Dicts
<1>7. Contents' = Contents
  BY <1>6 DEF Contents
<1>8. MadeSorted' = MadeSorted
  BY <1>1, <1>5, SameSorted
<1> QED BY <1>1, <1>7, <1>8, StutterSim

\* The end of a transition: the client sees nothing.
LEMMA MoveDoneSim ==
    ASSUME IndInv, IndInv', MoveDone
    PROVE  UNCHANGED Map!sortedVars
<1>1. Contents' = Contents /\ ret' = ret /\ pc = "move" /\ pc' = "ready"
  BY DEF MoveDone, Contents, backend
<1>2. MadeSorted' = MadeSorted
  BY SameSorted DEF MoveDone, backend
<1> QED BY <1>1, <1>2, StutterSim

\* A retain begins or ends.
LEMMA RetainSim ==
    ASSUME IndInv, IndInv', Retain \/ RetainDone
    PROVE  Map!SortedNext
<1>1. UNCHANGED <<kind, dict, pinned, policy, ret>>
  BY DEF Retain, RetainDone, backend
<1>2. (pc = "ready" /\ pc' = "retain") \/ (pc = "retain" /\ pc' = "ready")
  BY DEF Retain, RetainDone
<1>3. Contents = dict /\ Contents' = dict'
  BY <1>2, ContentsIs, ContentsNext
<1>4. (pc' = "retain") = ~(pc = "retain")
  BY <1>2
<1>5. Map!Retain
  BY <1>1, <1>3, <1>4 DEF Map!Retain
<1>6. MadeSorted' = MadeSorted
  BY <1>1, SameSorted
<1> QED BY <1>5, <1>6 DEF Map!SortedNext, Map!Next

\* retain rejects one entry or keeps it.
LEMMA RetainStepSim ==
    ASSUME IndInv, IndInv', RetainStep
    PROVE  [Map!SortedNext]_Map!sortedVars
<1>1. pc = "retain" /\ pc' = "retain" /\ UNCHANGED <<pinned, policy, ret>>
  BY DEF RetainStep
<1>2. Contents = dict /\ Contents' = dict'
  BY <1>1, ContentsIs, ContentsNext
<1>3. PICK k \in todo : /\ kind' = kind
                        /\ dict' = dict \/ dict' = [dict EXCEPT ![k] = NONE]
  BY DEF RetainStep, Erase, backend
<1>4. k \in Key
  BY DEF IndInv, Phases, Present
<1>5. MadeSorted' = MadeSorted
  BY <1>1, <1>3, SameSorted
<1>6. CASE dict' = dict
  BY <1>1, <1>2, <1>5, <1>6, StutterSim
<1>7. CASE dict' = [dict EXCEPT ![k] = NONE]
  <2>1. Map!Discard(k)
    BY <1>1, <1>2, <1>7 DEF Map!Discard
  <2> QED BY <1>4, <1>5, <2>1 DEF Map!SortedNext, Map!Next
<1> QED BY <1>3, <1>6, <1>7

\* What a sorted call finds and leaves.
LEMMA SortedIdleIs ==
    ASSUME IndInv, IndInv', SortedIdle
    PROVE  /\ pc = "ready" /\ pc' = "ready" /\ kind' = kind /\ policy' = policy /\ kind = Tree
           /\ Contents = dict /\ Contents' = dict'
           /\ Map!Keys = Present(dict)
           /\ len = 0 <=> Present(dict) = {}
           /\ len \in Nat
<1>1. pc = "ready" /\ pc' = "ready" /\ kind' = kind /\ policy' = policy /\ kind = Tree
  BY DEF SortedIdle
<1>2. Contents = dict /\ Contents' = dict'
  BY <1>1, ContentsIs, ContentsNext
<1>3. Map!Keys = Present(dict)
  BY <1>2 DEF Map!Keys, Present
<1>4. (len = 0 <=> Present(dict) = {}) /\ len \in Nat
  BY <1>1, Idle, FS_EmptySet DEF len, Sound
<1> QED BY <1>1, <1>2, <1>3, <1>4

\* The key EndKey chooses is the map's first or last one.
LEMMA EndKeyAtEnd ==
    ASSUME IndInv, IndInv', SortedIdle, len # 0, NEW low \in BOOLEAN
    PROVE  EndKey(low) \in Map!Keys /\ Map!AtEnd(EndKey(low), low)
<1>1. pc = "ready" /\ Map!Keys = Present(dict)
  BY SortedIdleIs
<1>2. /\ EndKey(low) \in Present(dict)
      /\ \A j \in Present(dict) : IF low THEN EndKey(low) <= j ELSE j <= EndKey(low)
  BY <1>1, EndKeyIs
<1> QED BY <1>1, <1>2 DEF Map!AtEnd

\* first_key_value and last_key_value answer by the order of the keys.
LEMMA FirstKeyValueSim ==
    ASSUME IndInv, IndInv', NEW low \in BOOLEAN, FirstKeyValue(low)
    PROVE  Map!SortedNext
<1>1. SortedIdle /\ dict' = dict /\ pinned' = pinned
      /\ ret' = IF len = 0 THEN NONE ELSE dict[EndKey(low)]
  BY DEF FirstKeyValue
<1>2. /\ pc = "ready" /\ pc' = "ready" /\ kind' = kind /\ policy' = policy
      /\ Contents = dict /\ Contents' = dict' /\ Map!Keys = Present(dict)
      /\ len = 0 <=> Present(dict) = {}
  BY <1>1, SortedIdleIs
<1>3. MadeSorted' = MadeSorted
  BY <1>1, <1>2, SameSorted
<1>4. Map!First(low)
  <2>1. CASE len = 0
    BY <1>1, <1>2, <1>3, <2>1 DEF Map!First
  <2>2. CASE len # 0
    <3>1. EndKey(low) \in Map!Keys /\ Map!AtEnd(EndKey(low), low)
      BY <1>1, <2>2, EndKeyAtEnd
    <3>2. ret' = Contents[EndKey(low)]
      BY <1>1, <1>2, <2>2
    <3> QED BY <1>1, <1>2, <1>3, <3>1, <3>2 DEF Map!First
  <2> QED BY <2>1, <2>2
<1>5. Map!SortedCall
  BY <1>4 DEF Map!SortedCall
<1> QED BY <1>2, <1>5, SortedCallSim

\* pop_first and pop_last take out the least and the greatest key.
LEMMA PopFirstSim ==
    ASSUME IndInv, IndInv', NEW low \in BOOLEAN, PopFirst(low)
    PROVE  Map!SortedNext
<1>1. SortedIdle /\ pinned' = pinned
  BY DEF PopFirst
<1>2. /\ pc = "ready" /\ pc' = "ready" /\ kind' = kind /\ policy' = policy
      /\ Contents = dict /\ Contents' = dict' /\ Map!Keys = Present(dict)
      /\ len = 0 <=> Present(dict) = {}
      /\ len \in Nat
  BY <1>1, SortedIdleIs
<1>3. MadeSorted' = MadeSorted
  BY <1>1, <1>2, SameSorted
<1>4. Map!Pop(low)
  <2>1. CASE len = 0 /\ ret' = NONE /\ UNCHANGED <<cap, lost, dict>>
    BY <1>2, <1>3, <2>1 DEF Map!Pop
  <2>2. CASE len > 0 /\ ret' = dict[EndKey(low)] /\ Erase(EndKey(low))
    <3>1. len # 0
      BY <1>2, <2>2
    <3>2. EndKey(low) \in Map!Keys /\ Map!AtEnd(EndKey(low), low)
      BY <1>1, <3>1, EndKeyAtEnd
    <3>3. dict' = [dict EXCEPT ![EndKey(low)] = NONE]
      BY <2>2 DEF Erase
    <3>4. Map!Remove(EndKey(low))
      BY <1>2, <2>2, <3>3 DEF Map!Remove
    <3> QED BY <1>3, <3>2, <3>4 DEF Map!Pop
  <2> QED BY <2>1, <2>2 DEF PopFirst
<1>5. Map!SortedCall
  BY <1>4 DEF Map!SortedCall
<1> QED BY <1>2, <1>5, SortedCallSim

\* split_off leaves the keys on one side of the given one.
LEMMA SplitOffSim ==
    ASSUME IndInv, IndInv', NEW at \in Key, SplitOff(at)
    PROVE  Map!SortedNext
<1>1. SortedIdle
  BY DEF SplitOff
<1>2. /\ pc = "ready" /\ pc' = "ready" /\ kind' = kind /\ policy' = policy /\ kind = Tree
      /\ Contents = dict /\ Contents' = dict'
  BY <1>1, SortedIdleIs
<1>3. ret' = NONE
  BY DEF SplitOff, NewTree
<1>4. CASE NewTree([k \in Key |-> IF k < at THEN dict[k] ELSE NONE]) /\ UNCHANGED pinned
  <2>1. MadeSorted' = MadeSorted
    BY <1>2, <1>4, SameSorted
  <2>2. Contents' = [k \in Key |-> IF k < at THEN Contents[k] ELSE NONE]
    BY <1>2, <1>4 DEF NewTree
  <2>3. Map!SplitOff(at)
    BY <1>3, <2>1, <2>2 DEF Map!SplitOff
  <2> QED BY <1>2, <2>3, SortedCallSim DEF Map!SortedCall
<1>5. CASE NewTree([k \in Key |-> IF k < at THEN NONE ELSE dict[k]]) /\ pinned' = TRUE
  <2>1. MadeSorted' = TRUE
    BY <1>2, <1>5 DEF MadeSorted
  <2>2. Contents' = [k \in Key |-> IF k < at THEN NONE ELSE Contents[k]]
    BY <1>2, <1>5 DEF NewTree
  <2>3. Map!SplitOff(at)
    BY <1>3, <2>1, <2>2 DEF Map!SplitOff
  <2> QED BY <1>2, <2>3, SortedCallSim DEF Map!SortedCall
<1> QED BY <1>4, <1>5 DEF SplitOff

\* append overwrites by the entries of the other map.
LEMMA AppendMapSim ==
    ASSUME IndInv, IndInv', NEW o \in Others, AppendMap(o)
    PROVE  Map!SortedNext
<1> DEFINE d == o.dict
<1>1. SortedIdle /\ pinned' = pinned /\ ret' = NONE
  BY DEF AppendMap, NewTree
<1>2. /\ pc = "ready" /\ pc' = "ready" /\ kind' = kind /\ policy' = policy
      /\ Contents = dict /\ Contents' = dict'
  BY <1>1, SortedIdleIs
<1>3. MadeSorted' = MadeSorted
  BY <1>1, <1>2, SameSorted
<1>4. dict' = [k \in Key |-> IF d[k] # NONE THEN d[k] ELSE dict[k]]
  <2>1. CASE Present(d) = {} /\ UNCHANGED <<cap, lost, dict>>
    <3>1. \A k \in Key : d[k] = NONE
      BY <2>1 DEF Present
    <3>2. dict \in [Key -> Value \cup {NONE}]
      BY DEF IndInv, Typed
    <3>3. dict = [k \in Key |-> dict[k]]
      BY <3>2
    <3>4. [k \in Key |-> IF d[k] # NONE THEN d[k] ELSE dict[k]] = [k \in Key |-> dict[k]]
      BY <3>1
    <3> QED BY <2>1, <3>3, <3>4
  <2>2. CASE NewTree([k \in Key |-> IF d[k] # NONE THEN d[k] ELSE dict[k]])
    BY <2>2 DEF NewTree
  <2> QED BY <2>1, <2>2 DEF AppendMap
<1>5. Map!AppendAll(d)
  BY <1>1, <1>2, <1>3, <1>4 DEF Map!AppendAll
<1>6. d \in [Key -> Value \cup {NONE}]
  BY OthersFinite DEF Dicts
<1>7. Map!SortedCall
  BY <1>5, <1>6 DEF Map!SortedCall
<1> QED BY <1>2, <1>7, SortedCallSim

\* from_sorted_iter: the map holds exactly the given entries.
LEMMA FromSortedIterSim ==
    ASSUME IndInv, IndInv', NEW o \in Others, FromSortedIter(o.dict)
    PROVE  Map!SortedNext
<1> DEFINE d == o.dict
<1>1. pc = "ready" /\ pc' = "ready" /\ len = 0 /\ kind' = Tree /\ pinned' = TRUE
      /\ dict' = d /\ ret' = NONE
  BY DEF FromSortedIter, NewTree
<1>2. Contents = dict /\ Contents' = dict'
  BY <1>1, ContentsIs, ContentsNext
<1>3. Map!Keys = {}
  <2>1. Present(dict) = {}
    BY <1>1, Idle, FS_EmptySet DEF len, Sound
  <2> QED BY <1>2, <2>1 DEF Map!Keys, Present
<1>4. MadeSorted' = TRUE
  BY <1>1 DEF MadeSorted
<1>5. Map!FromSorted(d)
  BY <1>1, <1>2, <1>3, <1>4 DEF Map!FromSorted
<1>6. d \in [Key -> Value \cup {NONE}]
  BY OthersFinite DEF Dicts
<1>7. Map!SortedCall
  BY <1>5, <1>6 DEF Map!SortedCall
<1> QED BY <1>1, <1>7, SortedCallSim

\* The same number of entries, and all of the first in the second: the same map.
LEMMA EqIsEquality ==
    ASSUME NEW d \in Dicts, NEW e \in Dicts, IsFiniteSet(Present(d)), IsFiniteSet(Present(e))
    PROVE  d = e <=> /\ Cardinality(Present(d)) = Cardinality(Present(e))
                     /\ \A k \in Present(d) : e[k] = d[k]
<1> SUFFICES ASSUME Cardinality(Present(d)) = Cardinality(Present(e)),
                    \A k \in Present(d) : e[k] = d[k]
             PROVE  d = e
  OBVIOUS
<1>1. Present(d) \in SUBSET Present(e)
  BY DEF Present
<1>2. Present(d) = Present(e)
  BY <1>1, FS_Subset
<1>3. \A k \in Key : d[k] = e[k]
  BY <1>2 DEF Present
<1> QED BY <1>3 DEF Dicts

\* == compares contents, not backends.
LEMMA EqSim ==
    ASSUME IndInv, IndInv', NEW o \in Others, Eq(o.dict)
    PROVE  Map!SortedNext
<1> DEFINE d == o.dict
<1>1. pc = "ready" /\ pc' = "ready" /\ UNCHANGED <<kind, dict, pinned, policy>>
      /\ ret' = IF /\ len = Cardinality(Present(d))
                   /\ \A k \in Present(dict) : d[k] = dict[k]
                THEN "equal" ELSE "different"
  BY DEF Eq, backend
<1>2. Contents = dict /\ Contents' = dict'
  BY <1>1, ContentsIs, ContentsNext
<1>3. d \in Dicts /\ IsFiniteSet(Present(d)) /\ dict \in Dicts /\ IsFiniteSet(Present(dict))
  BY <1>1, Idle, OthersFinite DEF Sound
<1>4. dict = d <=> /\ len = Cardinality(Present(d))
                   /\ \A k \in Present(dict) : d[k] = dict[k]
  BY <1>3, EqIsEquality DEF len
<1>5. MadeSorted' = MadeSorted
  BY <1>1, SameSorted
<1>6. Map!Equals(d)
  BY <1>1, <1>2, <1>4, <1>5 DEF Map!Equals
<1>7. Map!SortedCall
  BY <1>3, <1>6 DEF Map!SortedCall, Dicts
<1> QED BY <1>1, <1>7, SortedCallSim

\* Only a map that was not made to be sorted panics.
LEMMA NotFlatBTreeSim ==
    ASSUME IndInv, IndInv', NotFlatBTree
    PROVE  Map!SortedNext
<1>1. pc = "ready" /\ pc' = "ready" /\ kind # Tree /\ ret' = "panic"
      /\ UNCHANGED <<kind, dict, pinned, policy>>
  BY DEF NotFlatBTree, backend
<1>2. Contents = dict /\ Contents' = dict'
  BY <1>1, ContentsIs, ContentsNext
<1>3. ~MadeSorted /\ MadeSorted' = MadeSorted
  BY <1>1, SameSorted DEF IndInv, Phases
<1>4. Map!Refuse
  BY <1>1, <1>2, <1>3 DEF Map!Refuse
<1> QED BY <1>1, <1>4, SortedCallSim DEF Map!SortedCall

\* A panic of append is put down to a map that was not made to be sorted: to
\* the other one, or else to self, which is then not in a tree.
LEMMA AppendPanicsSim ==
    ASSUME IndInv, IndInv', NEW o \in Others, AppendPanics(o)
    PROVE  Map!SortedNext
<1>1. pc = "ready" /\ pc' = "ready" /\ (kind # Tree \/ o.kind # Tree)
      /\ ret' = (IF o.sorted THEN "panic" ELSE "other_panic")
      /\ UNCHANGED <<kind, dict, pinned, policy>>
  BY DEF AppendPanics, backend
<1>2. Contents = dict /\ Contents' = dict'
  BY <1>1, ContentsIs, ContentsNext
<1>3. MadeSorted' = MadeSorted
  BY <1>1, SameSorted
<1>4. CASE o.sorted
  <2>1. ~MadeSorted
    BY <1>1, <1>4, OthersFinite DEF IndInv, Phases
  <2>2. Map!Refuse
    BY <1>1, <1>2, <1>3, <1>4, <2>1 DEF Map!Refuse
  <2> QED BY <1>1, <2>2, SortedCallSim DEF Map!SortedCall
<1>5. CASE ~o.sorted
  <2>1. Map!RefuseOther
    BY <1>1, <1>2, <1>3, <1>5 DEF Map!RefuseOther
  <2> QED BY <1>1, <2>1, SortedCallSim DEF Map!SortedCall
<1> QED BY <1>4, <1>5

\* Every step of an OptiMap is a step of the map, or invisible.
LEMMA StepSimulates ==
    ASSUME IndInv, IndInv', [Next]_vars
    PROVE  [Map!SortedNext]_Map!sortedVars
<1>1. CASE UNCHANGED vars
  <2>1. Contents' = Contents /\ ret' = ret /\ pc' = pc
    BY <1>1 DEF vars, backend, Contents
  <2>2. MadeSorted' = MadeSorted
    BY <1>1, SameSorted DEF vars, backend
  <2> QED BY <2>1, <2>2, StutterSim
<1>2. CASE Clone
  BY <1>2, SameDictSim DEF Clone
<1>3. CASE Call
  BY <1>2, <1>3, GetSim, RemoveSim, InsertSim, TryInsertSim, ReserveSim, ShrinkToFitSim,
     ClearDrainSim, RetainSim, FirstKeyValueSim, PopFirstSim, SplitOffSim, AppendMapSim,
     FromSortedIterSim, EqSim, NotFlatBTreeSim, AppendPanicsSim DEF Call
<1>4. CASE LoopStep
  BY <1>4, AfterGrowSim, MoveStepSim, MoveDoneSim, RetainStepSim, RetainSim DEF LoopStep
<1> QED BY <1>1, <1>3, <1>4 DEF Next

\* An OptiMap is a map, for every set of keys and every policy: no transition
\* loses, duplicates or resurrects an entry, first, last and split_off answer
\* by the order of the keys, == compares contents, and a map that was made to
\* be sorted refuses no sorted call but an append of a map that was not.
THEOREM RefinesMap == Spec => ImplementsMap
<1>1. Init => Map!Init /\ MadeSorted \in BOOLEAN
  <2> SUFFICES ASSUME Init PROVE Map!Init /\ MadeSorted \in BOOLEAN
    OBVIOUS
  <2>1. Contents = [k \in Key |-> NONE]
    BY DEF Init, Contents, Nothing
  <2>2. MadeSorted \in BOOLEAN
    BY DEF MadeSorted, Init
  <2>3. (pc = "retain") = FALSE
    BY DEF Init
  <2> QED BY <2>1, <2>2, <2>3 DEF Init, Map!Init
<1> QED BY <1>1, IndInvHolds, StepSimulates, PTL DEF Spec, ImplementsMap, Map!SortedSpec
=============================================================================
