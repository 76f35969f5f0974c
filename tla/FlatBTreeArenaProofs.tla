------------------------ MODULE FlatBTreeArenaProofs -------------------------
(*****************************************************************************)
(* The invariant of one tree of FlatBTree.tla, as a value t, and the writes  *)
(* to its arena that keep it.  A ghost g gives every node a level and a      *)
(* range of keys: Arena says that the arena and its free list are in order,  *)
(* TreeInv that parents, levels, ranges, separators, the leaf chain and the  *)
(* length agree.  The writes are allocation, insertion into a leaf, the      *)
(* split of a leaf and of an internal node, a new root, the entry of a       *)
(* separator and a child into a parent, the merge of two siblings and the    *)
(* move of entries from one to the other; each is described by what it       *)
(* writes and shown to keep TreeInv.                                         *)
(*****************************************************************************)
EXTENDS FlatBTree, FiniteSetTheorems, SequenceTheorems, WellFoundedInduction, TLAPS

\* A node of the arena.
NodeRec == [keys : Seq(Key), vals : Seq(Value), kids : Seq(Int),
            parent : Int, prev : Int, next : Int]

\* Numbers below and above every key.
Least == CHOOSE b \in Int : \A k \in Key : b < k
Greatest == CHOOSE b \in Int : Least < b /\ \A k \in Key : k < b

\* The arena is typed, and the nodes in use and the free list share out the
\* indices below the high-water mark.
Arena(t) ==
    /\ t = [node |-> t.node, free |-> t.free, hi |-> t.hi, root |-> t.root,
            first |-> t.first, last |-> t.last, len |-> t.len, height |-> t.height]
    /\ t.node \in [DOMAIN t.node -> NodeRec]
    /\ t.hi \in Nat /\ t.root \in Int /\ t.first \in Int /\ t.last \in Int
    /\ t.height \in Nat
    /\ DOMAIN t.node \subseteq 0 .. t.hi - 1
    /\ t.free \in Seq(Int) /\ IsInjective(t.free)
    /\ ToSet(t.free) = (0 .. t.hi - 1) \ DOMAIN t.node

\* Leaves are at level 0.
LevelOf(g, n, r) == g.lev[n] \in Nat /\ (g.lev[n] = 0 <=> r.kids = <<>>)

\* Node c hangs from n.
KidOf(t, g, O, n, c) ==
    c \in DOMAIN t.node /\ c \notin O /\ t.node[c].parent = n /\ g.lev[c] = g.lev[n] - 1

\* Node n is among the kids of its parent.
Placed(t, n) ==
    LET p == t.node[n].parent IN
    p \in DOMAIN t.node /\ \E i \in 1 .. Len(t.node[p].kids) : t.node[p].kids[i] = n

\* Node n, its kids and its parent agree.  The nodes in O have no parent yet.
Hangs(t, g, O, n) ==
    /\ LevelOf(g, n, t.node[n])
    /\ \A i \in 1 .. Len(t.node[n].kids) : KidOf(t, g, O, n, t.node[n].kids[i])
    /\ n \in O \/ Placed(t, n)

\* The tree as a graph.
Shape(t, g, O) == O \subseteq DOMAIN t.node /\ \A n \in DOMAIN t.node : Hangs(t, g, O, n)

\* The elements ascend.
Sorted(s) == \A i, j \in 1 .. Len(s) : i < j => s[i] < s[j]

\* The range of a node.
RangeOf(g, n) ==
    /\ g.lo[n] \in Int /\ g.hi[n] \in Int /\ g.out[n] \in Int
    /\ Least <= g.lo[n] /\ g.lo[n] < g.hi[n] /\ g.hi[n] <= Greatest

\* The entries of leaf n with record r.
LeafKeys(g, n, r) ==
    /\ Len(r.vals) = Len(r.keys)
    /\ \A i \in 1 .. Len(r.keys) : g.lo[n] <= r.keys[i] /\ r.keys[i] < g.hi[n]

\* The ranges of the kids of an internal node are cut out of its own range by
\* its keys.
KidRange(g, n, r, i) ==
    /\ g.lo[r.kids[i]] = IF i = 1 THEN g.lo[n] ELSE r.keys[i - 1]
    /\ g.out[r.kids[i]] = IF i = Len(r.kids) THEN g.hi[n] ELSE r.keys[i]
InnerKeys(g, n, r) ==
    /\ Len(r.kids) = Len(r.keys) + 1
    /\ \A i \in 1 .. Len(r.keys) : g.lo[n] < r.keys[i] /\ r.keys[i] < g.hi[n]
    /\ \A i \in 1 .. Len(r.kids) : KidRange(g, n, r, i)

\* The keys of n guide a search to where it has to go.
Guides(g, n, r) ==
    /\ RangeOf(g, n)
    /\ Sorted(r.keys)
    /\ r.kids = <<>> => LeafKeys(g, n, r)
    /\ r.kids # <<>> => InnerKeys(g, n, r)

\* The ranges of two nodes do not meet.
Apart(g, m, n) == g.hi[m] <= g.lo[n] \/ g.hi[n] <= g.lo[m]

\* The tree as an order.
Order(t, g) ==
    /\ \A n \in DOMAIN t.node : Guides(g, n, t.node[n])
    /\ \A m, n \in DOMAIN t.node : m # n /\ g.lev[m] = g.lev[n] => Apart(g, m, n)

\* The leaves.
LeafSet(t) == {n \in DOMAIN t.node : t.node[n].kids = <<>>}

\* The neighbours of leaf l in the chain are those of its range.
LinksOf(t, g, l) ==
    LET r == t.node[l] IN
    /\ r.next = NO_NODE => l = t.last /\ g.hi[l] = Greatest
    /\ r.next # NO_NODE => /\ r.next \in LeafSet(t) /\ t.node[r.next].prev = l
                           /\ g.lo[r.next] = g.hi[l]
    /\ r.prev = NO_NODE => l = t.first /\ g.lo[l] = Least
    /\ r.prev # NO_NODE => r.prev \in LeafSet(t) /\ t.node[r.prev].next = l

\* The chain.
Links(t, g) ==
    /\ t.first \in LeafSet(t) /\ t.node[t.first].prev = NO_NODE
    /\ t.last \in LeafSet(t) /\ t.node[t.last].next = NO_NODE
    /\ \A l \in LeafSet(t) : LinksOf(t, g, l)

\* The keys of the map.
KeySet(t) == UNION {ToSet(t.node[l].keys) : l \in LeafSet(t)}

\* What every step keeps, for some ghost g: lev[n] is the level of node n, lo[n]
\* and hi[n] are the ends of its range, and out[n] is the end that its parent
\* gives it, which is another one for a node that has just been split.
TreeInv(t, g, O) == Arena(t) /\ Shape(t, g, O) /\ Order(t, g) /\ Links(t, g)
                     /\ t.len = Cardinality(KeySet(t))

\* The root is at level height and has all keys in its range.
RootTop(t, g) == /\ t.root \in DOMAIN t.node /\ g.lev[t.root] = t.height
                 /\ g.lo[t.root] = Least /\ g.out[t.root] = Greatest
                 /\ t.node[t.root].parent = NO_NODE

\* No split is on its way.
SettledG(t, g) == TreeInv(t, g, {t.root}) /\ RootTop(t, g)
                  /\ \A n \in DOMAIN t.node : g.out[n] = g.hi[n]

\* Node x has been split at k, and its right half r is not yet in the parent.
SplittingG(t, g, x, k, r) ==
    /\ TreeInv(t, g, {t.root, r}) /\ RootTop(t, g)
    /\ x \in DOMAIN t.node /\ r \in DOMAIN t.node /\ x # r /\ r # t.root /\ k \in Key
    /\ g.lev[x] = g.lev[r] /\ t.node[r].parent = t.node[x].parent
    /\ g.hi[x] = k /\ g.lo[r] = k /\ g.out[x] = g.hi[r]
    /\ \A n \in DOMAIN t.node : n # x => g.out[n] = g.hi[n]

\* A bulk load has finished the level with the nodes of row.
LoadingG(t, g, row, mins) ==
    /\ TreeInv(t, g, ToSet(row))
    /\ t.root = NO_NODE /\ t.free = <<>>
    /\ \A n \in DOMAIN t.node : g.out[n] = g.hi[n]
    /\ row \in Seq(Int) /\ mins \in Seq(Key) /\ Len(row) = Len(mins) /\ row # <<>>
    /\ IsInjective(row)
    /\ \A i \in 1 .. Len(row) :
         /\ g.lev[row[i]] = t.height
         /\ t.node[row[i]].parent = NO_NODE
         /\ g.lo[row[i]] = IF i = 1 THEN Least ELSE mins[i]
         /\ g.hi[row[i]] = IF i = Len(row) THEN Greatest ELSE mins[i + 1]

\* A way from the root down to node x, as slots.
PathIs(t, path, x) ==
    /\ path \in Seq(Int \X Int)
    /\ \A i \in 1 .. Len(path) :
        /\ path[i][1] \in DOMAIN t.node /\ path[i][2] \in 1 .. Len(t.node[path[i][1]].kids)
        /\ t.node[path[i][1]].kids[path[i][2]] = IF i = Len(path) THEN x ELSE path[i + 1][1]
    /\ IF path = <<>> THEN x = t.root ELSE path[1][1] = t.root

\* Every nonempty set of numbers has a least member: induction, as a fact.
LEMMA MinOfNats ==
    ASSUME NEW S \in SUBSET Nat, S # {}
    PROVE  \E x \in S : \A y \in S : x <= y
<1>1. PICK x \in S : \A y \in S : ~(<<y, x>> \in OpToRel(<, Nat))
  BY NatLessThanWellFounded, WFMin, Zenon
<1>2. ASSUME NEW y \in S PROVE x <= y
  <2>1. x \in Nat /\ y \in Nat
    OBVIOUS
  <2>2. ~(<<y, x>> \in OpToRel(<, Nat))
    BY <1>1
  <2>3. ~(y < x)
    BY <2>1, <2>2 DEF OpToRel
  <2> QED BY <2>1, <2>3
<1> QED BY <1>2

\* What SubSeq returns.
LEMMA SubSeqProps ==
    ASSUME NEW S, NEW s \in Seq(S), NEW a \in 1 .. Len(s) + 1, NEW b \in (a - 1) .. Len(s)
    PROVE  /\ SubSeq(s, a, b) \in Seq(S) /\ Len(SubSeq(s, a, b)) = b - a + 1
           /\ \A j \in 1 .. b - a + 1 : SubSeq(s, a, b)[j] = s[a + j - 1]
OBVIOUS

\* What concatenation returns.
LEMMA ConcatProps ==
    ASSUME NEW S, NEW s \in Seq(S), NEW u \in Seq(S)
    PROVE  /\ s \o u \in Seq(S) /\ Len(s \o u) = Len(s) + Len(u)
           /\ \A j \in 1 .. Len(s) : (s \o u)[j] = s[j]
           /\ \A j \in 1 .. Len(u) : (s \o u)[Len(s) + j] = u[j]
OBVIOUS

\* w is s with e at place i.
InsertedAt(S, s, i, e, w) ==
    /\ w \in Seq(S) /\ Len(w) = Len(s) + 1
    /\ \A j \in 1 .. Len(s) + 1 : w[j] = IF j < i THEN s[j] ELSE IF j = i THEN e ELSE s[j - 1]

\* What InsertAt returns.
LEMMA InsertAtDoes ==
    ASSUME NEW S, NEW s \in Seq(S), NEW i \in 1 .. Len(s) + 1, NEW e \in S
    PROVE  InsertedAt(S, s, i, e, InsertAt(s, i, e))
<1>1. PICK a : a = SubSeq(s, 1, i - 1)
  OBVIOUS
<1>2. a \in Seq(S) /\ Len(a) = i - 1 /\ \A j \in 1 .. i - 1 : a[j] = s[j]
  BY <1>1
<1>3. PICK b : b = SubSeq(s, i, Len(s))
  OBVIOUS
<1>4. /\ b \in Seq(S) /\ Len(b) = Len(s) - i + 1
      /\ \A j \in 1 .. Len(s) - i + 1 : b[j] = s[i + j - 1]
  <2>1. Len(s) \in (i - 1) .. Len(s)
    OBVIOUS
  <2> QED BY <1>3, <2>1, SubSeqProps
<1>5. PICK c : c = a \o <<e>>
  OBVIOUS
<1>6. c \in Seq(S) /\ Len(c) = i /\ c[i] = e /\ \A j \in 1 .. i - 1 : c[j] = s[j]
  BY <1>2, <1>5
<1>7. InsertAt(s, i, e) = c \o b
  BY <1>1, <1>3, <1>5 DEF InsertAt
<1>71. PICK w : w = c \o b
  OBVIOUS
<1>8. /\ w \in Seq(S) /\ Len(w) = Len(s) + 1
      /\ \A j \in 1 .. i : w[j] = c[j]
      /\ \A j \in 1 .. Len(b) : w[i + j] = b[j]
  <2>1. Len(c) + Len(b) = Len(s) + 1
    BY <1>4, <1>6
  <2>2. /\ w \in Seq(S) /\ Len(w) = Len(c) + Len(b)
        /\ \A j \in 1 .. Len(c) : w[j] = c[j]
        /\ \A j \in 1 .. Len(b) : w[Len(c) + j] = b[j]
    BY <1>71, <1>4, <1>6, ConcatProps
  <2> QED BY <2>1, <2>2, <1>6
<1>9. ASSUME NEW j \in 1 .. Len(s) + 1
      PROVE  w[j] = IF j < i THEN s[j] ELSE IF j = i THEN e ELSE s[j - 1]
  <2>1. CASE j <= i
    BY <2>1, <1>6, <1>8
  <2>2. CASE j > i
    <3>1. PICK m : m = j - i
      OBVIOUS
    <3>2. m \in 1 .. Len(s) - i + 1 /\ j = i + m /\ j - 1 = i + m - 1
      BY <2>2, <3>1
    <3>3. w[j] = b[m] /\ b[m] = s[j - 1]
      BY <3>2, <1>4, <1>8
    <3> QED BY <2>2, <3>3
  <2> QED BY <2>1, <2>2
<1>10. InsertedAt(S, s, i, e, w)
  BY <1>8, <1>9 DEF InsertedAt
<1> QED BY <1>7, <1>71, <1>10

\* The same, part by part.
LEMMA InsertAtProps ==
    ASSUME NEW S, NEW s \in Seq(S), NEW i \in 1 .. Len(s) + 1, NEW e \in S
    PROVE  /\ InsertAt(s, i, e) \in Seq(S)
           /\ Len(InsertAt(s, i, e)) = Len(s) + 1
           /\ \A j \in 1 .. Len(s) + 1 :
                InsertAt(s, i, e)[j] = IF j < i THEN s[j] ELSE IF j = i THEN e ELSE s[j - 1]
BY InsertAtDoes DEF InsertedAt

\* w is s without the element at i.
RemovedAt(S, s, i, w) ==
    /\ w \in Seq(S) /\ Len(w) = Len(s) - 1
    /\ \A j \in 1 .. Len(s) - 1 : w[j] = IF j < i THEN s[j] ELSE s[j + 1]

\* What RemoveAt returns.
LEMMA RemoveAtDoes ==
    ASSUME NEW S, NEW s \in Seq(S), NEW i \in 1 .. Len(s)
    PROVE  RemovedAt(S, s, i, RemoveAt(s, i))
<1>1. PICK a : a = SubSeq(s, 1, i - 1)
  OBVIOUS
<1>2. a \in Seq(S) /\ Len(a) = i - 1 /\ \A j \in 1 .. i - 1 : a[j] = s[j]
  BY <1>1
<1>3. PICK b : b = SubSeq(s, i + 1, Len(s))
  OBVIOUS
<1>4. /\ b \in Seq(S) /\ Len(b) = Len(s) - i
      /\ \A j \in 1 .. Len(s) - i : b[j] = s[i + j]
  <2>1. Len(s) \in (i + 1 - 1) .. Len(s) /\ i + 1 \in 1 .. Len(s) + 1
    OBVIOUS
  <2> QED BY <1>3, <2>1, SubSeqProps
<1>41. PICK w : w = a \o b
  OBVIOUS
<1>5. /\ w \in Seq(S) /\ Len(w) = Len(s) - 1
      /\ \A j \in 1 .. i - 1 : w[j] = a[j]
      /\ \A j \in 1 .. Len(b) : w[i - 1 + j] = b[j]
  <2>1. Len(a) + Len(b) = Len(s) - 1
    BY <1>2, <1>4
  <2>2. /\ w \in Seq(S) /\ Len(w) = Len(a) + Len(b)
        /\ \A j \in 1 .. Len(a) : w[j] = a[j]
        /\ \A j \in 1 .. Len(b) : w[Len(a) + j] = b[j]
    <3>1. a \in Seq(S) /\ b \in Seq(S)
      BY <1>2, <1>4
    <3> QED BY <1>41, <3>1, ConcatProps
  <2> QED BY <2>1, <2>2, <1>2
<1>6. ASSUME NEW j \in 1 .. Len(s) - 1
      PROVE  w[j] = IF j < i THEN s[j] ELSE s[j + 1]
  <2>1. CASE j < i
    BY <2>1, <1>2, <1>5
  <2>2. CASE j >= i
    <3>1. PICK m : m = j - (i - 1)
      OBVIOUS
    <3>2. m \in 1 .. Len(s) - i /\ j = i - 1 + m /\ j + 1 = i + m
      BY <2>2, <3>1
    <3>3. w[i - 1 + m] = b[m] /\ b[m] = s[i + m]
      BY <3>2, <1>4, <1>5
    <3>4. w[j] = b[m] /\ b[m] = s[j + 1]
      BY <3>2, <3>3
    <3> QED BY <2>2, <3>4
  <2> QED BY <2>1, <2>2
<1>7. RemovedAt(S, s, i, w)
  BY <1>5, <1>6 DEF RemovedAt
<1>8. RemoveAt(s, i) = w
  BY <1>1, <1>3, <1>41 DEF RemoveAt
<1> QED BY <1>7, <1>8

\* The same, part by part.
LEMMA RemoveAtProps ==
    ASSUME NEW S, NEW s \in Seq(S), NEW i \in 1 .. Len(s)
    PROVE  /\ RemoveAt(s, i) \in Seq(S)
           /\ Len(RemoveAt(s, i)) = Len(s) - 1
           /\ \A j \in 1 .. Len(s) - 1 :
                RemoveAt(s, i)[j] = IF j < i THEN s[j] ELSE s[j + 1]
BY RemoveAtDoes DEF RemovedAt

\* The ends of a sequence.
LEMMA LastFront ==
    ASSUME NEW S, NEW s \in Seq(S), s # <<>>
    PROVE  /\ Last(s) = s[Len(s)] /\ Last(s) \in S /\ Len(s) \in Nat \ {0}
           /\ Front(s) \in Seq(S) /\ Len(Front(s)) = Len(s) - 1
           /\ \A j \in 1 .. Len(s) - 1 : Front(s)[j] = s[j]
           /\ Head(s) = s[1] /\ Head(s) \in S
           /\ Tail(s) \in Seq(S) /\ Len(Tail(s)) = Len(s) - 1
           /\ \A j \in 1 .. Len(s) - 1 : Tail(s)[j] = s[j + 1]
<1>1. Len(s) \in Nat \ {0}
  OBVIOUS
<1>2. Last(s) = s[Len(s)] /\ Last(s) \in S
  BY <1>1 DEF Last
<1>3. /\ Front(s) \in Seq(S) /\ Len(Front(s)) = Len(s) - 1
      /\ \A j \in 1 .. Len(s) - 1 : Front(s)[j] = s[j]
  <2>1. Len(s) - 1 \in (1 - 1) .. Len(s) /\ 1 \in 1 .. Len(s) + 1
    BY <1>1
  <2>2. Front(s) = SubSeq(s, 1, Len(s) - 1)
    BY DEF Front
  <2>3. PICK b : b = Len(s) - 1
    OBVIOUS
  <2>4. b \in 0 .. Len(s)
    BY <1>1, <2>3
  <2>5. /\ SubSeq(s, 1, b) \in Seq(S) /\ Len(SubSeq(s, 1, b)) = b
        /\ \A j \in 1 .. b : SubSeq(s, 1, b)[j] = s[j]
    BY <1>1, <2>4
  <2> QED BY <2>2, <2>3, <2>5
<1> QED BY <1>1, <1>2, <1>3

\* The slot a search takes in an internal node.
LEMMA ChildForProps ==
    ASSUME NEW s \in Seq(Int), NEW k \in Int
    PROVE  /\ ChildFor(s, k) \in 1 .. Len(s) + 1
           /\ \A j \in 1 .. Len(s) : j < ChildFor(s, k) => s[j] <= k
           /\ ChildFor(s, k) <= Len(s) => k < s[ChildFor(s, k)]
<1>1. PICK I : I = {i \in 1 .. Len(s) : k < s[i]}
  OBVIOUS
<1>2. ChildFor(s, k) = LET i == IF I # {} THEN Min(I) ELSE 0 IN IF i = 0 THEN Len(s) + 1 ELSE i
  BY <1>1 DEF ChildFor, FirstSlot, SelectInSeq
<1>3. I \subseteq 1 .. Len(s) /\ \A i \in I : k < s[i]
  BY <1>1
<1>4. CASE I = {}
  <2>1. ChildFor(s, k) = Len(s) + 1
    BY <1>2, <1>4
  <2>2. \A j \in 1 .. Len(s) : ~(k < s[j])
    BY <1>1, <1>4
  <2>3. \A j \in 1 .. Len(s) : s[j] \in Int
    OBVIOUS
  <2> QED BY <2>1, <2>2, <2>3
<1>5. CASE I # {}
  <2>0. I \in SUBSET Nat
    BY <1>3
  <2>1. PICK x \in I : \A y \in I : x <= y
    BY <2>0, <1>5, MinOfNats
  <2>2. Min(I) \in I /\ \A y \in I : Min(I) <= y
    BY <2>1 DEF Min
  <2>3. PICK m : m = Min(I)
    OBVIOUS
  <2>4. m \in 1 .. Len(s) /\ k < s[m] /\ \A y \in I : m <= y
    BY <2>2, <2>3, <1>3
  <2>5. ChildFor(s, k) = m
    BY <1>2, <1>5, <2>3, <2>4
  <2>6. \A j \in 1 .. Len(s) : j < m => ~(k < s[j])
    BY <1>1, <2>4
  <2>7. \A j \in 1 .. Len(s) : s[j] \in Int
    OBVIOUS
  <2> QED BY <2>4, <2>5, <2>6, <2>7
<1> QED BY <1>4, <1>5

\* The slot of a key in a leaf.
LEMMA SlotForProps ==
    ASSUME NEW s \in Seq(Int), NEW k \in Int, NEW t, NEW l, t.node[l].keys = s
    PROVE  /\ SlotFor(t, l, k) \in 1 .. Len(s) + 1
           /\ \A j \in 1 .. Len(s) : j < SlotFor(t, l, k) => s[j] < k
           /\ SlotFor(t, l, k) <= Len(s) => k <= s[SlotFor(t, l, k)]
<1>1. PICK I : I = {i \in 1 .. Len(s) : k <= s[i]}
  OBVIOUS
<1>2. SlotFor(t, l, k) = LET i == IF I # {} THEN Min(I) ELSE 0 IN IF i = 0 THEN Len(s) + 1 ELSE i
  BY <1>1 DEF SlotFor, FirstSlot, SelectInSeq
<1>3. I \subseteq 1 .. Len(s) /\ \A i \in I : k <= s[i]
  BY <1>1
<1>4. CASE I = {}
  <2>1. SlotFor(t, l, k) = Len(s) + 1
    BY <1>2, <1>4
  <2>2. \A j \in 1 .. Len(s) : ~(k <= s[j])
    BY <1>1, <1>4
  <2>3. \A j \in 1 .. Len(s) : s[j] \in Int
    OBVIOUS
  <2> QED BY <2>1, <2>2, <2>3
<1>5. CASE I # {}
  <2>0. I \in SUBSET Nat
    BY <1>3
  <2>1. PICK x \in I : \A y \in I : x <= y
    BY <2>0, <1>5, MinOfNats
  <2>2. Min(I) \in I /\ \A y \in I : Min(I) <= y
    BY <2>1 DEF Min
  <2>3. PICK m : m = Min(I)
    OBVIOUS
  <2>4. m \in 1 .. Len(s) /\ k <= s[m] /\ \A y \in I : m <= y
    BY <2>2, <2>3, <1>3
  <2>5. SlotFor(t, l, k) = m
    BY <1>2, <1>5, <2>3, <2>4
  <2>6. \A j \in 1 .. Len(s) : j < m => ~(k <= s[j])
    BY <1>1, <2>4
  <2>7. \A j \in 1 .. Len(s) : s[j] \in Int
    OBVIOUS
  <2> QED BY <2>4, <2>5, <2>6, <2>7
<1> QED BY <1>4, <1>5

\* The first slot of a member.
LEMMA SlotOfElement ==
    ASSUME NEW S, NEW s \in Seq(S), NEW x, \E i \in 1 .. Len(s) : s[i] = x
    PROVE  LET i == SelectInSeq(s, LAMBDA m : m = x)
           IN  i \in 1 .. Len(s) /\ s[i] = x /\ \A j \in 1 .. i - 1 : s[j] # x
<1>1. PICK I : I = {i \in 1 .. Len(s) : s[i] = x}
  OBVIOUS
<1>2. I \subseteq 1 .. Len(s) /\ I # {}
  BY <1>1
<1>3. PICK z \in I : \A y \in I : z <= y
  BY <1>2, MinOfNats
<1>4. PICK m : m = Min(I)
  OBVIOUS
<1>5. m \in I /\ \A y \in I : m <= y
  BY <1>3, <1>4 DEF Min
<1>6. SelectInSeq(s, LAMBDA n : n = x) = m
  BY <1>1, <1>2, <1>4 DEF SelectInSeq
<1>7. m \in 1 .. Len(s) /\ s[m] = x
  BY <1>1, <1>5
<1>8. ASSUME NEW j \in 1 .. m - 1 PROVE s[j] # x
  BY <1>1, <1>5, <1>7
<1> QED BY <1>6, <1>7, <1>8

Rec(ks, vs, cs, p, a, b) ==
    [keys |-> ks, vals |-> vs, kids |-> cs, parent |-> p, prev |-> a, next |-> b]
TreeOf(node, free, hi, root, first, last, len, height) ==
    [node |-> node, free |-> free, hi |-> hi, root |-> root, first |-> first,
     last |-> last, len |-> len, height |-> height]

\* The fields of a tree and of its nodes.
LEMMA ArenaParts ==
    ASSUME NEW t, Arena(t)
    PROVE  /\ t = TreeOf(t.node, t.free, t.hi, t.root, t.first, t.last, t.len, t.height)
           /\ \A n \in DOMAIN t.node :
                /\ t.node[n] \in NodeRec /\ n \in Nat /\ n # NO_NODE /\ n < t.hi
                /\ t.node[n] = Rec(t.node[n].keys, t.node[n].vals, t.node[n].kids,
                                   t.node[n].parent, t.node[n].prev, t.node[n].next)
                /\ t.node[n].keys \in Seq(Key) /\ t.node[n].vals \in Seq(Value)
                /\ t.node[n].kids \in Seq(Int) /\ t.node[n].parent \in Int
                /\ t.node[n].prev \in Int /\ t.node[n].next \in Int
<1>1. t = TreeOf(t.node, t.free, t.hi, t.root, t.first, t.last, t.len, t.height)
  BY DEF Arena, TreeOf
<1>2. ASSUME NEW n \in DOMAIN t.node
      PROVE  /\ t.node[n] \in NodeRec /\ n \in Nat /\ n # NO_NODE /\ n < t.hi
  BY DEF Arena, NO_NODE
<1>3. ASSUME NEW r \in NodeRec
      PROVE  /\ r = Rec(r.keys, r.vals, r.kids, r.parent, r.prev, r.next)
             /\ r.keys \in Seq(Key) /\ r.vals \in Seq(Value)
             /\ r.kids \in Seq(Int) /\ r.parent \in Int
             /\ r.prev \in Int /\ r.next \in Int
  BY DEF NodeRec, Rec
<1> QED BY <1>1, <1>2, <1>3

\* The fields of a node.
LEMMA RecFields ==
    ASSUME NEW ks, NEW vs, NEW cs, NEW p, NEW a, NEW b
    PROVE  LET r == Rec(ks, vs, cs, p, a, b) IN
           /\ r.keys = ks /\ r.vals = vs /\ r.kids = cs /\ r.parent = p
           /\ r.prev = a /\ r.next = b
           /\ ks \in Seq(Key) /\ vs \in Seq(Value) /\ cs \in Seq(Int)
              /\ p \in Int /\ a \in Int /\ b \in Int => r \in NodeRec
BY DEF Rec, NodeRec

\* An entry written into a leaf.
LEMMA LeafInsertAtEffect ==
    ASSUME NEW t, Arena(t), NEW l \in DOMAIN t.node, NEW i, NEW k, NEW v
    PROVE  LET u == LeafInsertAt(t, l, i, k, v)
               r == t.node[l]
           IN  /\ u = TreeOf(u.node, t.free, t.hi, t.root, t.first, t.last, t.len + 1, t.height)
               /\ u.node = [n \in DOMAIN t.node |-> IF n = l THEN
                    Rec(InsertAt(r.keys, i, k), InsertAt(r.vals, i, v), r.kids, r.parent, r.prev, r.next)
                    ELSE t.node[n]]
<1>1. PICK r : r = t.node[l]
  OBVIOUS
<1>2. r = Rec(r.keys, r.vals, r.kids, r.parent, r.prev, r.next)
  BY <1>1, ArenaParts
<1>3. PICK u : u = LeafInsertAt(t, l, i, k, v)
  OBVIOUS
<1>4. t = TreeOf(t.node, t.free, t.hi, t.root, t.first, t.last, t.len, t.height)
  BY ArenaParts
<1>5. u = TreeOf(u.node, t.free, t.hi, t.root, t.first, t.last, t.len + 1, t.height)
  BY <1>3, <1>4 DEF LeafInsertAt, TreeOf
<1>6. u.node = [[t.node EXCEPT ![l].keys = InsertAt(@, i, k)] EXCEPT ![l].vals = InsertAt(@, i, v)]
  BY <1>3, <1>4 DEF LeafInsertAt, TreeOf
<1> QED BY <1>1, <1>2, <1>3, <1>5, <1>6 DEF Rec

\* A leaf is a node of level 0.
LEMMA LeafSetParts ==
    ASSUME NEW t, NEW g, NEW O, Shape(t, g, O), NEW l \in LeafSet(t)
    PROVE  l \in DOMAIN t.node /\ t.node[l].kids = <<>> /\ g.lev[l] = 0
BY DEF Shape, Hangs, LevelOf, LeafSet

\* A node's range and its keys.
LEMMA GuidesParts ==
    ASSUME NEW t, NEW g, Order(t, g), NEW n \in DOMAIN t.node
    PROVE  Guides(g, n, t.node[n])
BY DEF Order

\* Only one leaf has a key in its range.
LEMMA OneLeaf ==
    ASSUME NEW t, NEW g, NEW O, Shape(t, g, O), Order(t, g),
           NEW l \in LeafSet(t), NEW m \in LeafSet(t), NEW k \in Int,
           g.lo[l] <= k, k < g.hi[l], g.lo[m] <= k, k < g.hi[m]
    PROVE  l = m
<1>1. l \in DOMAIN t.node /\ m \in DOMAIN t.node /\ g.lev[l] = 0 /\ g.lev[m] = 0
  BY LeafSetParts
<1>2. g.lo[l] \in Int /\ g.hi[l] \in Int /\ g.lo[m] \in Int /\ g.hi[m] \in Int
  BY <1>1 DEF Order, Guides, RangeOf
<1>3. SUFFICES ASSUME l # m PROVE FALSE
  OBVIOUS
<1>4. Apart(g, l, m)
  BY <1>1, <1>3 DEF Order
<1> QED BY <1>2, <1>4 DEF Apart

\* Keys and values of leaf l are replaced.
Rewritten(t, u, l, ks, vs) ==
    /\ u = TreeOf(u.node, t.free, t.hi, t.root, t.first, t.last, u.len, t.height)
    /\ u.node = [n \in DOMAIN t.node |-> IF n = l
                   THEN Rec(ks, vs, t.node[l].kids, t.node[l].parent, t.node[l].prev, t.node[l].next)
                   ELSE t.node[n]]

RewrittenView(t, u, l, ks, vs) ==
    /\ u.free = t.free /\ u.hi = t.hi /\ u.root = t.root /\ u.first = t.first
    /\ u.last = t.last /\ u.height = t.height
    /\ DOMAIN u.node = DOMAIN t.node
    /\ u.node[l].keys = ks /\ u.node[l].vals = vs
    /\ \A n \in DOMAIN t.node :
         /\ n # l => u.node[n] = t.node[n]
         /\ u.node[n].kids = t.node[n].kids /\ u.node[n].parent = t.node[n].parent
         /\ u.node[n].prev = t.node[n].prev /\ u.node[n].next = t.node[n].next

\* Rewritten, field by field.
LEMMA RewrittenParts ==
    ASSUME NEW t, NEW u, NEW l \in DOMAIN t.node, NEW ks, NEW vs, Rewritten(t, u, l, ks, vs)
    PROVE  RewrittenView(t, u, l, ks, vs)
<1>1. /\ u.free = t.free /\ u.hi = t.hi /\ u.root = t.root /\ u.first = t.first
      /\ u.last = t.last /\ u.height = t.height
  BY DEF Rewritten, TreeOf
<1>2. PICK f : f = u.node
  OBVIOUS
<1>3. f = [n \in DOMAIN t.node |-> IF n = l
                   THEN Rec(ks, vs, t.node[l].kids, t.node[l].parent, t.node[l].prev, t.node[l].next)
                   ELSE t.node[n]]
  BY <1>2 DEF Rewritten
<1>4. /\ DOMAIN f = DOMAIN t.node
      /\ f[l] = Rec(ks, vs, t.node[l].kids, t.node[l].parent, t.node[l].prev, t.node[l].next)
      /\ \A n \in DOMAIN t.node : n # l => f[n] = t.node[n]
  BY <1>3
<1>5. /\ f[l].keys = ks /\ f[l].vals = vs /\ f[l].kids = t.node[l].kids
      /\ f[l].parent = t.node[l].parent /\ f[l].prev = t.node[l].prev /\ f[l].next = t.node[l].next
  BY <1>4 DEF Rec
<1> QED BY <1>1, <1>2, <1>4, <1>5 DEF RewrittenView

\* New contents in one leaf keep the arena.
LEMMA RewrittenArena ==
    ASSUME NEW t, NEW u, Arena(t), NEW l \in DOMAIN t.node, NEW ks \in Seq(Key), NEW vs \in Seq(Value),
           Rewritten(t, u, l, ks, vs)
    PROVE  Arena(u)
<1>1. /\ u.free = t.free /\ u.hi = t.hi /\ u.root = t.root /\ u.first = t.first
      /\ u.last = t.last /\ u.height = t.height /\ DOMAIN u.node = DOMAIN t.node
  BY RewrittenParts DEF RewrittenView
<1>2. u = [node |-> u.node, free |-> u.free, hi |-> u.hi, root |-> u.root,
            first |-> u.first, last |-> u.last, len |-> u.len, height |-> u.height]
  BY <1>1 DEF Rewritten, TreeOf
<1>3. PICK r : r = Rec(ks, vs, t.node[l].kids, t.node[l].parent, t.node[l].prev, t.node[l].next)
  OBVIOUS
<1>4. r \in NodeRec
  BY <1>3, ArenaParts, RecFields
<1>5. t.node \in [DOMAIN t.node -> NodeRec]
  BY DEF Arena
<1>6. u.node \in [DOMAIN t.node -> NodeRec]
  BY <1>3, <1>4, <1>5 DEF Rewritten
<1> QED BY <1>1, <1>2, <1>6 DEF Arena

\* What a leaf may hold.
Fits(g, l, ks, vs) ==
    /\ ks \in Seq(Key) /\ vs \in Seq(Value) /\ Len(vs) = Len(ks) /\ Sorted(ks)
    /\ \A i \in 1 .. Len(ks) : g.lo[l] <= ks[i] /\ ks[i] < g.hi[l]

\* New contents that fit one leaf keep the order and the links.
LEMMA RewrittenInv ==
    ASSUME NEW t, NEW u, NEW g, NEW O, Arena(t), Shape(t, g, O), Order(t, g), Links(t, g),
           NEW l \in LeafSet(t), NEW ks, NEW vs, Fits(g, l, ks, vs), Rewritten(t, u, l, ks, vs)
    PROVE  /\ Arena(u) /\ Shape(u, g, O) /\ Order(u, g) /\ Links(u, g)
           /\ LeafSet(u) = LeafSet(t)
<1>1. l \in DOMAIN t.node /\ t.node[l].kids = <<>>
  BY LeafSetParts
<1>2. Arena(u)
  BY <1>1, RewrittenArena DEF Fits
<1>0. RewrittenView(t, u, l, ks, vs)
  BY <1>1, RewrittenParts
<1>3. /\ u.root = t.root /\ u.first = t.first
      /\ u.last = t.last /\ u.height = t.height
      /\ DOMAIN u.node = DOMAIN t.node
      /\ u.node[l].keys = ks /\ u.node[l].vals = vs
      /\ \A n \in DOMAIN t.node :
                /\ n # l => u.node[n] = t.node[n]
                /\ u.node[n].kids = t.node[n].kids /\ u.node[n].parent = t.node[n].parent
                /\ u.node[n].prev = t.node[n].prev /\ u.node[n].next = t.node[n].next
  BY <1>0 DEF RewrittenView
<1>4. LeafSet(u) = LeafSet(t)
  BY <1>3 DEF LeafSet
<1>5. Shape(u, g, O)
  <2>1. ASSUME NEW n \in DOMAIN t.node PROVE Hangs(u, g, O, n)
    <3>1. Hangs(t, g, O, n)
      BY DEF Shape
    <3>2. LevelOf(g, n, u.node[n])
      BY <3>1, <1>3 DEF Hangs, LevelOf
    <3>3. ASSUME NEW i \in 1 .. Len(u.node[n].kids) PROVE KidOf(u, g, O, n, u.node[n].kids[i])
      <4>1. KidOf(t, g, O, n, u.node[n].kids[i])
        BY <3>1, <1>3 DEF Hangs
      <4> QED BY <4>1, <1>3 DEF KidOf
    <3>4. n \in O \/ Placed(u, n)
      BY <3>1, <1>3 DEF Hangs, Placed
    <3> QED BY <3>2, <3>3, <3>4 DEF Hangs
  <2> QED BY <2>1, <1>3 DEF Shape
<1>6. Order(u, g)
  <2>1. ASSUME NEW n \in DOMAIN t.node PROVE Guides(g, n, u.node[n])
    <3>1. Guides(g, n, t.node[n])
      BY GuidesParts
    <3>2. CASE n = l
      BY <3>1, <3>2, <1>1, <1>3 DEF Guides, LeafKeys, Fits
    <3>3. CASE n # l
      BY <3>1, <3>3, <1>3
    <3> QED BY <3>2, <3>3
  <2> QED BY <2>1, <1>3 DEF Order
<1>7. Links(u, g)
  <2>1. ASSUME NEW m \in LeafSet(t) PROVE LinksOf(u, g, m)
    <3>1. LinksOf(t, g, m) /\ m \in DOMAIN t.node
      BY LeafSetParts DEF Links
    <3>2. LeafSet(t) \subseteq DOMAIN t.node
      BY DEF LeafSet
    <3> QED BY <3>1, <3>2, <1>3, <1>4 DEF LinksOf
  <2>2. t.first \in DOMAIN t.node /\ t.last \in DOMAIN t.node
    BY DEF Links, LeafSet
  <2> QED BY <2>1, <2>2, <1>3, <1>4 DEF Links
<1> QED BY <1>2, <1>4, <1>5, <1>6, <1>7

\* A node whose keys, values and kids stay, with the same ranges.
LEMMA GuidesMove ==
    ASSUME NEW g, NEW h, NEW n, NEW q, NEW r, Guides(g, n, q),
           r.keys = q.keys, r.vals = q.vals, r.kids = q.kids,
           h.lo[n] = g.lo[n], h.hi[n] = g.hi[n], h.out[n] \in Int,
           \A i \in 1 .. Len(q.kids) :
             h.lo[q.kids[i]] = g.lo[q.kids[i]] /\ h.out[q.kids[i]] = g.out[q.kids[i]]
    PROVE  Guides(h, n, r)
<1>1. RangeOf(h, n)
  BY DEF Guides, RangeOf
<1>2. Sorted(r.keys)
  BY DEF Guides
<1>3. ASSUME r.kids = <<>> PROVE LeafKeys(h, n, r)
  BY <1>3 DEF Guides, LeafKeys
<1>4. ASSUME r.kids # <<>> PROVE InnerKeys(h, n, r)
  <2>1. InnerKeys(g, n, q)
    BY <1>4 DEF Guides
  <2>2. ASSUME NEW i \in 1 .. Len(r.kids) PROVE KidRange(h, n, r, i)
    <3>1. KidRange(g, n, q, i)
      BY <2>1 DEF InnerKeys
    <3> QED BY <3>1 DEF KidRange
  <2> QED BY <2>1, <2>2 DEF InnerKeys
<1> QED BY <1>1, <1>2, <1>3, <1>4 DEF Guides

\* A node hangs as before when its kids are as before.
LEMMA HangsMove ==
    ASSUME NEW t, NEW u, NEW g, NEW h, NEW O, NEW P, NEW n, Hangs(t, g, O, n),
           u.node[n].kids = t.node[n].kids, h.lev[n] = g.lev[n],
           \A i \in 1 .. Len(t.node[n].kids) :
              LET c == t.node[n].kids[i] IN
              /\ c \in DOMAIN u.node /\ c \notin P
              /\ u.node[c].parent = n /\ h.lev[c] = g.lev[c],
           n \in P \/ Placed(u, n)
    PROVE  Hangs(u, h, P, n)
<1>1. LevelOf(h, n, u.node[n])
  BY DEF Hangs, LevelOf
<1>2. ASSUME NEW i \in 1 .. Len(u.node[n].kids) PROVE KidOf(u, h, P, n, u.node[n].kids[i])
  <2>1. KidOf(t, g, O, n, t.node[n].kids[i])
    BY DEF Hangs
  <2> QED BY <2>1 DEF KidOf
<1> QED BY <1>1, <1>2 DEF Hangs

\* A kid of n: what is known of it.
LEMMA KidParts ==
    ASSUME NEW t, NEW g, NEW O, Shape(t, g, O), NEW n \in DOMAIN t.node,
           NEW i \in 1 .. Len(t.node[n].kids)
    PROVE  LET c == t.node[n].kids[i] IN
           /\ c \in DOMAIN t.node /\ c \notin O /\ t.node[c].parent = n
           /\ g.lev[c] = g.lev[n] - 1 /\ g.lev[n] \in Nat /\ g.lev[c] \in Nat
           /\ g.lev[n] > 0 /\ t.node[n].kids # <<>> /\ c # n
<1>1. PICK c : c = t.node[n].kids[i]
  OBVIOUS
<1>2. KidOf(t, g, O, n, c) /\ LevelOf(g, n, t.node[n])
  BY <1>1 DEF Shape, Hangs
<1>3. LevelOf(g, c, t.node[c])
  BY <1>2 DEF Shape, Hangs, KidOf
<1>4. c \in DOMAIN t.node /\ c \notin O /\ t.node[c].parent = n
  BY <1>2 DEF KidOf
<1>5. g.lev[c] = g.lev[n] - 1 /\ g.lev[n] \in Nat /\ g.lev[c] \in Nat
  BY <1>2, <1>3 DEF KidOf, LevelOf
<1>6. g.lev[n] > 0
  BY <1>5
<1>7. t.node[n].kids # <<>>
  BY <1>2, <1>6 DEF LevelOf
<1>8. c # n
  BY <1>5
<1> QED BY <1>1, <1>4, <1>5, <1>6, <1>7, <1>8

\* The keys are numbers.
LEMMA KeysAreInts ==
    ASSUME NEW t, Arena(t), NEW n \in DOMAIN t.node
    PROVE  /\ t.node[n].keys \in Seq(Key) /\ t.node[n].keys \in Seq(Int)
           /\ t.node[n].kids \in Seq(Int) /\ t.node[n].vals \in Seq(Value)
           /\ \A i \in 1 .. Len(t.node[n].keys) : t.node[n].keys[i] \in Int
<1>1. t.node[n].keys \in Seq(Key) /\ t.node[n].kids \in Seq(Int) /\ t.node[n].vals \in Seq(Value)
  BY ArenaParts
<1>2. Key \subseteq Int
  BY KeyAssumption
<1>3. t.node[n].keys \in Seq(Int)
  BY <1>1, <1>2, SeqMonotonic
<1> QED BY <1>1, <1>3

\* The kids of a node are pairwise different.
LEMMA KidsDistinct ==
    ASSUME NEW t, NEW g, NEW O, Arena(t), Shape(t, g, O), Order(t, g), NEW n \in DOMAIN t.node,
           NEW i \in 1 .. Len(t.node[n].kids), NEW j \in 1 .. Len(t.node[n].kids), i # j
    PROVE  t.node[n].kids[i] # t.node[n].kids[j]
<1>1. PICK r : r = t.node[n]
  OBVIOUS
<1>2. r.kids # <<>> /\ Guides(g, n, r) /\ r.kids \in Seq(Int) /\ r.keys \in Seq(Int)
  BY <1>1, KidParts, GuidesParts, KeysAreInts
<1>3. InnerKeys(g, n, r) /\ Sorted(r.keys) /\ RangeOf(g, n)
  BY <1>2 DEF Guides
<1>4. KidRange(g, n, r, i) /\ KidRange(g, n, r, j)
  BY <1>1, <1>3 DEF InnerKeys
<1>5. ASSUME NEW a \in 1 .. Len(r.kids), NEW b \in 1 .. Len(r.kids), a < b,
             KidRange(g, n, r, a), KidRange(g, n, r, b)
      PROVE  g.lo[r.kids[a]] # g.lo[r.kids[b]]
  <2>1. b - 1 \in 1 .. Len(r.keys) /\ r.keys[b - 1] \in Int
    BY <1>2, <1>3, <1>5 DEF InnerKeys
  <2>2. g.lo[r.kids[b]] = r.keys[b - 1] /\ g.lo[n] < r.keys[b - 1] /\ g.lo[n] \in Int
    BY <2>1, <1>3, <1>5 DEF InnerKeys, KidRange, RangeOf
  <2>3. CASE a = 1
    BY <2>2, <2>3, <1>5 DEF KidRange
  <2>4. CASE a > 1
    <3>0. a \in Int /\ b \in Int /\ Len(r.keys) \in Int
      BY <1>2
    <3>1. a - 1 \in 1 .. Len(r.keys) /\ a - 1 < b - 1
      BY <3>0, <2>1, <2>4, <1>5
    <3>3. r.keys[a - 1] \in Int
      BY <3>1, <1>2
    <3>2. r.keys[a - 1] < r.keys[b - 1]
      BY <2>1, <3>1, <1>3 DEF Sorted
    <3>4. g.lo[r.kids[a]] = r.keys[a - 1]
      BY <3>0, <2>4, <1>5 DEF KidRange
    <3> QED BY <3>2, <3>3, <3>4, <2>1, <2>2
  <2> QED BY <2>3, <2>4, <1>2
<1>6. Len(r.kids) \in Nat
  BY <1>2
<1>7. CASE i < j
  BY <1>1, <1>4, <1>5, <1>7
<1>8. CASE j < i
  BY <1>1, <1>4, <1>5, <1>8
<1> QED BY <1>6, <1>7, <1>8, <1>1

\* The keys of one node: replaced.
KeysSet(f, h, p, x) ==
    /\ DOMAIN h = DOMAIN f /\ h[p].keys = x
    /\ \A n \in DOMAIN f :
         /\ n # p => h[n] = f[n] /\ h[n].keys = f[n].keys
         /\ h[n].vals = f[n].vals /\ h[n].kids = f[n].kids /\ h[n].parent = f[n].parent
         /\ h[n].prev = f[n].prev /\ h[n].next = f[n].next

\* What that does to the nodes.
LEMMA SetKeys ==
    ASSUME NEW D, NEW f \in [D -> NodeRec], NEW p \in D, NEW x \in Seq(Key),
           NEW h, h = WithKeys(f, p, x)
    PROVE  h \in [D -> NodeRec] /\ KeysSet(f, h, p, x)
<1>1. PICK r : r = f[p]
  OBVIOUS
<1>2. r \in NodeRec
  BY <1>1
<1>3. PICK q : q = [r EXCEPT !.keys = x]
  OBVIOUS
<1>4. q \in NodeRec /\ q.keys = x /\ q.vals = r.vals /\ q.kids = r.kids /\ q.parent = r.parent /\ q.prev = r.prev /\ q.next = r.next
  BY <1>2, <1>3 DEF NodeRec
<1>5. h = [f EXCEPT ![p] = q]
  BY <1>1, <1>3 DEF WithKeys
<1>6. h \in [D -> NodeRec] /\ DOMAIN h = D /\ DOMAIN f = D
  BY <1>4, <1>5
<1>7. h[p] = q /\ \A n \in D : n # p => h[n] = f[n]
  BY <1>5
<1> QED BY <1>1, <1>4, <1>6, <1>7 DEF KeysSet

\* The vals of one node: replaced.
ValsSet(f, h, p, x) ==
    /\ DOMAIN h = DOMAIN f /\ h[p].vals = x
    /\ \A n \in DOMAIN f :
         /\ n # p => h[n] = f[n] /\ h[n].vals = f[n].vals
         /\ h[n].keys = f[n].keys /\ h[n].kids = f[n].kids /\ h[n].parent = f[n].parent
         /\ h[n].prev = f[n].prev /\ h[n].next = f[n].next

\* What that does to the nodes.
LEMMA SetVals ==
    ASSUME NEW D, NEW f \in [D -> NodeRec], NEW p \in D, NEW x \in Seq(Value),
           NEW h, h = WithVals(f, p, x)
    PROVE  h \in [D -> NodeRec] /\ ValsSet(f, h, p, x)
<1>1. PICK r : r = f[p]
  OBVIOUS
<1>2. r \in NodeRec
  BY <1>1
<1>3. PICK q : q = [r EXCEPT !.vals = x]
  OBVIOUS
<1>4. q \in NodeRec /\ q.vals = x /\ q.keys = r.keys /\ q.kids = r.kids /\ q.parent = r.parent /\ q.prev = r.prev /\ q.next = r.next
  BY <1>2, <1>3 DEF NodeRec
<1>5. h = [f EXCEPT ![p] = q]
  BY <1>1, <1>3 DEF WithVals
<1>6. h \in [D -> NodeRec] /\ DOMAIN h = D /\ DOMAIN f = D
  BY <1>4, <1>5
<1>7. h[p] = q /\ \A n \in D : n # p => h[n] = f[n]
  BY <1>5
<1> QED BY <1>1, <1>4, <1>6, <1>7 DEF ValsSet

\* The kids of one node: replaced.
KidsSet(f, h, p, x) ==
    /\ DOMAIN h = DOMAIN f /\ h[p].kids = x
    /\ \A n \in DOMAIN f :
         /\ n # p => h[n] = f[n] /\ h[n].kids = f[n].kids
         /\ h[n].keys = f[n].keys /\ h[n].vals = f[n].vals /\ h[n].parent = f[n].parent
         /\ h[n].prev = f[n].prev /\ h[n].next = f[n].next

\* What that does to the nodes.
LEMMA SetKids ==
    ASSUME NEW D, NEW f \in [D -> NodeRec], NEW p \in D, NEW x \in Seq(Int),
           NEW h, h = WithKids(f, p, x)
    PROVE  h \in [D -> NodeRec] /\ KidsSet(f, h, p, x)
<1>1. PICK r : r = f[p]
  OBVIOUS
<1>2. r \in NodeRec
  BY <1>1
<1>3. PICK q : q = [r EXCEPT !.kids = x]
  OBVIOUS
<1>4. q \in NodeRec /\ q.kids = x /\ q.keys = r.keys /\ q.vals = r.vals /\ q.parent = r.parent /\ q.prev = r.prev /\ q.next = r.next
  BY <1>2, <1>3 DEF NodeRec
<1>5. h = [f EXCEPT ![p] = q]
  BY <1>1, <1>3 DEF WithKids
<1>6. h \in [D -> NodeRec] /\ DOMAIN h = D /\ DOMAIN f = D
  BY <1>4, <1>5
<1>7. h[p] = q /\ \A n \in D : n # p => h[n] = f[n]
  BY <1>5
<1> QED BY <1>1, <1>4, <1>6, <1>7 DEF KidsSet

\* The parent of one node: replaced.
ParentSet(f, h, p, x) ==
    /\ DOMAIN h = DOMAIN f /\ h[p].parent = x
    /\ \A n \in DOMAIN f :
         /\ n # p => h[n] = f[n] /\ h[n].parent = f[n].parent
         /\ h[n].keys = f[n].keys /\ h[n].vals = f[n].vals /\ h[n].kids = f[n].kids
         /\ h[n].prev = f[n].prev /\ h[n].next = f[n].next

\* What that does to the nodes.
LEMMA SetParent ==
    ASSUME NEW D, NEW f \in [D -> NodeRec], NEW p \in D, NEW x \in Int,
           NEW h, h = WithParent(f, p, x)
    PROVE  h \in [D -> NodeRec] /\ ParentSet(f, h, p, x)
<1>1. PICK r : r = f[p]
  OBVIOUS
<1>2. r \in NodeRec
  BY <1>1
<1>3. PICK q : q = [r EXCEPT !.parent = x]
  OBVIOUS
<1>4. q \in NodeRec /\ q.parent = x /\ q.keys = r.keys /\ q.vals = r.vals /\ q.kids = r.kids /\ q.prev = r.prev /\ q.next = r.next
  BY <1>2, <1>3 DEF NodeRec
<1>5. h = [f EXCEPT ![p] = q]
  BY <1>1, <1>3 DEF WithParent
<1>6. h \in [D -> NodeRec] /\ DOMAIN h = D /\ DOMAIN f = D
  BY <1>4, <1>5
<1>7. h[p] = q /\ \A n \in D : n # p => h[n] = f[n]
  BY <1>5
<1> QED BY <1>1, <1>4, <1>6, <1>7 DEF ParentSet

\* The prev of one node: replaced.
WithPrev(f, p, x) == [f EXCEPT ![p].prev = x]
PrevSet(f, h, p, x) ==
    /\ DOMAIN h = DOMAIN f /\ h[p].prev = x
    /\ \A n \in DOMAIN f :
         /\ n # p => h[n] = f[n] /\ h[n].prev = f[n].prev
         /\ h[n].keys = f[n].keys /\ h[n].vals = f[n].vals /\ h[n].kids = f[n].kids
         /\ h[n].parent = f[n].parent /\ h[n].next = f[n].next

\* What that does to the nodes.
LEMMA SetPrev ==
    ASSUME NEW D, NEW f \in [D -> NodeRec], NEW p \in D, NEW x \in Int,
           NEW h, h = WithPrev(f, p, x)
    PROVE  h \in [D -> NodeRec] /\ PrevSet(f, h, p, x)
<1>1. PICK r : r = f[p]
  OBVIOUS
<1>2. r \in NodeRec
  BY <1>1
<1>3. PICK q : q = [r EXCEPT !.prev = x]
  OBVIOUS
<1>4. q \in NodeRec /\ q.prev = x /\ q.keys = r.keys /\ q.vals = r.vals /\ q.kids = r.kids /\ q.parent = r.parent /\ q.next = r.next
  BY <1>2, <1>3 DEF NodeRec
<1>5. h = [f EXCEPT ![p] = q]
  BY <1>1, <1>3 DEF WithPrev
<1>6. h \in [D -> NodeRec] /\ DOMAIN h = D /\ DOMAIN f = D
  BY <1>4, <1>5
<1>7. h[p] = q /\ \A n \in D : n # p => h[n] = f[n]
  BY <1>5
<1> QED BY <1>1, <1>4, <1>6, <1>7 DEF PrevSet

\* The next of one node: replaced.
WithNext(f, p, x) == [f EXCEPT ![p].next = x]
NextSet(f, h, p, x) ==
    /\ DOMAIN h = DOMAIN f /\ h[p].next = x
    /\ \A n \in DOMAIN f :
         /\ n # p => h[n] = f[n] /\ h[n].next = f[n].next
         /\ h[n].keys = f[n].keys /\ h[n].vals = f[n].vals /\ h[n].kids = f[n].kids
         /\ h[n].parent = f[n].parent /\ h[n].prev = f[n].prev

\* What that does to the nodes.
LEMMA SetNext ==
    ASSUME NEW D, NEW f \in [D -> NodeRec], NEW p \in D, NEW x \in Int,
           NEW h, h = WithNext(f, p, x)
    PROVE  h \in [D -> NodeRec] /\ NextSet(f, h, p, x)
<1>1. PICK r : r = f[p]
  OBVIOUS
<1>2. r \in NodeRec
  BY <1>1
<1>3. PICK q : q = [r EXCEPT !.next = x]
  OBVIOUS
<1>4. q \in NodeRec /\ q.next = x /\ q.keys = r.keys /\ q.vals = r.vals /\ q.kids = r.kids /\ q.parent = r.parent /\ q.prev = r.prev
  BY <1>2, <1>3 DEF NodeRec
<1>5. h = [f EXCEPT ![p] = q]
  BY <1>1, <1>3 DEF WithNext
<1>6. h \in [D -> NodeRec] /\ DOMAIN h = D /\ DOMAIN f = D
  BY <1>4, <1>5
<1>7. h[p] = q /\ \A n \in D : n # p => h[n] = f[n]
  BY <1>5
<1> QED BY <1>1, <1>4, <1>6, <1>7 DEF NextSet

SameFrame(t, u) ==
    /\ u.free = t.free /\ u.hi = t.hi /\ u.root = t.root /\ u.first = t.first
    /\ u.last = t.last /\ u.len = t.len /\ u.height = t.height
    /\ DOMAIN u.node = DOMAIN t.node

EnterView(t, u, p, i, k, c) ==
    /\ SameFrame(t, u)
    /\ u.node[p].keys = InsertAt(t.node[p].keys, i, k)
    /\ u.node[p].kids = InsertAt(t.node[p].kids, i + 1, c)
    /\ u.node[c].parent = p
    /\ \A n \in DOMAIN t.node :
         /\ n # p => u.node[n].keys = t.node[n].keys /\ u.node[n].kids = t.node[n].kids
         /\ n # c => u.node[n].parent = t.node[n].parent
         /\ u.node[n].vals = t.node[n].vals
         /\ u.node[n].prev = t.node[n].prev /\ u.node[n].next = t.node[n].next

\* What InternalInsertAt changes.
LEMMA EnterEffect ==
    ASSUME NEW t, Arena(t), NEW p \in DOMAIN t.node, NEW c \in DOMAIN t.node, p # c,
           NEW i \in 1 .. Len(t.node[p].keys) + 1, NEW k \in Key,
           i + 1 \in 1 .. Len(t.node[p].kids) + 1,
           NEW u, u = InternalInsertAt(t, p, i, k, c)
    PROVE  Arena(u) /\ EnterView(t, u, p, i, k, c)
<1>1. t = TreeOf(t.node, t.free, t.hi, t.root, t.first, t.last, t.len, t.height)
  BY ArenaParts
<1>2. u = TreeOf(u.node, t.free, t.hi, t.root, t.first, t.last, t.len, t.height)
  BY <1>1 DEF InternalInsertAt, TreeOf
<1>3. u.node = [[[t.node EXCEPT ![p].keys = InsertAt(@, i, k)] EXCEPT ![p].kids = InsertAt(@, i + 1, c)]
                  EXCEPT ![c].parent = p]
  BY <1>1 DEF InternalInsertAt, TreeOf
<1>4. PICK f0 : f0 = t.node
  OBVIOUS
<1>5. PICK D : D = DOMAIN t.node
  OBVIOUS
<1>6. f0 \in [D -> NodeRec] /\ p \in D /\ c \in D /\ p \in Int /\ c \in Int
  BY <1>4, <1>5, ArenaParts DEF Arena
<1>7. PICK ks : ks = InsertAt(t.node[p].keys, i, k)
  OBVIOUS
<1>8. PICK cs : cs = InsertAt(t.node[p].kids, i + 1, c)
  OBVIOUS
<1>9. ks \in Seq(Key) /\ cs \in Seq(Int)
  BY <1>6, <1>7, <1>8, ArenaParts, InsertAtProps
<1>10. PICK f1 : f1 = WithKeys(f0, p, ks)
  OBVIOUS
<1>11. f1 \in [D -> NodeRec] /\ KeysSet(f0, f1, p, ks)
  BY <1>6, <1>9, <1>10, SetKeys
<1>12. PICK f2 : f2 = WithKids(f1, p, cs)
  OBVIOUS
<1>13. f2 \in [D -> NodeRec] /\ KidsSet(f1, f2, p, cs)
  BY <1>6, <1>9, <1>11, <1>12, SetKids
<1>14. PICK f3 : f3 = WithParent(f2, c, p)
  OBVIOUS
<1>15. f3 \in [D -> NodeRec] /\ ParentSet(f2, f3, c, p)
  BY <1>6, <1>13, <1>14, SetParent
<1>16. f1[p].kids = t.node[p].kids
  BY <1>4, <1>6, <1>11 DEF KeysSet
<1>17. u.node = f3
  BY <1>3, <1>4, <1>7, <1>8, <1>10, <1>12, <1>14, <1>16
     DEF WithKeys, WithKids, WithParent
<1>18. SameFrame(t, u)
  BY <1>2, <1>5, <1>15, <1>17 DEF SameFrame, TreeOf
<1>19. Arena(u)
  BY <1>2, <1>5, <1>15, <1>17, <1>18 DEF Arena, SameFrame, TreeOf
<1>20. /\ DOMAIN f0 = D /\ DOMAIN f1 = D /\ DOMAIN f2 = D
  BY <1>6, <1>11, <1>13
<1>21. EnterView(t, u, p, i, k, c)
  BY <1>4, <1>5, <1>6, <1>7, <1>8, <1>11, <1>13, <1>15, <1>17, <1>18, <1>20
     DEF EnterView, KeysSet, KidsSet, ParentSet
<1> QED BY <1>19, <1>21

\* The ranges once no split is under way.
Calm(g) == [lev |-> g.lev, lo |-> g.lo, hi |-> g.hi, out |-> g.hi]

\* The fields of Calm.
LEMMA CalmParts ==
    ASSUME NEW g
    PROVE  Calm(g).lev = g.lev /\ Calm(g).lo = g.lo /\ Calm(g).hi = g.hi /\ Calm(g).out = g.hi
BY DEF Calm

\* The kids of p and its keys once a separator and the child behind it are in.
EnteredSeqs(ks, cs, i, k, r, ks2, cs2) ==
    /\ ks2 \in Seq(Key) /\ Len(ks2) = Len(ks) + 1
    /\ \A j \in 1 .. Len(ks) + 1 : ks2[j] = IF j < i THEN ks[j] ELSE IF j = i THEN k ELSE ks[j - 1]
    /\ cs2 \in Seq(Int) /\ Len(cs2) = Len(cs) + 1
    /\ \A j \in 1 .. Len(cs) + 1 :
         cs2[j] = IF j < i + 1 THEN cs[j] ELSE IF j = i + 1 THEN r ELSE cs[j - 1]

\* Kid x of internal node n, at slot i.
LEMMA KidBounds ==
    ASSUME NEW t, NEW g, NEW O, Arena(t), Shape(t, g, O), Order(t, g), NEW n \in DOMAIN t.node,
           NEW i \in 1 .. Len(t.node[n].kids)
    PROVE  LET r == t.node[n] IN
           /\ r.kids \in Seq(Int) /\ r.keys \in Seq(Key) /\ r.keys \in Seq(Int)
           /\ InnerKeys(g, n, r) /\ KidRange(g, n, r, i) /\ Sorted(r.keys) /\ RangeOf(g, n)
           /\ Len(r.kids) = Len(r.keys) + 1 /\ Len(r.keys) \in Nat
<1>1. PICK r : r = t.node[n]
  OBVIOUS
<1>2. r.kids # <<>> /\ Guides(g, n, r) /\ r.kids \in Seq(Int) /\ r.keys \in Seq(Int) /\ r.keys \in Seq(Key)
  BY <1>1, KidParts, GuidesParts, KeysAreInts
<1>3. InnerKeys(g, n, r) /\ Sorted(r.keys) /\ RangeOf(g, n)
  BY <1>2 DEF Guides
<1>4. KidRange(g, n, r, i) /\ Len(r.kids) = Len(r.keys) + 1 /\ Len(r.keys) \in Nat
  BY <1>1, <1>2, <1>3 DEF InnerKeys
<1> QED BY <1>1, <1>2, <1>3, <1>4

EnteredNums(m, i, k, x, r, p, ks, cs, ks2, cs2, lo, hi, out) ==
    /\ \A j \in 1 .. m + 1 : ks2[j] = IF j < i THEN ks[j] ELSE IF j = i THEN k ELSE ks[j - 1]
    /\ \A j \in 1 .. m + 2 : cs2[j] = IF j < i + 1 THEN cs[j] ELSE IF j = i + 1 THEN r ELSE cs[j - 1]
    /\ \A j \in 1 .. m : lo[p] < ks[j] /\ ks[j] < hi[p] /\ ks[j] \in Int
    /\ \A a, b \in 1 .. m : a < b => ks[a] < ks[b]
    /\ \A j \in 1 .. m + 1 : /\ lo[cs[j]] = IF j = 1 THEN lo[p] ELSE ks[j - 1]
                             /\ out[cs[j]] = IF j = m + 1 THEN hi[p] ELSE ks[j]
                             /\ j # i => out[cs[j]] = hi[cs[j]]
    /\ lo[p] \in Int /\ hi[p] \in Int /\ lo[x] \in Int /\ hi[r] \in Int
    /\ lo[x] < k /\ k < hi[r] /\ cs[i] = x /\ hi[x] = k /\ lo[r] = k /\ out[x] = hi[r]

\* The keys ks of node p, m of them, ascend within its range and cut the ranges
\* of its kids cs out of it.
CutUp(m, p, ks, cs, lo, hi) ==
    /\ \A a, b \in 1 .. m : a < b => ks[a] < ks[b]
    /\ \A a \in 1 .. m : lo[p] < ks[a] /\ ks[a] < hi[p]
    /\ \A a \in 1 .. m + 1 : /\ lo[cs[a]] = IF a = 1 THEN lo[p] ELSE ks[a - 1]
                             /\ hi[cs[a]] = IF a = m + 1 THEN hi[p] ELSE ks[a]

\* The numbers of a node that takes a key and a kid in.
LEMMA EnterNums ==
    ASSUME NEW m \in Nat, NEW i \in 1 .. m + 1, NEW k \in Int, NEW x, NEW r, NEW p,
           NEW ks, NEW cs, NEW ks2, NEW cs2, NEW lo, NEW hi, NEW out,
           EnteredNums(m, i, k, x, r, p, ks, cs, ks2, cs2, lo, hi, out)
    PROVE  CutUp(m + 1, p, ks2, cs2, lo, hi)
<1>6. i \in Int /\ m \in Int
  OBVIOUS
<1>7. /\ \A j \in 1 .. m + 1 : ks2[j] = IF j < i THEN ks[j] ELSE IF j = i THEN k ELSE ks[j - 1]
      /\ \A j \in 1 .. m + 2 :
           cs2[j] = IF j < i + 1 THEN cs[j] ELSE IF j = i + 1 THEN r ELSE cs[j - 1]
  BY DEF EnteredNums
<1>8. /\ \A j \in 1 .. m : lo[p] < ks[j] /\ ks[j] < hi[p]
      /\ \A j \in 1 .. m : ks[j] \in Int
      /\ \A a, b \in 1 .. m : a < b => ks[a] < ks[b]
  BY DEF EnteredNums
<1>9. \A j \in 1 .. m + 1 : /\ lo[cs[j]] = IF j = 1 THEN lo[p] ELSE ks[j - 1]
                            /\ out[cs[j]] = IF j = m + 1 THEN hi[p] ELSE ks[j]
  BY DEF EnteredNums
<1>10. /\ lo[p] \in Int /\ hi[p] \in Int /\ lo[x] \in Int /\ hi[r] \in Int
       /\ lo[x] < k /\ k < hi[r] /\ cs[i] = x /\ hi[x] = k /\ lo[r] = k /\ out[x] = hi[r]
  BY DEF EnteredNums
<1>11. /\ i = 1 => lo[x] = lo[p]
       /\ i > 1 => lo[x] = ks[i - 1] /\ i - 1 \in 1 .. m
       /\ i = m + 1 => hi[r] = hi[p]
       /\ i < m + 1 => hi[r] = ks[i] /\ i \in 1 .. m
  BY <1>6, <1>9, <1>10
<1>12. lo[p] < k /\ k < hi[p]
  <2>1. CASE i = 1
    <3>1. CASE m = 0
      BY <2>1, <3>1, <1>6, <1>10, <1>11
    <3>2. CASE m > 0
      BY <2>1, <3>2, <1>6, <1>8, <1>10, <1>11
    <3> QED BY <3>1, <3>2, <1>6
  <2>2. CASE i > 1
    <3>1. ks[i - 1] \in Int /\ lo[p] < ks[i - 1]
      BY <2>2, <1>8, <1>11
    <3>2. CASE i = m + 1
      BY <2>2, <3>1, <3>2, <1>10, <1>11
    <3>3. CASE i < m + 1
      BY <2>2, <3>1, <3>3, <1>8, <1>10, <1>11
    <3> QED BY <3>2, <3>3, <1>6
  <2> QED BY <2>1, <2>2, <1>6
<1>13. ASSUME NEW a \in 1 .. m, a < i PROVE ks[a] < k
  <2>1. i > 1 /\ i - 1 \in 1 .. m /\ a <= i - 1 /\ ks[i - 1] = lo[x]
    BY <1>13, <1>6, <1>11
  <2>2. ks[i - 1] < k /\ ks[i - 1] \in Int /\ ks[a] \in Int
    BY <2>1, <1>8, <1>10
  <2>3. a = i - 1 \/ ks[a] < ks[i - 1]
    BY <2>1, <1>8
  <2> QED BY <2>2, <2>3
<1>14. ASSUME NEW a \in 1 .. m, i <= a PROVE k < ks[a]
  <2>1. i \in 1 .. m /\ ks[i] = hi[r]
    BY <1>14, <1>6, <1>11
  <2>2. k < ks[i] /\ ks[i] \in Int /\ ks[a] \in Int
    BY <2>1, <1>8, <1>10
  <2>3. a = i \/ ks[i] < ks[a]
    BY <2>1, <1>8, <1>14
  <2> QED BY <2>2, <2>3, <1>10
<1>15. ASSUME NEW a \in 1 .. m + 1, NEW b \in 1 .. m + 1, a < b PROVE ks2[a] < ks2[b]
  <2>1. CASE b < i
    <3>1. a \in 1 .. m /\ b \in 1 .. m
      BY <2>1, <1>6, <1>15
    <3> QED BY <2>1, <3>1, <1>7, <1>8, <1>15
  <2>2. CASE b = i
    <3>1. a \in 1 .. m /\ a < i
      BY <2>2, <1>6, <1>15
    <3> QED BY <2>2, <3>1, <1>7, <1>13
  <2>3. CASE b > i
    <3>1. b - 1 \in 1 .. m /\ i <= b - 1 /\ ks2[b] = ks[b - 1]
      BY <2>3, <1>6, <1>7
    <3>2. CASE a < i
      <4>1. a \in 1 .. m /\ ks2[a] = ks[a] /\ a < b - 1
        BY <3>1, <3>2, <1>6, <1>7
      <4> QED BY <4>1, <3>1, <1>8
    <3>3. CASE a = i
      BY <3>1, <3>3, <1>7, <1>14
    <3>4. CASE a > i
      <4>1. a - 1 \in 1 .. m /\ ks2[a] = ks[a - 1] /\ a - 1 < b - 1
        BY <3>1, <3>4, <1>6, <1>7, <1>15
      <4> QED BY <4>1, <3>1, <1>8
    <3> QED BY <3>2, <3>3, <3>4, <1>6
  <2> QED BY <2>1, <2>2, <2>3, <1>6
<1>16. ASSUME NEW a \in 1 .. m + 1 PROVE lo[p] < ks2[a] /\ ks2[a] < hi[p]
  <2>1. CASE a < i
    BY <2>1, <1>6, <1>7, <1>8
  <2>2. CASE a = i
    BY <2>2, <1>7, <1>12
  <2>3. CASE a > i
    <3>1. a - 1 \in 1 .. m /\ ks2[a] = ks[a - 1]
      BY <2>3, <1>6, <1>7
    <3> QED BY <3>1, <1>8
  <2> QED BY <2>1, <2>2, <2>3, <1>6
<1>17. ASSUME NEW a \in 1 .. m + 1, a # i PROVE out[cs[a]] = hi[cs[a]]
  BY <1>17 DEF EnteredNums
<1>18. ASSUME NEW a \in 1 .. m + 2
       PROVE  /\ lo[cs2[a]] = IF a = 1 THEN lo[p] ELSE ks2[a - 1]
              /\ hi[cs2[a]] = IF a = m + 2 THEN hi[p] ELSE ks2[a]
  <2>1. CASE a < i
    <3>1. a \in 1 .. m + 1 /\ cs2[a] = cs[a] /\ a # i /\ a # m + 1 /\ a # m + 2 /\ a \in 1 .. m
      BY <2>1, <1>6, <1>7
    <3>2. lo[cs[a]] = (IF a = 1 THEN lo[p] ELSE ks[a - 1]) /\ hi[cs[a]] = ks[a] /\ ks2[a] = ks[a]
      BY <2>1, <3>1, <1>7, <1>9, <1>17
    <3>3. a # 1 => ks2[a - 1] = ks[a - 1]
      BY <2>1, <3>1, <1>6, <1>7
    <3> QED BY <3>1, <3>2, <3>3
  <2>2. CASE a = i
    <3>1. cs2[a] = x /\ a # m + 2 /\ ks2[a] = k /\ a \in 1 .. m + 1
      BY <2>2, <1>6, <1>7, <1>10
    <3>2. a # 1 => ks2[a - 1] = ks[a - 1] /\ lo[x] = ks[a - 1]
      BY <2>2, <3>1, <1>6, <1>7, <1>11
    <3> QED BY <2>2, <3>1, <3>2, <1>10, <1>11
  <2>3. CASE a = i + 1
    <3>1. cs2[a] = r /\ a # 1 /\ a - 1 = i /\ ks2[a - 1] = k
      BY <2>3, <1>6, <1>7
    <3>2. a = m + 2 => hi[r] = hi[p]
      BY <2>3, <1>6, <1>11
    <3>3. a # m + 2 => hi[r] = ks[i] /\ ks2[a] = ks[i]
      <4>1. SUFFICES ASSUME a # m + 2 PROVE hi[r] = ks[i] /\ ks2[a] = ks[i]
        OBVIOUS
      <4>2. i < m + 1 /\ a \in 1 .. m + 1 /\ a > i
        BY <2>3, <4>1, <1>6
      <4> QED BY <4>2, <2>3, <3>1, <1>7, <1>11
    <3> QED BY <3>1, <3>2, <3>3, <1>10
  <2>4. CASE a > i + 1
    <3>1. PICK b : b = a - 1
      OBVIOUS
    <3>2. b \in 1 .. m + 1 /\ b > i /\ cs2[a] = cs[b] /\ b # 1 /\ a # 1 /\ b # i /\ b - 1 \in 1 .. m /\ b - 1 >= i
      BY <2>4, <3>1, <1>6, <1>7
    <3>3. lo[cs[b]] = ks[b - 1] /\ ks2[b] = ks[b - 1]
      BY <3>2, <1>7, <1>9
    <3>4. hi[cs[b]] = IF b = m + 1 THEN hi[p] ELSE ks[b]
      BY <3>2, <1>9, <1>17
    <3>5. a # m + 2 => b # m + 1 /\ ks2[a] = ks[b]
      <4>1. SUFFICES ASSUME a # m + 2 PROVE b # m + 1 /\ ks2[a] = ks[b]
        OBVIOUS
      <4>2. a \in 1 .. m + 1 /\ a > i
        BY <2>4, <4>1, <1>6
      <4> QED BY <4>2, <3>1, <3>2, <1>7
    <3>6. a = m + 2 => b = m + 1
      BY <3>1, <1>6
    <3> QED BY <3>1, <3>2, <3>3, <3>4, <3>5, <3>6
  <2> QED BY <2>1, <2>2, <2>3, <2>4, <1>6
<1>19. m + 1 + 1 = m + 2
  OBVIOUS
<1> QED BY <1>15, <1>16, <1>18, <1>19 DEF CutUp

\* Cut-up ranges are what Guides asks of an internal node.
LEMMA CutUpGuides ==
    ASSUME NEW g, NEW p, NEW w, NEW m \in Nat, RangeOf(g, p), w.keys \in Seq(Key), w.kids \in Seq(Int),
           Len(w.keys) = m, Len(w.kids) = m + 1, CutUp(m, p, w.keys, w.kids, g.lo, g.hi)
    PROVE  Guides(Calm(g), p, w)
<1>1. RangeOf(Calm(g), p)
  BY CalmParts DEF RangeOf
<1>2. Sorted(w.keys)
  BY DEF Sorted, CutUp
<1>3. w.kids # <<>>
  OBVIOUS
<1>4. InnerKeys(Calm(g), p, w)
  <2>1. ASSUME NEW a \in 1 .. m + 1 PROVE KidRange(Calm(g), p, w, a)
    <3>1. /\ g.lo[w.kids[a]] = IF a = 1 THEN g.lo[p] ELSE w.keys[a - 1]
          /\ g.hi[w.kids[a]] = IF a = m + 1 THEN g.hi[p] ELSE w.keys[a]
      BY DEF CutUp
    <3> QED BY <3>1, CalmParts DEF KidRange
  <2>2. \A a \in 1 .. m : g.lo[p] < w.keys[a] /\ w.keys[a] < g.hi[p]
    BY DEF CutUp
  <2> QED BY <2>1, <2>2, CalmParts DEF InnerKeys
<1> QED BY <1>1, <1>2, <1>3, <1>4 DEF Guides

\* Order is kept at the parent that takes in the new node.
LEMMA EnterGuides ==
    ASSUME NEW g, NEW p, NEW q, NEW w, NEW i \in 1 .. Len(q.kids), NEW x, NEW k \in Key, NEW r \in Int,
           q.keys \in Seq(Key), q.keys \in Seq(Int), q.kids \in Seq(Int), q.kids # <<>>,
           Guides(g, p, q), RangeOf(g, x), RangeOf(g, r), q.kids[i] = x,
           g.hi[x] = k, g.lo[r] = k, g.out[x] = g.hi[r],
           \A j \in 1 .. Len(q.kids) : j # i => g.out[q.kids[j]] = g.hi[q.kids[j]],
           EnteredSeqs(q.keys, q.kids, i, k, r, w.keys, w.kids)
    PROVE  Guides(Calm(g), p, w)
<1>1. PICK ks : ks = q.keys
  OBVIOUS
<1>2. PICK cs : cs = q.kids
  OBVIOUS
<1>3. PICK ks2 : ks2 = w.keys
  OBVIOUS
<1>4. PICK cs2 : cs2 = w.kids
  OBVIOUS
<1>5. PICK m : m = Len(ks)
  OBVIOUS
<1>6. /\ ks \in Seq(Key) /\ ks \in Seq(Int) /\ cs \in Seq(Int) /\ m \in Nat /\ Len(cs) = m + 1
      /\ i \in 1 .. m + 1 /\ cs[i] = x
  BY <1>1, <1>2, <1>5 DEF Guides, InnerKeys
<1>7. /\ ks2 \in Seq(Key) /\ Len(ks2) = m + 1 /\ cs2 \in Seq(Int) /\ Len(cs2) = m + 2
      /\ \A j \in 1 .. m + 1 : ks2[j] = IF j < i THEN ks[j] ELSE IF j = i THEN k ELSE ks[j - 1]
      /\ \A j \in 1 .. m + 2 :
           cs2[j] = IF j < i + 1 THEN cs[j] ELSE IF j = i + 1 THEN r ELSE cs[j - 1]
  BY <1>1, <1>2, <1>3, <1>4, <1>5, <1>6 DEF EnteredSeqs
<1>8. /\ \A j \in 1 .. m : g.lo[p] < ks[j] /\ ks[j] < g.hi[p]
      /\ \A j \in 1 .. m : ks[j] \in Int
      /\ \A a, b \in 1 .. m : a < b => ks[a] < ks[b]
  BY <1>1, <1>5, <1>6 DEF Guides, InnerKeys, Sorted
<1>9. \A j \in 1 .. m + 1 : /\ g.lo[cs[j]] = IF j = 1 THEN g.lo[p] ELSE ks[j - 1]
                            /\ g.out[cs[j]] = IF j = m + 1 THEN g.hi[p] ELSE ks[j]
  BY <1>1, <1>2, <1>5, <1>6 DEF Guides, InnerKeys, KidRange
<1>10. /\ g.lo[p] \in Int /\ g.hi[p] \in Int /\ g.lo[x] \in Int /\ g.hi[r] \in Int /\ k \in Int
       /\ g.lo[x] < k /\ k < g.hi[r]
  <2>1. k \in Int
    BY KeyAssumption
  <2> QED BY <2>1 DEF Guides, RangeOf
<1>11. EnteredNums(m, i, k, x, r, p, ks, cs, ks2, cs2, g.lo, g.hi, g.out)
  BY <1>2, <1>6, <1>7, <1>8, <1>9, <1>10 DEF EnteredNums
<1>12. CutUp(m + 1, p, ks2, cs2, g.lo, g.hi)
  BY <1>6, <1>10, <1>11, EnterNums
<1>13. PICK M : M = m + 1
  OBVIOUS
<1>14. /\ M \in Nat /\ Len(w.keys) = M /\ Len(w.kids) = M + 1
       /\ w.keys \in Seq(Key) /\ w.kids \in Seq(Int)
  BY <1>3, <1>4, <1>6, <1>7, <1>13
<1>15. RangeOf(g, p) /\ CutUp(M, p, w.keys, w.kids, g.lo, g.hi)
  BY <1>3, <1>4, <1>12, <1>13 DEF Guides
<1> QED BY <1>14, <1>15, CutUpGuides

\* The tree holds the entry (k, v).
Has(t, k, v) ==
    \E l \in LeafSet(t) : \E i \in 1 .. Len(t.node[l].keys) :
        t.node[l].keys[i] = k /\ t.node[l].vals[i] = v
SameEntries(t, u) == \A k, v : Has(t, k, v) <=> Has(u, k, v)

\* The stored keys are those that have a value.
LEMMA KeySetHas ==
    ASSUME NEW t, Arena(t), NEW k
    PROVE  k \in KeySet(t) <=> \E v : Has(t, k, v)
<1>1. ASSUME NEW l \in LeafSet(t)
      PROVE  k \in ToSet(t.node[l].keys) <=> \E i \in 1 .. Len(t.node[l].keys) : t.node[l].keys[i] = k
  <2>1. t.node[l].keys \in Seq(Key)
    BY ArenaParts DEF LeafSet
  <2>2. DOMAIN t.node[l].keys = 1 .. Len(t.node[l].keys)
    BY <2>1
  <2> QED BY <2>2 DEF ToSet
<1>2. k \in KeySet(t) <=> \E l \in LeafSet(t) : k \in ToSet(t.node[l].keys)
  BY DEF KeySet
<1> QED BY <1>1, <1>2 DEF Has

\* The same entries have the same keys.
LEMMA SameKeySet ==
    ASSUME NEW t, NEW u, Arena(t), Arena(u), SameEntries(t, u)
    PROVE  KeySet(t) = KeySet(u)
<1>1. \A k : k \in KeySet(t) <=> \E v : Has(t, k, v)
  BY KeySetHas
<1>2. \A k : k \in KeySet(u) <=> \E v : Has(u, k, v)
  BY KeySetHas
<1> QED BY <1>1, <1>2 DEF SameEntries

\* The leaves keep what they hold and their links.
LeavesStay(t, u) ==
    /\ LeafSet(u) = LeafSet(t) /\ u.first = t.first /\ u.last = t.last
    /\ \A l \in LeafSet(t) :
         /\ u.node[l].keys = t.node[l].keys /\ u.node[l].vals = t.node[l].vals
         /\ u.node[l].prev = t.node[l].prev /\ u.node[l].next = t.node[l].next

\* Leaves that stay keep the entries.
LEMMA LeavesStaySame ==
    ASSUME NEW t, NEW u, LeavesStay(t, u)
    PROVE  SameEntries(t, u)
BY DEF LeavesStay, SameEntries, Has

\* Leaves that stay keep the links.
LEMMA LinksStay ==
    ASSUME NEW t, NEW u, NEW g, NEW h, LeavesStay(t, u), Links(t, g),
           \A l \in LeafSet(t) : h.lo[l] = g.lo[l] /\ h.hi[l] = g.hi[l]
    PROVE  Links(u, h)
<1>1. ASSUME NEW l \in LeafSet(t) PROVE LinksOf(u, h, l)
  <2>1. LinksOf(t, g, l)
    BY DEF Links
  <2>2. /\ u.node[l].next = t.node[l].next /\ u.node[l].prev = t.node[l].prev
        /\ h.lo[l] = g.lo[l] /\ h.hi[l] = g.hi[l] /\ u.first = t.first /\ u.last = t.last
        /\ LeafSet(u) = LeafSet(t)
    BY DEF LeavesStay
  <2>3. CASE t.node[l].next = NO_NODE /\ t.node[l].prev = NO_NODE
    BY <2>1, <2>2, <2>3 DEF LinksOf
  <2>4. ASSUME t.node[l].next # NO_NODE
        PROVE  LET m == t.node[l].next IN
               m \in LeafSet(t) /\ u.node[m].prev = l /\ h.lo[m] = h.hi[l]
    BY <2>1, <2>2, <2>4 DEF LinksOf, LeavesStay
  <2>5. ASSUME t.node[l].prev # NO_NODE
        PROVE  LET m == t.node[l].prev IN m \in LeafSet(t) /\ u.node[m].next = l
    BY <2>1, <2>2, <2>5 DEF LinksOf, LeavesStay
  <2> QED BY <2>1, <2>2, <2>4, <2>5 DEF LinksOf
<1> QED BY <1>1 DEF Links, LeavesStay

\* InternalInsertAt, in terms of sequences.
LEMMA EnterSeqs ==
    ASSUME NEW t, NEW u, Arena(t), NEW p \in DOMAIN t.node, NEW c \in DOMAIN t.node,
           NEW i \in 1 .. Len(t.node[p].kids), Len(t.node[p].kids) = Len(t.node[p].keys) + 1,
           NEW k \in Key, EnterView(t, u, p, i, k, c)
    PROVE  EnteredSeqs(t.node[p].keys, t.node[p].kids, i, k, c, u.node[p].keys, u.node[p].kids)
<1>1. PICK ks : ks = t.node[p].keys
  OBVIOUS
<1>2. PICK cs : cs = t.node[p].kids
  OBVIOUS
<1>3. ks \in Seq(Key) /\ cs \in Seq(Int) /\ c \in Int /\ Len(cs) = Len(ks) + 1
  BY <1>1, <1>2, ArenaParts
<1>4. i \in 1 .. Len(ks) + 1 /\ i + 1 \in 1 .. Len(cs) + 1
  BY <1>2, <1>3
<1>5. PICK j : j = i + 1
  OBVIOUS
<1>6. u.node[p].keys = InsertAt(ks, i, k) /\ u.node[p].kids = InsertAt(cs, j, c)
  BY <1>1, <1>2, <1>5 DEF EnterView
<1>7. InsertedAt(Key, ks, i, k, u.node[p].keys)
  BY <1>3, <1>4, <1>6, InsertAtDoes
<1>8. InsertedAt(Int, cs, j, c, u.node[p].kids)
  BY <1>3, <1>4, <1>5, <1>6, InsertAtDoes
<1>9. PICK ks2 : ks2 = u.node[p].keys
  OBVIOUS
<1>10. PICK cs2 : cs2 = u.node[p].kids
  OBVIOUS
<1>11. EnteredSeqs(ks, cs, i, k, c, ks2, cs2)
  BY <1>5, <1>7, <1>8, <1>9, <1>10 DEF EnteredSeqs, InsertedAt
<1> QED BY <1>1, <1>2, <1>9, <1>10, <1>11

\* Sequence cs2 has the elements of cs and r.
Joined(cs, r, cs2) ==
    /\ cs2 # <<>>
    /\ \E j \in 1 .. Len(cs2) : cs2[j] = r
    /\ \A a \in 1 .. Len(cs) : \E j \in 1 .. Len(cs2) : cs2[j] = cs[a]
    /\ \A j \in 1 .. Len(cs2) : cs2[j] = r \/ \E a \in 1 .. Len(cs) : cs2[j] = cs[a]

\* Where the kids of p are after another one has entered.
LEMMA EnteredSlots ==
    ASSUME NEW ks, NEW cs \in Seq(Int), NEW i \in 1 .. Len(cs), NEW k, NEW r, NEW ks2, NEW cs2,
           EnteredSeqs(ks, cs, i, k, r, ks2, cs2)
    PROVE  Joined(cs, r, cs2)
<1>1. PICK m : m = Len(cs)
  OBVIOUS
<1>2. /\ m \in Nat /\ i \in 1 .. m /\ Len(cs2) = m + 1 /\ cs2 \in Seq(Int)
      /\ \A j \in 1 .. m + 1 : cs2[j] = IF j < i + 1 THEN cs[j] ELSE IF j = i + 1 THEN r ELSE cs[j - 1]
  BY <1>1 DEF EnteredSeqs
<1>3. cs2 # <<>>
  BY <1>2
<1>4. i + 1 \in 1 .. m + 1 /\ cs2[i + 1] = r
  BY <1>2
<1>5. ASSUME NEW a \in 1 .. m PROVE \E j \in 1 .. m + 1 : cs2[j] = cs[a]
  <2>1. CASE a < i + 1
    <3>1. a \in 1 .. m + 1
      BY <1>2
    <3>2. cs2[a] = cs[a]
      BY <2>1, <3>1, <1>2
    <3> QED BY <3>1, <3>2
  <2>2. CASE a >= i + 1
    <3>1. PICK j : j = a + 1
      OBVIOUS
    <3>2. j \in 1 .. m + 1 /\ j > i + 1 /\ j - 1 = a
      BY <2>2, <3>1, <1>2
    <3>3. cs2[j] = cs[a]
      BY <3>2, <1>2
    <3> QED BY <3>2, <3>3
  <2> QED BY <2>1, <2>2, <1>2
<1>6. ASSUME NEW j \in 1 .. m + 1 PROVE cs2[j] = r \/ \E a \in 1 .. m : cs2[j] = cs[a]
  <2>1. CASE j < i + 1
    BY <2>1, <1>2
  <2>2. CASE j = i + 1
    BY <2>2, <1>2
  <2>3. CASE j > i + 1
    <3>1. j - 1 \in 1 .. m /\ cs2[j] = cs[j - 1]
      BY <2>3, <1>2
    <3> QED BY <3>1
  <2> QED BY <2>1, <2>2, <2>3, <1>2
<1>7. \E j \in 1 .. m + 1 : cs2[j] = r
  BY <1>4
<1> QED BY <1>1, <1>2, <1>3, <1>5, <1>6, <1>7 DEF Joined

\* A tree with a root, at rest.
SettledParts(t, g) ==
    /\ Arena(t) /\ Shape(t, g, {t.root}) /\ Order(t, g) /\ Links(t, g)
    /\ t.len = Cardinality(KeySet(t)) /\ RootTop(t, g)
    /\ \A n \in DOMAIN t.node : g.out[n] = g.hi[n]

\* The new kid hangs from its parent.
LEMMA EnterShape ==
    ASSUME NEW t, NEW u, NEW g, NEW x, NEW k, NEW r, SplittingG(t, g, x, k, r),
           NEW p \in DOMAIN t.node, NEW i \in 1 .. Len(t.node[p].kids), t.node[p].kids[i] = x,
           Arena(u), EnterView(t, u, p, i, k, r)
    PROVE  Shape(u, Calm(g), {t.root}) /\ LeavesStay(t, u) /\ DOMAIN u.node = DOMAIN t.node
<1>1. Arena(t) /\ Shape(t, g, {t.root, r}) /\ Order(t, g) /\ t.root \in DOMAIN t.node /\ r \in DOMAIN t.node
      /\ r # t.root /\ k \in Key /\ g.lev[x] = g.lev[r]
  BY DEF SplittingG, TreeInv, RootTop
<1>2. /\ t.node[x].parent = p /\ g.lev[x] = g.lev[p] - 1 /\ g.lev[p] \in Nat /\ g.lev[p] > 0
      /\ t.node[p].kids # <<>>
  <2>1. /\ t.node[t.node[p].kids[i]].parent = p /\ g.lev[t.node[p].kids[i]] = g.lev[p] - 1
        /\ g.lev[p] \in Nat /\ g.lev[p] > 0 /\ t.node[p].kids # <<>>
    BY <1>1, KidParts
  <2> QED BY <2>1
<1>3. p # r
  <2>1. g.lev[r] = g.lev[p] - 1 /\ g.lev[p] \in Nat
    BY <1>1, <1>2
  <2>2. g.lev[r] # g.lev[p]
    BY <2>1
  <2> QED BY <2>2
<1>4. t.node[p].kids \in Seq(Int) /\ Len(t.node[p].kids) = Len(t.node[p].keys) + 1
  BY <1>1, KidBounds
<1>5. EnteredSeqs(t.node[p].keys, t.node[p].kids, i, k, r, u.node[p].keys, u.node[p].kids)
  BY <1>1, <1>4, EnterSeqs
<1>6. /\ u.node[p].kids # <<>>
      /\ \E j \in 1 .. Len(u.node[p].kids) : u.node[p].kids[j] = r
      /\ \A a \in 1 .. Len(t.node[p].kids) : \E j \in 1 .. Len(u.node[p].kids) :
            u.node[p].kids[j] = t.node[p].kids[a]
      /\ \A j \in 1 .. Len(u.node[p].kids) : u.node[p].kids[j] = r \/
            \E a \in 1 .. Len(t.node[p].kids) : u.node[p].kids[j] = t.node[p].kids[a]
  <2>1. Joined(t.node[p].kids, r, u.node[p].kids)
    BY <1>4, <1>5, EnteredSlots
  <2> QED BY <2>1 DEF Joined
<1>7. /\ DOMAIN u.node = DOMAIN t.node /\ u.root = t.root /\ u.first = t.first /\ u.last = t.last
      /\ u.node[r].parent = p
      /\ \A n \in DOMAIN t.node :
         /\ n # p => u.node[n].keys = t.node[n].keys /\ u.node[n].kids = t.node[n].kids
         /\ n # r => u.node[n].parent = t.node[n].parent
         /\ u.node[n].vals = t.node[n].vals
         /\ u.node[n].prev = t.node[n].prev /\ u.node[n].next = t.node[n].next
  BY DEF EnterView, SameFrame
<1>8. LeafSet(u) = LeafSet(t)
  BY <1>2, <1>6, <1>7 DEF LeafSet
<1>9. LeavesStay(t, u)
  <2>1. \A l \in LeafSet(t) : l \in DOMAIN t.node /\ l # p
    BY <1>2 DEF LeafSet
  <2> QED BY <2>1, <1>7, <1>8 DEF LeavesStay
<1>10. Calm(g).lev = g.lev
  BY CalmParts
<1>11. \A n \in DOMAIN t.node : Hangs(t, g, {t.root, r}, n)
  BY <1>1 DEF Shape
<1>12. ASSUME NEW n \in DOMAIN t.node PROVE n \in {t.root} \/ Placed(u, n)
  <2>1. CASE n = r
    <3>1. u.node[n].parent = p
      BY <2>1, <1>7
    <3> QED BY <2>1, <3>1, <1>6, <1>7 DEF Placed
  <2>2. CASE n = t.root
    BY <2>2
  <2>3. CASE n # r /\ n # t.root
    <3>1. Placed(t, n)
      BY <2>3, <1>11 DEF Hangs
    <3>2. PICK q : q = t.node[n].parent
      OBVIOUS
    <3>3. q \in DOMAIN t.node /\ u.node[n].parent = q /\ \E j \in 1 .. Len(t.node[q].kids) : t.node[q].kids[j] = n
      BY <2>3, <3>1, <3>2, <1>7 DEF Placed
    <3>4. \E j \in 1 .. Len(u.node[q].kids) : u.node[q].kids[j] = n
      <4>1. CASE q = p
        <5>1. PICK a \in 1 .. Len(t.node[p].kids) : t.node[p].kids[a] = n
          BY <4>1, <3>3
        <5>2. PICK j \in 1 .. Len(u.node[p].kids) : u.node[p].kids[j] = t.node[p].kids[a]
          BY <1>6
        <5> QED BY <4>1, <5>1, <5>2
      <4>2. CASE q # p
        BY <4>2, <3>3, <1>7
      <4> QED BY <4>1, <4>2
    <3> QED BY <3>3, <3>4, <1>7 DEF Placed
  <2> QED BY <2>1, <2>2, <2>3
<1>13. ASSUME NEW n \in DOMAIN t.node, NEW j \in 1 .. Len(t.node[n].kids)
       PROVE  LET c == t.node[n].kids[j] IN
              /\ c \in DOMAIN u.node /\ c \notin {t.root}
              /\ u.node[c].parent = n /\ g.lev[c] = g.lev[n] - 1
  <2>1. PICK c : c = t.node[n].kids[j]
    OBVIOUS
  <2>2. c \in DOMAIN t.node /\ c \notin {t.root, r} /\ t.node[c].parent = n /\ g.lev[c] = g.lev[n] - 1
    BY <2>1, <1>1, KidParts
  <2> QED BY <2>1, <2>2, <1>7
<1>14. ASSUME NEW n \in DOMAIN t.node PROVE Hangs(u, Calm(g), {t.root}, n)
  <2>1. CASE n # p
    <3>1. u.node[n].kids = t.node[n].kids
      BY <2>1, <1>7
    <3> QED BY <3>1, <1>10, <1>11, <1>12, <1>13, HangsMove
  <2>2. CASE n = p
    <3>1. LevelOf(Calm(g), p, u.node[p])
      BY <1>2, <1>6, <1>10 DEF LevelOf
    <3>2. ASSUME NEW j \in 1 .. Len(u.node[p].kids)
          PROVE  KidOf(u, Calm(g), {t.root}, p, u.node[p].kids[j])
      <4>1. PICK c : c = u.node[p].kids[j]
        OBVIOUS
      <4>2. CASE c = r
        BY <4>1, <4>2, <1>1, <1>2, <1>7, <1>10 DEF KidOf
      <4>3. CASE c # r
        <5>1. PICK a \in 1 .. Len(t.node[p].kids) : c = t.node[p].kids[a]
          BY <4>1, <4>3, <1>6
        <5> QED BY <4>1, <5>1, <1>10, <1>13 DEF KidOf
      <4> QED BY <4>2, <4>3
    <3> QED BY <2>2, <3>1, <3>2, <1>12 DEF Hangs
  <2> QED BY <2>1, <2>2
<1>15. Shape(u, Calm(g), {t.root})
  BY <1>1, <1>7, <1>14 DEF Shape
<1> QED BY <1>7, <1>9, <1>15

\* The ranges do not change and stay apart.
LEMMA ApartStay ==
    ASSUME NEW t, NEW g, Order(t, g)
    PROVE  \A m, n \in DOMAIN t.node : m # n /\ Calm(g).lev[m] = Calm(g).lev[n] => Apart(Calm(g), m, n)
BY CalmParts DEF Order, Apart

\* The new kid is in order.
LEMMA EnterOrder ==
    ASSUME NEW t, NEW u, NEW g, NEW x, NEW k, NEW r, SplittingG(t, g, x, k, r),
           NEW p \in DOMAIN t.node, NEW i \in 1 .. Len(t.node[p].kids), t.node[p].kids[i] = x,
           Arena(u), EnterView(t, u, p, i, k, r)
    PROVE  Order(u, Calm(g))
<1>1. /\ Arena(t) /\ Shape(t, g, {t.root, r}) /\ Order(t, g) /\ r \in DOMAIN t.node /\ x \in DOMAIN t.node
      /\ k \in Key
      /\ g.hi[x] = k /\ g.lo[r] = k /\ g.out[x] = g.hi[r]
      /\ \A n \in DOMAIN t.node : n # x => g.out[n] = g.hi[n]
  BY DEF SplittingG, TreeInv
<1>2. t.node[x].parent = p
  BY <1>1, KidParts
<1>3. /\ DOMAIN u.node = DOMAIN t.node
      /\ \A n \in DOMAIN t.node :
           n # p => /\ u.node[n].keys = t.node[n].keys /\ u.node[n].kids = t.node[n].kids
                    /\ u.node[n].vals = t.node[n].vals
  BY DEF EnterView, SameFrame
<1>4. \A n \in DOMAIN t.node : Guides(g, n, t.node[n]) /\ g.hi[n] \in Int
  BY <1>1 DEF Order, Guides, RangeOf
<1>5. ASSUME NEW n \in DOMAIN t.node PROVE Guides(Calm(g), n, u.node[n])
  <2>1. CASE n # p
    <3>1. ASSUME NEW j \in 1 .. Len(t.node[n].kids)
          PROVE  LET c == t.node[n].kids[j] IN Calm(g).lo[c] = g.lo[c] /\ Calm(g).out[c] = g.out[c]
      <4>1. PICK c : c = t.node[n].kids[j]
        OBVIOUS
      <4>2. c \in DOMAIN t.node /\ t.node[c].parent = n
        BY <4>1, <1>1, KidParts
      <4>3. c # x
        BY <4>2, <2>1, <1>2
      <4> QED BY <4>1, <4>2, <4>3, <1>1, CalmParts
    <3>2. /\ Calm(g).lo[n] = g.lo[n] /\ Calm(g).hi[n] = g.hi[n] /\ Calm(g).out[n] \in Int
          /\ u.node[n].keys = t.node[n].keys /\ u.node[n].kids = t.node[n].kids
          /\ u.node[n].vals = t.node[n].vals
      BY <2>1, <1>3, <1>4, CalmParts
    <3> QED BY <3>1, <3>2, <1>4, GuidesMove
  <2>2. CASE n = p
    <3>1. /\ t.node[p].kids \in Seq(Int) /\ t.node[p].keys \in Seq(Key) /\ t.node[p].keys \in Seq(Int)
          /\ Len(t.node[p].kids) = Len(t.node[p].keys) + 1 /\ t.node[p].kids # <<>>
      BY <1>1, KidBounds, KidParts
    <3>2. EnteredSeqs(t.node[p].keys, t.node[p].kids, i, k, r, u.node[p].keys, u.node[p].kids)
      BY <1>1, <3>1, EnterSeqs
    <3>3. RangeOf(g, x) /\ RangeOf(g, r) /\ r \in Int
      BY <1>1, <1>4, ArenaParts DEF Guides
    <3>4. ASSUME NEW j \in 1 .. Len(t.node[p].kids), j # i
          PROVE  g.out[t.node[p].kids[j]] = g.hi[t.node[p].kids[j]]
      <4>1. t.node[p].kids[j] \in DOMAIN t.node /\ t.node[p].kids[j] # t.node[p].kids[i]
        BY <1>1, <3>4, KidParts, KidsDistinct
      <4> QED BY <4>1, <1>1
    <3>5. PICK q : q = t.node[p]
      OBVIOUS
    <3>6. PICK w : w = u.node[p]
      OBVIOUS
    <3>7. Guides(Calm(g), p, w)
      BY <3>1, <3>2, <3>3, <3>4, <3>5, <3>6, <1>1, <1>4, EnterGuides
    <3> QED BY <2>2, <3>6, <3>7
  <2> QED BY <2>1, <2>2
<1> QED BY <1>1, <1>3, <1>5, ApartStay DEF Order

\* The new node has entered its parent: the split is over.
LEMMA EnterInv ==
    ASSUME NEW t, NEW u, NEW g, NEW x, NEW k, NEW r, SplittingG(t, g, x, k, r),
           NEW p \in DOMAIN t.node, NEW i \in 1 .. Len(t.node[p].kids), t.node[p].kids[i] = x,
           Arena(u), EnterView(t, u, p, i, k, r)
    PROVE  SettledG(u, Calm(g)) /\ SameEntries(t, u)
<1>1. Shape(u, Calm(g), {t.root}) /\ LeavesStay(t, u) /\ DOMAIN u.node = DOMAIN t.node
  BY EnterShape
<1>2. Order(u, Calm(g))
  BY EnterOrder
<1>3. Arena(t) /\ Links(t, g) /\ t.len = Cardinality(KeySet(t)) /\ RootTop(t, g) /\ r # t.root
      /\ x \in DOMAIN t.node /\ Shape(t, g, {t.root, r}) /\ Order(t, g)
  BY DEF SplittingG, TreeInv
<1>4. Links(u, Calm(g))
  BY <1>1, <1>3, LinksStay, CalmParts
<1>5. SameEntries(t, u) /\ KeySet(u) = KeySet(t)
  BY <1>1, <1>3, LeavesStaySame, SameKeySet
<1>6. u.root = t.root /\ u.len = t.len /\ u.height = t.height /\ u.node[t.root].parent = t.node[t.root].parent
  BY <1>3 DEF EnterView, SameFrame, RootTop
<1>7. x # t.root
  BY <1>3, KidParts
<1>8. RootTop(u, Calm(g))
  <2>1. g.out[t.root] = g.hi[t.root]
    BY <1>3, <1>7 DEF SplittingG, RootTop
  <2> QED BY <2>1, <1>1, <1>3, <1>6, CalmParts DEF RootTop
<1>9. \A n \in DOMAIN u.node : Calm(g).out[n] = Calm(g).hi[n]
  BY CalmParts
<1> QED BY <1>1, <1>2, <1>3, <1>4, <1>5, <1>6, <1>8, <1>9 DEF SettledG, TreeInv

AllocView(t, u, f, rec) ==
    /\ f = Fresh(t) /\ f \notin DOMAIN t.node /\ f \in Nat
    /\ u.root = t.root /\ u.first = t.first /\ u.last = t.last /\ u.len = t.len /\ u.height = t.height
    /\ DOMAIN u.node = DOMAIN t.node \cup {f}
    /\ u.node[f] = rec
    /\ \A n \in DOMAIN t.node : u.node[n] = t.node[n]

\* The index alloc_node returns is not in use.
LEMMA FreshUnused ==
    ASSUME NEW t, Arena(t)
    PROVE  Fresh(t) \in Nat /\ Fresh(t) \notin DOMAIN t.node
<1>1. CASE t.free = <<>>
  <2>1. Fresh(t) = t.hi /\ t.hi \in Nat /\ t.hi \notin 0 .. t.hi - 1
    BY <1>1 DEF Fresh, Arena
  <2> QED BY <2>1 DEF Arena
<1>2. CASE t.free # <<>>
  <2>1. t.free \in Seq(Int) /\ Fresh(t) = Head(t.free)
    BY <1>2 DEF Arena, Fresh
  <2>2. Fresh(t) = t.free[1] /\ 1 \in DOMAIN t.free
    BY <2>1, <1>2
  <2>3. Fresh(t) \in ToSet(t.free)
    BY <2>2 DEF ToSet
  <2> QED BY <2>3 DEF Arena
<1> QED BY <1>1, <1>2

\* What Alloc changes.
LEMMA AllocEffect ==
    ASSUME NEW t, Arena(t), NEW rec \in NodeRec, NEW u, u = Alloc(t, rec)
    PROVE  Arena(u) /\ AllocView(t, u, Fresh(t), rec)
<1>1. PICK f : f = Fresh(t)
  OBVIOUS
<1>2. f \in Nat /\ f \notin DOMAIN t.node
  BY <1>1, FreshUnused
<1>3. t = TreeOf(t.node, t.free, t.hi, t.root, t.first, t.last, t.len, t.height)
  BY ArenaParts
<1>4. PICK nf : nf = IF t.free = <<>> THEN t.free ELSE Tail(t.free)
  OBVIOUS
<1>5. PICK nh : nh = IF t.free = <<>> THEN t.hi + 1 ELSE t.hi
  OBVIOUS
<1>6. PICK nn : nn = [n \in DOMAIN t.node \cup {f} |-> IF n = f THEN rec ELSE t.node[n]]
  OBVIOUS
<1>8. u = TreeOf(nn, nf, nh, t.root, t.first, t.last, t.len, t.height)
  BY <1>1, <1>3, <1>4, <1>5, <1>6 DEF Alloc, TreeOf
<1>9. /\ u.node = nn /\ u.free = nf /\ u.hi = nh /\ u.root = t.root /\ u.first = t.first
      /\ u.last = t.last /\ u.len = t.len /\ u.height = t.height
  BY <1>8 DEF TreeOf
<1>10. t.node \in [DOMAIN t.node -> NodeRec]
  BY DEF Arena
<1>11. nn \in [DOMAIN t.node \cup {f} -> NodeRec] /\ DOMAIN nn = DOMAIN t.node \cup {f}
  BY <1>6, <1>10
<1>12. AllocView(t, u, f, rec)
  BY <1>1, <1>2, <1>6, <1>9, <1>11 DEF AllocView
<1>13. /\ nh \in Nat /\ nf \in Seq(Int) /\ IsInjective(nf)
       /\ DOMAIN t.node \cup {f} \subseteq 0 .. nh - 1
       /\ ToSet(nf) = (0 .. nh - 1) \ (DOMAIN t.node \cup {f})
  <2>1. /\ t.hi \in Nat /\ t.free \in Seq(Int) /\ IsInjective(t.free)
        /\ DOMAIN t.node \subseteq 0 .. t.hi - 1
        /\ ToSet(t.free) = (0 .. t.hi - 1) \ DOMAIN t.node
    BY DEF Arena
  <2>2. CASE t.free = <<>>
    <3>1. nf = <<>> /\ nh = t.hi + 1 /\ f = t.hi
      BY <2>2, <1>1, <1>4, <1>5 DEF Fresh
    <3>2. ToSet(nf) = {}
      BY <3>1 DEF ToSet
    <3>3. DOMAIN t.node = 0 .. t.hi - 1
      BY <2>1, <2>2, <3>1, <3>2
    <3>4. DOMAIN t.node \cup {f} = 0 .. nh - 1
      BY <2>1, <3>1, <3>3
    <3>5. nf \in Seq(Int) /\ IsInjective(nf) /\ nh \in Nat
      BY <2>1, <2>2, <3>1
    <3> QED BY <3>2, <3>4, <3>5
  <2>3. CASE t.free # <<>>
    <3>1. PICK s : s = t.free
      OBVIOUS
    <3>2. s \in Seq(Int) /\ s # <<>> /\ f = s[1] /\ nf = Tail(s) /\ nh = t.hi
      BY <2>1, <2>3, <3>1, <1>1, <1>4, <1>5 DEF Fresh
    <3>3. /\ nf \in Seq(Int) /\ Len(nf) = Len(s) - 1 /\ Len(s) \in Nat \ {0}
          /\ \A j \in 1 .. Len(s) - 1 : nf[j] = s[j + 1]
      BY <3>2, LastFront
    <3>4. PICK m : m = Len(s) - 1
      OBVIOUS
    <3>5. m \in Nat /\ DOMAIN s = 1 .. m + 1 /\ DOMAIN nf = 1 .. m /\ \A j \in 1 .. m : nf[j] = s[j + 1]
      BY <3>2, <3>3, <3>4
    <3>6. \A a, b \in 1 .. m + 1 : s[a] = s[b] => a = b
      BY <2>1, <3>1, <3>5 DEF IsInjective
    <3>7. IsInjective(nf)
      <4>1. ASSUME NEW a \in 1 .. m, NEW b \in 1 .. m, nf[a] = nf[b] PROVE a = b
        <5>1. a + 1 \in 1 .. m + 1 /\ b + 1 \in 1 .. m + 1
          BY <3>5
        <5>2. s[a + 1] = s[b + 1]
          BY <4>1, <3>5
        <5>3. a + 1 = b + 1
          BY <5>1, <5>2, <3>6
        <5> QED BY <5>3
      <4> QED BY <4>1, <3>5 DEF IsInjective
    <3>8. ToSet(nf) = ToSet(s) \ {f}
      <4>1. ASSUME NEW j \in 1 .. m PROVE nf[j] \in ToSet(s) /\ nf[j] # f
        <5>1. j + 1 \in 1 .. m + 1 /\ j + 1 # 1 /\ 1 \in 1 .. m + 1 /\ nf[j] = s[j + 1]
          BY <3>5
        <5>2. s[j + 1] # s[1]
          BY <5>1, <3>6
        <5> QED BY <5>1, <5>2, <3>2, <3>5 DEF ToSet
      <4>2. ASSUME NEW j \in 1 .. m + 1, s[j] # f PROVE s[j] \in ToSet(nf)
        <5>1. j # 1
          BY <4>2, <3>2
        <5>2. j - 1 \in 1 .. m /\ (j - 1) + 1 = j
          BY <5>1, <3>5
        <5>3. nf[j - 1] = s[j]
          BY <5>2, <3>5
        <5> QED BY <5>2, <5>3, <3>5 DEF ToSet
      <4> QED BY <4>1, <4>2, <3>5 DEF ToSet
    <3>9. f \in ToSet(s)
      BY <3>2, <3>5 DEF ToSet
    <3> QED BY <2>1, <3>1, <3>2, <3>3, <3>7, <3>8, <3>9
  <2> QED BY <2>2, <2>3
<1>14. Arena(u)
  <2>1. u = [node |-> u.node, free |-> u.free, hi |-> u.hi, root |-> u.root,
            first |-> u.first, last |-> u.last, len |-> u.len, height |-> u.height]
    BY <1>8 DEF TreeOf
  <2>2. u.root \in Int /\ u.first \in Int /\ u.last \in Int /\ u.height \in Nat
    BY <1>9 DEF Arena
  <2> QED BY <2>1, <2>2, <1>9, <1>11, <1>13 DEF Arena
<1> QED BY <1>1, <1>12, <1>14

\* Ranges [a, b) and [c, d) do not meet.
Off(a, b, c, d) == b <= c \/ d <= a

\* A range apart from another one is apart from its parts.
LEMMA OffSub ==
    ASSUME NEW a \in Int, NEW b \in Int, NEW c \in Int, NEW d \in Int, NEW e \in Int, NEW f \in Int,
           Off(a, b, c, d), c <= e, f <= d
    PROVE  Off(a, b, e, f)
BY DEF Off

\* A range apart from two neighbours is apart from both together.
LEMMA OffJoin ==
    ASSUME NEW a \in Int, NEW b \in Int, NEW c \in Int, NEW d \in Int, NEW e \in Int,
           a < b, c < d, d < e, Off(a, b, c, d), Off(a, b, d, e)
    PROVE  Off(a, b, c, e)
BY DEF Off

\* Node x is cut at s: the new node f takes the upper part of its range.
CutG(g, x, f, s) ==
    [lev |-> [n \in Int |-> IF n = f THEN g.lev[x] ELSE g.lev[n]],
     lo  |-> [n \in Int |-> IF n = f THEN s ELSE g.lo[n]],
     hi  |-> [n \in Int |-> IF n = f THEN g.hi[x] ELSE IF n = x THEN s ELSE g.hi[n]],
     out |-> [n \in Int |-> IF n = f THEN g.hi[x] ELSE g.out[n]]]

CutView(g, h, x, f, s) ==
    /\ h.lev[f] = g.lev[x] /\ h.lo[f] = s /\ h.hi[f] = g.hi[x] /\ h.out[f] = g.hi[x]
    /\ \A n \in Int : n # f => /\ h.lev[n] = g.lev[n] /\ h.lo[n] = g.lo[n] /\ h.out[n] = g.out[n]
                               /\ h.hi[n] = IF n = x THEN s ELSE g.hi[n]

\* The fields of CutG.
LEMMA CutParts ==
    ASSUME NEW g, NEW x \in Int, NEW f \in Int, NEW s, NEW h, h = CutG(g, x, f, s)
    PROVE  CutView(g, h, x, f, s)
BY DEF CutG, CutView

\* What the nodes other than x keep when x is cut.
CutRest(t, u, x, f) ==
    /\ DOMAIN u.node = DOMAIN t.node \cup {f}
    /\ \A n \in DOMAIN t.node : n # x => /\ u.node[n].keys = t.node[n].keys
                                         /\ u.node[n].vals = t.node[n].vals
                                         /\ u.node[n].kids = t.node[n].kids

\* Two halves of a node are in order when the node was.
LEMMA CutOrder ==
    ASSUME NEW t, NEW u, NEW g, NEW h, NEW O, Arena(t), Shape(t, g, O), Order(t, g),
           NEW x \in DOMAIN t.node, NEW f \in Int, f \notin DOMAIN t.node, NEW s \in Int,
           g.lo[x] < s, s < g.hi[x], CutView(g, h, x, f, s), CutRest(t, u, x, f),
           Guides(h, x, u.node[x]), Guides(h, f, u.node[f])
    PROVE  Order(u, h)
<1>1. \A n \in DOMAIN t.node : n \in Int /\ n # f
  BY ArenaParts
<1>2. \A n \in DOMAIN t.node : Guides(g, n, t.node[n]) /\ RangeOf(g, n)
  BY DEF Order, Guides
<1>3. ASSUME NEW n \in DOMAIN t.node, n # x PROVE Guides(h, n, u.node[n])
  <2>1. ASSUME NEW i \in 1 .. Len(t.node[n].kids)
        PROVE  h.lo[t.node[n].kids[i]] = g.lo[t.node[n].kids[i]] /\ h.out[t.node[n].kids[i]] = g.out[t.node[n].kids[i]]
    <3>1. PICK c : c = t.node[n].kids[i]
      OBVIOUS
    <3>2. c \in DOMAIN t.node
      BY <3>1, KidParts
    <3>3. c \in Int /\ c # f
      BY <3>2, <1>1
    <3> QED BY <3>1, <3>3 DEF CutView
  <2>2. h.lo[n] = g.lo[n] /\ h.hi[n] = g.hi[n] /\ h.out[n] \in Int
    BY <1>1, <1>2, <1>3 DEF CutView, RangeOf
  <2>3. /\ u.node[n].keys = t.node[n].keys /\ u.node[n].vals = t.node[n].vals
        /\ u.node[n].kids = t.node[n].kids
    BY <1>3 DEF CutRest
  <2> QED BY <1>2, <2>1, <2>2, <2>3, GuidesMove
<1>4. \A n \in DOMAIN u.node : Guides(h, n, u.node[n])
  BY <1>3 DEF CutRest
<1>5. ASSUME NEW m \in DOMAIN t.node, NEW n \in DOMAIN t.node, m # n, g.lev[m] = g.lev[n]
      PROVE  Off(g.lo[m], g.hi[m], g.lo[n], g.hi[n])
  <2>1. Apart(g, m, n)
    BY <1>5 DEF Order
  <2> QED BY <2>1 DEF Apart, Off
<1>6. \A n \in DOMAIN t.node : g.lo[n] \in Int /\ g.hi[n] \in Int /\ g.lo[n] < g.hi[n]
  BY <1>2 DEF RangeOf
<1>7. ASSUME NEW m \in DOMAIN t.node, m # x, g.lev[m] = g.lev[x]
      PROVE  Apart(h, m, x) /\ Apart(h, x, m) /\ Apart(h, m, f) /\ Apart(h, f, m)
  <2>1. Off(g.lo[m], g.hi[m], g.lo[x], g.hi[x])
    BY <1>7, <1>5
  <2>2. Off(g.lo[m], g.hi[m], g.lo[x], s) /\ Off(g.lo[m], g.hi[m], s, g.hi[x])
    BY <2>1, <1>6, OffSub
  <2>3. /\ h.lo[m] = g.lo[m] /\ h.hi[m] = g.hi[m] /\ h.lo[x] = g.lo[x] /\ h.hi[x] = s
        /\ h.lo[f] = s /\ h.hi[f] = g.hi[x]
    BY <1>1, <1>7 DEF CutView
  <2> QED BY <2>2, <2>3 DEF Off, Apart
<1>8. Apart(h, x, f) /\ Apart(h, f, x)
  <2>1. h.hi[x] = s /\ h.lo[f] = s
    BY <1>1 DEF CutView
  <2> QED BY <2>1 DEF Apart
<1>9. ASSUME NEW m \in DOMAIN t.node, NEW n \in DOMAIN t.node, m # n, g.lev[m] = g.lev[n]
      PROVE  Apart(h, m, n)
  <2>1. CASE m = x
    BY <1>7, <1>9, <2>1
  <2>2. CASE n = x
    BY <1>7, <1>9, <2>2
  <2>3. CASE m # x /\ n # x
    <3>1. h.lo[m] = g.lo[m] /\ h.hi[m] = g.hi[m] /\ h.lo[n] = g.lo[n] /\ h.hi[n] = g.hi[n]
      BY <1>1, <2>3 DEF CutView
    <3>2. Off(g.lo[m], g.hi[m], g.lo[n], g.hi[n])
      BY <1>5, <1>9
    <3> QED BY <3>1, <3>2 DEF Off, Apart
  <2> QED BY <2>1, <2>2, <2>3
<1>10. h.lev[f] = g.lev[x] /\ \A n \in DOMAIN t.node : h.lev[n] = g.lev[n]
  BY <1>1 DEF CutView
<1>11. ASSUME NEW m \in DOMAIN u.node, NEW n \in DOMAIN u.node, m # n, h.lev[m] = h.lev[n]
       PROVE  Apart(h, m, n)
  <2>1. (m \in DOMAIN t.node \/ m = f) /\ (n \in DOMAIN t.node \/ n = f)
    BY DEF CutRest
  <2>2. CASE m \in DOMAIN t.node /\ n \in DOMAIN t.node
    BY <2>2, <1>9, <1>10, <1>11
  <2>3. CASE m = f
    <3>1. n \in DOMAIN t.node /\ g.lev[n] = g.lev[x]
      BY <2>1, <2>3, <1>10, <1>11
    <3> QED BY <2>3, <3>1, <1>7, <1>8
  <2>4. CASE n = f
    <3>1. m \in DOMAIN t.node /\ g.lev[m] = g.lev[x]
      BY <2>1, <2>4, <1>10, <1>11
    <3> QED BY <2>4, <3>1, <1>7, <1>8
  <2> QED BY <2>1, <2>2, <2>3, <2>4
<1> QED BY <1>4, <1>11 DEF Order

LinkView(t, u, n, m) ==
    /\ u.free = t.free /\ u.hi = t.hi /\ u.root = t.root /\ u.first = t.first
    /\ u.len = t.len /\ u.height = t.height
    /\ DOMAIN u.node = DOMAIN t.node
    /\ u.last = IF m = NO_NODE THEN n ELSE t.last
    /\ u.node[n].next = m /\ (m # NO_NODE => u.node[m].prev = n)
    /\ \A x \in DOMAIN t.node :
         /\ u.node[x].keys = t.node[x].keys /\ u.node[x].vals = t.node[x].vals
         /\ u.node[x].kids = t.node[x].kids /\ u.node[x].parent = t.node[x].parent
         /\ x # n => u.node[x].next = t.node[x].next
         /\ x # m => u.node[x].prev = t.node[x].prev

\* What LinkNext changes.
LEMMA LinkNextEffect ==
    ASSUME NEW t, Arena(t), NEW n \in DOMAIN t.node, NEW m \in DOMAIN t.node \cup {NO_NODE},
           NEW u, u = LinkNext(t, n, m)
    PROVE  Arena(u) /\ LinkView(t, u, n, m)
<1>1. t = TreeOf(t.node, t.free, t.hi, t.root, t.first, t.last, t.len, t.height)
  BY ArenaParts
<1>2. PICK f0 : f0 = t.node
  OBVIOUS
<1>3. PICK D : D = DOMAIN t.node
  OBVIOUS
<1>4. f0 \in [D -> NodeRec] /\ n \in D /\ n \in Int /\ m \in Int /\ (m # NO_NODE => m \in D) /\ t.last \in Int
  BY <1>2, <1>3, ArenaParts DEF Arena, NO_NODE
<1>5. PICK f1 : f1 = WithNext(f0, n, m)
  OBVIOUS
<1>6. f1 \in [D -> NodeRec] /\ NextSet(f0, f1, n, m)
  BY <1>4, <1>5, SetNext
<1>7. CASE m = NO_NODE
  <2>1. u = TreeOf(f1, t.free, t.hi, t.root, t.first, n, t.len, t.height)
    BY <1>1, <1>2, <1>5, <1>7 DEF LinkNext, TreeOf, WithNext
  <2>2. /\ u.node = f1 /\ u.free = t.free /\ u.hi = t.hi /\ u.root = t.root /\ u.first = t.first
        /\ u.last = n /\ u.len = t.len /\ u.height = t.height
    BY <2>1 DEF TreeOf
  <2>3. DOMAIN f1 = D
    BY <1>6
  <2>4. Arena(u)
    BY <1>3, <1>4, <1>6, <2>1, <2>2, <2>3 DEF Arena, TreeOf
  <2>5. \A x \in D : x # m
    BY <1>3, <1>7, ArenaParts
  <2>6. LinkView(t, u, n, m)
    BY <1>2, <1>3, <1>4, <1>6, <1>7, <2>2, <2>3, <2>5 DEF LinkView, NextSet
  <2> QED BY <2>4, <2>6
<1>8. CASE m # NO_NODE
  <2>0. PICK f2 : f2 = WithPrev(f1, m, n)
    OBVIOUS
  <2>9. f2 \in [D -> NodeRec] /\ PrevSet(f1, f2, m, n)
    BY <1>4, <1>6, <1>8, <2>0, SetPrev
  <2>1. u = TreeOf(f2, t.free, t.hi, t.root, t.first, t.last, t.len, t.height)
    BY <1>1, <1>2, <1>5, <1>8, <2>0 DEF LinkNext, TreeOf, WithNext, WithPrev
  <2>2. /\ u.node = f2 /\ u.free = t.free /\ u.hi = t.hi /\ u.root = t.root /\ u.first = t.first
        /\ u.last = t.last /\ u.len = t.len /\ u.height = t.height
    BY <2>1 DEF TreeOf
  <2>3. DOMAIN f1 = D /\ DOMAIN f2 = D /\ m \in D
    BY <1>4, <1>6, <2>9, <1>8
  <2>4. Arena(u)
    BY <1>3, <1>4, <1>6, <2>9, <2>1, <2>2, <2>3 DEF Arena, TreeOf
  <2>6. LinkView(t, u, n, m)
    BY <1>2, <1>3, <1>4, <1>6, <2>9, <1>8, <2>2, <2>3 DEF LinkView, NextSet, PrevSet
  <2> QED BY <2>4, <2>6
<1> QED BY <1>7, <1>8

\* Leaf l of t gives its entries beyond the first m to the new leaf f.
LeafCut(t, u, l, f, m) ==
    /\ f \in Nat /\ f \notin DOMAIN t.node /\ DOMAIN u.node = DOMAIN t.node \cup {f}
    /\ u.root = t.root /\ u.first = t.first /\ u.len = t.len /\ u.height = t.height
    /\ u.node[l].keys = SubSeq(t.node[l].keys, 1, m)
    /\ u.node[l].vals = SubSeq(t.node[l].vals, 1, m)
    /\ u.node[f].keys = SubSeq(t.node[l].keys, m + 1, Len(t.node[l].keys))
    /\ u.node[f].vals = SubSeq(t.node[l].vals, m + 1, Len(t.node[l].keys))
    /\ u.node[f].kids = <<>> /\ u.node[f].parent = t.node[l].parent
    /\ u.node[f].prev = l /\ u.node[f].next = t.node[l].next /\ u.node[l].next = f
    /\ u.last = IF t.node[l].next = NO_NODE THEN f ELSE t.last
    /\ t.node[l].next # NO_NODE => u.node[t.node[l].next].prev = f
    /\ \A n \in DOMAIN t.node :
         /\ u.node[n].kids = t.node[n].kids /\ u.node[n].parent = t.node[n].parent
         /\ n # l => u.node[n].keys = t.node[n].keys /\ u.node[n].vals = t.node[n].vals
                     /\ u.node[n].next = t.node[n].next
         /\ n # t.node[l].next => u.node[n].prev = t.node[n].prev

\* LeafSplitAndInsert is a LeafInsertAt, and then a cut.
LEMMA LeafSplitEffect ==
    ASSUME NEW t, Arena(t), NEW l \in LeafSet(t), NEW i \in 1 .. Len(t.node[l].keys) + 1,
           NEW k \in Key, NEW v \in Value, Len(t.node[l].keys) = LeafCap, Len(t.node[l].vals) = LeafCap,
           t.node[l].next \in DOMAIN t.node \cup {NO_NODE}, t.node[l].next # l,
           NEW w, w = LeafInsertAt(t, l, i, k, v),
           NEW u, u = LeafSplitAndInsert(t, l, i, k, v)
    PROVE  Arena(u) /\ LeafCut(w, u, l, Fresh(t), LeafMid)
<1>1. l \in DOMAIN t.node /\ t.node[l].kids = <<>>
  BY DEF LeafSet
<1>2. PICK f : f = Fresh(t)
  OBVIOUS
<1>3. f \in Nat /\ f \notin DOMAIN t.node /\ f # NO_NODE /\ f # l
  BY <1>1, <1>2, FreshUnused DEF NO_NODE
<1>4. PICK ks : ks = InsertAt(t.node[l].keys, i, k)
  OBVIOUS
<1>5. PICK vs : vs = InsertAt(t.node[l].vals, i, v)
  OBVIOUS
<1>6. LeafCap \in Nat \ {0} /\ LeafMid \in 1 .. LeafCap
  BY CapAssumption DEF LeafMid
<1>7. ks \in Seq(Key) /\ Len(ks) = LeafCap + 1 /\ vs \in Seq(Value) /\ Len(vs) = LeafCap + 1
  <2>1. t.node[l].keys \in Seq(Key) /\ t.node[l].vals \in Seq(Value)
    BY <1>1, ArenaParts
  <2>2. PICK a : a = t.node[l].keys
    OBVIOUS
  <2>3. PICK b : b = t.node[l].vals
    OBVIOUS
  <2>4. a \in Seq(Key) /\ b \in Seq(Value) /\ Len(a) = LeafCap /\ Len(b) = LeafCap
        /\ i \in 1 .. Len(a) + 1 /\ i \in 1 .. Len(b) + 1 /\ ks = InsertAt(a, i, k) /\ vs = InsertAt(b, i, v)
    BY <2>1, <2>2, <2>3, <1>4, <1>5
  <2>5. ks \in Seq(Key) /\ Len(ks) = LeafCap + 1
    BY <2>4, InsertAtProps
  <2>6. vs \in Seq(Value) /\ Len(vs) = LeafCap + 1
    BY <2>4, InsertAtProps
  <2> QED BY <2>5, <2>6
<1>8. PICK k1 : k1 = SubSeq(ks, 1, LeafMid)
  OBVIOUS
<1>9. PICK v1 : v1 = SubSeq(vs, 1, LeafMid)
  OBVIOUS
<1>10. PICK k2 : k2 = SubSeq(ks, LeafMid + 1, LeafCap + 1)
  OBVIOUS
<1>11. PICK v2 : v2 = SubSeq(vs, LeafMid + 1, LeafCap + 1)
  OBVIOUS
<1>12. k1 \in Seq(Key) /\ k2 \in Seq(Key) /\ v1 \in Seq(Value) /\ v2 \in Seq(Value)
  BY <1>6, <1>7, <1>8, <1>9, <1>10, <1>11, SubSeqProps
<1>13. PICK rec : rec = Leaf(k2, v2, t.node[l].parent, l, NO_NODE)
  OBVIOUS
<1>14. /\ rec \in NodeRec /\ rec.keys = k2 /\ rec.vals = v2 /\ rec.kids = <<>>
       /\ rec.parent = t.node[l].parent /\ rec.prev = l
  <2>1. t.node[l].parent \in Int /\ l \in Int /\ NO_NODE \in Int /\ <<>> \in Seq(Int)
    BY <1>1, ArenaParts DEF NO_NODE
  <2>2. PICK pl : pl = t.node[l].parent
    OBVIOUS
  <2>3. PICK no : no = NO_NODE
    OBVIOUS
  <2>4. pl \in Int /\ no \in Int /\ l \in Int
    BY <2>1, <2>2, <2>3
  <2>5. rec = [keys |-> k2, vals |-> v2, kids |-> <<>>, parent |-> pl, prev |-> l, next |-> no]
    BY <1>13, <2>2, <2>3 DEF Leaf
  <2>6. rec \in NodeRec
    BY <1>12, <2>1, <2>4, <2>5 DEF NodeRec
  <2> QED BY <2>2, <2>5, <2>6
<1>15. PICK t1 : t1 = Alloc(t, rec)
  OBVIOUS
<1>16. Arena(t1) /\ AllocView(t, t1, f, rec)
  BY <1>2, <1>14, <1>15, AllocEffect
<1>17. PICK t2 : t2 = [t1 EXCEPT !.node[l].keys = k1, !.node[l].vals = v1, !.len = @ + 1]
  OBVIOUS
<1>18. PICK D : D = DOMAIN t.node \cup {f}
  OBVIOUS
<1>19. t1.node \in [D -> NodeRec] /\ l \in D /\ DOMAIN t1.node = D /\ f \in D
  BY <1>1, <1>16, <1>18 DEF AllocView, Arena
<1>20. PICK f1 : f1 = WithKeys(t1.node, l, k1)
  OBVIOUS
<1>21. f1 \in [D -> NodeRec] /\ KeysSet(t1.node, f1, l, k1)
  <2>1. PICK n1 : n1 = t1.node
    OBVIOUS
  <2>2. n1 \in [D -> NodeRec] /\ l \in D /\ k1 \in Seq(Key) /\ f1 = WithKeys(n1, l, k1)
    BY ONLY <2>1, <1>12, <1>19, <1>20
  <2>3. f1 \in [D -> NodeRec] /\ KeysSet(n1, f1, l, k1)
    BY ONLY <2>2, SetKeys
  <2>4. QED BY ONLY <2>1, <2>3
<1>22. PICK f2 : f2 = WithVals(f1, l, v1)
  OBVIOUS
<1>23. f2 \in [D -> NodeRec] /\ ValsSet(f1, f2, l, v1)
  BY ONLY <1>12, <1>19, <1>21, <1>22, SetVals
<1>24. DOMAIN f1 = D /\ DOMAIN f2 = D
  BY <1>21, <1>23
<1>25. t2 = TreeOf(f2, t1.free, t1.hi, t1.root, t1.first, t1.last, t1.len + 1, t1.height)
  <2>1. t1 = TreeOf(t1.node, t1.free, t1.hi, t1.root, t1.first, t1.last, t1.len, t1.height)
    BY <1>16, ArenaParts
  <2> QED BY <2>1, <1>17, <1>20, <1>22 DEF TreeOf, WithKeys, WithVals
<1>26. /\ t2.node = f2 /\ t2.free = t1.free /\ t2.hi = t1.hi /\ t2.root = t1.root /\ t2.first = t1.first
       /\ t2.last = t1.last /\ t2.len = t1.len + 1 /\ t2.height = t1.height
  BY <1>25 DEF TreeOf
<1>27. Arena(t2)
  BY <1>16, <1>19, <1>23, <1>24, <1>25, <1>26 DEF Arena, TreeOf
<1>28. PICK nx : nx = t.node[l].next
  OBVIOUS
<1>29. PICK t3 : t3 = LinkNext(t2, f, nx)
  OBVIOUS
<1>30. Arena(t3) /\ LinkView(t2, t3, f, nx)
  <2>1. f \in DOMAIN t2.node /\ nx \in DOMAIN t2.node \cup {NO_NODE}
    BY <1>18, <1>19, <1>24, <1>26, <1>28
  <2> QED BY <1>27, <1>29, <2>1, LinkNextEffect
<1>31. u = LinkNext(t3, l, f)
  BY <1>2, <1>4, <1>5, <1>8, <1>9, <1>10, <1>11, <1>13, <1>15, <1>17, <1>28, <1>29 DEF LeafSplitAndInsert
<1>32. DOMAIN t3.node = D /\ DOMAIN t2.node = D
  BY <1>24, <1>26, <1>30 DEF LinkView
<1>33. Arena(u) /\ LinkView(t3, u, l, f)
  BY <1>19, <1>30, <1>31, <1>32, LinkNextEffect
<1>34. Rewritten(t, w, l, ks, vs) /\ w.len = t.len + 1
  BY <1>1, <1>4, <1>5, LeafInsertAtEffect DEF Rewritten, TreeOf
<1>35. RewrittenView(t, w, l, ks, vs)
  BY <1>1, <1>34, RewrittenParts
<1>36. /\ DOMAIN w.node = DOMAIN t.node /\ w.root = t.root /\ w.first = t.first /\ w.last = t.last
       /\ w.height = t.height /\ w.node[l].keys = ks /\ w.node[l].vals = vs
       /\ \A n \in DOMAIN t.node :
         /\ n # l => w.node[n].keys = t.node[n].keys /\ w.node[n].vals = t.node[n].vals
         /\ w.node[n].kids = t.node[n].kids /\ w.node[n].parent = t.node[n].parent
         /\ w.node[n].prev = t.node[n].prev /\ w.node[n].next = t.node[n].next
  BY <1>35 DEF RewrittenView
<1>37. /\ u.root = t.root /\ u.first = t.first /\ u.height = t.height /\ u.len = t.len + 1
       /\ u.last = IF nx = NO_NODE THEN f ELSE t.last
  BY <1>3, <1>16, <1>26, <1>30, <1>33 DEF LinkView, AllocView
<1>38. /\ f2[l].keys = k1 /\ f2[l].vals = v1
       /\ f2[f].keys = k2 /\ f2[f].vals = v2 /\ f2[f].kids = <<>> /\ f2[f].parent = t.node[l].parent
       /\ f2[f].prev = l
       /\ \A n \in DOMAIN t.node :
            /\ n # l => f2[n].keys = t.node[n].keys /\ f2[n].vals = t.node[n].vals
            /\ f2[n].kids = t.node[n].kids /\ f2[n].parent = t.node[n].parent
            /\ f2[n].prev = t.node[n].prev /\ f2[n].next = t.node[n].next
  <2>1. /\ t1.node[f] = rec /\ \A n \in DOMAIN t.node : t1.node[n] = t.node[n] /\ n \in D
    BY <1>16, <1>18 DEF AllocView
  <2>2. /\ f1[l].keys = k1
        /\ \A n \in D : /\ n # l => f1[n].keys = t1.node[n].keys
             /\ f1[n].vals = t1.node[n].vals /\ f1[n].kids = t1.node[n].kids
             /\ f1[n].parent = t1.node[n].parent
             /\ f1[n].prev = t1.node[n].prev /\ f1[n].next = t1.node[n].next
    BY <1>19, <1>21 DEF KeysSet
  <2>3. /\ f2[l].vals = v1
        /\ \A n \in D : /\ n # l => f2[n].vals = f1[n].vals
             /\ f2[n].keys = f1[n].keys /\ f2[n].kids = f1[n].kids
             /\ f2[n].parent = f1[n].parent
             /\ f2[n].prev = f1[n].prev /\ f2[n].next = f1[n].next
    BY <1>23, <1>24 DEF ValsSet
  <2>4. f2[l].keys = k1 /\ f2[l].vals = v1
    BY <1>19, <2>2, <2>3
  <2>5. /\ f2[f].keys = k2 /\ f2[f].vals = v2 /\ f2[f].kids = <<>> /\ f2[f].parent = t.node[l].parent
        /\ f2[f].prev = l
    BY <1>3, <1>14, <1>19, <2>1, <2>2, <2>3
  <2>6. ASSUME NEW n \in DOMAIN t.node
        PROVE  /\ n # l => f2[n].keys = t.node[n].keys /\ f2[n].vals = t.node[n].vals
               /\ f2[n].kids = t.node[n].kids /\ f2[n].parent = t.node[n].parent
               /\ f2[n].prev = t.node[n].prev /\ f2[n].next = t.node[n].next
    <3>1. n \in D /\ t1.node[n] = t.node[n]
      BY <2>1
    <3> QED BY <3>1, <2>2, <2>3
  <2> QED BY <2>4, <2>5, <2>6
<1>39. /\ \A n \in D : /\ u.node[n].keys = f2[n].keys /\ u.node[n].vals = f2[n].vals
                       /\ u.node[n].kids = f2[n].kids /\ u.node[n].parent = f2[n].parent
                       /\ n # l /\ n # f => u.node[n].next = f2[n].next
                       /\ n # nx /\ n # f => u.node[n].prev = f2[n].prev
       /\ u.node[l].next = f /\ u.node[f].next = nx /\ u.node[f].prev = l
       /\ nx # NO_NODE => u.node[nx].prev = f
  <2>1. /\ t3.node[f].next = nx /\ (nx # NO_NODE => t3.node[nx].prev = f)
        /\ \A x \in D :
         /\ t3.node[x].keys = f2[x].keys /\ t3.node[x].vals = f2[x].vals
         /\ t3.node[x].kids = f2[x].kids /\ t3.node[x].parent = f2[x].parent
         /\ x # f => t3.node[x].next = f2[x].next
         /\ x # nx => t3.node[x].prev = f2[x].prev
    BY <1>26, <1>30, <1>32 DEF LinkView
  <2>2. /\ u.node[l].next = f /\ u.node[f].prev = l
        /\ \A x \in D :
         /\ u.node[x].keys = t3.node[x].keys /\ u.node[x].vals = t3.node[x].vals
         /\ u.node[x].kids = t3.node[x].kids /\ u.node[x].parent = t3.node[x].parent
         /\ x # l => u.node[x].next = t3.node[x].next
         /\ x # f => u.node[x].prev = t3.node[x].prev
    BY <1>3, <1>32, <1>33 DEF LinkView
  <2>3. nx # NO_NODE => nx \in D /\ nx # f
    BY <1>3, <1>18, <1>28
  <2>4. u.node[l].next = f /\ u.node[f].next = nx /\ u.node[f].prev = l
    BY <2>1, <2>2, <1>3, <1>19
  <2>5. nx # NO_NODE => u.node[nx].prev = f
    BY <2>1, <2>2, <2>3
  <2>6. ASSUME NEW n \in D
        PROVE  /\ u.node[n].keys = f2[n].keys /\ u.node[n].vals = f2[n].vals
               /\ u.node[n].kids = f2[n].kids /\ u.node[n].parent = f2[n].parent
               /\ n # l /\ n # f => u.node[n].next = f2[n].next
               /\ n # nx /\ n # f => u.node[n].prev = f2[n].prev
    BY <2>1, <2>2
  <2> QED BY <2>4, <2>5, <2>6
<1>40. DOMAIN u.node = D
  BY <1>32, <1>33 DEF LinkView
<1>41. LeafCut(w, u, l, f, LeafMid)
  <2>1. /\ u.node[l].keys = SubSeq(w.node[l].keys, 1, LeafMid)
        /\ u.node[l].vals = SubSeq(w.node[l].vals, 1, LeafMid)
        /\ u.node[f].keys = SubSeq(w.node[l].keys, LeafMid + 1, Len(w.node[l].keys))
        /\ u.node[f].vals = SubSeq(w.node[l].vals, LeafMid + 1, Len(w.node[l].keys))
    <3>1. /\ u.node[l].keys = k1 /\ u.node[l].vals = v1 /\ u.node[f].keys = k2 /\ u.node[f].vals = v2
      BY <1>19, <1>38, <1>39
    <3>2. w.node[l].keys = ks /\ w.node[l].vals = vs /\ Len(ks) = LeafCap + 1
      BY <1>7, <1>36
    <3> QED BY <3>1, <3>2, <1>8, <1>9, <1>10, <1>11
  <2>2. w.node[l].next = nx /\ w.node[l].parent = t.node[l].parent
    BY <1>1, <1>28, <1>36
  <2>3. \A n \in DOMAIN w.node :
         /\ u.node[n].kids = w.node[n].kids /\ u.node[n].parent = w.node[n].parent
         /\ n # l => u.node[n].keys = w.node[n].keys /\ u.node[n].vals = w.node[n].vals
                     /\ u.node[n].next = w.node[n].next
         /\ n # nx => u.node[n].prev = w.node[n].prev
    BY <1>3, <1>18, <1>36, <1>38, <1>39
  <2>4. /\ f \in Nat /\ f \notin DOMAIN w.node /\ DOMAIN u.node = DOMAIN w.node \cup {f}
        /\ u.root = w.root /\ u.first = w.first /\ u.len = w.len /\ u.height = w.height
        /\ u.last = IF nx = NO_NODE THEN f ELSE w.last
    BY <1>3, <1>18, <1>34, <1>36, <1>37, <1>40
  <2>5. u.node[f].kids = <<>> /\ u.node[f].parent = t.node[l].parent
    BY <1>19, <1>38, <1>39
  <2> QED BY <2>1, <2>2, <2>3, <2>4, <2>5, <1>39 DEF LeafCut
<1> QED BY <1>2, <1>33, <1>41

Bounded(S) == \E a \in Int : \A k \in S : a < k /\ k < -a

\* A finite set of integers has bounds.
LEMMA FiniteBounded ==
    ASSUME NEW S \in SUBSET Int, IsFiniteSet(S)
    PROVE  Bounded(S)
<1>1. PICK B : B = {n \in Nat : \E U \in SUBSET Int : IsFiniteSet(U) /\ Cardinality(U) = n /\ ~Bounded(U)}
  OBVIOUS
<1>2. SUFFICES ASSUME ~Bounded(S) PROVE FALSE
  OBVIOUS
<1>3. Cardinality(S) \in B
  BY <1>1, <1>2, FS_CardinalityType
<1>4. B \in SUBSET Nat /\ B # {}
  BY <1>1, <1>3
<1>5. PICK n \in B : \A m \in B : n <= m
  BY <1>4, MinOfNats
<1>6. PICK U \in SUBSET Int : IsFiniteSet(U) /\ Cardinality(U) = n /\ ~Bounded(U)
  BY <1>1, <1>5
<1>7. CASE U = {}
  <2>1. Bounded(U)
    BY <1>7 DEF Bounded
  <2> QED BY <2>1, <1>6
<1>8. CASE U # {}
  <2>1. PICK x \in U : TRUE
    BY <1>8
  <2>2. PICK V : V = U \ {x}
    OBVIOUS
  <2>3. IsFiniteSet(V) /\ Cardinality(V) = n - 1 /\ V \in SUBSET Int
    BY <2>1, <2>2, <1>6, FS_RemoveElement
  <2>4. Cardinality(V) \in Nat /\ n \in Nat
    BY <2>3, <1>4, <1>5, FS_CardinalityType
  <2>5. Cardinality(V) \notin B
    <3>1. ~(n <= Cardinality(V))
      BY <2>3, <2>4
    <3> QED BY <3>1, <1>5
  <2>6. Bounded(V)
    BY <2>3, <2>4, <2>5, <1>1
  <2>7. PICK a \in Int : \A k \in V : a < k /\ k < -a
    BY <2>6 DEF Bounded
  <2>8. PICK b \in Int : b < x /\ x < -b /\ b <= a
    <3>1. x \in Int
      BY <2>1
    <3>2. CASE x >= 0
      <4>1. PICK b \in Int : b = IF a < -x - 1 THEN a ELSE -x - 1
        BY <3>1
      <4> QED BY <4>1, <3>1, <3>2
    <3>3. CASE x < 0
      <4>1. PICK b \in Int : b = IF a < x - 1 THEN a ELSE x - 1
        BY <3>1
      <4> QED BY <4>1, <3>1, <3>3
    <3> QED BY <3>1, <3>2, <3>3
  <2>9. \A k \in U : b < k /\ k < -b
    <3>1. ASSUME NEW k \in U PROVE b < k /\ k < -b
      <4>1. CASE k = x
        BY <4>1, <2>8
      <4>2. CASE k # x
        <5>1. k \in V /\ k \in Int
          BY <4>2, <2>2
        <5>2. a < k /\ k < -a
          BY <5>1, <2>7
        <5> QED BY <5>1, <5>2, <2>7, <2>8
      <4> QED BY <4>1, <4>2
    <3> QED BY <3>1
  <2>10. Bounded(U)
    BY <2>9 DEF Bounded
  <2> QED BY <2>10, <1>6
<1> QED BY <1>7, <1>8

\* Least and Greatest lie below and above every key.
LEMMA BoundsExist ==
    /\ Least \in Int /\ Greatest \in Int /\ Least < Greatest
    /\ \A k \in Key : k \in Int /\ Least < k /\ k < Greatest
<1>1. Key \in SUBSET Int /\ IsFiniteSet(Key)
  BY KeyAssumption
<1>2. PICK a \in Int : \A k \in Key : a < k /\ k < -a
  BY <1>1, FiniteBounded DEF Bounded
<1>3. Least \in Int /\ \A k \in Key : Least < k
  <2>1. \E b \in Int : \A k \in Key : b < k
    BY <1>2
  <2> QED BY <2>1 DEF Least
<1>4. Greatest \in Int /\ Least < Greatest /\ \A k \in Key : k < Greatest
  <2>1. \E b \in Int : Least < b /\ \A k \in Key : k < b
    <3>1. PICK b \in Int : b = IF Least < -a THEN -a ELSE Least + 1
      BY <1>2, <1>3
    <3>2. \A k \in Key : k < b
      BY <3>1, <1>1, <1>2, <1>3
    <3> QED BY <3>1, <3>2, <1>2, <1>3
  <2> QED BY <2>1 DEF Greatest
<1> QED BY <1>1, <1>3, <1>4

\* Sequences ka and kb are the first m elements of ks and the rest.
Halves(ks, m, ka, kb) ==
    /\ Len(ka) = m /\ Len(kb) = Len(ks) - m
    /\ \A j \in 1 .. m : ka[j] = ks[j]
    /\ \A j \in 1 .. Len(ks) - m : kb[j] = ks[m + j]

\* A sequence in two parts.
LEMMA HalvesOf ==
    ASSUME NEW S, NEW ks \in Seq(S), NEW m \in 0 .. Len(ks)
    PROVE  Halves(ks, m, SubSeq(ks, 1, m), SubSeq(ks, m + 1, Len(ks)))
<1>1. PICK L : L = Len(ks)
  OBVIOUS
<1>2. L \in Nat /\ m \in 0 .. L
  BY <1>1
<1>3. PICK ka : ka = SubSeq(ks, 1, m)
  OBVIOUS
<1>4. PICK kb : kb = SubSeq(ks, m + 1, L)
  OBVIOUS
<1>5. Len(ka) = m /\ \A j \in 1 .. m : ka[j] = ks[j]
  <2>1. 1 \in 1 .. Len(ks) + 1 /\ m \in (1 - 1) .. Len(ks)
    BY <1>1, <1>2
  <2>2. Len(ka) = m - 1 + 1 /\ \A j \in 1 .. m - 1 + 1 : ka[j] = ks[1 + j - 1]
    BY <1>3, <2>1, SubSeqProps
  <2>3. m - 1 + 1 = m /\ \A j \in 1 .. m : 1 + j - 1 = j
    BY <1>2
  <2> QED BY <2>2, <2>3
<1>6. Len(kb) = L - m /\ \A j \in 1 .. L - m : kb[j] = ks[m + j]
  <2>1. m + 1 \in 1 .. Len(ks) + 1 /\ Len(ks) \in ((m + 1) - 1) .. Len(ks)
    BY <1>1, <1>2
  <2>2. Len(kb) = L - (m + 1) + 1 /\ \A j \in 1 .. L - (m + 1) + 1 : kb[j] = ks[(m + 1) + j - 1]
    BY <1>1, <1>4, <2>1, SubSeqProps
  <2>3. L - (m + 1) + 1 = L - m /\ \A j \in 1 .. L - m : (m + 1) + j - 1 = m + j
    BY <1>2
  <2> QED BY <2>2, <2>3
<1> QED BY <1>1, <1>3, <1>4, <1>5, <1>6 DEF Halves

\* ks ascends within [a, b).
Run(L, ks, a, b) ==
    /\ \A j \in 1 .. L : ks[j] \in Int /\ a <= ks[j] /\ ks[j] < b
    /\ \A i, j \in 1 .. L : i < j => ks[i] < ks[j]
Taken(L, m, ks, ka, kb) ==
    (\A j \in 1 .. m : ka[j] = ks[j]) /\ (\A j \in 1 .. L - m : kb[j] = ks[m + j])

\* The two leaves fit their ranges.
LEMMA CutLeafNums ==
    ASSUME NEW L \in Nat, NEW m \in 1 .. L - 1, NEW ks, NEW ka, NEW kb, NEW a \in Int, NEW b \in Int,
           Run(L, ks, a, b), Taken(L, m, ks, ka, kb)
    PROVE  /\ a < ks[m + 1] /\ ks[m + 1] < b /\ ks[m + 1] \in Int
           /\ Run(m, ka, a, ks[m + 1]) /\ Run(L - m, kb, ks[m + 1], b)
<1>0. /\ \A j \in 1 .. L : ks[j] \in Int /\ a <= ks[j] /\ ks[j] < b
      /\ \A i, j \in 1 .. L : i < j => ks[i] < ks[j]
      /\ \A j \in 1 .. m : ka[j] = ks[j]
      /\ \A j \in 1 .. L - m : kb[j] = ks[m + j]
  BY DEF Run, Taken
<1>1. m + 1 \in 1 .. L /\ 1 \in 1 .. L /\ 1 < m + 1
  OBVIOUS
<1>2. a < ks[m + 1] /\ ks[m + 1] < b /\ ks[m + 1] \in Int
  <2>1. ks[1] < ks[m + 1] /\ a <= ks[1] /\ ks[1] \in Int /\ ks[m + 1] \in Int /\ ks[m + 1] < b
    BY <1>0, <1>1
  <2> QED BY <2>1
<1>3. ASSUME NEW j \in 1 .. m PROVE a <= ka[j] /\ ka[j] < ks[m + 1] /\ ka[j] \in Int
  <2>1. j \in 1 .. L /\ j < m + 1
    OBVIOUS
  <2> QED BY <2>1, <1>0, <1>1
<1>4. ASSUME NEW j \in 1 .. L - m PROVE ks[m + 1] <= kb[j] /\ kb[j] < b /\ kb[j] \in Int
  <2>1. m + j \in 1 .. L /\ (j = 1 \/ m + 1 < m + j) /\ kb[j] = ks[m + j]
    BY <1>0
  <2>2. CASE j = 1
    <3>1. kb[j] = ks[m + 1]
      BY <2>1, <2>2
    <3> QED BY <3>1, <1>2
  <2>3. CASE m + 1 < m + j
    <3>1. ks[m + 1] < ks[m + j] /\ ks[m + j] < b /\ ks[m + j] \in Int
      BY <2>1, <2>3, <1>0, <1>1
    <3> QED BY <2>1, <3>1, <1>2
  <2> QED BY <2>1, <2>2, <2>3
<1>5. ASSUME NEW i \in 1 .. m, NEW j \in 1 .. m, i < j PROVE ka[i] < ka[j]
  <2>1. i \in 1 .. L /\ j \in 1 .. L
    OBVIOUS
  <2> QED BY <2>1, <1>0, <1>5
<1>6. ASSUME NEW i \in 1 .. L - m, NEW j \in 1 .. L - m, i < j PROVE kb[i] < kb[j]
  <2>1. m + i \in 1 .. L /\ m + j \in 1 .. L /\ m + i < m + j
    BY <1>6
  <2> QED BY <2>1, <1>0, <1>6
<1>7. Run(m, ka, a, ks[m + 1])
  BY <1>3, <1>5 DEF Run
<1>8. Run(L - m, kb, ks[m + 1], b)
  BY <1>4, <1>6 DEF Run
<1> QED BY <1>2, <1>7, <1>8

\* Both halves of a leaf are in order.
LEMMA LeafCutGuides ==
    ASSUME NEW t, NEW u, NEW g, NEW h, SettledG(t, g), NEW l \in LeafSet(t), NEW f,
           NEW m \in 1 .. Len(t.node[l].keys) - 1, LeafCut(t, u, l, f, m),
           NEW s, s = t.node[l].keys[m + 1], CutView(g, h, l, f, s)
    PROVE  /\ Guides(h, l, u.node[l]) /\ Guides(h, f, u.node[f])
           /\ s \in Key /\ s \in Int /\ g.lo[l] < s /\ s < g.hi[l]
<1>1. Arena(t) /\ Shape(t, g, {t.root}) /\ Order(t, g) /\ g.out[l] = g.hi[l]
  BY DEF SettledG, TreeInv, LeafSet
<1>2. l \in DOMAIN t.node /\ t.node[l].kids = <<>> /\ l \in Int /\ f \in Int /\ f # l
  BY <1>1, LeafSetParts, ArenaParts DEF LeafCut
<1>3. PICK ks : ks = t.node[l].keys
  OBVIOUS
<1>4. PICK vs : vs = t.node[l].vals
  OBVIOUS
<1>5. PICK L : L = Len(ks)
  OBVIOUS
<1>6. ks \in Seq(Key) /\ ks \in Seq(Int) /\ vs \in Seq(Value) /\ L \in Nat /\ m \in 1 .. L - 1
  BY <1>1, <1>2, <1>3, <1>4, <1>5, KeysAreInts
<1>7. Guides(g, l, t.node[l])
  BY <1>1, <1>2, GuidesParts
<1>8. /\ Len(vs) = L /\ RangeOf(g, l)
      /\ \A j \in 1 .. L : g.lo[l] <= ks[j] /\ ks[j] < g.hi[l]
      /\ \A i, j \in 1 .. L : i < j => ks[i] < ks[j]
  BY <1>2, <1>3, <1>4, <1>5, <1>7 DEF Guides, LeafKeys, Sorted
<1>9. PICK ka : ka = u.node[l].keys
  OBVIOUS
<1>10. PICK kb : kb = u.node[f].keys
  OBVIOUS
<1>11. PICK va : va = u.node[l].vals
  OBVIOUS
<1>12. PICK vb : vb = u.node[f].vals
  OBVIOUS
<1>13. /\ ka = SubSeq(ks, 1, m) /\ kb = SubSeq(ks, m + 1, Len(ks))
       /\ va = SubSeq(vs, 1, m) /\ vb = SubSeq(vs, m + 1, Len(vs))
       /\ u.node[l].kids = <<>> /\ u.node[f].kids = <<>>
  BY <1>2, <1>3, <1>4, <1>5, <1>8, <1>9, <1>10, <1>11, <1>12 DEF LeafCut
<1>14. Halves(ks, m, ka, kb) /\ Halves(vs, m, va, vb)
  <2>1. m \in 0 .. Len(ks) /\ m \in 0 .. Len(vs)
    BY <1>5, <1>6, <1>8
  <2> QED BY <2>1, <1>6, <1>13, HalvesOf
<1>15. /\ Len(ka) = m /\ Len(kb) = L - m /\ Len(va) = m /\ Len(vb) = L - m
       /\ \A j \in 1 .. m : ka[j] = ks[j]
       /\ \A j \in 1 .. L - m : kb[j] = ks[m + j]
  BY <1>5, <1>8, <1>14 DEF Halves
<1>16. g.lo[l] \in Int /\ g.hi[l] \in Int /\ \A j \in 1 .. L : ks[j] \in Int
  BY <1>5, <1>6, <1>8 DEF RangeOf
<1>17. s = ks[m + 1] /\ s \in Key
  <2>1. m + 1 \in 1 .. Len(ks)
    BY <1>5, <1>6
  <2> QED BY <2>1, <1>3, <1>6
<1>18. /\ g.lo[l] < ks[m + 1] /\ ks[m + 1] < g.hi[l] /\ ks[m + 1] \in Int
       /\ \A j \in 1 .. m : g.lo[l] <= ka[j] /\ ka[j] < ks[m + 1]
       /\ \A j \in 1 .. L - m : ks[m + 1] <= kb[j] /\ kb[j] < g.hi[l]
       /\ \A i, j \in 1 .. m : i < j => ka[i] < ka[j]
       /\ \A i, j \in 1 .. L - m : i < j => kb[i] < kb[j]
  <2>1. Run(L, ks, g.lo[l], g.hi[l]) /\ Taken(L, m, ks, ka, kb)
    BY <1>8, <1>15, <1>16 DEF Run, Taken
  <2>2. /\ g.lo[l] < ks[m + 1] /\ ks[m + 1] < g.hi[l] /\ ks[m + 1] \in Int
        /\ Run(m, ka, g.lo[l], ks[m + 1]) /\ Run(L - m, kb, ks[m + 1], g.hi[l])
    BY <2>1, <1>6, <1>16, CutLeafNums
  <2> QED BY <2>2 DEF Run
<1>19. /\ h.lo[l] = g.lo[l] /\ h.hi[l] = s /\ h.out[l] = g.hi[l]
       /\ h.lo[f] = s /\ h.hi[f] = g.hi[l] /\ h.out[f] = g.hi[l]
  BY <1>1, <1>2 DEF CutView
<1>20. RangeOf(h, l) /\ RangeOf(h, f)
  <2>1. Least <= g.lo[l] /\ g.hi[l] <= Greatest /\ g.lo[l] < g.hi[l]
    BY <1>8 DEF RangeOf
  <2>2. s \in Int /\ g.lo[l] < s /\ s < g.hi[l] /\ Least \in Int /\ Greatest \in Int
    BY <1>17, <1>18, BoundsExist
  <2>3. s <= Greatest /\ Least <= s
    BY <2>1, <2>2, <1>16
  <2> QED BY <2>1, <2>2, <2>3, <1>16, <1>19 DEF RangeOf
<1>21. Guides(h, l, u.node[l])
  <2>1. Sorted(u.node[l].keys)
    BY <1>9, <1>15, <1>18 DEF Sorted
  <2>2. LeafKeys(h, l, u.node[l])
    BY <1>9, <1>11, <1>15, <1>17, <1>18, <1>19 DEF LeafKeys
  <2> QED BY <2>1, <2>2, <1>13, <1>20 DEF Guides
<1>22. Guides(h, f, u.node[f])
  <2>1. Sorted(u.node[f].keys)
    BY <1>10, <1>15, <1>18 DEF Sorted
  <2>2. LeafKeys(h, f, u.node[f])
    BY <1>10, <1>12, <1>15, <1>17, <1>18, <1>19 DEF LeafKeys
  <2> QED BY <2>1, <2>2, <1>13, <1>20 DEF Guides
<1> QED BY <1>17, <1>18, <1>21, <1>22

\* The leaves after a split.
LEMMA LeafCutLeaves ==
    ASSUME NEW t, NEW u, NEW l, NEW f, NEW m, LeafCut(t, u, l, f, m)
    PROVE  LeafSet(u) = LeafSet(t) \cup {f} /\ f \notin LeafSet(t)
BY DEF LeafCut, LeafSet

\* The new leaf is the only one that hangs from nothing yet.
LEMMA LeafCutShape ==
    ASSUME NEW t, NEW u, NEW g, NEW h, SettledG(t, g), NEW l \in LeafSet(t), NEW f,
           NEW m, LeafCut(t, u, l, f, m), NEW s, CutView(g, h, l, f, s)
    PROVE  Shape(u, h, {t.root, f})
<1>1. Arena(t) /\ Shape(t, g, {t.root}) /\ t.root \in DOMAIN t.node
  BY DEF SettledG, TreeInv, RootTop
<1>2. l \in DOMAIN t.node /\ t.node[l].kids = <<>> /\ g.lev[l] = 0
  BY <1>1, LeafSetParts
<1>3. /\ f \in Int /\ f \notin DOMAIN t.node /\ DOMAIN u.node = DOMAIN t.node \cup {f}
      /\ u.node[f].kids = <<>>
      /\ \A n \in DOMAIN t.node : u.node[n].kids = t.node[n].kids /\ u.node[n].parent = t.node[n].parent
  BY DEF LeafCut
<1>4. h.lev[f] = 0 /\ \A n \in DOMAIN t.node : n \in Int /\ n # f /\ h.lev[n] = g.lev[n]
  BY <1>1, <1>2, <1>3, ArenaParts DEF CutView
<1>5. ASSUME NEW n \in DOMAIN t.node PROVE Hangs(u, h, {t.root, f}, n)
  <2>1. Hangs(t, g, {t.root}, n)
    BY <1>1 DEF Shape
  <2>2. ASSUME NEW i \in 1 .. Len(t.node[n].kids)
        PROVE  LET c == t.node[n].kids[i] IN
              /\ c \in DOMAIN u.node /\ c \notin {t.root, f}
              /\ u.node[c].parent = n /\ h.lev[c] = g.lev[c]
    <3>1. PICK c : c = t.node[n].kids[i]
      OBVIOUS
    <3>2. c \in DOMAIN t.node /\ c \notin {t.root} /\ t.node[c].parent = n
      BY <3>1, <1>1, KidParts
    <3> QED BY <3>1, <3>2, <1>3, <1>4
  <2>3. n \in {t.root, f} \/ Placed(u, n)
    <3>1. CASE n \in {t.root}
      BY <3>1
    <3>2. CASE n \notin {t.root}
      <4>1. Placed(t, n)
        BY <3>2, <2>1 DEF Hangs
      <4> QED BY <4>1, <1>3 DEF Placed
    <3> QED BY <3>1, <3>2
  <2> QED BY <2>1, <2>2, <2>3, <1>3, <1>4, HangsMove
<1>6. Hangs(u, h, {t.root, f}, f)
  <2>1. Len(u.node[f].kids) = 0
    BY <1>3
  <2>2. \A i \in 1 .. Len(u.node[f].kids) : FALSE
    BY <2>1
  <2> QED BY <2>2, <1>3, <1>4 DEF Hangs, LevelOf
<1> QED BY <1>1, <1>3, <1>5, <1>6 DEF Shape

\* The leaf after l starts where l ends.
LEMMA LeafCutLinks ==
    ASSUME NEW t, NEW u, NEW g, NEW h, SettledG(t, g), NEW l \in LeafSet(t), NEW f,
           NEW m, LeafCut(t, u, l, f, m), NEW s, CutView(g, h, l, f, s)
    PROVE  Links(u, h)
<1>1. Arena(t) /\ Shape(t, g, {t.root}) /\ Links(t, g)
  BY DEF SettledG, TreeInv
<1>2. LeafSet(u) = LeafSet(t) \cup {f} /\ f \notin LeafSet(t)
  BY LeafCutLeaves
<1>3. \A n \in LeafSet(t) : n \in DOMAIN t.node /\ n \in Int /\ n # f /\ n # NO_NODE
  BY <1>1, <1>2, ArenaParts DEF LeafSet
<1>4. /\ h.lo[f] = s /\ h.hi[f] = g.hi[l]
      /\ \A n \in LeafSet(t) : h.lo[n] = g.lo[n] /\ h.hi[n] = IF n = l THEN s ELSE g.hi[n]
  BY <1>3 DEF CutView
<1>5. PICK nx : nx = t.node[l].next
  OBVIOUS
<1>6. /\ u.node[f].prev = l /\ u.node[f].next = nx /\ u.node[l].next = f
      /\ u.last = IF nx = NO_NODE THEN f ELSE t.last
      /\ u.first = t.first
      /\ nx # NO_NODE => u.node[nx].prev = f
      /\ \A n \in DOMAIN t.node :
           /\ n # l => u.node[n].next = t.node[n].next
           /\ n # nx => u.node[n].prev = t.node[n].prev
  BY <1>5 DEF LeafCut
<1>7. \A n \in LeafSet(t) : LinksOf(t, g, n)
  BY <1>1 DEF Links
<1>8. /\ nx = NO_NODE => l = t.last /\ g.hi[l] = Greatest
      /\ nx # NO_NODE => /\ nx \in LeafSet(t) /\ t.node[nx].prev = l /\ g.lo[nx] = g.hi[l]
  BY <1>5, <1>7 DEF LinksOf
<1>9. nx # l
  <2>1. g.lo[l] < g.hi[l] /\ g.lo[l] \in Int /\ g.hi[l] \in Int
    BY <1>3 DEF SettledG, TreeInv, Order, Guides, RangeOf
  <2>2. g.lo[l] # g.hi[l]
    BY <2>1
  <2> QED BY <2>2, <1>3, <1>8
<1>10. /\ t.first \in LeafSet(t) /\ t.node[t.first].prev = NO_NODE
       /\ t.last \in LeafSet(t) /\ t.node[t.last].next = NO_NODE
  BY <1>1 DEF Links
<1>11. u.first \in LeafSet(u) /\ u.node[u.first].prev = NO_NODE
  <2>1. t.first # nx
    BY <1>3, <1>8, <1>10
  <2> QED BY <2>1, <1>2, <1>3, <1>6, <1>10
<1>12. u.last \in LeafSet(u) /\ u.node[u.last].next = NO_NODE
  <2>1. CASE nx = NO_NODE
    BY <2>1, <1>2, <1>6
  <2>2. CASE nx # NO_NODE
    <3>1. t.last # l
      BY <2>2, <1>5, <1>10
    <3> QED BY <3>1, <2>2, <1>2, <1>3, <1>6, <1>10
  <2> QED BY <2>1, <2>2
<1>13. LinksOf(u, h, f)
  <2>1. CASE nx = NO_NODE
    BY <2>1, <1>2, <1>3, <1>4, <1>6, <1>8 DEF LinksOf
  <2>2. CASE nx # NO_NODE
    <3>1. h.lo[nx] = h.hi[f] /\ nx \in LeafSet(u) /\ u.node[nx].prev = f /\ l \in LeafSet(u) /\ l # NO_NODE
      BY <2>2, <1>2, <1>3, <1>4, <1>6, <1>8
    <3> QED BY <3>1, <2>2, <1>6 DEF LinksOf
  <2> QED BY <2>1, <2>2
<1>14. ASSUME NEW n \in LeafSet(t) PROVE LinksOf(u, h, n)
  <2>1. n \in DOMAIN t.node /\ LinksOf(t, g, n) /\ h.lo[n] = g.lo[n]
    BY <1>3, <1>4, <1>7
  <2>2. /\ u.node[n].next = NO_NODE => n = u.last /\ h.hi[n] = Greatest
        /\ u.node[n].next # NO_NODE => /\ u.node[n].next \in LeafSet(u) /\ u.node[u.node[n].next].prev = n
                                       /\ h.lo[u.node[n].next] = h.hi[n]
    <3>1. CASE n = l
      <4>1. f # NO_NODE
        BY DEF LeafCut, NO_NODE
      <4> QED BY <3>1, <4>1, <1>2, <1>4, <1>6
    <3>2. CASE n # l
      <4>1. PICK w : w = t.node[n].next
        OBVIOUS
      <4>2. u.node[n].next = w
        BY <2>1, <3>2, <4>1, <1>6
      <4>3. CASE w = NO_NODE
        <5>1. n = t.last /\ g.hi[n] = Greatest
          BY <2>1, <4>1, <4>3 DEF LinksOf
        <5>2. nx # NO_NODE
          BY <5>1, <3>2, <1>8
        <5> QED BY <5>1, <5>2, <4>2, <4>3, <3>2, <1>4, <1>6
      <4>4. CASE w # NO_NODE
        <5>1. w \in LeafSet(t) /\ t.node[w].prev = n /\ g.lo[w] = g.hi[n]
          BY <2>1, <4>1, <4>4 DEF LinksOf
        <5>2. w # nx
          BY <5>1, <4>4, <3>2, <1>8
        <5> QED BY <5>1, <5>2, <4>2, <4>4, <3>2, <1>2, <1>3, <1>4, <1>6
      <4> QED BY <4>3, <4>4
    <3> QED BY <3>1, <3>2
  <2>3. /\ u.node[n].prev = NO_NODE => n = u.first /\ h.lo[n] = Least
        /\ u.node[n].prev # NO_NODE => u.node[n].prev \in LeafSet(u) /\ u.node[u.node[n].prev].next = n
    <3>1. CASE n = nx
      <4>1. nx # NO_NODE
        BY <3>1, <1>3
      <4>2. f # NO_NODE
        BY DEF LeafCut, NO_NODE
      <4> QED BY <3>1, <4>1, <4>2, <1>2, <1>6
    <3>2. CASE n # nx
      <4>1. PICK w : w = t.node[n].prev
        OBVIOUS
      <4>2. u.node[n].prev = w
        BY <2>1, <3>2, <4>1, <1>6
      <4>3. CASE w = NO_NODE
        BY <2>1, <4>1, <4>2, <4>3, <1>6 DEF LinksOf
      <4>4. CASE w # NO_NODE
        <5>1. w \in LeafSet(t) /\ t.node[w].next = n
          BY <2>1, <4>1, <4>4 DEF LinksOf
        <5>2. w # l
          BY <5>1, <3>2, <1>5
        <5> QED BY <5>1, <5>2, <4>2, <4>4, <1>2, <1>3, <1>6
      <4> QED BY <4>3, <4>4
    <3> QED BY <3>1, <3>2
  <2> QED BY <2>2, <2>3 DEF LinksOf
<1> QED BY <1>2, <1>11, <1>12, <1>13, <1>14 DEF Links

\* A split of a leaf keeps the entries.
LEMMA LeafCutEntries ==
    ASSUME NEW t, NEW u, NEW g, SettledG(t, g), NEW l \in LeafSet(t), NEW f,
           NEW m \in 1 .. Len(t.node[l].keys) - 1, LeafCut(t, u, l, f, m)
    PROVE  SameEntries(t, u)
<1>1. Arena(t) /\ Shape(t, g, {t.root}) /\ Order(t, g) /\ l \in DOMAIN t.node /\ t.node[l].kids = <<>>
  BY DEF SettledG, TreeInv, LeafSet
<1>2. LeafSet(u) = LeafSet(t) \cup {f} /\ f \notin LeafSet(t)
  BY LeafCutLeaves
<1>3. PICK ks : ks = t.node[l].keys
  OBVIOUS
<1>4. PICK vs : vs = t.node[l].vals
  OBVIOUS
<1>5. PICK L : L = Len(ks)
  OBVIOUS
<1>6. ks \in Seq(Key) /\ vs \in Seq(Value) /\ L \in Nat /\ m \in 1 .. L - 1 /\ Len(vs) = L
  <2>1. ks \in Seq(Key) /\ vs \in Seq(Value)
    BY <1>1, <1>3, <1>4, KeysAreInts
  <2>2. Guides(g, l, t.node[l])
    BY <1>1, GuidesParts
  <2>3. Len(vs) = L
    BY <2>2, <1>1, <1>3, <1>4, <1>5 DEF Guides, LeafKeys
  <2> QED BY <2>1, <2>3, <1>3, <1>5
<1>7. /\ Halves(ks, m, u.node[l].keys, u.node[f].keys) /\ Halves(vs, m, u.node[l].vals, u.node[f].vals)
  <2>1. m \in 0 .. Len(ks) /\ m \in 0 .. Len(vs)
    BY <1>5, <1>6
  <2>2. /\ u.node[l].keys = SubSeq(ks, 1, m) /\ u.node[f].keys = SubSeq(ks, m + 1, Len(ks))
        /\ u.node[l].vals = SubSeq(vs, 1, m) /\ u.node[f].vals = SubSeq(vs, m + 1, Len(vs))
    BY <1>3, <1>4, <1>5, <1>6 DEF LeafCut
  <2> QED BY <2>1, <2>2, <1>6, HalvesOf
<1>8. /\ Len(u.node[l].keys) = m /\ Len(u.node[f].keys) = L - m
      /\ \A j \in 1 .. m : u.node[l].keys[j] = ks[j] /\ u.node[l].vals[j] = vs[j]
      /\ \A j \in 1 .. L - m : u.node[f].keys[j] = ks[m + j] /\ u.node[f].vals[j] = vs[m + j]
  BY <1>5, <1>6, <1>7 DEF Halves
<1>9. \A n \in LeafSet(t) : n # l => u.node[n].keys = t.node[n].keys /\ u.node[n].vals = t.node[n].vals
  BY DEF LeafCut, LeafSet
<1>10. ASSUME NEW k, NEW v, Has(t, k, v) PROVE Has(u, k, v)
  <2>1. PICK n \in LeafSet(t) : \E i \in 1 .. Len(t.node[n].keys) : t.node[n].keys[i] = k /\ t.node[n].vals[i] = v
    BY <1>10 DEF Has
  <2>2. PICK i \in 1 .. Len(t.node[n].keys) : t.node[n].keys[i] = k /\ t.node[n].vals[i] = v
    BY <2>1
  <2>3. CASE n # l
    BY <2>2, <2>3, <1>2, <1>9 DEF Has
  <2>4. CASE n = l /\ i <= m
    <3>1. i \in 1 .. L /\ ks[i] = k /\ vs[i] = v
      BY <2>2, <2>4, <1>3, <1>4, <1>5
    <3>2. i \in 1 .. m
      BY <3>1, <2>4, <1>6
    <3>3. l \in LeafSet(u) /\ i \in 1 .. Len(u.node[l].keys) /\ u.node[l].keys[i] = k /\ u.node[l].vals[i] = v
      BY <3>1, <3>2, <1>2, <1>8
    <3> QED BY <3>3 DEF Has
  <2>5. CASE n = l /\ i > m
    <3>1. i \in 1 .. L /\ ks[i] = k /\ vs[i] = v
      BY <2>2, <2>5, <1>3, <1>4, <1>5
    <3>2. PICK j : j = i - m
      OBVIOUS
    <3>3. j \in 1 .. L - m /\ m + j = i
      BY <3>1, <3>2, <2>5, <1>6
    <3>4. f \in LeafSet(u) /\ j \in 1 .. Len(u.node[f].keys) /\ u.node[f].keys[j] = k /\ u.node[f].vals[j] = v
      BY <3>1, <3>3, <1>2, <1>8
    <3> QED BY <3>4 DEF Has
  <2>6. i \in Nat /\ m \in Nat
    BY <1>6
  <2> QED BY <2>3, <2>4, <2>5, <2>6
<1>11. ASSUME NEW k, NEW v, Has(u, k, v) PROVE Has(t, k, v)
  <2>1. PICK n \in LeafSet(u) : \E i \in 1 .. Len(u.node[n].keys) : u.node[n].keys[i] = k /\ u.node[n].vals[i] = v
    BY <1>11 DEF Has
  <2>2. PICK i \in 1 .. Len(u.node[n].keys) : u.node[n].keys[i] = k /\ u.node[n].vals[i] = v
    BY <2>1
  <2>3. CASE n # l /\ n # f
    BY <2>2, <2>3, <1>2, <1>9 DEF Has
  <2>4. CASE n = l
    <3>1. i \in 1 .. m /\ i \in 1 .. L
      BY <2>2, <2>4, <1>6, <1>8
    <3>2. ks[i] = k /\ vs[i] = v
      BY <3>1, <2>2, <2>4, <1>8
    <3> QED BY <3>1, <3>2, <1>3, <1>4, <1>5 DEF Has
  <2>5. CASE n = f
    <3>1. i \in 1 .. L - m /\ m + i \in 1 .. L
      BY <2>2, <2>5, <1>6, <1>8
    <3>2. ks[m + i] = k /\ vs[m + i] = v
      BY <3>1, <2>2, <2>5, <1>8
    <3> QED BY <3>1, <3>2, <1>3, <1>4, <1>5 DEF Has
  <2> QED BY <2>3, <2>4, <2>5
<1> QED BY <1>10, <1>11 DEF SameEntries

\* A split of a leaf keeps the invariant.
LEMMA LeafCutInv ==
    ASSUME NEW t, NEW u, NEW g, SettledG(t, g), NEW l \in LeafSet(t), NEW f,
           NEW m \in 1 .. Len(t.node[l].keys) - 1, LeafCut(t, u, l, f, m), Arena(u),
           NEW s, s = t.node[l].keys[m + 1]
    PROVE  SplittingG(u, CutG(g, l, f, s), l, s, f) /\ SameEntries(t, u)
<1>1. Arena(t) /\ Shape(t, g, {t.root}) /\ Order(t, g) /\ Links(t, g) /\ t.len = Cardinality(KeySet(t))
      /\ RootTop(t, g) /\ \A n \in DOMAIN t.node : g.out[n] = g.hi[n]
  BY DEF SettledG, TreeInv
<1>2. l \in DOMAIN t.node /\ l \in Int /\ f \in Int /\ f \notin DOMAIN t.node /\ u.root = t.root /\ t.root \in DOMAIN t.node
  BY <1>1, ArenaParts DEF LeafSet, LeafCut, RootTop
<1>3. PICK h : h = CutG(g, l, f, s)
  OBVIOUS
<1>4. CutView(g, h, l, f, s)
  BY <1>2, <1>3, CutParts
<1>5. /\ Guides(h, l, u.node[l]) /\ Guides(h, f, u.node[f])
      /\ s \in Key /\ s \in Int /\ g.lo[l] < s /\ s < g.hi[l]
  BY <1>4, LeafCutGuides
<1>6. CutRest(t, u, l, f)
  BY DEF CutRest, LeafCut
<1>7. Order(u, h)
  BY <1>1, <1>2, <1>4, <1>5, <1>6, CutOrder
<1>8. Shape(u, h, {t.root, f})
  BY <1>4, LeafCutShape
<1>9. Links(u, h)
  BY <1>4, LeafCutLinks
<1>10. SameEntries(t, u) /\ KeySet(t) = KeySet(u)
  BY <1>1, LeafCutEntries, SameKeySet
<1>11. TreeInv(u, h, {u.root, f})
  BY <1>1, <1>2, <1>7, <1>8, <1>9, <1>10 DEF TreeInv, LeafCut
<1>12. \A n \in DOMAIN t.node : n \in Int /\ n # f
  BY <1>1, <1>2, ArenaParts
<1>13. RootTop(u, h)
  BY <1>1, <1>2, <1>4, <1>12 DEF RootTop, CutView, LeafCut
<1>14. h.lev[l] = h.lev[f] /\ h.hi[l] = s /\ h.lo[f] = s /\ h.out[l] = h.hi[f] /\ l # f /\ f # t.root
  BY <1>1, <1>2, <1>4, <1>12 DEF CutView
<1>15. DOMAIN u.node = DOMAIN t.node \cup {f} /\ u.node[f].parent = u.node[l].parent
  BY <1>2 DEF LeafCut
<1>16. \A n \in DOMAIN u.node : n # l => h.out[n] = h.hi[n]
  BY <1>1, <1>4, <1>12, <1>15 DEF CutView
<1> QED BY <1>2, <1>3, <1>5, <1>10, <1>11, <1>13, <1>14, <1>15, <1>16 DEF SplittingG

AdoptView(t, u, ns, p) ==
    /\ SameFrame(t, u)
    /\ \A n \in DOMAIN t.node :
         /\ u.node[n].keys = t.node[n].keys /\ u.node[n].vals = t.node[n].vals
         /\ u.node[n].kids = t.node[n].kids
         /\ u.node[n].prev = t.node[n].prev /\ u.node[n].next = t.node[n].next
         /\ u.node[n].parent = IF n \in ns THEN p ELSE t.node[n].parent

\* What Adopt changes.
LEMMA AdoptEffect ==
    ASSUME NEW t, Arena(t), NEW ns, NEW p \in Int, NEW u, u = Adopt(t, ns, p)
    PROVE  Arena(u) /\ AdoptView(t, u, ns, p)
<1>1. t = TreeOf(t.node, t.free, t.hi, t.root, t.first, t.last, t.len, t.height)
  BY ArenaParts
<1>2. PICK D : D = DOMAIN t.node
  OBVIOUS
<1>3. PICK f0 : f0 = t.node
  OBVIOUS
<1>4. f0 \in [D -> NodeRec]
  BY <1>2, <1>3 DEF Arena
<1>5. PICK f1 : f1 = [m \in D |-> IF m \in ns THEN [f0[m] EXCEPT !.parent = p] ELSE f0[m]]
  OBVIOUS
<1>6. u = TreeOf(f1, t.free, t.hi, t.root, t.first, t.last, t.len, t.height)
  BY <1>1, <1>2, <1>3, <1>5 DEF Adopt, TreeOf
<1>7. /\ u.node = f1 /\ u.free = t.free /\ u.hi = t.hi /\ u.root = t.root /\ u.first = t.first
      /\ u.last = t.last /\ u.len = t.len /\ u.height = t.height
  BY <1>6 DEF TreeOf
<1>8. ASSUME NEW n \in D
      PROVE  /\ f1[n] \in NodeRec
             /\ f1[n].keys = f0[n].keys /\ f1[n].vals = f0[n].vals /\ f1[n].kids = f0[n].kids
             /\ f1[n].prev = f0[n].prev /\ f1[n].next = f0[n].next
             /\ f1[n].parent = IF n \in ns THEN p ELSE f0[n].parent
  <2>1. PICK r : r = f0[n]
    OBVIOUS
  <2>2. PICK q : q = [r EXCEPT !.parent = p]
    OBVIOUS
  <2>3. /\ q \in NodeRec /\ q.keys = r.keys /\ q.vals = r.vals /\ q.kids = r.kids
        /\ q.prev = r.prev /\ q.next = r.next /\ q.parent = p /\ r \in NodeRec
    <3>1. r \in NodeRec
      BY <1>4, <2>1
    <3> QED BY <3>1, <2>2 DEF NodeRec
  <2>4. f1[n] = IF n \in ns THEN q ELSE r
    BY <1>5, <2>1, <2>2
  <2> QED BY <2>1, <2>3, <2>4
<1>9. f1 \in [D -> NodeRec] /\ DOMAIN f1 = D
  BY <1>5, <1>8
<1>10. Arena(u)
  BY <1>2, <1>6, <1>7, <1>9 DEF Arena, TreeOf
<1>11. AdoptView(t, u, ns, p)
  BY <1>2, <1>3, <1>7, <1>8, <1>9 DEF AdoptView, SameFrame
<1> QED BY <1>10, <1>11

\* Internal node p of t gives what is beyond key m + 1 to the new node f.
InnerCut(t, u, p, f, m) ==
    /\ f \in Nat /\ f \notin DOMAIN t.node /\ DOMAIN u.node = DOMAIN t.node \cup {f}
    /\ u.root = t.root /\ u.first = t.first /\ u.last = t.last /\ u.len = t.len /\ u.height = t.height
    /\ u.node[p].keys = SubSeq(t.node[p].keys, 1, m)
    /\ u.node[p].kids = SubSeq(t.node[p].kids, 1, m + 1)
    /\ u.node[f].keys = SubSeq(t.node[p].keys, m + 2, Len(t.node[p].keys))
    /\ u.node[f].kids = SubSeq(t.node[p].kids, m + 2, Len(t.node[p].kids))
    /\ u.node[f].parent = t.node[p].parent
    /\ \A n \in DOMAIN t.node :
         /\ n # p => u.node[n].keys = t.node[n].keys /\ u.node[n].kids = t.node[n].kids
         /\ u.node[n].vals = t.node[n].vals
         /\ u.node[n].prev = t.node[n].prev /\ u.node[n].next = t.node[n].next
         /\ u.node[n].parent = IF n \in ToSet(u.node[f].kids) THEN f ELSE t.node[n].parent

\* Node f has no neighbours.
Unlinked(u, f) == u.node[f].prev = NO_NODE /\ u.node[f].next = NO_NODE

\* InternalSplitAndInsert is an InternalInsertAt, and then a cut.
LEMMA InternalSplitEffect ==
    ASSUME NEW t, Arena(t), NEW p \in DOMAIN t.node, NEW c \in DOMAIN t.node, p # c, t.node[c].parent = p,
           NEW i \in 1 .. Len(t.node[p].kids), NEW k \in Key, ToSet(t.node[p].kids) \subseteq DOMAIN t.node,
           Len(t.node[p].keys) = InternalCap, Len(t.node[p].kids) = InternalCap + 1,
           NEW w, EnterView(t, w, p, i, k, c),
           NEW u, u = InternalSplitAndInsert(t, p, i, k, c)
    PROVE  Arena(u) /\ InnerCut(w, u, p, Fresh(t), InternalMid) /\ Unlinked(u, Fresh(t))
<1>1. PICK f : f = Fresh(t)
  OBVIOUS
<1>2. f \in Nat /\ f \notin DOMAIN t.node /\ f # p /\ f # c /\ f \in Int
  BY <1>1, FreshUnused
<1>3. PICK ks : ks = InsertAt(t.node[p].keys, i, k)
  OBVIOUS
<1>4. PICK cs : cs = InsertAt(t.node[p].kids, i + 1, c)
  OBVIOUS
<1>5. PICK N : N = InternalCap
  OBVIOUS
<1>6. PICK M : M = InternalMid
  OBVIOUS
<1>7. N \in Nat \ {0, 1} /\ M \in 1 .. N - 1
  BY <1>5, <1>6, CapAssumption DEF InternalMid
<1>8. ks \in Seq(Key) /\ Len(ks) = N + 1
  <2>1. PICK a : a = t.node[p].keys
    OBVIOUS
  <2>2. a \in Seq(Key) /\ i \in 1 .. Len(a) + 1 /\ ks = InsertAt(a, i, k) /\ Len(a) = N
    BY <1>3, <1>5, <1>7, <2>1, ArenaParts
  <2> QED BY <2>2, InsertAtProps
<1>9. cs \in Seq(Int) /\ Len(cs) = N + 2
  <2>1. PICK a : a = t.node[p].kids
    OBVIOUS
  <2>2. PICK j : j = i + 1
    OBVIOUS
  <2>3. a \in Seq(Int) /\ j \in 1 .. Len(a) + 1 /\ cs = InsertAt(a, j, c) /\ Len(a) = N + 1 /\ c \in Int
    BY <1>4, <1>5, <1>7, <2>1, <2>2, ArenaParts
  <2>4. cs \in Seq(Int) /\ Len(cs) = Len(a) + 1
    BY <2>3, InsertAtProps
  <2> QED BY <2>3, <2>4, <1>7
<1>10. PICK k1 : k1 = SubSeq(ks, 1, M)
  OBVIOUS
<1>11. PICK c1 : c1 = SubSeq(cs, 1, M + 1)
  OBVIOUS
<1>12. PICK k2 : k2 = SubSeq(ks, M + 2, N + 1)
  OBVIOUS
<1>13. PICK c2 : c2 = SubSeq(cs, M + 2, N + 2)
  OBVIOUS
<1>14. k1 \in Seq(Key) /\ k2 \in Seq(Key) /\ c1 \in Seq(Int) /\ c2 \in Seq(Int)
  <2>1. /\ 1 \in 1 .. Len(ks) + 1 /\ M \in (1 - 1) .. Len(ks) /\ 1 \in 1 .. Len(cs) + 1 /\ M + 1 \in (1 - 1) .. Len(cs)
        /\ M + 2 \in 1 .. Len(ks) + 1 /\ N + 1 \in ((M + 2) - 1) .. Len(ks)
        /\ M + 2 \in 1 .. Len(cs) + 1 /\ N + 2 \in ((M + 2) - 1) .. Len(cs)
    <3>1. /\ 1 \in 1 .. (N + 1) + 1 /\ M \in (1 - 1) .. (N + 1)
          /\ 1 \in 1 .. (N + 2) + 1 /\ M + 1 \in (1 - 1) .. (N + 2)
      BY <1>7
    <3>2. /\ M + 2 \in 1 .. (N + 1) + 1 /\ N + 1 \in ((M + 2) - 1) .. (N + 1)
          /\ M + 2 \in 1 .. (N + 2) + 1 /\ N + 2 \in ((M + 2) - 1) .. (N + 2)
      BY <1>7
    <3> QED BY <1>8, <1>9, <3>1, <3>2
  <2>2. \A a, b \in Nat : SubSeq(ks, a, b) \in Seq(Key) \/ ~(a \in 1 .. Len(ks) + 1 /\ b \in (a - 1) .. Len(ks))
    BY <1>8, SubSeqProps
  <2>3. \A a, b \in Nat : SubSeq(cs, a, b) \in Seq(Int) \/ ~(a \in 1 .. Len(cs) + 1 /\ b \in (a - 1) .. Len(cs))
    BY <1>9, SubSeqProps
  <2>4. 1 \in Nat /\ M \in Nat /\ M + 1 \in Nat /\ M + 2 \in Nat /\ N + 1 \in Nat /\ N + 2 \in Nat
    BY <1>7
  <2>5. k1 \in Seq(Key) /\ k2 \in Seq(Key)
    BY <2>1, <2>2, <2>4, <1>10, <1>12
  <2>6. c1 \in Seq(Int) /\ c2 \in Seq(Int)
    BY <2>1, <2>3, <2>4, <1>11, <1>13
  <2> QED BY <2>5, <2>6
<1>15. PICK rec : rec = Internal(k2, c2, t.node[p].parent)
  OBVIOUS
<1>16. /\ rec \in NodeRec /\ rec.keys = k2 /\ rec.kids = c2 /\ rec.parent = t.node[p].parent
       /\ rec.prev = NO_NODE /\ rec.next = NO_NODE
  <2>1. t.node[p].parent \in Int
    BY ArenaParts
  <2>2. PICK pl : pl = t.node[p].parent
    OBVIOUS
  <2>3. PICK no : no = NO_NODE
    OBVIOUS
  <2>4. pl \in Int /\ no \in Int
    BY <2>1, <2>2, <2>3 DEF NO_NODE
  <2>5. rec = [keys |-> k2, vals |-> <<>>, kids |-> c2, parent |-> pl, prev |-> no, next |-> no]
    BY <1>15, <2>2, <2>3 DEF Internal
  <2>6. rec \in NodeRec
    BY <1>14, <2>4, <2>5 DEF NodeRec
  <2> QED BY <2>2, <2>3, <2>5, <2>6
<1>17. PICK t1 : t1 = Alloc(t, rec)
  OBVIOUS
<1>18. Arena(t1) /\ AllocView(t, t1, f, rec)
  BY <1>1, <1>16, <1>17, AllocEffect
<1>19. PICK t2 : t2 = [t1 EXCEPT !.node[p].keys = k1, !.node[p].kids = c1]
  OBVIOUS
<1>20. PICK D : D = DOMAIN t.node \cup {f}
  OBVIOUS
<1>21. t1.node \in [D -> NodeRec] /\ p \in D /\ DOMAIN t1.node = D /\ f \in D
  BY <1>18, <1>20 DEF AllocView, Arena
<1>214. PICK f0 : f0 = t1.node
  OBVIOUS
<1>215. f0 \in [D -> NodeRec] /\ p \in D /\ DOMAIN f0 = D
  BY <1>21, <1>214
<1>22. PICK f1 : f1 = WithKeys(f0, p, k1)
  OBVIOUS
<1>23. f1 \in [D -> NodeRec] /\ KeysSet(f0, f1, p, k1)
  BY <1>14, <1>215, <1>22, SetKeys
<1>24. PICK f2 : f2 = WithKids(f1, p, c1)
  OBVIOUS
<1>25. f2 \in [D -> NodeRec] /\ KidsSet(f1, f2, p, c1)
  BY <1>14, <1>215, <1>23, <1>24, SetKids
<1>26. DOMAIN f1 = D /\ DOMAIN f2 = D
  BY <1>23, <1>25
<1>27. t2 = TreeOf(f2, t1.free, t1.hi, t1.root, t1.first, t1.last, t1.len, t1.height)
  <2>1. t1 = TreeOf(t1.node, t1.free, t1.hi, t1.root, t1.first, t1.last, t1.len, t1.height)
    BY <1>18, ArenaParts
  <2> QED BY <2>1, <1>19, <1>214, <1>22, <1>24 DEF TreeOf, WithKeys, WithKids
<1>28. /\ t2.node = f2 /\ t2.free = t1.free /\ t2.hi = t1.hi /\ t2.root = t1.root /\ t2.first = t1.first
       /\ t2.last = t1.last /\ t2.len = t1.len /\ t2.height = t1.height
  BY <1>27 DEF TreeOf
<1>29. Arena(t2)
  BY <1>18, <1>21, <1>25, <1>26, <1>27, <1>28 DEF Arena, TreeOf
<1>30. u = Adopt(t2, ToSet(c2), f)
  BY <1>1, <1>3, <1>4, <1>5, <1>6, <1>10, <1>11, <1>12, <1>13, <1>15, <1>17, <1>19 DEF InternalSplitAndInsert
<1>31. Arena(u) /\ AdoptView(t2, u, ToSet(c2), f)
  BY <1>2, <1>29, <1>30, AdoptEffect
<1>32. /\ DOMAIN u.node = D /\ u.root = t.root /\ u.first = t.first /\ u.last = t.last /\ u.len = t.len
       /\ u.height = t.height
  BY <1>18, <1>26, <1>28, <1>31 DEF AdoptView, SameFrame, AllocView
<1>33. \A n \in D : /\ u.node[n].keys = f2[n].keys /\ u.node[n].vals = f2[n].vals
                    /\ u.node[n].kids = f2[n].kids
                    /\ u.node[n].prev = f2[n].prev /\ u.node[n].next = f2[n].next
                    /\ u.node[n].parent = IF n \in ToSet(c2) THEN f ELSE f2[n].parent
  BY <1>26, <1>28, <1>31 DEF AdoptView
<1>34. /\ t1.node[f] = rec /\ \A n \in DOMAIN t.node : t1.node[n] = t.node[n] /\ n \in D
  BY <1>18, <1>20 DEF AllocView
<1>35. /\ f1[p].keys = k1
       /\ \A n \in D : /\ n # p => f1[n].keys = t1.node[n].keys
             /\ f1[n].vals = t1.node[n].vals /\ f1[n].kids = t1.node[n].kids
             /\ f1[n].parent = t1.node[n].parent
             /\ f1[n].prev = t1.node[n].prev /\ f1[n].next = t1.node[n].next
  BY <1>21, <1>214, <1>23 DEF KeysSet
<1>36. /\ f2[p].kids = c1
       /\ \A n \in D : /\ n # p => f2[n].kids = f1[n].kids
             /\ f2[n].keys = f1[n].keys /\ f2[n].vals = f1[n].vals
             /\ f2[n].parent = f1[n].parent
             /\ f2[n].prev = f1[n].prev /\ f2[n].next = f1[n].next
  BY <1>25, <1>26 DEF KidsSet
<1>37. /\ DOMAIN w.node = DOMAIN t.node /\ w.root = t.root /\ w.first = t.first /\ w.last = t.last
       /\ w.len = t.len /\ w.height = t.height /\ w.node[p].keys = ks /\ w.node[p].kids = cs
       /\ \A n \in DOMAIN t.node :
         /\ n # p => w.node[n].keys = t.node[n].keys /\ w.node[n].kids = t.node[n].kids
         /\ w.node[n].vals = t.node[n].vals /\ w.node[n].parent = t.node[n].parent
         /\ w.node[n].prev = t.node[n].prev /\ w.node[n].next = t.node[n].next
  BY <1>3, <1>4 DEF EnterView, SameFrame
<1>38. u.node[p].keys = k1 /\ u.node[p].kids = c1
  BY <1>21, <1>33, <1>35, <1>36
<1>39. f \notin ToSet(c2) => u.node[f].parent = t.node[p].parent
  BY <1>2, <1>16, <1>21, <1>33, <1>34, <1>35, <1>36
<1>40. u.node[f].keys = k2 /\ u.node[f].kids = c2
  BY <1>2, <1>16, <1>21, <1>33, <1>34, <1>35, <1>36
<1>41. ASSUME NEW n \in DOMAIN w.node
       PROVE  /\ n # p => u.node[n].keys = w.node[n].keys /\ u.node[n].kids = w.node[n].kids
              /\ u.node[n].vals = w.node[n].vals
              /\ u.node[n].prev = w.node[n].prev /\ u.node[n].next = w.node[n].next
              /\ u.node[n].parent = IF n \in ToSet(u.node[f].kids) THEN f ELSE w.node[n].parent
  <2>1. n \in D /\ n \in DOMAIN t.node /\ t1.node[n] = t.node[n]
    BY <1>34, <1>37
  <2> QED BY <2>1, <1>33, <1>35, <1>36, <1>37, <1>40
<1>42. f \notin ToSet(c2)
  <2>1. PICK a : a = t.node[p].kids
    OBVIOUS
  <2>2. PICK j0 : j0 = i + 1
    OBVIOUS
  <2>3. a \in Seq(Int) /\ j0 \in 1 .. Len(a) + 1 /\ cs = InsertAt(a, j0, c) /\ Len(a) = N + 1 /\ c \in Int
    BY <1>4, <1>5, <1>7, <2>1, <2>2, ArenaParts
  <2>4. InsertedAt(Int, a, j0, c, cs)
    BY <2>3, InsertAtDoes
  <2>5. \A j \in 1 .. N + 2 : cs[j] = IF j < j0 THEN a[j] ELSE IF j = j0 THEN c ELSE a[j - 1]
    BY <2>3, <2>4, <1>7 DEF InsertedAt
  <2>6. \A j \in 1 .. N + 1 : a[j] # f
    <3>1. DOMAIN a = 1 .. N + 1 /\ ToSet(a) \subseteq DOMAIN t.node
      BY <2>1, <2>3
    <3> QED BY <3>1, <1>2 DEF ToSet
  <2>7. ASSUME NEW j \in 1 .. N + 2 PROVE cs[j] # f
    <3>1. CASE j < j0
      <4>1. j \in 1 .. N + 1 /\ cs[j] = a[j]
        BY <3>1, <2>3, <2>5, <1>7
      <4> QED BY <4>1, <2>6
    <3>2. CASE j = j0
      BY <3>2, <2>5, <1>2
    <3>3. CASE j > j0
      <4>1. j - 1 \in 1 .. N + 1 /\ cs[j] = a[j - 1]
        BY <3>3, <2>3, <2>5, <1>7
      <4> QED BY <4>1, <2>6
    <3> QED BY <3>1, <3>2, <3>3, <2>3
  <2>8. /\ M + 2 \in 1 .. Len(cs) + 1 /\ N + 2 \in ((M + 2) - 1) .. Len(cs)
    <3>1. M + 2 \in 1 .. (N + 2) + 1 /\ N + 2 \in ((M + 2) - 1) .. (N + 2)
      BY <1>7
    <3> QED BY <1>9, <3>1
  <2>9. Len(c2) = (N + 2) - (M + 2) + 1 /\ \A j \in 1 .. (N + 2) - (M + 2) + 1 : c2[j] = cs[(M + 2) + j - 1]
    <3>1. PICK x : x = M + 2
      OBVIOUS
    <3>2. PICK y : y = N + 2
      OBVIOUS
    <3>3. x \in 1 .. Len(cs) + 1 /\ y \in (x - 1) .. Len(cs) /\ c2 = SubSeq(cs, x, y)
      BY <2>8, <3>1, <3>2, <1>13
    <3>4. Len(c2) = y - x + 1 /\ \A j \in 1 .. y - x + 1 : c2[j] = cs[x + j - 1]
      BY <3>3, <1>9, SubSeqProps
    <3> QED BY <3>1, <3>2, <3>4
  <2>10. ASSUME NEW j \in DOMAIN c2 PROVE c2[j] # f
    <3>1. DOMAIN c2 = 1 .. Len(c2)
      BY <1>14
    <3>2. j \in 1 .. (N + 2) - (M + 2) + 1
      BY <3>1, <2>9
    <3>3. (M + 2) + j - 1 \in 1 .. N + 2
      BY <3>2, <1>7
    <3> QED BY <3>2, <3>3, <2>7, <2>9
  <2> QED BY <2>10 DEF ToSet
<1>43. InnerCut(w, u, p, f, M)
  <2>1. /\ u.node[p].keys = SubSeq(w.node[p].keys, 1, M)
        /\ u.node[p].kids = SubSeq(w.node[p].kids, 1, M + 1)
        /\ u.node[f].keys = SubSeq(w.node[p].keys, M + 2, Len(w.node[p].keys))
        /\ u.node[f].kids = SubSeq(w.node[p].kids, M + 2, Len(w.node[p].kids))
    BY <1>8, <1>9, <1>10, <1>11, <1>12, <1>13, <1>37, <1>38, <1>40
  <2>2. u.node[f].parent = w.node[p].parent
    BY <1>37, <1>39, <1>42
  <2> QED BY <2>1, <2>2, <1>2, <1>20, <1>32, <1>37, <1>41 DEF InnerCut
<1>44. Unlinked(u, f)
  <2>1. u.node[f].prev = rec.prev /\ u.node[f].next = rec.next
    BY <1>21, <1>33, <1>34, <1>35, <1>36
  <2> QED BY <2>1, <1>16 DEF Unlinked
<1> QED BY <1>1, <1>6, <1>31, <1>43, <1>44

\* m keys cut the range [a, b) into those of m + 1 kids.
Ruled(m, ks, cs, lo, out, a, b) ==
    /\ \A j \in 1 .. m : ks[j] \in Int /\ a < ks[j] /\ ks[j] < b
    /\ \A i, j \in 1 .. m : i < j => ks[i] < ks[j]
    /\ \A j \in 1 .. m + 1 : /\ lo[cs[j]] = IF j = 1 THEN a ELSE ks[j - 1]
                             /\ out[cs[j]] = IF j = m + 1 THEN b ELSE ks[j]

\* Keys ks are ka, s and kb, kids cs are ca and cb.
Parted(M, N, s, ks, cs, ka, ca, kb, cb) ==
    /\ \A j \in 1 .. M : ks[j] = ka[j]
    /\ ks[M + 1] = s
    /\ \A j \in 1 .. N : ks[M + 1 + j] = kb[j]
    /\ \A j \in 1 .. M + 1 : cs[j] = ca[j]
    /\ \A j \in 1 .. N + 1 : cs[M + 1 + j] = cb[j]

\* A row of kids cut in two at separator s.
LEMMA RuledCut ==
    ASSUME NEW M \in Nat, NEW N \in Nat, NEW s, NEW ks, NEW cs, NEW ka, NEW ca, NEW kb, NEW cb,
           NEW lo, NEW out, NEW a \in Int, NEW b \in Int,
           Parted(M, N, s, ks, cs, ka, ca, kb, cb), Ruled(M + 1 + N, ks, cs, lo, out, a, b)
    PROVE  /\ s \in Int /\ a < s /\ s < b
           /\ Ruled(M, ka, ca, lo, out, a, s) /\ Ruled(N, kb, cb, lo, out, s, b)
<1>1. PICK L : L = M + 1 + N
  OBVIOUS
<1>2. /\ \A j \in 1 .. L : ks[j] \in Int /\ a < ks[j] /\ ks[j] < b
      /\ \A i, j \in 1 .. L : i < j => ks[i] < ks[j]
      /\ \A j \in 1 .. L + 1 : /\ lo[cs[j]] = IF j = 1 THEN a ELSE ks[j - 1]
                               /\ out[cs[j]] = IF j = L + 1 THEN b ELSE ks[j]
  BY <1>1 DEF Ruled
<1>3. /\ \A j \in 1 .. M : ks[j] = ka[j]
      /\ ks[M + 1] = s
      /\ \A j \in 1 .. N : ks[M + 1 + j] = kb[j]
      /\ \A j \in 1 .. M + 1 : cs[j] = ca[j]
      /\ \A j \in 1 .. N + 1 : cs[M + 1 + j] = cb[j]
  BY DEF Parted
<1>4. M + 1 \in 1 .. L /\ L \in Nat
  BY <1>1
<1>5. s \in Int /\ a < s /\ s < b
  BY <1>2, <1>3, <1>4
<1>6. ASSUME NEW j \in 1 .. M PROVE ka[j] \in Int /\ a < ka[j] /\ ka[j] < s
  <2>1. j \in 1 .. L /\ j < M + 1
    BY <1>1
  <2>2. ks[j] \in Int /\ a < ks[j] /\ ks[j] < ks[M + 1]
    BY <2>1, <1>2, <1>4
  <2> QED BY <2>2, <1>3
<1>7. ASSUME NEW i \in 1 .. M, NEW j \in 1 .. M, i < j PROVE ka[i] < ka[j]
  <2>1. i \in 1 .. L /\ j \in 1 .. L
    BY <1>1
  <2>2. ks[i] < ks[j]
    BY <2>1, <1>2, <1>7
  <2> QED BY <2>2, <1>3
<1>8. ASSUME NEW j \in 1 .. M + 1 PROVE lo[ca[j]] = IF j = 1 THEN a ELSE ka[j - 1]
  <2>1. j \in 1 .. L + 1 /\ (j # 1 => j - 1 \in 1 .. M)
    BY <1>1
  <2> QED BY <2>1, <1>2, <1>3
<1>9. ASSUME NEW j \in 1 .. M + 1 PROVE out[ca[j]] = IF j = M + 1 THEN s ELSE ka[j]
  <2>1. j \in 1 .. L + 1 /\ j # L + 1 /\ (j # M + 1 => j \in 1 .. M)
    BY <1>1
  <2>2. out[cs[j]] = ks[j]
    BY <2>1, <1>2
  <2> QED BY <2>1, <2>2, <1>3
<1>10. Ruled(M, ka, ca, lo, out, a, s)
  BY <1>6, <1>7, <1>8, <1>9 DEF Ruled
<1>11. ASSUME NEW j \in 1 .. N PROVE kb[j] \in Int /\ s < kb[j] /\ kb[j] < b
  <2>1. M + 1 + j \in 1 .. L /\ M + 1 < M + 1 + j
    BY <1>1
  <2>2. ks[M + 1 + j] \in Int /\ ks[M + 1] < ks[M + 1 + j] /\ ks[M + 1 + j] < b
    BY <2>1, <1>2, <1>4
  <2> QED BY <2>2, <1>3
<1>12. ASSUME NEW i \in 1 .. N, NEW j \in 1 .. N, i < j PROVE kb[i] < kb[j]
  <2>1. M + 1 + i \in 1 .. L /\ M + 1 + j \in 1 .. L /\ M + 1 + i < M + 1 + j
    BY <1>1, <1>12
  <2>2. ks[M + 1 + i] < ks[M + 1 + j]
    BY <2>1, <1>2
  <2> QED BY <2>2, <1>3
<1>13. ASSUME NEW j \in 1 .. N + 1 PROVE lo[cb[j]] = IF j = 1 THEN s ELSE kb[j - 1]
  <2>1. PICK x : x = M + 1 + j
    OBVIOUS
  <2>2. x \in 1 .. L + 1 /\ x # 1 /\ cb[j] = cs[x]
    BY <1>1, <1>3, <2>1
  <2>3. lo[cb[j]] = ks[x - 1]
    BY <2>2, <1>2
  <2>4. CASE j = 1
    <3>1. x - 1 = M + 1
      BY <2>1, <2>4
    <3> QED BY <3>1, <2>3, <2>4, <1>3
  <2>5. CASE j # 1
    <3>1. j - 1 \in 1 .. N /\ x - 1 = M + 1 + (j - 1)
      BY <2>1, <2>5
    <3> QED BY <3>1, <2>3, <2>5, <1>3
  <2> QED BY <2>4, <2>5
<1>14. ASSUME NEW j \in 1 .. N + 1 PROVE out[cb[j]] = IF j = N + 1 THEN b ELSE kb[j]
  <2>1. PICK x : x = M + 1 + j
    OBVIOUS
  <2>2. x \in 1 .. L + 1 /\ (x = L + 1 <=> j = N + 1) /\ cb[j] = cs[x] /\ (j # N + 1 => j \in 1 .. N)
    BY <1>1, <1>3, <2>1
  <2>3. out[cb[j]] = IF x = L + 1 THEN b ELSE ks[x]
    BY <2>2, <1>2
  <2> QED BY <2>1, <2>2, <2>3, <1>3
<1>15. Ruled(N, kb, cb, lo, out, s, b)
  BY <1>11, <1>12, <1>13, <1>14 DEF Ruled
<1> QED BY <1>5, <1>10, <1>15

\* Two rows of kids joined by separator s.
LEMMA RuledJoin ==
    ASSUME NEW M \in Nat, NEW N \in Nat, NEW s \in Int, NEW ks, NEW cs, NEW ka, NEW ca, NEW kb, NEW cb,
           NEW lo, NEW out, NEW a \in Int, NEW b \in Int, a < s, s < b,
           Parted(M, N, s, ks, cs, ka, ca, kb, cb),
           Ruled(M, ka, ca, lo, out, a, s), Ruled(N, kb, cb, lo, out, s, b)
    PROVE  Ruled(M + 1 + N, ks, cs, lo, out, a, b)
<1>1. PICK L : L = M + 1 + N
  OBVIOUS
<1>2. /\ \A j \in 1 .. M : ka[j] \in Int /\ a < ka[j] /\ ka[j] < s
      /\ \A i, j \in 1 .. M : i < j => ka[i] < ka[j]
      /\ \A j \in 1 .. M + 1 : /\ lo[ca[j]] = IF j = 1 THEN a ELSE ka[j - 1]
                               /\ out[ca[j]] = IF j = M + 1 THEN s ELSE ka[j]
  BY DEF Ruled
<1>3. /\ \A j \in 1 .. N : kb[j] \in Int /\ s < kb[j] /\ kb[j] < b
      /\ \A i, j \in 1 .. N : i < j => kb[i] < kb[j]
      /\ \A j \in 1 .. N + 1 : /\ lo[cb[j]] = IF j = 1 THEN s ELSE kb[j - 1]
                               /\ out[cb[j]] = IF j = N + 1 THEN b ELSE kb[j]
  BY DEF Ruled
<1>4. /\ \A j \in 1 .. M : ks[j] = ka[j]
      /\ ks[M + 1] = s
      /\ \A j \in 1 .. N : ks[M + 1 + j] = kb[j]
      /\ \A j \in 1 .. M + 1 : cs[j] = ca[j]
      /\ \A j \in 1 .. N + 1 : cs[M + 1 + j] = cb[j]
  BY DEF Parted
<1>5. ASSUME NEW j \in 1 .. L
      PROVE  /\ ks[j] \in Int /\ a < ks[j] /\ ks[j] < b
             /\ j < M + 1 => j \in 1 .. M /\ ks[j] = ka[j] /\ ks[j] < s
             /\ j = M + 1 => ks[j] = s
             /\ j > M + 1 => j - (M + 1) \in 1 .. N /\ ks[j] = kb[j - (M + 1)] /\ s < ks[j]
  <2>1. CASE j < M + 1
    <3>1. j \in 1 .. M
      BY <2>1
    <3>2. ks[j] = ka[j] /\ ka[j] \in Int /\ a < ka[j] /\ ka[j] < s
      BY <3>1, <1>2, <1>4
    <3> QED BY <3>1, <3>2, <2>1
  <2>2. CASE j = M + 1
    BY <2>2, <1>4
  <2>3. CASE j > M + 1
    <3>1. PICK x : x = j - (M + 1)
      OBVIOUS
    <3>2. x \in 1 .. N /\ M + 1 + x = j
      BY <2>3, <3>1, <1>1
    <3>3. ks[j] = kb[x] /\ kb[x] \in Int /\ s < kb[x] /\ kb[x] < b
      BY <3>2, <1>3, <1>4
    <3> QED BY <3>1, <3>2, <3>3, <2>3
  <2> QED BY <2>1, <2>2, <2>3, <1>1
<1>6. ASSUME NEW i \in 1 .. L, NEW j \in 1 .. L, i < j PROVE ks[i] < ks[j]
  <2>1. ks[i] \in Int /\ ks[j] \in Int
    BY <1>5
  <2>2. CASE j < M + 1
    <3>1. i < M + 1
      BY <2>2, <1>6
    <3>2. i \in 1 .. M /\ j \in 1 .. M /\ ks[i] = ka[i] /\ ks[j] = ka[j]
      BY <3>1, <2>2, <1>5
    <3> QED BY <3>2, <1>2, <1>6
  <2>3. CASE i > M + 1
    <3>1. j > M + 1
      BY <2>3, <1>6
    <3>2. PICK x : x = i - (M + 1)
      OBVIOUS
    <3>3. PICK y : y = j - (M + 1)
      OBVIOUS
    <3>4. x \in 1 .. N /\ y \in 1 .. N /\ ks[i] = kb[x] /\ ks[j] = kb[y]
      BY <3>1, <3>2, <3>3, <2>3, <1>5
    <3>5. x < y
      BY <3>2, <3>3, <1>6
    <3> QED BY <3>4, <3>5, <1>3
  <2>4. CASE i < M + 1 /\ j = M + 1
    BY <2>4, <1>5
  <2>5. CASE i = M + 1 /\ j > M + 1
    BY <2>5, <1>5
  <2>6. CASE i < M + 1 /\ j > M + 1
    <3>1. ks[i] < s /\ s < ks[j]
      BY <2>6, <1>5
    <3> QED BY <3>1, <2>1
  <2> QED BY <2>2, <2>3, <2>4, <2>5, <2>6, <1>6
<1>7. ASSUME NEW j \in 1 .. L + 1 PROVE lo[cs[j]] = IF j = 1 THEN a ELSE ks[j - 1]
  <2>1. CASE j <= M + 1
    <3>1. j \in 1 .. M + 1 /\ cs[j] = ca[j] /\ (j # 1 => j - 1 \in 1 .. M)
      BY <2>1, <1>4
    <3>2. lo[cs[j]] = IF j = 1 THEN a ELSE ka[j - 1]
      BY <3>1, <1>2
    <3> QED BY <3>1, <3>2, <1>4
  <2>2. CASE j > M + 1
    <3>1. PICK x : x = j - (M + 1)
      OBVIOUS
    <3>2. x \in 1 .. N + 1 /\ M + 1 + x = j /\ (x # 1 => x - 1 \in 1 .. N) /\ j # 1
      BY <2>2, <3>1, <1>1
    <3>3. cs[j] = cb[x] /\ lo[cb[x]] = IF x = 1 THEN s ELSE kb[x - 1]
      BY <3>2, <1>3, <1>4
    <3>4. CASE x = 1
      <4>1. j - 1 = M + 1
        BY <3>1, <3>4
      <4> QED BY <4>1, <3>2, <3>3, <3>4, <1>4
    <3>5. CASE x # 1
      <4>1. j - 1 = M + 1 + (x - 1)
        BY <3>1
      <4>2. ks[j - 1] = kb[x - 1]
        BY <4>1, <3>2, <3>5, <1>4
      <4> QED BY <4>2, <3>2, <3>3, <3>5
    <3> QED BY <3>4, <3>5
  <2> QED BY <2>1, <2>2, <1>1
<1>8. ASSUME NEW j \in 1 .. L + 1 PROVE out[cs[j]] = IF j = L + 1 THEN b ELSE ks[j]
  <2>1. CASE j <= M + 1
    <3>1. j \in 1 .. M + 1 /\ cs[j] = ca[j] /\ (j # M + 1 => j \in 1 .. M) /\ j # L + 1
      BY <2>1, <1>1, <1>4
    <3>2. out[cs[j]] = IF j = M + 1 THEN s ELSE ka[j]
      BY <3>1, <1>2
    <3> QED BY <3>1, <3>2, <1>4
  <2>2. CASE j > M + 1
    <3>1. PICK x : x = j - (M + 1)
      OBVIOUS
    <3>2. x \in 1 .. N + 1 /\ M + 1 + x = j /\ (x # N + 1 => x \in 1 .. N) /\ (x = N + 1 <=> j = L + 1)
      BY <2>2, <3>1, <1>1
    <3>3. cs[j] = cb[x] /\ out[cb[x]] = IF x = N + 1 THEN b ELSE kb[x]
      BY <3>2, <1>3, <1>4
    <3> QED BY <3>2, <3>3, <1>4
  <2> QED BY <2>1, <2>2, <1>1
<1>9. L = M + 1 + N
  BY <1>1
<1>10. Ruled(L, ks, cs, lo, out, a, b)
  BY <1>5, <1>6, <1>7, <1>8 DEF Ruled
<1> QED BY <1>9, <1>10

\* An internal node is guided when its keys rule its kids.
LEMMA RuledGuides ==
    ASSUME NEW g, NEW n, NEW r, NEW m \in Nat, RangeOf(g, n), r.kids # <<>>,
           Len(r.keys) = m, Len(r.kids) = m + 1,
           Ruled(m, r.keys, r.kids, g.lo, g.out, g.lo[n], g.hi[n])
    PROVE  Guides(g, n, r)
<1>1. Sorted(r.keys)
  BY DEF Ruled, Sorted
<1>2. \A i \in 1 .. Len(r.kids) : KidRange(g, n, r, i)
  BY DEF Ruled, KidRange
<1>3. InnerKeys(g, n, r)
  BY <1>2 DEF InnerKeys, Ruled
<1> QED BY <1>1, <1>3 DEF Guides

\* The kids of an internal node are a row.
LEMMA GuidesRuled ==
    ASSUME NEW g, NEW n, NEW r, Guides(g, n, r), r.kids # <<>>, r.keys \in Seq(Int)
    PROVE  /\ Len(r.keys) \in Nat /\ Len(r.kids) = Len(r.keys) + 1 /\ RangeOf(g, n)
           /\ Ruled(Len(r.keys), r.keys, r.kids, g.lo, g.out, g.lo[n], g.hi[n])
<1>1. Sorted(r.keys) /\ InnerKeys(g, n, r) /\ RangeOf(g, n)
  BY DEF Guides
<1>2. \A j \in 1 .. Len(r.keys) : r.keys[j] \in Int
  OBVIOUS
<1>3. PICK m : m = Len(r.keys)
  OBVIOUS
<1>4. Len(r.kids) = m + 1 /\ m \in Nat
  BY <1>1, <1>3 DEF InnerKeys
<1>5. Ruled(m, r.keys, r.kids, g.lo, g.out, g.lo[n], g.hi[n])
  BY <1>1, <1>2, <1>3, <1>4 DEF Ruled, Sorted, InnerKeys, KidRange
<1> QED BY <1>1, <1>3, <1>4, <1>5

\* A row only depends on the ranges of its kids.
LEMMA RuledMove ==
    ASSUME NEW m \in Nat, NEW ks, NEW cs, NEW lo, NEW out, NEW lo2, NEW out2, NEW a, NEW b,
           Ruled(m, ks, cs, lo, out, a, b),
           \A j \in 1 .. m + 1 : lo2[cs[j]] = lo[cs[j]] /\ out2[cs[j]] = out[cs[j]]
    PROVE  Ruled(m, ks, cs, lo2, out2, a, b)
BY DEF Ruled

\* Sequences ks and cs as ka, ks[m + 1], kb and ca, cb.
Pieces(N, m, ks, cs, ka, ca, kb, cb) ==
    /\ Len(ka) = m /\ Len(ca) = m + 1 /\ Len(kb) = N /\ Len(cb) = N + 1
    /\ DOMAIN ca = 1 .. m + 1 /\ DOMAIN cb = 1 .. N + 1
    /\ Parted(m, N, ks[m + 1], ks, cs, ka, ca, kb, cb)

\* The two halves of an internal node.
LEMMA PiecesOf ==
    ASSUME NEW ks \in Seq(Key), NEW cs \in Seq(Int), NEW L \in Nat, Len(ks) = L, Len(cs) = L + 1,
           NEW m \in 0 .. L - 1
    PROVE  Pieces(L - m - 1, m, ks, cs, SubSeq(ks, 1, m), SubSeq(cs, 1, m + 1),
                  SubSeq(ks, m + 2, L), SubSeq(cs, m + 2, L + 1))
<1>1. PICK N : N = L - m - 1
  OBVIOUS
<1>2. N \in Nat /\ m \in Nat /\ L = m + 1 + N
  BY <1>1
<1>3. PICK ka : ka = SubSeq(ks, 1, m)
  OBVIOUS
<1>4. PICK ca : ca = SubSeq(cs, 1, m + 1)
  OBVIOUS
<1>5. PICK kb : kb = SubSeq(ks, m + 2, L)
  OBVIOUS
<1>6. PICK cb : cb = SubSeq(cs, m + 2, L + 1)
  OBVIOUS
<1>7. Len(ka) = m /\ \A j \in 1 .. m : ka[j] = ks[j]
  <2>1. 1 \in 1 .. Len(ks) + 1 /\ m \in (1 - 1) .. Len(ks)
    OBVIOUS
  <2>2. Len(ka) = m - 1 + 1 /\ \A j \in 1 .. m - 1 + 1 : ka[j] = ks[1 + j - 1]
    BY <1>3, <2>1, SubSeqProps
  <2> QED BY <1>2, <2>2
<1>8. Len(ca) = m + 1 /\ ca \in Seq(Int) /\ \A j \in 1 .. m + 1 : ca[j] = cs[j]
  <2>1. PICK x : x = m + 1
    OBVIOUS
  <2>2. 1 \in 1 .. Len(cs) + 1 /\ x \in (1 - 1) .. Len(cs) /\ x \in Int
    BY <2>1, <1>2
  <2>3. Len(ca) = x - 1 + 1 /\ ca \in Seq(Int) /\ \A j \in 1 .. x - 1 + 1 : ca[j] = cs[1 + j - 1]
    BY <1>4, <2>1, <2>2, SubSeqProps
  <2> QED BY <2>1, <2>2, <2>3
<1>9. Len(kb) = N /\ \A j \in 1 .. N : kb[j] = ks[m + 1 + j]
  <2>1. PICK x : x = m + 2
    OBVIOUS
  <2>2. x \in 1 .. Len(ks) + 1 /\ L \in (x - 1) .. Len(ks)
    BY <2>1, <1>2
  <2>3. Len(kb) = L - x + 1 /\ \A j \in 1 .. L - x + 1 : kb[j] = ks[x + j - 1]
    BY <1>5, <2>1, <2>2, SubSeqProps
  <2>4. L - x + 1 = N /\ \A j \in 1 .. N : x + j - 1 = m + 1 + j
    BY <2>1, <1>2
  <2> QED BY <2>3, <2>4
<1>10. Len(cb) = N + 1 /\ cb \in Seq(Int) /\ \A j \in 1 .. N + 1 : cb[j] = cs[m + 1 + j]
  <2>1. PICK x : x = m + 2
    OBVIOUS
  <2>5. PICK y : y = L + 1
    OBVIOUS
  <2>2. x \in 1 .. Len(cs) + 1 /\ y \in (x - 1) .. Len(cs)
    BY <2>1, <2>5, <1>2
  <2>3. Len(cb) = y - x + 1 /\ cb \in Seq(Int) /\ \A j \in 1 .. y - x + 1 : cb[j] = cs[x + j - 1]
    BY <1>6, <2>1, <2>5, <2>2, SubSeqProps
  <2>4. y - x + 1 = N + 1 /\ \A j \in 1 .. N + 1 : x + j - 1 = m + 1 + j
    BY <2>1, <2>5, <1>2
  <2> QED BY <2>3, <2>4
<1>11. Parted(m, N, ks[m + 1], ks, cs, ka, ca, kb, cb)
  BY <1>7, <1>8, <1>9, <1>10 DEF Parted
<1>12. DOMAIN ca = 1 .. m + 1 /\ DOMAIN cb = 1 .. N + 1
  BY <1>8, <1>10
<1>13. Pieces(N, m, ks, cs, ka, ca, kb, cb)
  BY <1>7, <1>8, <1>9, <1>10, <1>11, <1>12 DEF Pieces
<1> QED BY <1>1, <1>3, <1>4, <1>5, <1>6, <1>13

\* A split internal node is in two pieces.
LEMMA InnerCutPieces ==
    ASSUME NEW t, NEW u, NEW g, SettledG(t, g), NEW p \in DOMAIN t.node, t.node[p].kids # <<>>, NEW f,
           NEW m \in 0 .. Len(t.node[p].keys) - 1, InnerCut(t, u, p, f, m)
    PROVE  /\ Len(t.node[p].keys) \in Nat /\ Len(t.node[p].kids) = Len(t.node[p].keys) + 1
           /\ t.node[p].keys \in Seq(Int) /\ t.node[p].keys \in Seq(Key)
           /\ Pieces(Len(t.node[p].keys) - m - 1, m, t.node[p].keys, t.node[p].kids, u.node[p].keys, u.node[p].kids,
                  u.node[f].keys, u.node[f].kids)
<1>1. Arena(t) /\ Order(t, g)
  BY DEF SettledG, TreeInv
<1>2. t.node[p].keys \in Seq(Key) /\ t.node[p].keys \in Seq(Int) /\ t.node[p].kids \in Seq(Int)
  BY <1>1, KeysAreInts
<1>3. Guides(g, p, t.node[p])
  BY <1>1, GuidesParts
<1>4. PICK ks : ks = t.node[p].keys
  OBVIOUS
<1>5. PICK cs : cs = t.node[p].kids
  OBVIOUS
<1>6. PICK L : L = Len(ks)
  OBVIOUS
<1>7. L \in Nat /\ Len(cs) = L + 1
  BY <1>2, <1>3, <1>4, <1>5, <1>6, GuidesRuled
<1>8. ks \in Seq(Key) /\ cs \in Seq(Int) /\ m \in 0 .. L - 1
  BY <1>2, <1>4, <1>5, <1>6
<1>9. Pieces(L - m - 1, m, ks, cs, SubSeq(ks, 1, m), SubSeq(cs, 1, m + 1),
                  SubSeq(ks, m + 2, L), SubSeq(cs, m + 2, L + 1))
  BY <1>6, <1>7, <1>8, PiecesOf
<1>10. /\ u.node[p].keys = SubSeq(ks, 1, m) /\ u.node[p].kids = SubSeq(cs, 1, m + 1)
       /\ u.node[f].keys = SubSeq(ks, m + 2, L) /\ u.node[f].kids = SubSeq(cs, m + 2, L + 1)
  BY <1>4, <1>5, <1>6, <1>7 DEF InnerCut
<1> QED BY <1>2, <1>4, <1>5, <1>6, <1>7, <1>9, <1>10

\* Both halves of an internal node are in order.
LEMMA InnerCutGuides ==
    ASSUME NEW t, NEW u, NEW g, NEW h, SettledG(t, g), NEW p \in DOMAIN t.node, t.node[p].kids # <<>>, NEW f,
           NEW m \in 0 .. Len(t.node[p].keys) - 1, InnerCut(t, u, p, f, m),
           NEW s, s = t.node[p].keys[m + 1], CutView(g, h, p, f, s)
    PROVE  /\ Guides(h, p, u.node[p]) /\ Guides(h, f, u.node[f])
           /\ s \in Key /\ s \in Int /\ g.lo[p] < s /\ s < g.hi[p]
<1>1. Arena(t) /\ Order(t, g) /\ Shape(t, g, {t.root}) /\ g.out[p] = g.hi[p]
  BY DEF SettledG, TreeInv
<1>2. PICK ks : ks = t.node[p].keys
  OBVIOUS
<1>3. PICK cs : cs = t.node[p].kids
  OBVIOUS
<1>4. PICK L : L = Len(ks)
  OBVIOUS
<1>5. PICK N : N = L - m - 1
  OBVIOUS
<1>6. PICK ka : ka = u.node[p].keys
  OBVIOUS
<1>7. PICK ca : ca = u.node[p].kids
  OBVIOUS
<1>8. PICK kb : kb = u.node[f].keys
  OBVIOUS
<1>9. PICK cb : cb = u.node[f].kids
  OBVIOUS
<1>10. L \in Nat /\ Len(cs) = L + 1 /\ Pieces(N, m, ks, cs, ka, ca, kb, cb) /\ ks \in Seq(Int) /\ ks \in Seq(Key)
  BY <1>2, <1>3, <1>4, <1>5, <1>6, <1>7, <1>8, <1>9, InnerCutPieces
<1>11. m \in Nat /\ N \in Nat /\ m + 1 + N = L /\ m + 1 \in 1 .. L
  <2>1. L \in Nat /\ m \in 0 .. L - 1
    BY <1>2, <1>4, <1>10
  <2> QED BY <2>1, <1>5
<1>12. Guides(g, p, t.node[p])
  BY <1>1, GuidesParts
<1>13. RangeOf(g, p) /\ Ruled(L, ks, cs, g.lo, g.out, g.lo[p], g.hi[p])
  BY <1>2, <1>3, <1>4, <1>10, <1>12, GuidesRuled
<1>14. \A j \in 1 .. L + 1 : cs[j] \in DOMAIN t.node
  BY <1>1, <1>3, <1>10, KidParts
<1>15. \A n \in DOMAIN t.node : n \in Int /\ n # f
  BY <1>1, ArenaParts DEF InnerCut
<1>16. \A j \in 1 .. L + 1 : h.lo[cs[j]] = g.lo[cs[j]] /\ h.out[cs[j]] = g.out[cs[j]]
  BY <1>14, <1>15 DEF CutView
<1>17. Ruled(L, ks, cs, h.lo, h.out, g.lo[p], g.hi[p])
  BY <1>10, <1>13, <1>16, RuledMove
<1>18. s = ks[m + 1] /\ s \in Key
  BY <1>2, <1>4, <1>10, <1>11
<1>19. g.lo[p] \in Int /\ g.hi[p] \in Int
  BY <1>13 DEF RangeOf
<1>20. Parted(m, N, s, ks, cs, ka, ca, kb, cb)
  BY <1>10, <1>18 DEF Pieces
<1>21. /\ s \in Int /\ g.lo[p] < s /\ s < g.hi[p]
       /\ Ruled(m, ka, ca, h.lo, h.out, g.lo[p], s) /\ Ruled(N, kb, cb, h.lo, h.out, s, g.hi[p])
  <2>1. Ruled(m + 1 + N, ks, cs, h.lo, h.out, g.lo[p], g.hi[p])
    BY <1>11, <1>17
  <2>2. PICK lo : lo = h.lo
    OBVIOUS
  <2>3. PICK out : out = h.out
    OBVIOUS
  <2>4. PICK a : a = g.lo[p]
    OBVIOUS
  <2>5. PICK b : b = g.hi[p]
    OBVIOUS
  <2>6. /\ s \in Int /\ a < s /\ s < b
        /\ Ruled(m, ka, ca, lo, out, a, s) /\ Ruled(N, kb, cb, lo, out, s, b)
    <3>1. a \in Int /\ b \in Int /\ Ruled(m + 1 + N, ks, cs, lo, out, a, b) /\ m \in Nat /\ N \in Nat
      BY <2>1, <2>2, <2>3, <2>4, <2>5, <1>11, <1>19
    <3> QED BY ONLY <3>1, <1>20, RuledCut
  <2> QED BY <2>2, <2>3, <2>4, <2>5, <2>6
<1>22. /\ h.lo[p] = g.lo[p] /\ h.hi[p] = s /\ h.out[p] = g.hi[p]
       /\ h.lo[f] = s /\ h.hi[f] = g.hi[p] /\ h.out[f] = g.hi[p]
  BY <1>1, <1>15 DEF CutView
<1>23. RangeOf(h, p) /\ RangeOf(h, f)
  <2>1. Least <= g.lo[p] /\ g.hi[p] <= Greatest /\ g.lo[p] < g.hi[p]
    BY <1>13 DEF RangeOf
  <2>2. Least \in Int /\ Greatest \in Int
    BY BoundsExist
  <2>3. s <= Greatest /\ Least <= s
    BY <2>1, <2>2, <1>19, <1>21
  <2> QED BY <2>1, <2>2, <2>3, <1>19, <1>21, <1>22 DEF RangeOf
<1>24. Len(ka) = m /\ Len(ca) = m + 1 /\ Len(kb) = N /\ Len(cb) = N + 1
  BY <1>10 DEF Pieces
<1>25. ca # <<>> /\ cb # <<>>
  BY <1>11, <1>24
<1>26. Guides(h, p, u.node[p])
  BY <1>6, <1>7, <1>11, <1>21, <1>22, <1>23, <1>24, <1>25, RuledGuides
<1>27. Guides(h, f, u.node[f])
  BY <1>8, <1>9, <1>11, <1>21, <1>22, <1>23, <1>24, <1>25, RuledGuides
<1> QED BY <1>18, <1>21, <1>26, <1>27

\* The kids of both halves hang from them.
LEMMA InnerCutShape ==
    ASSUME NEW t, NEW u, NEW g, NEW h, SettledG(t, g), NEW p \in DOMAIN t.node, t.node[p].kids # <<>>, NEW f,
           NEW m \in 0 .. Len(t.node[p].keys) - 1, InnerCut(t, u, p, f, m),
           NEW s, CutView(g, h, p, f, s)
    PROVE  Shape(u, h, {t.root, f}) /\ LeavesStay(t, u)
<1>1. Arena(t) /\ Order(t, g) /\ Shape(t, g, {t.root}) /\ t.root \in DOMAIN t.node
  BY DEF SettledG, TreeInv, RootTop
<1>2. PICK cs : cs = t.node[p].kids
  OBVIOUS
<1>3. PICK L : L = Len(t.node[p].keys)
  OBVIOUS
<1>4. PICK N : N = L - m - 1
  OBVIOUS
<1>5. PICK ca : ca = u.node[p].kids
  OBVIOUS
<1>6. PICK cb : cb = u.node[f].kids
  OBVIOUS
<1>7. L \in Nat /\ Len(cs) = L + 1 /\ Pieces(N, m, t.node[p].keys, cs, u.node[p].keys, ca, u.node[f].keys, cb)
  BY <1>2, <1>3, <1>4, <1>5, <1>6, InnerCutPieces
<1>8. m \in Nat /\ N \in Nat /\ m + 1 + N = L
  <2>1. L \in Nat /\ m \in 0 .. L - 1
    BY <1>3, <1>7
  <2> QED BY <2>1, <1>4
<1>9. /\ Len(ca) = m + 1 /\ Len(cb) = N + 1 /\ DOMAIN cb = 1 .. N + 1
      /\ \A j \in 1 .. m + 1 : cs[j] = ca[j]
      /\ \A j \in 1 .. N + 1 : cs[m + 1 + j] = cb[j]
  BY <1>7 DEF Pieces, Parted
<1>10. ca # <<>> /\ cb # <<>>
  BY <1>8, <1>9
<1>11. /\ f \in Nat /\ f \notin DOMAIN t.node /\ DOMAIN u.node = DOMAIN t.node \cup {f}
       /\ u.root = t.root /\ u.first = t.first /\ u.last = t.last
       /\ \A n \in DOMAIN t.node :
         /\ n # p => u.node[n].keys = t.node[n].keys /\ u.node[n].kids = t.node[n].kids
         /\ u.node[n].vals = t.node[n].vals
         /\ u.node[n].prev = t.node[n].prev /\ u.node[n].next = t.node[n].next
         /\ u.node[n].parent = IF n \in ToSet(cb) THEN f ELSE t.node[n].parent
  BY <1>6 DEF InnerCut
<1>12. h.lev[f] = g.lev[p] /\ \A n \in DOMAIN t.node : n \in Int /\ n # f /\ h.lev[n] = g.lev[n]
  BY <1>1, <1>11, ArenaParts DEF CutView
<1>13. \A j \in 1 .. L + 1 : /\ cs[j] \in DOMAIN t.node /\ cs[j] # t.root /\ t.node[cs[j]].parent = p
                             /\ g.lev[cs[j]] = g.lev[p] - 1
  <2>1. ASSUME NEW j \in 1 .. L + 1
        PROVE  /\ cs[j] \in DOMAIN t.node /\ cs[j] # t.root /\ t.node[cs[j]].parent = p
               /\ g.lev[cs[j]] = g.lev[p] - 1
    <3>1. j \in 1 .. Len(t.node[p].kids)
      BY <1>2, <1>7
    <3> QED BY <3>1, <1>1, <1>2, KidParts
  <2> QED BY <2>1
<1>14. \A i, j \in 1 .. L + 1 : i # j => cs[i] # cs[j]
  <2>1. Len(t.node[p].kids) = L + 1
    BY <1>2, <1>7
  <2>2. ASSUME NEW i \in 1 .. L + 1, NEW j \in 1 .. L + 1, i # j PROVE cs[i] # cs[j]
    BY <2>1, <2>2, <1>1, <1>2, KidsDistinct
  <2> QED BY <2>2
<1>15. ASSUME NEW j \in 1 .. N + 1
       PROVE  m + 1 + j \in 1 .. L + 1 /\ cb[j] = cs[m + 1 + j]
  BY <1>8, <1>9
<1>16. ASSUME NEW n \in ToSet(cb) PROVE t.node[n].parent = p /\ n \in DOMAIN t.node
  <2>1. PICK j \in 1 .. N + 1 : n = cb[j]
    BY <1>9 DEF ToSet
  <2> QED BY <2>1, <1>13, <1>15
<1>17. ASSUME NEW j \in 1 .. m + 1 PROVE j \in 1 .. L + 1 /\ cs[j] \notin ToSet(cb)
  <2>1. j \in 1 .. L + 1
    BY <1>8
  <2>2. ASSUME NEW i \in 1 .. N + 1, cb[i] = cs[j] PROVE FALSE
    <3>1. m + 1 + i \in 1 .. L + 1 /\ m + 1 + i # j /\ cs[m + 1 + i] = cs[j]
      BY <2>2, <1>8, <1>15
    <3> QED BY <3>1, <2>1, <1>14
  <2> QED BY <2>1, <2>2, <1>9 DEF ToSet
<1>18. LevelOf(g, p, t.node[p]) /\ g.lev[p] \in Nat /\ g.lev[p] # 0
  BY <1>1 DEF Shape, Hangs, LevelOf
<1>19. ASSUME NEW n \in DOMAIN t.node PROVE n \in {t.root, f} \/ Placed(u, n)
  <2>1. CASE n = t.root
    BY <2>1
  <2>2. CASE n # t.root
    <3>1. Placed(t, n)
      BY <2>2, <1>1 DEF Shape, Hangs
    <3>2. PICK q : q = t.node[n].parent
      OBVIOUS
    <3>3. q \in DOMAIN t.node /\ \E j \in 1 .. Len(t.node[q].kids) : t.node[q].kids[j] = n
      BY <3>1, <3>2 DEF Placed
    <3>4. CASE q # p
      <4>1. n \notin ToSet(cb)
        BY <3>2, <3>4, <1>16
      <4>2. u.node[n].parent = q /\ u.node[q].kids = t.node[q].kids /\ q \in DOMAIN u.node
        BY <4>1, <3>2, <3>3, <3>4, <1>11
      <4> QED BY <4>2, <3>3 DEF Placed
    <3>5. CASE q = p
      <4>1. PICK j \in 1 .. L + 1 : cs[j] = n
        BY <3>3, <3>5, <1>2, <1>7
      <4>2. CASE j <= m + 1
        <5>1. j \in 1 .. m + 1 /\ ca[j] = n
          BY <4>1, <4>2, <1>8, <1>9
        <5>2. u.node[n].parent = p /\ p \in DOMAIN u.node
          BY <5>1, <4>1, <1>11, <1>17, <3>2, <3>5
        <5> QED BY <5>1, <5>2, <1>5, <1>9 DEF Placed
      <4>3. CASE j > m + 1
        <5>1. PICK i : i = j - (m + 1)
          OBVIOUS
        <5>2. i \in 1 .. N + 1 /\ m + 1 + i = j
          BY <5>1, <4>3, <1>8
        <5>3. cb[i] = n
          BY <5>2, <4>1, <1>9
        <5>4. n \in ToSet(cb)
          BY <5>2, <5>3, <1>9 DEF ToSet
        <5>5. u.node[n].parent = f /\ f \in DOMAIN u.node
          BY <5>4, <1>11
        <5> QED BY <5>2, <5>3, <5>5, <1>6, <1>9 DEF Placed
      <4> QED BY <4>2, <4>3, <1>8
    <3> QED BY <3>4, <3>5
  <2> QED BY <2>1, <2>2
<1>20. ASSUME NEW n \in DOMAIN t.node, n # p PROVE Hangs(u, h, {t.root, f}, n)
  <2>1. Hangs(t, g, {t.root}, n)
    BY <1>1 DEF Shape
  <2>2. ASSUME NEW i \in 1 .. Len(t.node[n].kids)
        PROVE  LET c == t.node[n].kids[i] IN
              /\ c \in DOMAIN u.node /\ c \notin {t.root, f}
              /\ u.node[c].parent = n /\ h.lev[c] = g.lev[c]
    <3>1. PICK c : c = t.node[n].kids[i]
      OBVIOUS
    <3>2. c \in DOMAIN t.node /\ c \notin {t.root} /\ t.node[c].parent = n
      BY <3>1, <1>1, KidParts
    <3>3. c \notin ToSet(cb)
      BY <3>2, <1>16, <1>20
    <3> QED BY <3>1, <3>2, <3>3, <1>11, <1>12
  <2> QED BY <2>1, <2>2, <1>11, <1>12, <1>19, <1>20, HangsMove
<1>21. Hangs(u, h, {t.root, f}, p)
  <2>1. LevelOf(h, p, u.node[p])
    BY <1>5, <1>10, <1>12, <1>18 DEF LevelOf
  <2>2. ASSUME NEW i \in 1 .. Len(u.node[p].kids) PROVE KidOf(u, h, {t.root, f}, p, u.node[p].kids[i])
    <3>1. PICK c : c = u.node[p].kids[i]
      OBVIOUS
    <3>2. i \in 1 .. m + 1 /\ c = cs[i]
      BY <3>1, <1>5, <1>9
    <3>3. c \in DOMAIN t.node /\ c # t.root /\ t.node[c].parent = p /\ g.lev[c] = g.lev[p] - 1 /\ c \notin ToSet(cb)
      BY <3>2, <1>13, <1>17
    <3> QED BY <3>1, <3>3, <1>11, <1>12 DEF KidOf
  <2> QED BY <2>1, <2>2, <1>19 DEF Hangs
<1>22. Hangs(u, h, {t.root, f}, f)
  <2>1. LevelOf(h, f, u.node[f])
    BY <1>6, <1>10, <1>12, <1>18 DEF LevelOf
  <2>2. ASSUME NEW i \in 1 .. Len(u.node[f].kids) PROVE KidOf(u, h, {t.root, f}, f, u.node[f].kids[i])
    <3>1. PICK c : c = u.node[f].kids[i]
      OBVIOUS
    <3>2. i \in 1 .. N + 1 /\ c = cb[i]
      BY <3>1, <1>6, <1>9
    <3>3. c \in DOMAIN t.node /\ c # t.root /\ g.lev[c] = g.lev[p] - 1
      BY <3>2, <1>13, <1>15
    <3>4. c \in ToSet(cb)
      BY <3>2, <1>9 DEF ToSet
    <3> QED BY <3>1, <3>3, <3>4, <1>11, <1>12 DEF KidOf
  <2> QED BY <2>1, <2>2 DEF Hangs
<1>23. Shape(u, h, {t.root, f})
  BY <1>1, <1>11, <1>20, <1>21, <1>22 DEF Shape
<1>24. LeafSet(u) = LeafSet(t)
  BY <1>5, <1>6, <1>10, <1>11 DEF LeafSet
<1>25. LeavesStay(t, u)
  <2>1. \A l \in LeafSet(t) : l \in DOMAIN t.node /\ l # p
    BY DEF LeafSet
  <2> QED BY <2>1, <1>11, <1>24 DEF LeavesStay
<1> QED BY <1>23, <1>25

\* A split of an internal node keeps the invariant.
LEMMA InnerCutInv ==
    ASSUME NEW t, NEW u, NEW g, SettledG(t, g), NEW p \in DOMAIN t.node, t.node[p].kids # <<>>, NEW f,
           NEW m \in 0 .. Len(t.node[p].keys) - 1, InnerCut(t, u, p, f, m), Arena(u),
           NEW s, s = t.node[p].keys[m + 1]
    PROVE  SplittingG(u, CutG(g, p, f, s), p, s, f) /\ SameEntries(t, u)
<1>1. Arena(t) /\ Shape(t, g, {t.root}) /\ Order(t, g) /\ Links(t, g) /\ t.len = Cardinality(KeySet(t))
      /\ RootTop(t, g) /\ \A n \in DOMAIN t.node : g.out[n] = g.hi[n]
  BY DEF SettledG, TreeInv
<1>2. p \in Int /\ f \in Int /\ f \notin DOMAIN t.node /\ u.root = t.root /\ t.root \in DOMAIN t.node
      /\ u.len = t.len /\ u.height = t.height /\ DOMAIN u.node = DOMAIN t.node \cup {f}
  BY <1>1, ArenaParts DEF InnerCut, RootTop
<1>3. PICK h : h = CutG(g, p, f, s)
  OBVIOUS
<1>4. CutView(g, h, p, f, s)
  BY <1>2, <1>3, CutParts
<1>5. /\ Guides(h, p, u.node[p]) /\ Guides(h, f, u.node[f])
      /\ s \in Key /\ s \in Int /\ g.lo[p] < s /\ s < g.hi[p]
  BY <1>4, InnerCutGuides
<1>6. CutRest(t, u, p, f)
  BY DEF CutRest, InnerCut
<1>7. Order(u, h)
  BY <1>1, <1>2, <1>4, <1>5, <1>6, CutOrder
<1>8. Shape(u, h, {t.root, f}) /\ LeavesStay(t, u)
  BY <1>4, InnerCutShape
<1>12. \A n \in DOMAIN t.node : n \in Int /\ n # f
  BY <1>1, <1>2, ArenaParts
<1>9. Links(u, h)
  <2>1. \A l \in LeafSet(t) : l # p /\ l \in DOMAIN t.node
    BY DEF LeafSet
  <2>2. \A l \in LeafSet(t) : h.lo[l] = g.lo[l] /\ h.hi[l] = g.hi[l]
    BY <2>1, <1>4, <1>12 DEF CutView
  <2> QED BY <2>2, <1>1, <1>8, LinksStay
<1>10. SameEntries(t, u) /\ KeySet(t) = KeySet(u)
  BY <1>1, <1>8, LeavesStaySame, SameKeySet
<1>11. TreeInv(u, h, {u.root, f})
  BY <1>1, <1>2, <1>7, <1>8, <1>9, <1>10 DEF TreeInv
<1>13. u.node[f].parent = u.node[p].parent /\ u.node[t.root].parent = NO_NODE
  <2>1. PICK cb : cb = u.node[f].kids
    OBVIOUS
  <2>2. \A n \in DOMAIN t.node : u.node[n].parent = IF n \in ToSet(cb) THEN f ELSE t.node[n].parent
    BY <2>1 DEF InnerCut
  <2>3. u.node[f].parent = t.node[p].parent /\ t.node[t.root].parent = NO_NODE
    BY <1>1 DEF InnerCut, RootTop
  <2>4. ASSUME NEW n \in ToSet(cb) PROVE n # p /\ n # t.root
    <3>1. cb \in Seq(Int)
      BY <2>1, <1>2, ArenaParts
    <3>2. PICK j \in 1 .. Len(cb) : n = cb[j]
      BY <3>1 DEF ToSet
    <3>3. n \notin {t.root, f} /\ u.node[n].parent = f /\ h.lev[n] = h.lev[f] - 1 /\ h.lev[f] \in Nat
      <4>1. f \in DOMAIN u.node
        BY <1>2
      <4> QED BY <2>1, <3>2, <4>1, <1>8, KidParts
    <3>4. h.lev[p] = h.lev[f]
      BY <1>4, <1>12 DEF CutView
    <3>5. h.lev[f] - 1 # h.lev[f]
      BY <3>3
    <3> QED BY <3>3, <3>4, <3>5
  <2>5. p \notin ToSet(cb) /\ t.root \notin ToSet(cb)
    BY <2>4
  <2> QED BY <2>2, <2>3, <2>5, <1>2
<1>14. RootTop(u, h)
  BY <1>1, <1>2, <1>4, <1>12, <1>13 DEF RootTop, CutView
<1>15. h.lev[p] = h.lev[f] /\ h.hi[p] = s /\ h.lo[f] = s /\ h.out[p] = h.hi[f] /\ p # f /\ f # t.root
  BY <1>1, <1>2, <1>4, <1>12 DEF CutView
<1>16. \A n \in DOMAIN u.node : n # p => h.out[n] = h.hi[n]
  BY <1>1, <1>2, <1>4, <1>12 DEF CutView
<1> QED BY <1>2, <1>3, <1>5, <1>10, <1>11, <1>13, <1>14, <1>15, <1>16 DEF SplittingG

\* Levels have a bound: there are finitely many nodes.
LEMMA LevelsBounded ==
    ASSUME NEW t, NEW g, NEW O, Arena(t), Shape(t, g, O)
    PROVE  \E b \in Nat : \A n \in DOMAIN t.node : g.lev[n] <= b
<1>1. \A n \in DOMAIN t.node : g.lev[n] \in Nat /\ n \in Nat /\ n < t.hi
  BY ArenaParts DEF Shape, Hangs, LevelOf
<1>2. PICK D : D = DOMAIN t.node
  OBVIOUS
<1>3. PICK lev : lev = g.lev
  OBVIOUS
<1>4. \A n \in D : lev[n] \in Nat /\ n \in Nat /\ n < t.hi
  BY <1>1, <1>2, <1>3
<1>5. PICK B : B = {k \in Nat : ~ \E b \in Nat : \A n \in D : n < k => lev[n] <= b}
  OBVIOUS
<1>6. B = {}
  <2>1. SUFFICES ASSUME B # {} PROVE FALSE
    OBVIOUS
  <2>2. PICK k \in B : \A m \in B : k <= m
    BY <2>1, <1>5, MinOfNats
  <2>3. k \in Nat /\ k # 0
    <3>1. \A n \in D : ~(n < 0)
      BY <1>4
    <3> QED BY <3>1, <1>5
  <2>4. k - 1 \notin B /\ k - 1 \in Nat
    BY <2>2, <2>3
  <2>5. PICK b \in Nat : \A n \in D : n < k - 1 => lev[n] <= b
    BY <2>4, <1>5
  <2>6. CASE k - 1 \in D
    <3>1. PICK c : c = IF lev[k - 1] <= b THEN b ELSE lev[k - 1]
      OBVIOUS
    <3>2. c \in Nat /\ lev[k - 1] \in Nat /\ lev[k - 1] <= c /\ b <= c
      BY <3>1, <2>6, <1>4
    <3>3. ASSUME NEW n \in D, n < k PROVE lev[n] <= c
      <4>1. CASE n = k - 1
        BY <4>1, <3>2
      <4>2. CASE n # k - 1
        <5>1. n < k - 1 /\ lev[n] \in Nat
          BY <4>2, <3>3, <2>3, <1>4
        <5>2. lev[n] <= b
          BY <5>1, <2>5
        <5> QED BY <5>1, <5>2, <3>2
      <4> QED BY <4>1, <4>2
    <3> QED BY <3>2, <3>3, <2>2, <1>5
  <2>7. CASE k - 1 \notin D
    <3>1. \A n \in D : n < k => n < k - 1
      BY <2>7, <2>3, <1>4
    <3> QED BY <3>1, <2>2, <2>5, <1>5
  <2> QED BY <2>6, <2>7
<1>7. t.hi \in Nat
  BY DEF Arena
<1>8. PICK b \in Nat : \A n \in D : n < t.hi => lev[n] <= b
  BY <1>5, <1>6, <1>7
<1> QED BY <1>2, <1>3, <1>4, <1>8

\* No node is above the nodes that have no parent.
LEMMA TopLevel ==
    ASSUME NEW t, NEW g, NEW O, Arena(t), Shape(t, g, O), NEW H \in Nat, \A o \in O : g.lev[o] <= H
    PROVE  \A n \in DOMAIN t.node : g.lev[n] <= H
<1>1. PICK b \in Nat : \A n \in DOMAIN t.node : g.lev[n] <= b
  BY LevelsBounded
<1>2. \A n \in DOMAIN t.node : g.lev[n] \in Nat
  BY DEF Shape, Hangs, LevelOf
<1>3. SUFFICES ASSUME NEW n \in DOMAIN t.node, ~(g.lev[n] <= H) PROVE FALSE
  OBVIOUS
<1>4. PICK T : T = {b - g.lev[m] : m \in {x \in DOMAIN t.node : ~(g.lev[x] <= H)}}
  OBVIOUS
<1>5. T \in SUBSET Nat /\ T # {}
  <2>1. b - g.lev[n] \in T
    BY <1>3, <1>4
  <2>2. \A m \in DOMAIN t.node : b - g.lev[m] \in Nat
    BY <1>1, <1>2
  <2> QED BY <2>1, <2>2, <1>4
<1>6. PICK x \in T : \A y \in T : x <= y
  BY <1>5, MinOfNats
<1>7. PICK m \in DOMAIN t.node : ~(g.lev[m] <= H) /\ x = b - g.lev[m]
  BY <1>4, <1>6
<1>8. m \notin O
  BY <1>7
<1>9. PICK p : p = t.node[m].parent
  OBVIOUS
<1>10. p \in DOMAIN t.node /\ \E i \in 1 .. Len(t.node[p].kids) : t.node[p].kids[i] = m
  BY <1>8, <1>9 DEF Shape, Hangs, Placed
<1>11. PICK i \in 1 .. Len(t.node[p].kids) : t.node[p].kids[i] = m
  BY <1>10
<1>12. g.lev[m] = g.lev[p] - 1 /\ g.lev[p] \in Nat /\ g.lev[m] \in Nat
  BY <1>10, <1>11, KidParts
<1>13. ~(g.lev[p] <= H)
  BY <1>7, <1>12
<1>14. b - g.lev[p] \in T
  BY <1>4, <1>10, <1>13
<1>15. ~(x <= b - g.lev[p])
  BY <1>7, <1>12
<1> QED BY <1>6, <1>14, <1>15

RootView(t, u, f, x, k, r) ==
    /\ f \in Nat /\ f \notin DOMAIN t.node /\ DOMAIN u.node = DOMAIN t.node \cup {f}
    /\ u.root = f /\ u.first = t.first /\ u.last = t.last /\ u.len = t.len /\ u.height = t.height + 1
    /\ u.node[f].keys = <<k>> /\ u.node[f].kids = <<x, r>> /\ u.node[f].parent = NO_NODE
    /\ \A n \in DOMAIN t.node :
         /\ u.node[n].keys = t.node[n].keys /\ u.node[n].kids = t.node[n].kids
         /\ u.node[n].vals = t.node[n].vals
         /\ u.node[n].prev = t.node[n].prev /\ u.node[n].next = t.node[n].next
         /\ u.node[n].parent = IF n \in {x, r} THEN f ELSE t.node[n].parent

\* What NewRoot changes.
LEMMA NewRootEffect ==
    ASSUME NEW t, Arena(t), NEW x \in DOMAIN t.node, NEW r \in DOMAIN t.node, NEW k \in Key,
           NEW u, u = NewRoot(t, x, k, r)
    PROVE  Arena(u) /\ RootView(t, u, Fresh(t), x, k, r) /\ Unlinked(u, Fresh(t))
<1>1. PICK f : f = Fresh(t)
  OBVIOUS
<1>2. f \in Nat /\ f \in Int /\ f \notin DOMAIN t.node
  BY <1>1, FreshUnused
<1>3. PICK rec : rec = Internal(<<k>>, <<x, r>>, NO_NODE)
  OBVIOUS
<1>4. rec \in NodeRec /\ rec.keys = <<k>> /\ rec.kids = <<x, r>> /\ rec.parent = NO_NODE
      /\ rec.prev = NO_NODE /\ rec.next = NO_NODE
  <2>1. PICK no : no = NO_NODE
    OBVIOUS
  <2>2. no \in Int /\ <<k>> \in Seq(Key) /\ x \in Int /\ r \in Int
    BY <2>1, ArenaParts DEF NO_NODE
  <2>3. <<x, r>> \in Seq(Int)
    BY <2>2
  <2>4. rec = [keys |-> <<k>>, vals |-> <<>>, kids |-> <<x, r>>, parent |-> no, prev |-> no, next |-> no]
    BY <1>3, <2>1 DEF Internal
  <2>5. rec \in NodeRec
    BY <2>2, <2>3, <2>4 DEF NodeRec
  <2> QED BY <2>1, <2>4, <2>5
<1>5. PICK t1 : t1 = Alloc(t, rec)
  OBVIOUS
<1>6. Arena(t1) /\ AllocView(t, t1, f, rec)
  BY <1>1, <1>4, <1>5, AllocEffect
<1>7. PICK t2 : t2 = Adopt(t1, {x, r}, f)
  OBVIOUS
<1>8. Arena(t2) /\ AdoptView(t1, t2, {x, r}, f)
  BY <1>2, <1>6, <1>7, AdoptEffect
<1>9. u = [t2 EXCEPT !.root = f, !.height = @ + 1]
  BY <1>1, <1>3, <1>5, <1>7 DEF NewRoot
<1>10. t2 = TreeOf(t2.node, t2.free, t2.hi, t2.root, t2.first, t2.last, t2.len, t2.height)
  BY <1>8, ArenaParts
<1>11. u = TreeOf(t2.node, t2.free, t2.hi, f, t2.first, t2.last, t2.len, t2.height + 1)
  BY <1>9, <1>10 DEF TreeOf
<1>12. /\ u.node = t2.node /\ u.free = t2.free /\ u.hi = t2.hi /\ u.root = f /\ u.first = t2.first
       /\ u.last = t2.last /\ u.len = t2.len /\ u.height = t2.height + 1
  BY <1>11 DEF TreeOf
<1>13. Arena(u)
  <2>1. /\ t2.node \in [DOMAIN t2.node -> NodeRec] /\ t2.hi \in Nat /\ t2.first \in Int /\ t2.last \in Int
        /\ t2.height \in Nat /\ DOMAIN t2.node \subseteq 0 .. t2.hi - 1
        /\ t2.free \in Seq(Int) /\ IsInjective(t2.free)
        /\ ToSet(t2.free) = (0 .. t2.hi - 1) \ DOMAIN t2.node
    BY <1>8 DEF Arena
  <2>2. t2.height + 1 \in Nat
    BY <2>1
  <2>3. u = [node |-> u.node, free |-> u.free, hi |-> u.hi, root |-> u.root,
            first |-> u.first, last |-> u.last, len |-> u.len, height |-> u.height]
    BY <1>11 DEF TreeOf
  <2> QED BY <2>1, <2>2, <2>3, <1>2, <1>12 DEF Arena
<1>14. /\ DOMAIN t2.node = DOMAIN t.node \cup {f} /\ t2.first = t.first /\ t2.last = t.last
       /\ t2.len = t.len /\ t2.height = t.height
       /\ t1.node[f] = rec /\ \A n \in DOMAIN t.node : t1.node[n] = t.node[n]
       /\ DOMAIN t1.node = DOMAIN t.node \cup {f}
  BY <1>6, <1>8 DEF AllocView, AdoptView, SameFrame
<1>15. \A n \in DOMAIN t1.node :
         /\ t2.node[n].keys = t1.node[n].keys /\ t2.node[n].vals = t1.node[n].vals
         /\ t2.node[n].kids = t1.node[n].kids
         /\ t2.node[n].prev = t1.node[n].prev /\ t2.node[n].next = t1.node[n].next
         /\ t2.node[n].parent = IF n \in {x, r} THEN f ELSE t1.node[n].parent
  BY <1>8 DEF AdoptView
<1>16. u.node[f].keys = <<k>> /\ u.node[f].kids = <<x, r>> /\ u.node[f].parent = NO_NODE
  <2>1. f \in DOMAIN t1.node /\ f \notin {x, r}
    BY <1>2, <1>14
  <2> QED BY <2>1, <1>4, <1>12, <1>14, <1>15
<1>17. ASSUME NEW n \in DOMAIN t.node
       PROVE  /\ u.node[n].keys = t.node[n].keys /\ u.node[n].kids = t.node[n].kids
              /\ u.node[n].vals = t.node[n].vals
              /\ u.node[n].prev = t.node[n].prev /\ u.node[n].next = t.node[n].next
              /\ u.node[n].parent = IF n \in {x, r} THEN f ELSE t.node[n].parent
  <2>1. n \in DOMAIN t1.node /\ t1.node[n] = t.node[n]
    BY <1>14
  <2> QED BY <2>1, <1>12, <1>15
<1>18. RootView(t, u, f, x, k, r)
  BY <1>2, <1>12, <1>14, <1>16, <1>17 DEF RootView
<1>19. Unlinked(u, f)
  <2>1. f \in DOMAIN t1.node
    BY <1>14
  <2> QED BY <2>1, <1>4, <1>12, <1>14, <1>15 DEF Unlinked
<1> QED BY <1>1, <1>13, <1>18, <1>19

RootG(g, x, f) ==
    [lev |-> [n \in Int |-> IF n = f THEN g.lev[x] + 1 ELSE g.lev[n]],
     lo  |-> [n \in Int |-> IF n = f THEN Least ELSE g.lo[n]],
     hi  |-> [n \in Int |-> IF n = f THEN Greatest ELSE g.hi[n]],
     out |-> [n \in Int |-> IF n = f THEN Greatest ELSE g.hi[n]]]
RootGView(g, h, x, f) ==
    /\ h.lev[f] = g.lev[x] + 1 /\ h.lo[f] = Least /\ h.hi[f] = Greatest /\ h.out[f] = Greatest
    /\ \A n \in Int : n # f => /\ h.lev[n] = g.lev[n] /\ h.lo[n] = g.lo[n]
                               /\ h.hi[n] = g.hi[n] /\ h.out[n] = g.hi[n]

\* The fields of RootG.
LEMMA RootGParts ==
    ASSUME NEW g, NEW x, NEW f \in Int, NEW h, h = RootG(g, x, f)
    PROVE  RootGView(g, h, x, f)
BY DEF RootG, RootGView

\* The root has been split: the new root has both halves as its kids.
LEMMA NewRootInv ==
    ASSUME NEW t, NEW u, NEW g, NEW x, NEW k, NEW r, SplittingG(t, g, x, k, r), x = t.root, NEW f,
           Arena(u), RootView(t, u, f, x, k, r)
    PROVE  SettledG(u, RootG(g, x, f)) /\ SameEntries(t, u)
<1>1. /\ Arena(t) /\ Shape(t, g, {x, r}) /\ Order(t, g) /\ Links(t, g) /\ t.len = Cardinality(KeySet(t))
      /\ x \in DOMAIN t.node /\ r \in DOMAIN t.node /\ x # r /\ k \in Key
      /\ g.lev[x] = g.lev[r] /\ g.hi[x] = k /\ g.lo[r] = k /\ g.out[x] = g.hi[r]
      /\ g.lev[x] = t.height /\ g.lo[x] = Least /\ g.out[x] = Greatest
      /\ \A n \in DOMAIN t.node : n # x => g.out[n] = g.hi[n]
  BY DEF SplittingG, TreeInv, RootTop
<1>2. /\ f \in Nat /\ f \in Int /\ f \notin DOMAIN t.node /\ DOMAIN u.node = DOMAIN t.node \cup {f}
      /\ u.root = f /\ u.first = t.first /\ u.last = t.last /\ u.len = t.len /\ u.height = t.height + 1
      /\ u.node[f].keys = <<k>> /\ u.node[f].kids = <<x, r>> /\ u.node[f].parent = NO_NODE
      /\ \A n \in DOMAIN t.node :
         /\ u.node[n].keys = t.node[n].keys /\ u.node[n].kids = t.node[n].kids
         /\ u.node[n].vals = t.node[n].vals
         /\ u.node[n].prev = t.node[n].prev /\ u.node[n].next = t.node[n].next
         /\ u.node[n].parent = IF n \in {x, r} THEN f ELSE t.node[n].parent
  BY DEF RootView
<1>3. PICK h : h = RootG(g, x, f)
  OBVIOUS
<1>4. RootGView(g, h, x, f)
  BY <1>2, <1>3, RootGParts
<1>5. \A n \in DOMAIN t.node : /\ n \in Int /\ n # f /\ h.lev[n] = g.lev[n] /\ h.lo[n] = g.lo[n]
                               /\ h.hi[n] = g.hi[n] /\ h.out[n] = g.hi[n]
  BY <1>1, <1>2, <1>4, ArenaParts DEF RootGView
<1>6. /\ h.lev[f] = t.height + 1 /\ h.lo[f] = Least /\ h.hi[f] = Greatest /\ h.out[f] = Greatest
      /\ t.height \in Nat
  BY <1>1, <1>4 DEF RootGView, Arena
<1>7. \A n \in DOMAIN t.node : g.lev[n] <= t.height /\ g.lev[n] \in Nat
  <2>0. PICK O : O = {x, r}
    OBVIOUS
  <2>00. PICK H : H = t.height
    OBVIOUS
  <2>1. \A o \in O : g.lev[o] <= H
    <3>1. g.lev[x] = H /\ g.lev[r] = H
      BY <1>1, <2>00
    <3>2. H <= H
      BY <1>6, <2>00
    <3> QED BY <3>1, <3>2, <2>0
  <2>2. \A n \in DOMAIN t.node : g.lev[n] <= H
    <3>1. Arena(t) /\ Shape(t, g, O) /\ H \in Nat
      BY <1>1, <1>6, <2>0, <2>00
    <3> QED BY ONLY <2>1, <3>1, TopLevel
  <2>3. \A n \in DOMAIN t.node : g.lev[n] \in Nat
    BY <1>1 DEF Shape, Hangs, LevelOf
  <2> QED BY <2>2, <2>3, <2>00
<1>8. Len(<<x, r>>) = 2 /\ <<x, r>>[1] = x /\ <<x, r>>[2] = r /\ <<x, r>> # <<>>
  OBVIOUS
<1>9. ASSUME NEW n \in DOMAIN t.node PROVE Hangs(u, h, {f}, n)
  <2>1. Hangs(t, g, {x, r}, n)
    BY <1>1 DEF Shape
  <2>2. ASSUME NEW i \in 1 .. Len(t.node[n].kids)
        PROVE  LET c == t.node[n].kids[i] IN
              /\ c \in DOMAIN u.node /\ c \notin {f}
              /\ u.node[c].parent = n /\ h.lev[c] = g.lev[c]
    <3>1. PICK c : c = t.node[n].kids[i]
      OBVIOUS
    <3>2. c \in DOMAIN t.node /\ c \notin {x, r} /\ t.node[c].parent = n
      BY <3>1, <1>1, KidParts
    <3> QED BY <3>1, <3>2, <1>2, <1>5
  <2>3. Placed(u, n)
    <3>1. CASE n \in {x, r}
      <4>1. u.node[n].parent = f /\ f \in DOMAIN u.node /\ Len(u.node[f].kids) = 2
        BY <3>1, <1>2, <1>8
      <4>2. \E i \in 1 .. 2 : u.node[f].kids[i] = n
        BY <3>1, <1>2, <1>8
      <4> QED BY <4>1, <4>2 DEF Placed
    <3>2. CASE n \notin {x, r}
      <4>1. Placed(t, n)
        BY <3>2, <2>1 DEF Hangs
      <4> QED BY <4>1, <3>2, <1>2 DEF Placed
    <3> QED BY <3>1, <3>2
  <2> QED BY <2>1, <2>2, <2>3, <1>2, <1>5, HangsMove
<1>10. Hangs(u, h, {f}, f)
  <2>1. LevelOf(h, f, u.node[f])
    BY <1>2, <1>6, <1>8 DEF LevelOf
  <2>2. ASSUME NEW i \in 1 .. Len(u.node[f].kids) PROVE KidOf(u, h, {f}, f, u.node[f].kids[i])
    <3>1. PICK c : c = u.node[f].kids[i]
      OBVIOUS
    <3>2. c \in {x, r}
      <4>1. i \in 1 .. 2 /\ c = <<x, r>>[i]
        BY <3>1, <1>2, <1>8
      <4>2. i = 1 \/ i = 2
        BY <4>1
      <4> QED BY <4>1, <4>2, <1>8
    <3>3. h.lev[c] = t.height /\ t.height = h.lev[f] - 1
      <4>1. g.lev[x] = t.height /\ g.lev[r] = t.height
        BY <1>1
      <4>2. h.lev[c] = g.lev[c]
        BY <3>2, <1>1, <1>5
      <4>3. t.height = (t.height + 1) - 1
        BY <1>6
      <4> QED BY <4>1, <4>2, <4>3, <3>2, <1>6
    <3>4. c \in DOMAIN t.node /\ c \in DOMAIN u.node /\ c \notin {f}
      BY <3>2, <1>1, <1>2, <1>5
    <3>5. u.node[c].parent = f
      BY <3>2, <3>4, <1>2
    <3>6. KidOf(u, h, {f}, f, c)
      BY <3>3, <3>4, <3>5 DEF KidOf
    <3> QED BY <3>1, <3>6
  <2> QED BY <2>1, <2>2 DEF Hangs
<1>11. Shape(u, h, {f})
  BY <1>2, <1>9, <1>10 DEF Shape
<1>12. \A n \in DOMAIN t.node : Guides(g, n, t.node[n]) /\ RangeOf(g, n)
  BY <1>1 DEF Order, Guides
<1>13. ASSUME NEW n \in DOMAIN t.node PROVE Guides(h, n, u.node[n])
  <2>1. ASSUME NEW i \in 1 .. Len(t.node[n].kids)
        PROVE  h.lo[t.node[n].kids[i]] = g.lo[t.node[n].kids[i]] /\ h.out[t.node[n].kids[i]] = g.out[t.node[n].kids[i]]
    <3>1. PICK c : c = t.node[n].kids[i]
      OBVIOUS
    <3>2. c \in DOMAIN t.node /\ c # x
      BY <3>1, <1>1, KidParts
    <3> QED BY <3>1, <3>2, <1>1, <1>5
  <2>2. h.lo[n] = g.lo[n] /\ h.hi[n] = g.hi[n] /\ h.out[n] \in Int
    BY <1>5, <1>12 DEF RangeOf
  <2> QED BY <1>2, <1>12, <2>1, <2>2, GuidesMove
<1>14. Guides(h, f, u.node[f])
  <2>1. Least \in Int /\ Greatest \in Int /\ Least < Greatest /\ k \in Int /\ Least < k /\ k < Greatest
    BY <1>1, BoundsExist
  <2>2. RangeOf(h, f)
    BY <2>1, <1>6 DEF RangeOf
  <2>3. PICK ks : ks = u.node[f].keys
    OBVIOUS
  <2>4. PICK cs : cs = u.node[f].kids
    OBVIOUS
  <2>5. ks = <<k>> /\ Len(ks) = 1 /\ ks[1] = k /\ Len(cs) = 2 /\ cs[1] = x /\ cs[2] = r /\ cs # <<>>
    BY <2>3, <2>4, <1>2
  <2>6. /\ h.lo[x] = Least /\ h.out[x] = k /\ h.lo[r] = k /\ h.out[r] = Greatest
    BY <1>1, <1>5
  <2>7. Ruled(1, ks, cs, h.lo, h.out, Least, Greatest)
    <3>1. \A j \in 1 .. 1 : j = 1
      OBVIOUS
    <3>2. \A j \in 1 .. 1 + 1 : j = 1 \/ j = 2
      OBVIOUS
    <3>3. \A j \in 1 .. 1 : ks[j] \in Int /\ Least < ks[j] /\ ks[j] < Greatest
      BY <3>1, <2>1, <2>5
    <3>4. \A i, j \in 1 .. 1 : i < j => ks[i] < ks[j]
      OBVIOUS
    <3>5. ASSUME NEW j \in 1 .. 1 + 1
          PROVE  /\ h.lo[cs[j]] = IF j = 1 THEN Least ELSE ks[j - 1]
                 /\ h.out[cs[j]] = IF j = 1 + 1 THEN Greatest ELSE ks[j]
      <4>1. CASE j = 1
        BY <4>1, <2>5, <2>6
      <4>2. CASE j = 2
        <5>1. ks[j - 1] = k /\ cs[j] = r
          BY <4>2, <2>5
        <5> QED BY <5>1, <4>2, <2>6
      <4> QED BY <4>1, <4>2, <3>2
    <3> QED BY <3>3, <3>4, <3>5 DEF Ruled
  <2>8. 1 \in Nat /\ Len(cs) = 1 + 1
    BY <2>5
  <2> QED BY <2>2, <2>3, <2>4, <2>5, <2>7, <2>8, <1>6, RuledGuides
<1>15. ASSUME NEW m \in DOMAIN u.node, NEW n \in DOMAIN u.node, m # n, h.lev[m] = h.lev[n]
       PROVE  Apart(h, m, n)
  <2>1. m # f /\ n # f
    <3>1. \A z \in DOMAIN t.node : h.lev[z] # h.lev[f]
      BY <1>5, <1>6, <1>7
    <3> QED BY <3>1, <1>2, <1>15
  <2>2. m \in DOMAIN t.node /\ n \in DOMAIN t.node
    BY <2>1, <1>2
  <2>3. Apart(g, m, n)
    BY <2>2, <1>1, <1>5, <1>15 DEF Order
  <2> QED BY <2>2, <2>3, <1>5 DEF Apart
<1>16. Order(u, h)
  BY <1>2, <1>13, <1>14, <1>15 DEF Order
<1>17. LeafSet(u) = LeafSet(t)
  <2>1. u.node[f].kids # <<>>
    BY <1>2, <1>8
  <2>2. \A n \in DOMAIN t.node : u.node[n].kids = t.node[n].kids
    BY <1>2
  <2>3. DOMAIN u.node = DOMAIN t.node \cup {f}
    BY <1>2
  <2> QED BY <2>1, <2>2, <2>3 DEF LeafSet
<1>18. LeavesStay(t, u)
  <2>1. \A l \in LeafSet(t) : l \in DOMAIN t.node
    BY DEF LeafSet
  <2> QED BY <2>1, <1>2, <1>17 DEF LeavesStay
<1>19. Links(u, h)
  <2>1. \A l \in LeafSet(t) : h.lo[l] = g.lo[l] /\ h.hi[l] = g.hi[l]
    BY <1>5 DEF LeafSet
  <2> QED BY <2>1, <1>1, <1>18, LinksStay
<1>20. SameEntries(t, u) /\ KeySet(t) = KeySet(u)
  BY <1>1, <1>18, LeavesStaySame, SameKeySet
<1>21. RootTop(u, h)
  BY <1>2, <1>6 DEF RootTop
<1>22. \A n \in DOMAIN u.node : h.out[n] = h.hi[n]
  BY <1>2, <1>5, <1>6
<1> QED BY <1>1, <1>2, <1>3, <1>11, <1>16, <1>19, <1>20, <1>21, <1>22 DEF SettledG, TreeInv

\* The values of a sequence.
LEMMA ToSetIs ==
    ASSUME NEW S, NEW s \in Seq(S)
    PROVE  ToSet(s) = {s[i] : i \in 1 .. Len(s)} /\ Len(s) \in Nat /\ DOMAIN s = 1 .. Len(s)
BY DEF ToSet

\* An element that enters a sequence joins its values.
LEMMA InsertedSet ==
    ASSUME NEW S, NEW s \in Seq(S), NEW i \in 1 .. Len(s) + 1, NEW e, NEW w, InsertedAt(S, s, i, e, w)
    PROVE  /\ ToSet(w) = ToSet(s) \cup {e}
           /\ IsInjective(s) /\ e \notin ToSet(s) => IsInjective(w)
<1>1. PICK L : L = Len(s)
  OBVIOUS
<1>2. L \in Nat /\ i \in 1 .. L + 1 /\ w \in Seq(S) /\ Len(w) = L + 1 /\ DOMAIN w = 1 .. L + 1
      /\ ToSet(s) = {s[j] : j \in 1 .. L} /\ ToSet(w) = {w[j] : j \in 1 .. L + 1} /\ DOMAIN s = 1 .. L
  BY <1>1, ToSetIs DEF InsertedAt
<1>3. \A j \in 1 .. L + 1 : w[j] = IF j < i THEN s[j] ELSE IF j = i THEN e ELSE s[j - 1]
  BY <1>1 DEF InsertedAt
<1>4. \A j \in 1 .. L + 1 : j = i \/ (j < i /\ j \in 1 .. L) \/ (j > i /\ j - 1 \in 1 .. L)
  BY <1>2
<1>5. ToSet(w) \subseteq ToSet(s) \cup {e}
  <2>1. SUFFICES ASSUME NEW j \in 1 .. L + 1 PROVE w[j] \in ToSet(s) \cup {e}
    BY <1>2
  <2>2. CASE j = i
    BY <2>2, <1>3
  <2>3. CASE j < i /\ j \in 1 .. L
    BY <2>3, <1>2, <1>3
  <2>4. CASE j > i /\ j - 1 \in 1 .. L
    <3>1. ~(j < i) /\ j # i
      BY <2>4, <1>2
    <3> QED BY <3>1, <2>4, <1>2, <1>3
  <2> QED BY <2>2, <2>3, <2>4, <1>4
<1>6. ToSet(s) \cup {e} \subseteq ToSet(w)
  <2>1. e \in ToSet(w)
    BY <1>2, <1>3
  <2>2. ASSUME NEW j \in 1 .. L PROVE s[j] \in ToSet(w)
    <3>1. CASE j < i
      <4>1. w[j] = s[j] /\ j \in 1 .. L + 1
        BY <3>1, <1>2, <1>3
      <4> QED BY <4>1, <1>2
    <3>2. CASE ~(j < i)
      <4>1. j + 1 \in 1 .. L + 1 /\ ~(j + 1 < i) /\ j + 1 # i /\ (j + 1) - 1 = j
        BY <3>2, <1>2
      <4>2. w[j + 1] = s[j]
        BY <4>1, <1>3
      <4> QED BY <4>1, <4>2, <1>2
    <3> QED BY <3>1, <3>2
  <2> QED BY <2>1, <2>2, <1>2
<1>7. ASSUME IsInjective(s), e \notin ToSet(s) PROVE IsInjective(w)
  <2>1. SUFFICES ASSUME NEW a \in 1 .. L + 1, NEW b \in 1 .. L + 1, w[a] = w[b] PROVE a = b
    BY <1>2 DEF IsInjective
  <2>2. PICK c : c = IF a < i THEN a ELSE a - 1
    OBVIOUS
  <2>3. PICK d : d = IF b < i THEN b ELSE b - 1
    OBVIOUS
  <2>4. (a # i => c \in 1 .. L /\ w[a] = s[c]) /\ (a = i => w[a] = e)
    BY <2>2, <1>2, <1>3
  <2>5. (b # i => d \in 1 .. L /\ w[b] = s[d]) /\ (b = i => w[b] = e)
    BY <2>3, <1>2, <1>3
  <2>6. \A j \in 1 .. L : s[j] # e
    BY <1>7, <1>2
  <2>7. (a = i) <=> (b = i)
    BY <2>1, <2>4, <2>5, <2>6
  <2>8. CASE a # i
    <3>1. s[c] = s[d] /\ c \in 1 .. L /\ d \in 1 .. L
      BY <2>1, <2>4, <2>5, <2>7, <2>8
    <3>2. c = d
      BY <3>1, <1>2, <1>7 DEF IsInjective
    <3>3. a \in Int /\ b \in Int /\ i \in Int /\ a # i /\ b # i
      BY <1>2, <2>7, <2>8
    <3>4. (a < i => c = a) /\ (~(a < i) => c = a - 1)
      BY <2>2
    <3>5. (b < i => d = b) /\ (~(b < i) => d = b - 1)
      BY <2>3
    <3>6. CASE a < i /\ b < i
      BY <3>2, <3>4, <3>5, <3>6
    <3>7. CASE a < i /\ ~(b < i)
      BY <3>2, <3>3, <3>4, <3>5, <3>7
    <3>8. CASE ~(a < i) /\ b < i
      BY <3>2, <3>3, <3>4, <3>5, <3>8
    <3>9. CASE ~(a < i) /\ ~(b < i)
      BY <3>2, <3>3, <3>4, <3>5, <3>9
    <3> QED BY <3>6, <3>7, <3>8, <3>9
  <2> QED BY <2>7, <2>8
<1> QED BY <1>5, <1>6, <1>7

FreeView(t, u, n) ==
    /\ u.root = t.root /\ u.first = t.first /\ u.last = t.last /\ u.len = t.len /\ u.height = t.height
    /\ DOMAIN u.node = DOMAIN t.node \ {n}
    /\ \A m \in DOMAIN t.node : m # n => u.node[m] = t.node[m]

\* A freed node goes from the arena to the free list.
LEMMA FreeEffect ==
    ASSUME NEW t, Arena(t), NEW n \in DOMAIN t.node, NEW u, u = Free(t, n)
    PROVE  Arena(u) /\ FreeView(t, u, n)
<1>1. PICK list : list = t.free
  OBVIOUS
<1>2. PICK D : D = DOMAIN t.node
  OBVIOUS
<1>3. /\ list \in Seq(Int) /\ IsInjective(list) /\ ToSet(list) = (0 .. t.hi - 1) \ D
      /\ t.hi \in Nat /\ D \subseteq 0 .. t.hi - 1 /\ n \in D /\ n \in Int /\ n \notin ToSet(list)
  BY <1>1, <1>2, ArenaParts DEF Arena
<1>4. PICK i : i = IF SortedFree THEN ChildFor(list, n) ELSE 1
  OBVIOUS
<1>5. i \in 1 .. Len(list) + 1
  <2>1. ChildFor(list, n) \in 1 .. Len(list) + 1
    BY <1>3, ChildForProps
  <2>2. 1 \in 1 .. Len(list) + 1
    BY <1>3
  <2> QED BY <2>1, <2>2, <1>4
<1>6. PICK w : w = InsertAt(list, i, n)
  OBVIOUS
<1>7. w = Pushed(n, t.free)
  BY <1>1, <1>4, <1>6 DEF Pushed, ChildFor
<1>8. InsertedAt(Int, list, i, n, w)
  BY <1>3, <1>5, <1>6, InsertAtDoes
<1>9. w \in Seq(Int) /\ ToSet(w) = ToSet(list) \cup {n} /\ IsInjective(w)
  <2>1. w \in Seq(Int)
    BY <1>8 DEF InsertedAt
  <2> QED BY <2>1, <1>3, <1>5, <1>8, InsertedSet
<1>10. PICK nd : nd = [m \in D \ {n} |-> t.node[m]]
  OBVIOUS
<1>11. t = TreeOf(t.node, t.free, t.hi, t.root, t.first, t.last, t.len, t.height)
  BY ArenaParts
<1>12. u = TreeOf(nd, w, t.hi, t.root, t.first, t.last, t.len, t.height)
  BY <1>2, <1>7, <1>10, <1>11 DEF Free, TreeOf
<1>13. /\ u.node = nd /\ u.free = w /\ u.hi = t.hi /\ u.root = t.root /\ u.first = t.first
       /\ u.last = t.last /\ u.len = t.len /\ u.height = t.height
  BY <1>12 DEF TreeOf
<1>14. DOMAIN nd = D \ {n} /\ \A m \in D : m # n => nd[m] = t.node[m]
  BY <1>10
<1>15. FreeView(t, u, n)
  BY <1>2, <1>13, <1>14 DEF FreeView
<1>16. Arena(u)
  <2>1. \A m \in D : t.node[m] \in NodeRec
    BY <1>2, ArenaParts
  <2>2. nd \in [DOMAIN nd -> NodeRec]
    BY <2>1, <1>10, <1>14
  <2>3. t.root \in Int /\ t.first \in Int /\ t.last \in Int /\ t.height \in Nat
    BY DEF Arena
  <2>4. ToSet(w) = (0 .. t.hi - 1) \ DOMAIN nd /\ DOMAIN nd \subseteq 0 .. t.hi - 1
    BY <1>3, <1>9, <1>14
  <2>5. u = [node |-> u.node, free |-> u.free, hi |-> u.hi, root |-> u.root,
            first |-> u.first, last |-> u.last, len |-> u.len, height |-> u.height]
    BY <1>12, <1>13 DEF TreeOf
  <2> QED BY <2>2, <2>3, <2>4, <2>5, <1>3, <1>9, <1>13 DEF Arena
<1> QED BY <1>15, <1>16

\* Nodes l and r are neighbours below p, key j of p between them.
Sibs(t, g, p, j, l, r) ==
    /\ p \in DOMAIN t.node /\ l \in DOMAIN t.node /\ r \in DOMAIN t.node
    /\ p # l /\ p # r /\ l # r /\ l # t.root /\ r # t.root
    /\ t.node[l].parent = p /\ t.node[r].parent = p
    /\ g.lev[l] = g.lev[p] - 1 /\ g.lev[r] = g.lev[p] - 1 /\ g.lev[p] \in Nat /\ g.lev[l] \in Nat
    /\ Len(t.node[p].keys) \in Nat /\ j \in 1 .. Len(t.node[p].keys)
    /\ Len(t.node[p].kids) = Len(t.node[p].keys) + 1
    /\ t.node[p].keys \in Seq(Int) /\ t.node[p].keys \in Seq(Key) /\ t.node[p].kids \in Seq(Int)
    /\ t.node[p].kids[j] = l /\ t.node[p].kids[j + 1] = r
    /\ t.node[p].keys[j] \in Key /\ t.node[p].keys[j] \in Int
    /\ g.hi[l] = t.node[p].keys[j] /\ g.lo[r] = t.node[p].keys[j]
    /\ g.out[l] = g.hi[l] /\ g.out[r] = g.hi[r]

\* Two neighbouring kids of a node.
LEMMA SibsAre ==
    ASSUME NEW t, NEW g, SettledG(t, g), NEW p \in DOMAIN t.node, NEW j \in Nat \ {0},
           j + 1 \in 1 .. Len(t.node[p].kids), NEW l, NEW r,
           l = t.node[p].kids[j], r = t.node[p].kids[j + 1]
    PROVE  Sibs(t, g, p, j, l, r)
<1>1. /\ Arena(t) /\ Order(t, g) /\ Shape(t, g, {t.root})
      /\ \A n \in DOMAIN t.node : g.out[n] = g.hi[n]
  BY DEF SettledG, TreeInv
<1>2. PICK C : C = Len(t.node[p].kids)
  OBVIOUS
<1>3. C \in Nat /\ j \in 1 .. C /\ j + 1 \in 1 .. C
  <2>1. t.node[p].kids \in Seq(Int)
    BY <1>1, KeysAreInts
  <2>2. C \in Nat
    BY <2>1, <1>2
  <2> QED BY <2>2, <1>2
<1>4. j \in 1 .. Len(t.node[p].kids) /\ j + 1 \in 1 .. Len(t.node[p].kids)
  BY <1>2, <1>3
<1>5. /\ t.node[p].kids \in Seq(Int) /\ t.node[p].keys \in Seq(Key) /\ t.node[p].keys \in Seq(Int)
      /\ KidRange(g, p, t.node[p], j)
      /\ Len(t.node[p].kids) = Len(t.node[p].keys) + 1 /\ Len(t.node[p].keys) \in Nat
  BY <1>1, <1>4, KidBounds
<1>6. KidRange(g, p, t.node[p], j + 1)
  BY <1>1, <1>4, KidBounds
<1>7. PICK M : M = Len(t.node[p].keys)
  OBVIOUS
<1>8. M \in Nat /\ C = M + 1 /\ j \in 1 .. M /\ j # C /\ j + 1 # 1 /\ (j + 1) - 1 = j
  <2>1. M \in Nat /\ C = M + 1
    BY <1>2, <1>5, <1>7
  <2> QED BY <2>1, <1>3
<1>9. /\ l \in DOMAIN t.node /\ l \notin {t.root} /\ t.node[l].parent = p
      /\ g.lev[l] = g.lev[p] - 1 /\ g.lev[p] \in Nat /\ g.lev[l] \in Nat /\ l # p
  BY <1>1, <1>4, KidParts
<1>10. /\ r \in DOMAIN t.node /\ r \notin {t.root} /\ t.node[r].parent = p
       /\ g.lev[r] = g.lev[p] - 1 /\ r # p
  BY <1>1, <1>4, KidParts
<1>11. l # r
  <2>1. j # j + 1
    BY <1>3
  <2> QED BY <2>1, <1>1, <1>4, KidsDistinct
<1>12. g.out[l] = t.node[p].keys[j]
  BY <1>2, <1>5, <1>8 DEF KidRange
<1>13. g.lo[r] = t.node[p].keys[j]
  BY <1>6, <1>8 DEF KidRange
<1>14. t.node[p].keys[j] \in Key /\ t.node[p].keys[j] \in Int
  BY <1>5, <1>7, <1>8
<1>15. g.out[l] = g.hi[l] /\ g.out[r] = g.hi[r]
  BY <1>1, <1>9, <1>10
<1> QED BY <1>5, <1>7, <1>8, <1>9, <1>10, <1>11, <1>12, <1>13, <1>14, <1>15 DEF Sibs

JoinG(g, l, r) ==
    [lev |-> g.lev, lo |-> g.lo,
     hi  |-> [n \in Int |-> IF n = l THEN g.hi[r] ELSE g.hi[n]],
     out |-> [n \in Int |-> IF n = l THEN g.hi[r] ELSE g.out[n]]]
JoinView(g, h, l, r) ==
    /\ h.lev = g.lev /\ h.lo = g.lo /\ h.hi[l] = g.hi[r] /\ h.out[l] = g.hi[r]
    /\ \A n \in Int : n # l => h.hi[n] = g.hi[n] /\ h.out[n] = g.out[n]

\* The range of l takes in the one of r.
LEMMA JoinParts ==
    ASSUME NEW g, NEW l \in Int, NEW r, NEW h, h = JoinG(g, l, r)
    PROVE  JoinView(g, h, l, r)
BY DEF JoinG, JoinView

\* Kid r of p has gone into kid l.
MergeView(t, u, p, j, l, r) ==
    /\ DOMAIN u.node = DOMAIN t.node \ {r}
    /\ u.root = t.root /\ u.first = t.first /\ u.len = t.len /\ u.height = t.height
    /\ u.node[p].keys = RemoveAt(t.node[p].keys, j)
    /\ u.node[p].kids = RemoveAt(t.node[p].kids, j + 1)
    /\ u.node[l].kids = t.node[l].kids \o t.node[r].kids
    /\ \A n \in DOMAIN t.node : n # r =>
         /\ n # p /\ n # l => u.node[n].keys = t.node[n].keys /\ u.node[n].kids = t.node[n].kids
         /\ n # l => u.node[n].vals = t.node[n].vals
         /\ u.node[n].parent = IF n \in ToSet(t.node[r].kids) THEN l ELSE t.node[n].parent

Thinned(C, i, cs, cs2) ==
    /\ \A b \in 1 .. C - 1 : \E a \in 1 .. C : a # i /\ cs2[b] = cs[a]
    /\ \A a \in 1 .. C : a # i => \E b \in 1 .. C - 1 : cs2[b] = cs[a]

\* The elements that stay when one is removed.
LEMMA RemovedSlots ==
    ASSUME NEW C \in Nat, NEW i \in 1 .. C, NEW cs, NEW cs2,
           \A b \in 1 .. C - 1 : cs2[b] = IF b < i THEN cs[b] ELSE cs[b + 1]
    PROVE  Thinned(C, i, cs, cs2)
<1>1. ASSUME NEW b \in 1 .. C - 1 PROVE \E a \in 1 .. C : a # i /\ cs2[b] = cs[a]
  <2>1. CASE b < i
    <3>1. b \in 1 .. C /\ b # i /\ cs2[b] = cs[b]
      BY <2>1
    <3> QED BY <3>1
  <2>2. CASE ~(b < i)
    <3>1. b + 1 \in 1 .. C /\ b + 1 # i /\ cs2[b] = cs[b + 1]
      BY <2>2
    <3> QED BY <3>1
  <2> QED BY <2>1, <2>2
<1>2. ASSUME NEW a \in 1 .. C, a # i PROVE \E b \in 1 .. C - 1 : cs2[b] = cs[a]
  <2>1. CASE a < i
    <3>1. a \in 1 .. C - 1 /\ cs2[a] = cs[a]
      BY <2>1
    <3> QED BY <3>1
  <2>2. CASE ~(a < i)
    <3>1. a - 1 \in 1 .. C - 1 /\ ~(a - 1 < i) /\ (a - 1) + 1 = a
      BY <2>2, <1>2
    <3> QED BY <3>1
  <2> QED BY <2>1, <2>2
<1> QED BY <1>1, <1>2 DEF Thinned

\* The kids of p after the merge.
LEMMA MergeKids ==
    ASSUME NEW t, NEW u, NEW g, NEW p, NEW j, NEW l, NEW r, Sibs(t, g, p, j, l, r),
           MergeView(t, u, p, j, l, r)
    PROVE  /\ Len(u.node[p].kids) = Len(t.node[p].kids) - 1
           /\ Len(u.node[p].keys) = Len(t.node[p].keys) - 1
           /\ u.node[p].keys \in Seq(Key) /\ u.node[p].kids \in Seq(Int)
           /\ Thinned(Len(t.node[p].kids), j + 1, t.node[p].kids, u.node[p].kids)
           /\ RemovedAt(Key, t.node[p].keys, j, u.node[p].keys)
           /\ RemovedAt(Int, t.node[p].kids, j + 1, u.node[p].kids)
<1>1. PICK ks : ks = t.node[p].keys
  OBVIOUS
<1>2. PICK cs : cs = t.node[p].kids
  OBVIOUS
<1>3. PICK M : M = Len(ks)
  OBVIOUS
<1>4. ks \in Seq(Key) /\ cs \in Seq(Int) /\ M \in Nat /\ j \in 1 .. M /\ Len(cs) = M + 1
  BY <1>1, <1>2, <1>3 DEF Sibs
<1>5. j + 1 \in 1 .. M + 1
  BY <1>4
<1>6. u.node[p].keys = RemoveAt(ks, j) /\ u.node[p].kids = RemoveAt(cs, j + 1)
  BY <1>1, <1>2 DEF MergeView
<1>7. RemovedAt(Key, ks, j, u.node[p].keys)
  BY <1>3, <1>4, <1>6, RemoveAtDoes
<1>8. RemovedAt(Int, cs, j + 1, u.node[p].kids)
  BY <1>4, <1>5, <1>6, RemoveAtDoes
<1>9. Thinned(Len(cs), j + 1, cs, u.node[p].kids)
  <2>1. Len(cs) \in Nat /\ j + 1 \in 1 .. Len(cs)
    BY <1>4, <1>5
  <2>2. \A b \in 1 .. Len(cs) - 1 : u.node[p].kids[b] = IF b < j + 1 THEN cs[b] ELSE cs[b + 1]
    BY <1>8 DEF RemovedAt
  <2> QED BY <2>1, <2>2, RemovedSlots
<1> QED BY <1>1, <1>2, <1>7, <1>8, <1>9 DEF RemovedAt

\* Elements of a concatenation.
BothOf(ca, cb, cc) ==
    /\ \A a \in 1 .. Len(ca) : \E c \in 1 .. Len(cc) : cc[c] = ca[a]
    /\ \A b \in 1 .. Len(cb) : \E c \in 1 .. Len(cc) : cc[c] = cb[b]
    /\ \A c \in 1 .. Len(cc) : \/ \E a \in 1 .. Len(ca) : cc[c] = ca[a]
                               \/ \E b \in 1 .. Len(cb) : cc[c] = cb[b]
    /\ Len(cc) = Len(ca) + Len(cb)

\* A concatenation has the elements of both sequences.
LEMMA ConcatSlots ==
    ASSUME NEW S, NEW ca \in Seq(S), NEW cb \in Seq(S)
    PROVE  BothOf(ca, cb, ca \o cb)
<1>1. PICK cc : cc = ca \o cb
  OBVIOUS
<1>2. PICK A : A = Len(ca)
  OBVIOUS
<1>3. PICK B : B = Len(cb)
  OBVIOUS
<1>4. /\ A \in Nat /\ B \in Nat /\ Len(cc) = A + B
      /\ \A a \in 1 .. A : cc[a] = ca[a]
      /\ \A b \in 1 .. B : cc[A + b] = cb[b]
  BY <1>1, <1>2, <1>3, ConcatProps
<1>5. \A a \in 1 .. A : a \in 1 .. A + B
  BY <1>4
<1>6. \A b \in 1 .. B : A + b \in 1 .. A + B
  BY <1>4
<1>7. ASSUME NEW c \in 1 .. A + B
      PROVE  (\E a \in 1 .. A : cc[c] = ca[a]) \/ (\E b \in 1 .. B : cc[c] = cb[b])
  <2>1. CASE c <= A
    <3>1. c \in 1 .. A
      BY <2>1, <1>4
    <3> QED BY <3>1, <1>4
  <2>2. CASE ~(c <= A)
    <3>1. c - A \in 1 .. B /\ A + (c - A) = c
      BY <2>2, <1>4
    <3> QED BY <3>1, <1>4
  <2> QED BY <2>1, <2>2
<1> QED BY <1>1, <1>2, <1>3, <1>4, <1>5, <1>6, <1>7 DEF BothOf

\* A merge keeps the tree a tree.
LEMMA MergeShape ==
    ASSUME NEW t, NEW u, NEW g, NEW h, SettledG(t, g), NEW p, NEW j, NEW l, NEW r,
           Sibs(t, g, p, j, l, r), MergeView(t, u, p, j, l, r), h.lev = g.lev
    PROVE  Shape(u, h, {u.root})
<1>1. Arena(t) /\ Order(t, g) /\ Shape(t, g, {t.root}) /\ t.root \in DOMAIN t.node
  BY DEF SettledG, TreeInv, RootTop
<1>2. /\ p \in DOMAIN t.node /\ l \in DOMAIN t.node /\ r \in DOMAIN t.node
      /\ p # l /\ p # r /\ l # r /\ l # t.root /\ r # t.root
      /\ t.node[l].parent = p /\ t.node[r].parent = p
      /\ g.lev[l] = g.lev[p] - 1 /\ g.lev[r] = g.lev[p] - 1 /\ g.lev[p] \in Nat /\ g.lev[l] \in Nat
      /\ Len(t.node[p].keys) \in Nat /\ j \in 1 .. Len(t.node[p].keys)
      /\ Len(t.node[p].kids) = Len(t.node[p].keys) + 1
      /\ t.node[p].kids[j] = l /\ t.node[p].kids[j + 1] = r
  BY DEF Sibs
<1>02. p \in DOMAIN t.node /\ l \in DOMAIN t.node /\ r \in DOMAIN t.node
  BY <1>2
<1>3. PICK cr : cr = t.node[r].kids
  OBVIOUS
<1>4. PICK cl : cl = t.node[l].kids
  OBVIOUS
<1>5. PICK cs : cs = t.node[p].kids
  OBVIOUS
<1>6. PICK C : C = Len(cs)
  OBVIOUS
<1>7. cr \in Seq(Int) /\ cl \in Seq(Int) /\ cs \in Seq(Int)
  BY <1>1, <1>2, <1>3, <1>4, <1>5, KeysAreInts
<1>8. C \in Nat /\ j \in 1 .. C /\ j + 1 \in 1 .. C /\ C - 1 >= 1 /\ C - 1 \in Nat /\ j # j + 1
  <2>1. PICK M : M = Len(t.node[p].keys)
    OBVIOUS
  <2>2. M \in Nat /\ C = M + 1 /\ j \in 1 .. M
    BY <2>1, <1>2, <1>5, <1>6
  <2> QED BY <2>2
<1>9. PICK cp : cp = u.node[p].kids
  OBVIOUS
<1>10. Len(cp) = C - 1 /\ Thinned(C, j + 1, cs, cp)
  BY <1>5, <1>6, <1>9, MergeKids
<1>11. PICK cc : cc = u.node[l].kids
  OBVIOUS
<1>12. cc = cl \o cr
  BY <1>3, <1>4, <1>11 DEF MergeView
<1>13. BothOf(cl, cr, cc)
  BY <1>7, <1>12, ConcatSlots
<1>14. /\ DOMAIN u.node = DOMAIN t.node \ {r} /\ u.root = t.root
       /\ \A n \in DOMAIN t.node : n # r =>
         /\ n # p /\ n # l => u.node[n].kids = t.node[n].kids
         /\ u.node[n].parent = IF n \in ToSet(cr) THEN l ELSE t.node[n].parent
  BY <1>3 DEF MergeView
<1>15. ASSUME NEW n \in ToSet(cr) PROVE n \in DOMAIN t.node /\ t.node[n].parent = r /\ n # t.root /\ n # r
  <2>1. PICK b \in 1 .. Len(cr) : n = cr[b]
    BY <1>7 DEF ToSet
  <2> QED BY <2>1, <1>1, <1>2, <1>3, KidParts
<1>16. p \notin ToSet(cr)
  <2>1. SUFFICES ASSUME p \in ToSet(cr) PROVE FALSE
    OBVIOUS
  <2>2. PICK b \in 1 .. Len(cr) : p = cr[b]
    BY <2>1, <1>7 DEF ToSet
  <2>3. b \in 1 .. Len(t.node[r].kids) /\ t.node[r].kids[b] = p
    BY <2>2, <1>3
  <2>4. t.node[p].parent = r /\ g.lev[p] = g.lev[r] - 1
    BY <2>3, <1>1, <1>02, KidParts
  <2> QED BY <2>4, <1>2
<1>17. l \notin ToSet(cr)
  BY <1>2, <1>15
<1>18. \A b \in 1 .. Len(cr) : cr[b] \in ToSet(cr)
  BY <1>7 DEF ToSet
<1>19. ASSUME NEW n \in DOMAIN t.node, n # r, n # t.root PROVE Placed(u, n)
  <2>1. Placed(t, n)
    BY <1>1, <1>19 DEF Shape, Hangs
  <2>2. PICK q : q = t.node[n].parent
    OBVIOUS
  <2>3. q \in DOMAIN t.node /\ \E i \in 1 .. Len(t.node[q].kids) : t.node[q].kids[i] = n
    BY <2>1, <2>2 DEF Placed
  <2>4. CASE q = r
    <3>1. PICK b \in 1 .. Len(cr) : cr[b] = n
      BY <2>3, <2>4, <1>3
    <3>2. u.node[n].parent = l /\ l \in DOMAIN u.node
      BY <3>1, <1>2, <1>14, <1>18, <1>19
    <3>3. \E i \in 1 .. Len(u.node[l].kids) : u.node[l].kids[i] = n
      BY <3>1, <1>11, <1>13 DEF BothOf
    <3> QED BY <3>2, <3>3 DEF Placed
  <2>5. CASE q # r
    <3>1. n \notin ToSet(cr)
      BY <2>2, <2>5, <1>15
    <3>2. u.node[n].parent = q /\ q \in DOMAIN u.node
      BY <3>1, <2>2, <2>3, <2>5, <1>14, <1>19
    <3>3. PICK a \in 1 .. Len(t.node[q].kids) : t.node[q].kids[a] = n
      BY <2>3
    <3>4. \E i \in 1 .. Len(u.node[q].kids) : u.node[q].kids[i] = n
      <4>1. CASE q = p
        <5>1. a # j + 1 /\ a \in 1 .. C /\ cs[a] = n
          BY <3>3, <4>1, <1>2, <1>5, <1>6, <1>19
        <5>2. PICK b \in 1 .. C - 1 : cp[b] = cs[a]
          BY <5>1, <1>10 DEF Thinned
        <5> QED BY <5>1, <5>2, <4>1, <1>9, <1>10
      <4>2. CASE q = l
        <5>1. a \in 1 .. Len(cl) /\ cl[a] = n
          BY <3>3, <4>2, <1>4
        <5>2. PICK c \in 1 .. Len(cc) : cc[c] = cl[a]
          BY <5>1, <1>13 DEF BothOf
        <5> QED BY <5>1, <5>2, <4>2, <1>11
      <4>3. CASE q # p /\ q # l
        BY <3>3, <4>3, <2>3, <2>5, <1>14
      <4> QED BY <4>1, <4>2, <4>3
    <3> QED BY <3>2, <3>4 DEF Placed
  <2> QED BY <2>4, <2>5
<1>20. ASSUME NEW n \in DOMAIN u.node PROVE n \in {u.root} \/ Placed(u, n)
  BY <1>14, <1>19
<1>21. ASSUME NEW n \in DOMAIN t.node, n # r, n # p, n # l PROVE Hangs(u, h, {u.root}, n)
  <2>1. Hangs(t, g, {t.root}, n)
    BY <1>1 DEF Shape
  <2>2. ASSUME NEW i \in 1 .. Len(t.node[n].kids)
        PROVE  LET c == t.node[n].kids[i] IN
              /\ c \in DOMAIN u.node /\ c \notin {u.root}
              /\ u.node[c].parent = n /\ h.lev[c] = g.lev[c]
    <3>1. PICK c : c = t.node[n].kids[i]
      OBVIOUS
    <3>2. c \in DOMAIN t.node /\ c \notin {t.root} /\ t.node[c].parent = n
      BY <3>1, <1>1, KidParts
    <3>3. c \notin ToSet(cr) /\ c # r
      BY <3>2, <1>2, <1>15, <1>21
    <3> QED BY <3>1, <3>2, <3>3, <1>14
  <2>3. u.node[n].kids = t.node[n].kids /\ h.lev[n] = g.lev[n] /\ n \in DOMAIN u.node
    BY <1>14, <1>21
  <2> QED BY <2>1, <2>2, <2>3, <1>20, HangsMove
<1>22. Hangs(u, h, {u.root}, p)
  <2>1. cp # <<>>
    BY <1>8, <1>10
  <2>2. LevelOf(h, p, u.node[p])
    <3>1. g.lev[p] # 0
      BY <1>2
    <3> QED BY <3>1, <2>1, <1>2, <1>9 DEF LevelOf
  <2>3. ASSUME NEW i \in 1 .. Len(u.node[p].kids) PROVE KidOf(u, h, {u.root}, p, u.node[p].kids[i])
    <3>1. PICK c : c = u.node[p].kids[i]
      OBVIOUS
    <3>2. i \in 1 .. C - 1 /\ c = cp[i]
      BY <3>1, <1>9, <1>10
    <3>3. PICK a \in 1 .. C : a # j + 1 /\ c = cs[a]
      BY <3>2, <1>10 DEF Thinned
    <3>4. c # r
      <4>1. a \in 1 .. Len(t.node[p].kids) /\ j + 1 \in 1 .. Len(t.node[p].kids)
        BY <3>3, <1>5, <1>6, <1>8
      <4> QED BY <4>1, <3>3, <1>1, <1>2, <1>5, KidsDistinct
    <3>5. c \in DOMAIN t.node /\ c \notin {t.root} /\ t.node[c].parent = p /\ g.lev[c] = g.lev[p] - 1
      <4>1. a \in 1 .. Len(t.node[p].kids)
        BY <3>3, <1>5, <1>6
      <4> QED BY <4>1, <3>3, <1>1, <1>2, <1>5, KidParts
    <3>6. c \notin ToSet(cr)
      BY <3>5, <1>2, <1>15
    <3> QED BY <3>1, <3>4, <3>5, <3>6, <1>14 DEF KidOf
  <2>4. p \in DOMAIN u.node
    BY <1>2, <1>14
  <2> QED BY <2>2, <2>3, <2>4, <1>20 DEF Hangs
<1>23. Hangs(u, h, {u.root}, l)
  <2>1. LevelOf(g, l, t.node[l]) /\ LevelOf(g, r, t.node[r]) /\ g.lev[l] = g.lev[r]
    BY <1>1, <1>2 DEF Shape, Hangs
  <2>2. cl = <<>> <=> cr = <<>>
    BY <2>1, <1>3, <1>4 DEF LevelOf
  <2>3. cc = <<>> <=> cl = <<>>
    <3>1. Len(cl) \in Nat /\ Len(cr) \in Nat /\ (cl = <<>> <=> Len(cl) = 0) /\ (cr = <<>> <=> Len(cr) = 0)
      BY <1>7
    <3>2. cc \in Seq(Int) /\ Len(cc) = Len(cl) + Len(cr)
      BY <1>7, <1>12, ConcatProps
    <3>3. cc = <<>> <=> Len(cc) = 0
      BY <3>2
    <3> QED BY <3>1, <3>2, <3>3, <2>2
  <2>4. LevelOf(h, l, u.node[l])
    BY <2>1, <2>3, <1>4, <1>11 DEF LevelOf
  <2>5. ASSUME NEW i \in 1 .. Len(u.node[l].kids) PROVE KidOf(u, h, {u.root}, l, u.node[l].kids[i])
    <3>1. PICK c : c = u.node[l].kids[i]
      OBVIOUS
    <3>2. (\E a \in 1 .. Len(cl) : c = cl[a]) \/ (\E b \in 1 .. Len(cr) : c = cr[b])
      BY <3>1, <1>11, <1>13 DEF BothOf
    <3>3. CASE \E a \in 1 .. Len(cl) : c = cl[a]
      <4>1. PICK a \in 1 .. Len(cl) : c = cl[a]
        BY <3>3
      <4>2. c \in DOMAIN t.node /\ c \notin {t.root} /\ t.node[c].parent = l /\ g.lev[c] = g.lev[l] - 1
        <5>1. a \in 1 .. Len(t.node[l].kids) /\ t.node[l].kids[a] = c
          BY <4>1, <1>4
        <5> QED BY <5>1, <1>1, <1>02, KidParts
      <4>3. c \notin ToSet(cr) /\ c # r
        BY <4>2, <1>2, <1>15
      <4> QED BY <3>1, <4>2, <4>3, <1>14 DEF KidOf
    <3>4. CASE \E b \in 1 .. Len(cr) : c = cr[b]
      <4>1. PICK b \in 1 .. Len(cr) : c = cr[b]
        BY <3>4
      <4>2. c \in DOMAIN t.node /\ c \notin {t.root} /\ g.lev[c] = g.lev[r] - 1 /\ c # r
        <5>1. b \in 1 .. Len(t.node[r].kids) /\ t.node[r].kids[b] = c
          BY <4>1, <1>3
        <5> QED BY <5>1, <1>1, <1>02, KidParts
      <4>3. c \in ToSet(cr)
        BY <4>1, <1>18
      <4> QED BY <3>1, <4>2, <4>3, <1>2, <1>14 DEF KidOf
    <3> QED BY <3>2, <3>3, <3>4
  <2>6. l \in DOMAIN u.node
    BY <1>2, <1>14
  <2> QED BY <2>4, <2>5, <2>6, <1>20 DEF Hangs
<1> QED BY <1>1, <1>2, <1>14, <1>21, <1>22, <1>23 DEF Shape

DropSeqs(m, j, ks, cs, ks2, cs2, lo, out, lo2, out2) ==
    /\ \A i \in 1 .. m - 1 : ks2[i] = IF i < j THEN ks[i] ELSE ks[i + 1]
    /\ \A i \in 1 .. m : cs2[i] = IF i < j + 1 THEN cs[i] ELSE cs[i + 1]
    /\ \A i \in 1 .. m + 1 : i # j + 1 =>
          /\ lo2[cs[i]] = lo[cs[i]]
          /\ out2[cs[i]] = IF i = j THEN out[cs[j + 1]] ELSE out[cs[i]]

\* Key j and kid j + 1 go, and kid j takes over the range of that kid.
LEMMA RuledDrop ==
    ASSUME NEW m \in Nat, NEW j \in 1 .. m, NEW ks, NEW cs, NEW ks2, NEW cs2,
           NEW lo, NEW out, NEW lo2, NEW out2, NEW a \in Int, NEW b \in Int,
           Ruled(m, ks, cs, lo, out, a, b), DropSeqs(m, j, ks, cs, ks2, cs2, lo, out, lo2, out2)
    PROVE  Ruled(m - 1, ks2, cs2, lo2, out2, a, b)
<1>0. /\ \A i \in 1 .. m - 1 : ks2[i] = IF i < j THEN ks[i] ELSE ks[i + 1]
      /\ \A i \in 1 .. m : cs2[i] = IF i < j + 1 THEN cs[i] ELSE cs[i + 1]
      /\ \A i \in 1 .. m + 1 : i # j + 1 =>
          /\ lo2[cs[i]] = lo[cs[i]]
          /\ out2[cs[i]] = IF i = j THEN out[cs[j + 1]] ELSE out[cs[i]]
  BY DEF DropSeqs
<1> USE <1>0
<1>1. ASSUME NEW i \in 1 .. m - 1 PROVE ks2[i] \in Int /\ a < ks2[i] /\ ks2[i] < b
  <2>1. i \in 1 .. m /\ i + 1 \in 1 .. m
    OBVIOUS
  <2> QED BY <2>1 DEF Ruled
<1>2. ASSUME NEW i \in 1 .. m - 1, NEW k \in 1 .. m - 1, i < k PROVE ks2[i] < ks2[k]
  <2>1. i \in 1 .. m /\ i + 1 \in 1 .. m /\ k \in 1 .. m /\ k + 1 \in 1 .. m /\ i < k + 1 /\ i + 1 < k + 1
    BY <1>2
  <2>2. \A x, y \in 1 .. m : x < y => ks[x] < ks[y]
    BY DEF Ruled
  <2>3. CASE i < j /\ k < j
    BY <2>1, <2>2, <2>3, <1>2
  <2>4. CASE i < j /\ ~(k < j)
    BY <2>1, <2>2, <2>4, <1>2
  <2>5. CASE ~(i < j) /\ ~(k < j)
    BY <2>1, <2>2, <2>5, <1>2
  <2> QED BY <2>3, <2>4, <2>5, <1>2
<1>3. ASSUME NEW i \in 1 .. (m - 1) + 1
      PROVE  /\ lo2[cs2[i]] = IF i = 1 THEN a ELSE ks2[i - 1]
             /\ out2[cs2[i]] = IF i = (m - 1) + 1 THEN b ELSE ks2[i]
  <2>1. i \in 1 .. m /\ (m - 1) + 1 = m
    OBVIOUS
  <2>2. \A x \in 1 .. m + 1 : /\ lo[cs[x]] = IF x = 1 THEN a ELSE ks[x - 1]
                              /\ out[cs[x]] = IF x = m + 1 THEN b ELSE ks[x]
    BY DEF Ruled
  <2>3. CASE i < j
    <3>1. i \in 1 .. m + 1 /\ i # j /\ i # j + 1 /\ cs2[i] = cs[i] /\ i # m /\ i # m + 1 /\ i \in 1 .. m - 1
      BY <2>3, <2>1
    <3>2. lo2[cs2[i]] = lo[cs[i]] /\ out2[cs2[i]] = out[cs[i]] /\ ks2[i] = ks[i]
      BY <3>1, <2>3
    <3>3. i # 1 => ks2[i - 1] = ks[i - 1]
      BY <2>3, <2>1
    <3> QED BY <3>1, <3>2, <3>3, <2>2, <2>1
  <2>4. CASE i = j
    <3>1. j \in 1 .. m + 1 /\ j # j + 1 /\ cs2[i] = cs[j] /\ j + 1 \in 1 .. m + 1
      BY <2>4, <2>1
    <3>2. lo2[cs2[i]] = lo[cs[j]] /\ out2[cs2[i]] = out[cs[j + 1]]
      BY <3>1
    <3>3. i # 1 => ks2[i - 1] = ks[j - 1]
      BY <2>4, <2>1
    <3>4. i # m => ks2[i] = ks[j + 1]
      BY <2>4, <2>1
    <3>5. j + 1 = m + 1 <=> i = m
      BY <2>4, <2>1
    <3> QED BY <3>1, <3>2, <3>3, <3>4, <3>5, <2>2, <2>1, <2>4
  <2>5. CASE i > j
    <3>1. i + 1 \in 1 .. m + 1 /\ i + 1 # j /\ i + 1 # j + 1 /\ cs2[i] = cs[i + 1] /\ i + 1 # 1 /\ i # 1
      BY <2>5, <2>1
    <3>2. lo2[cs2[i]] = lo[cs[i + 1]] /\ out2[cs2[i]] = out[cs[i + 1]]
      BY <3>1
    <3>3. ks2[i - 1] = ks[i] /\ (i + 1) - 1 = i
      BY <2>5, <2>1
    <3>4. i # m => ks2[i] = ks[i + 1]
      BY <2>5, <2>1
    <3>5. i + 1 = m + 1 <=> i = m
      BY <2>1
    <3> QED BY <3>1, <3>2, <3>3, <3>4, <3>5, <2>2, <2>1
  <2> QED BY <2>1, <2>3, <2>4, <2>5
<1> QED BY <1>1, <1>2, <1>3 DEF Ruled

\* A merge keeps the separators right, when the merged node fits its range.
LEMMA MergeOrder ==
    ASSUME NEW t, NEW u, NEW g, NEW h, SettledG(t, g), NEW p, NEW j, NEW l, NEW r,
           Sibs(t, g, p, j, l, r), MergeView(t, u, p, j, l, r), JoinView(g, h, l, r),
           Guides(h, l, u.node[l])
    PROVE  Order(u, h)
<1>1. Arena(t) /\ Order(t, g) /\ Shape(t, g, {t.root})
  BY DEF SettledG, TreeInv
<1>2. /\ p \in DOMAIN t.node /\ l \in DOMAIN t.node /\ r \in DOMAIN t.node
      /\ p # l /\ p # r /\ l # r
  BY DEF Sibs
<1>3. \A n \in DOMAIN t.node : Guides(g, n, t.node[n]) /\ RangeOf(g, n) /\ n \in Int
  BY <1>1, ArenaParts DEF Order, Guides
<1>4. /\ DOMAIN u.node = DOMAIN t.node \ {r}
      /\ \A n \in DOMAIN t.node : n # r =>
         /\ n # p /\ n # l => u.node[n].keys = t.node[n].keys /\ u.node[n].kids = t.node[n].kids
         /\ n # l => u.node[n].vals = t.node[n].vals
  BY DEF MergeView
<1>5. /\ h.lev = g.lev /\ h.lo = g.lo /\ h.hi[l] = g.hi[r] /\ h.out[l] = g.hi[r]
      /\ \A n \in DOMAIN t.node : n # l => h.hi[n] = g.hi[n] /\ h.out[n] = g.out[n]
  BY <1>3 DEF JoinView
<1>6. ASSUME NEW n \in DOMAIN t.node, n # r, n # p, n # l PROVE Guides(h, n, u.node[n])
  <2>1. ASSUME NEW i \in 1 .. Len(t.node[n].kids)
        PROVE  h.lo[t.node[n].kids[i]] = g.lo[t.node[n].kids[i]] /\ h.out[t.node[n].kids[i]] = g.out[t.node[n].kids[i]]
    <3>1. PICK c : c = t.node[n].kids[i]
      OBVIOUS
    <3>2. c \in DOMAIN t.node /\ t.node[c].parent = n
      BY <3>1, <1>1, KidParts
    <3>3. c # l
      BY <3>2, <1>6 DEF Sibs
    <3> QED BY <3>1, <3>2, <3>3, <1>5
  <2>2. h.lo[n] = g.lo[n] /\ h.hi[n] = g.hi[n] /\ h.out[n] \in Int
    BY <1>3, <1>5, <1>6 DEF RangeOf
  <2>3. /\ u.node[n].keys = t.node[n].keys /\ u.node[n].vals = t.node[n].vals
        /\ u.node[n].kids = t.node[n].kids
    BY <1>4, <1>6
  <2> QED BY <1>3, <2>1, <2>2, <2>3, GuidesMove
<1>7. Guides(h, p, u.node[p])
  <2>1. PICK ks : ks = t.node[p].keys
    OBVIOUS
  <2>2. PICK cs : cs = t.node[p].kids
    OBVIOUS
  <2>3. PICK M : M = Len(ks)
    OBVIOUS
  <2>4. ks \in Seq(Int) /\ M \in Nat /\ j \in 1 .. M /\ Len(cs) = M + 1 /\ cs \in Seq(Int) /\ cs[j] = l /\ cs[j + 1] = r
    BY <2>1, <2>2, <2>3 DEF Sibs
  <2>5. cs # <<>>
    BY <2>4
  <2>6. Ruled(M, ks, cs, g.lo, g.out, g.lo[p], g.hi[p]) /\ RangeOf(g, p)
    BY <1>2, <1>3, <2>1, <2>2, <2>3, <2>4, <2>5, GuidesRuled
  <2>7. PICK k2 : k2 = u.node[p].keys
    OBVIOUS
  <2>8. PICK c2 : c2 = u.node[p].kids
    OBVIOUS
  <2>9. RemovedAt(Key, ks, j, k2) /\ RemovedAt(Int, cs, j + 1, c2)
    BY <2>1, <2>2, <2>7, <2>8, MergeKids
  <2>10. /\ Len(k2) = M - 1 /\ Len(c2) = M
         /\ \A i \in 1 .. M - 1 : k2[i] = IF i < j THEN ks[i] ELSE ks[i + 1]
         /\ \A i \in 1 .. M : c2[i] = IF i < j + 1 THEN cs[i] ELSE cs[i + 1]
    <3>1. Len(cs) - 1 = M
      BY <2>4
    <3> QED BY <3>1, <2>3, <2>9 DEF RemovedAt
  <2>11. ASSUME NEW i \in 1 .. M + 1, i # j + 1
         PROVE  /\ h.lo[cs[i]] = g.lo[cs[i]]
                /\ h.out[cs[i]] = IF i = j THEN g.out[cs[j + 1]] ELSE g.out[cs[i]]
    <3>1. h.lo[cs[i]] = g.lo[cs[i]]
      BY <1>5
    <3>2. CASE i = j
      <4>1. g.out[r] = g.hi[r]
        BY DEF Sibs
      <4> QED BY <3>1, <3>2, <4>1, <2>4, <1>5
    <3>3. CASE i # j
      <4>1. i \in 1 .. Len(t.node[p].kids) /\ j \in 1 .. Len(t.node[p].kids)
        BY <2>2, <2>4
      <4>2. cs[i] # l
        BY <4>1, <3>3, <2>2, <2>4, <1>1, <1>2, KidsDistinct
      <4>3. cs[i] \in DOMAIN t.node
        BY <4>1, <2>2, <1>1, <1>2, KidParts
      <4> QED BY <3>1, <3>3, <4>2, <4>3, <1>5
    <3> QED BY <3>2, <3>3
  <2>12. PICK lo : lo = g.lo
    OBVIOUS
  <2>13. PICK out : out = g.out
    OBVIOUS
  <2>14. PICK lo2 : lo2 = h.lo
    OBVIOUS
  <2>15. PICK out2 : out2 = h.out
    OBVIOUS
  <2>16. PICK a : a = g.lo[p]
    OBVIOUS
  <2>17. PICK b : b = g.hi[p]
    OBVIOUS
  <2>18. Ruled(M, ks, cs, lo, out, a, b) /\ a \in Int /\ b \in Int
    BY <2>6, <2>12, <2>13, <2>16, <2>17 DEF RangeOf
  <2>19. \A i \in 1 .. M + 1 : i # j + 1 =>
              /\ lo2[cs[i]] = lo[cs[i]]
              /\ out2[cs[i]] = IF i = j THEN out[cs[j + 1]] ELSE out[cs[i]]
    BY <2>11, <2>12, <2>13, <2>14, <2>15
  <2>20. Ruled(M - 1, k2, c2, lo2, out2, a, b)
    <3>1. DropSeqs(M, j, ks, cs, k2, c2, lo, out, lo2, out2)
      BY <2>10, <2>19 DEF DropSeqs
    <3> QED BY <3>1, <2>4, <2>18, RuledDrop
  <2>21. h.lo[p] = a /\ h.hi[p] = b /\ RangeOf(h, p)
    BY <2>6, <2>16, <2>17, <1>2, <1>5 DEF RangeOf
  <2>22. M - 1 \in Nat /\ Len(c2) = (M - 1) + 1 /\ c2 # <<>>
    BY <2>4, <2>10
  <2>23. Ruled(M - 1, u.node[p].keys, u.node[p].kids, h.lo, h.out, h.lo[p], h.hi[p])
    BY <2>7, <2>8, <2>14, <2>15, <2>20, <2>21
  <2>24. Len(u.node[p].keys) = M - 1 /\ Len(u.node[p].kids) = (M - 1) + 1 /\ u.node[p].kids # <<>>
    BY <2>7, <2>8, <2>10, <2>22
  <2> QED BY <2>21, <2>22, <2>23, <2>24, RuledGuides
<1>8. \A n \in DOMAIN u.node : Guides(h, n, u.node[n])
  BY <1>4, <1>6, <1>7
<1>9. ASSUME NEW m \in DOMAIN t.node, NEW n \in DOMAIN t.node, m # n, g.lev[m] = g.lev[n]
      PROVE  Off(g.lo[m], g.hi[m], g.lo[n], g.hi[n])
  <2>1. Apart(g, m, n)
    BY <1>1, <1>9 DEF Order
  <2> QED BY <2>1 DEF Apart, Off
<1>10. \A n \in DOMAIN t.node : g.lo[n] \in Int /\ g.hi[n] \in Int /\ g.lo[n] < g.hi[n]
  BY <1>3 DEF RangeOf
<1>11. ASSUME NEW m \in DOMAIN t.node, m # l, m # r, g.lev[m] = g.lev[l]
       PROVE  Apart(h, m, l) /\ Apart(h, l, m)
  <2>1. g.lev[m] = g.lev[r] /\ g.hi[l] = g.lo[r]
    BY <1>11 DEF Sibs
  <2>2. Off(g.lo[m], g.hi[m], g.lo[l], g.hi[l]) /\ Off(g.lo[m], g.hi[m], g.lo[r], g.hi[r])
    BY <2>1, <1>2, <1>9, <1>11
  <2>3. PICK a : a = g.lo[m]
    OBVIOUS
  <2>4. PICK b : b = g.hi[m]
    OBVIOUS
  <2>5. PICK c : c = g.lo[l]
    OBVIOUS
  <2>6. PICK d : d = g.lo[r]
    OBVIOUS
  <2>7. PICK e : e = g.hi[r]
    OBVIOUS
  <2>8. a \in Int /\ b \in Int /\ c \in Int /\ d \in Int /\ e \in Int /\ a < b /\ c < d /\ d < e
    BY <2>1, <2>3, <2>4, <2>5, <2>6, <2>7, <1>2, <1>10
  <2>9. Off(a, b, c, d) /\ Off(a, b, d, e)
    BY <2>1, <2>2, <2>3, <2>4, <2>5, <2>6, <2>7
  <2>10. Off(a, b, c, e)
    BY <2>8, <2>9, OffJoin
  <2>11. h.lo[m] = a /\ h.hi[m] = b /\ h.lo[l] = c /\ h.hi[l] = e
    BY <2>3, <2>4, <2>5, <2>7, <1>5, <1>11
  <2> QED BY <2>10, <2>11 DEF Off, Apart
<1>12. ASSUME NEW m \in DOMAIN u.node, NEW n \in DOMAIN u.node, m # n, h.lev[m] = h.lev[n]
       PROVE  Apart(h, m, n)
  <2>1. m \in DOMAIN t.node /\ n \in DOMAIN t.node /\ m # r /\ n # r /\ g.lev[m] = g.lev[n]
    BY <1>4, <1>5, <1>12
  <2>2. CASE m = l
    BY <2>1, <2>2, <1>11, <1>12
  <2>3. CASE n = l
    BY <2>1, <2>3, <1>11, <1>12
  <2>4. CASE m # l /\ n # l
    <3>1. h.lo[m] = g.lo[m] /\ h.hi[m] = g.hi[m] /\ h.lo[n] = g.lo[n] /\ h.hi[n] = g.hi[n]
      BY <2>1, <2>4, <1>5
    <3>2. Off(g.lo[m], g.hi[m], g.lo[n], g.hi[n])
      BY <2>1, <1>9, <1>12
    <3> QED BY <3>1, <3>2 DEF Off, Apart
  <2> QED BY <2>2, <2>3, <2>4
<1> QED BY <1>8, <1>12 DEF Order

JoinedIn(g, h, l, r) ==
    /\ RangeOf(h, l) /\ h.lo[l] = g.lo[l] /\ h.hi[l] = g.hi[r] /\ h.out[l] = g.hi[r]
    /\ g.lo[l] \in Int /\ g.hi[r] \in Int /\ g.lo[r] \in Int /\ g.hi[l] = g.lo[r]
    /\ g.lo[l] < g.lo[r] /\ g.lo[r] < g.hi[r]

\* The merged node has a range.
LEMMA JoinedRange ==
    ASSUME NEW t, NEW g, NEW h, SettledG(t, g), NEW p, NEW j, NEW l, NEW r,
           Sibs(t, g, p, j, l, r), JoinView(g, h, l, r)
    PROVE  JoinedIn(g, h, l, r)
<1>1. RangeOf(g, l) /\ RangeOf(g, r)
  BY DEF SettledG, TreeInv, Order, Guides, Sibs
<1>2. g.hi[l] = g.lo[r]
  BY DEF Sibs
<1>3. h.lo[l] = g.lo[l] /\ h.hi[l] = g.hi[r] /\ h.out[l] = g.hi[r]
  BY DEF JoinView
<1>4. /\ g.lo[l] \in Int /\ g.hi[r] \in Int /\ g.lo[r] \in Int
      /\ g.lo[l] < g.lo[r] /\ g.lo[r] < g.hi[r] /\ Least <= g.lo[l] /\ g.hi[r] <= Greatest
  BY <1>1, <1>2 DEF RangeOf
<1> QED BY <1>2, <1>3, <1>4 DEF RangeOf, JoinedIn

\* Leaf r has been emptied into leaf l, which takes its place in the chain.
LeafJoin(t, u, l, r) ==
    /\ u.node[l].keys = t.node[l].keys \o t.node[r].keys
    /\ u.node[l].vals = t.node[l].vals \o t.node[r].vals
    /\ u.node[l].next = t.node[r].next
    /\ u.last = IF t.node[r].next = NO_NODE THEN l ELSE t.last
    /\ t.node[r].next # NO_NODE => u.node[t.node[r].next].prev = l
    /\ \A n \in DOMAIN t.node : n # r =>
         /\ n # l => u.node[n].next = t.node[n].next
         /\ n # t.node[r].next => u.node[n].prev = t.node[n].prev

\* The leaves after a merge of two of them.
LEMMA LeafJoinLeaves ==
    ASSUME NEW t, NEW u, NEW g, SettledG(t, g), NEW p, NEW j, NEW l, NEW r, Sibs(t, g, p, j, l, r),
           MergeView(t, u, p, j, l, r), l \in LeafSet(t)
    PROVE  r \in LeafSet(t) /\ LeafSet(u) = LeafSet(t) \ {r}
<1>1. Arena(t) /\ Order(t, g) /\ Shape(t, g, {t.root})
  BY DEF SettledG, TreeInv
<1>2. p \in DOMAIN t.node /\ l \in DOMAIN t.node /\ r \in DOMAIN t.node /\ g.lev[l] = g.lev[r] /\ p # l /\ p # r /\ l # r
  BY DEF Sibs
<1>3. LevelOf(g, l, t.node[l]) /\ LevelOf(g, r, t.node[r]) /\ t.node[l].kids = <<>>
  BY <1>1, <1>2 DEF Shape, Hangs, LeafSet
<1>4. t.node[r].kids = <<>>
  BY <1>2, <1>3 DEF LevelOf
<1>5. u.node[l].kids = <<>>
  BY <1>3, <1>4 DEF MergeView
<1>6. t.node[p].kids # <<>> /\ u.node[p].kids # <<>>
  <2>1. PICK M : M = Len(t.node[p].keys)
    OBVIOUS
  <2>2. M \in Nat /\ j \in 1 .. M /\ Len(t.node[p].kids) = M + 1
    BY <2>1 DEF Sibs
  <2>3. Len(u.node[p].kids) = Len(t.node[p].kids) - 1
    BY MergeKids
  <2>4. Len(t.node[p].kids) # 0 /\ Len(u.node[p].kids) # 0
    BY <2>2, <2>3
  <2> QED BY <2>4
<1>7. /\ DOMAIN u.node = DOMAIN t.node \ {r}
      /\ \A n \in DOMAIN t.node : n # r => (n # p /\ n # l => u.node[n].kids = t.node[n].kids)
  BY DEF MergeView
<1> QED BY <1>2, <1>3, <1>4, <1>5, <1>6, <1>7 DEF LeafSet

\* Leaves next to each other in the tree are next to each other in the chain.
LEMMA SibsLinked ==
    ASSUME NEW t, NEW g, SettledG(t, g), NEW p, NEW j, NEW l, NEW r, Sibs(t, g, p, j, l, r),
           l \in LeafSet(t), r \in LeafSet(t)
    PROVE  t.node[l].next = r /\ t.node[r].prev = l
<1>1. Arena(t) /\ Order(t, g) /\ Shape(t, g, {t.root}) /\ Links(t, g)
  BY DEF SettledG, TreeInv
<1>2. LinksOf(t, g, l) /\ LinksOf(t, g, r)
  BY <1>1 DEF Links
<1>3. RangeOf(g, l) /\ RangeOf(g, r) /\ g.hi[l] = g.lo[r]
  BY <1>1 DEF Order, Guides, Sibs
<1>4. Greatest \in Int /\ Least \in Int
  BY BoundsExist
<1>5. t.node[l].next # NO_NODE
  <2>1. g.hi[l] # Greatest
    BY <1>3, <1>4 DEF RangeOf
  <2> QED BY <2>1, <1>2 DEF LinksOf
<1>6. PICK q : q = t.node[l].next
  OBVIOUS
<1>7. q \in LeafSet(t) /\ t.node[q].prev = l /\ g.lo[q] = g.hi[l]
  BY <1>2, <1>5, <1>6 DEF LinksOf
<1>8. RangeOf(g, q)
  BY <1>1, <1>7 DEF Order, Guides, LeafSet
<1>9. PICK k : k = g.lo[r]
  OBVIOUS
<1>10. k \in Int /\ g.lo[r] <= k /\ k < g.hi[r] /\ g.lo[q] <= k /\ k < g.hi[q]
  BY <1>3, <1>7, <1>8, <1>9 DEF RangeOf
<1>11. q = r
  BY <1>1, <1>7, <1>10, OneLeaf
<1> QED BY <1>6, <1>7, <1>11

\* The chain after a merge of two leaves.
LEMMA LeafJoinLinks ==
    ASSUME NEW t, NEW u, NEW g, NEW h, SettledG(t, g), NEW p, NEW j, NEW l, NEW r, Sibs(t, g, p, j, l, r),
           MergeView(t, u, p, j, l, r), LeafJoin(t, u, l, r), l \in LeafSet(t), JoinView(g, h, l, r)
    PROVE  Links(u, h)
<1>1. Arena(t) /\ Order(t, g) /\ Shape(t, g, {t.root}) /\ Links(t, g)
  BY DEF SettledG, TreeInv
<1>2. r \in LeafSet(t) /\ LeafSet(u) = LeafSet(t) \ {r}
  BY LeafJoinLeaves
<1>3. t.node[l].next = r /\ t.node[r].prev = l
  BY <1>2, SibsLinked
<1>4. PICK z : z = t.node[r].next
  OBVIOUS
<1>5. \A n \in LeafSet(t) : n \in DOMAIN t.node /\ n \in Int /\ n # NO_NODE
  BY <1>1, ArenaParts DEF LeafSet
<1>6. /\ u.node[l].next = z
      /\ u.last = IF z = NO_NODE THEN l ELSE t.last
      /\ z # NO_NODE => u.node[z].prev = l
      /\ \A n \in LeafSet(t) : n # r =>
         /\ n # l => u.node[n].next = t.node[n].next
         /\ n # z => u.node[n].prev = t.node[n].prev
  BY <1>4, <1>5 DEF LeafJoin
<1>7. u.first = t.first /\ l # r
  BY DEF MergeView, Sibs
<1>8. /\ h.lo = g.lo /\ h.hi[l] = g.hi[r]
      /\ \A n \in LeafSet(t) : n # l => h.hi[n] = g.hi[n]
  BY <1>5 DEF JoinView
<1>9. \A n \in LeafSet(t) :
        /\ t.node[n].next = NO_NODE => n = t.last /\ g.hi[n] = Greatest
        /\ t.node[n].next # NO_NODE => /\ t.node[n].next \in LeafSet(t) /\ t.node[t.node[n].next].prev = n
                                       /\ g.lo[t.node[n].next] = g.hi[n]
        /\ t.node[n].prev = NO_NODE => n = t.first /\ g.lo[n] = Least
        /\ t.node[n].prev # NO_NODE => t.node[n].prev \in LeafSet(t) /\ t.node[t.node[n].prev].next = n
  BY <1>1 DEF Links, LinksOf
<1>10. /\ t.first \in LeafSet(t) /\ t.node[t.first].prev = NO_NODE
       /\ t.last \in LeafSet(t) /\ t.node[t.last].next = NO_NODE
  BY <1>1 DEF Links
<1>11. z # NO_NODE => z \in LeafSet(t) /\ t.node[z].prev = r /\ g.lo[z] = g.hi[r] /\ z # r
  <2>1. z # NO_NODE => z \in LeafSet(t) /\ t.node[z].prev = r /\ g.lo[z] = g.hi[r]
    BY <1>2, <1>4, <1>9
  <2> QED BY <2>1, <1>3, <1>7
<1>12. z = NO_NODE => r = t.last /\ g.hi[r] = Greatest
  BY <1>2, <1>4, <1>9
<1>13. l \in LeafSet(u) /\ l \in LeafSet(t)
  BY <1>2, <1>7
<1>14. t.first \in LeafSet(u) /\ u.node[t.first].prev = NO_NODE
  <2>1. t.first # r
    BY <1>3, <1>5, <1>10, <1>13
  <2>2. t.first # z
    <3>1. z # NO_NODE => t.node[z].prev # NO_NODE
      BY <1>2, <1>5, <1>11
    <3> QED BY <3>1, <1>5, <1>10
  <2> QED BY <2>1, <2>2, <1>2, <1>6, <1>10
<1>15. u.last \in LeafSet(u) /\ u.node[u.last].next = NO_NODE
  <2>1. CASE z = NO_NODE
    BY <2>1, <1>6, <1>13
  <2>2. CASE z # NO_NODE
    <3>1. t.last # r
      BY <2>2, <1>4, <1>10
    <3>2. t.last # l
      BY <1>2, <1>3, <1>5, <1>10
    <3> QED BY <2>2, <3>1, <3>2, <1>2, <1>6, <1>10
  <2> QED BY <2>1, <2>2
<1>16. ASSUME NEW n \in LeafSet(u)
       PROVE  /\ u.node[n].next = NO_NODE => n = u.last /\ h.hi[n] = Greatest
              /\ u.node[n].next # NO_NODE => /\ u.node[n].next \in LeafSet(u) /\ u.node[u.node[n].next].prev = n
                                             /\ h.lo[u.node[n].next] = h.hi[n]
  <2>1. CASE n = l
    <3>1. CASE z = NO_NODE
      BY <2>1, <3>1, <1>6, <1>8, <1>12
    <3>2. CASE z # NO_NODE
      BY <2>1, <3>2, <1>2, <1>6, <1>8, <1>11
    <3> QED BY <3>1, <3>2
  <2>2. CASE n # l
    <3>1. n \in LeafSet(t) /\ n # r /\ u.node[n].next = t.node[n].next /\ h.hi[n] = g.hi[n]
      BY <2>2, <1>2, <1>6, <1>8
    <3>2. CASE t.node[n].next = NO_NODE
      <4>1. n = t.last /\ g.hi[n] = Greatest
        BY <3>1, <3>2, <1>9
      <4>2. z # NO_NODE
        BY <4>1, <3>1, <1>12
      <4> QED BY <4>1, <4>2, <3>1, <3>2, <1>6
    <3>3. CASE t.node[n].next # NO_NODE
      <4>1. PICK q : q = t.node[n].next
        OBVIOUS
      <4>2. q \in LeafSet(t) /\ t.node[q].prev = n /\ g.lo[q] = g.hi[n]
        BY <4>1, <3>1, <3>3, <1>9
      <4>3. q # r
        BY <4>2, <2>2, <1>3
      <4>4. q # z
        BY <4>2, <3>1, <3>3, <4>1, <1>11
      <4>5. u.node[q].prev = n /\ q \in LeafSet(u)
        BY <4>2, <4>3, <4>4, <1>2, <1>6
      <4> QED BY <4>1, <4>2, <4>5, <3>1, <3>3, <1>8
    <3> QED BY <3>2, <3>3
  <2> QED BY <2>1, <2>2
<1>17. ASSUME NEW n \in LeafSet(u)
       PROVE  /\ u.node[n].prev = NO_NODE => n = u.first /\ h.lo[n] = Least
              /\ u.node[n].prev # NO_NODE => u.node[n].prev \in LeafSet(u) /\ u.node[u.node[n].prev].next = n
  <2>1. n \in LeafSet(t) /\ n # r /\ n # NO_NODE
    BY <1>2, <1>5
  <2>2. CASE n = z
    <3>1. u.node[n].prev = l /\ u.node[l].next = n
      BY <2>1, <2>2, <1>6
    <3> QED BY <3>1, <1>5, <1>13
  <2>3. CASE n # z
    <3>1. u.node[n].prev = t.node[n].prev
      BY <2>1, <2>3, <1>6
    <3>2. CASE t.node[n].prev = NO_NODE
      BY <2>1, <3>1, <3>2, <1>7, <1>8, <1>9
    <3>3. CASE t.node[n].prev # NO_NODE
      <4>1. PICK q : q = t.node[n].prev
        OBVIOUS
      <4>2. q \in LeafSet(t) /\ t.node[q].next = n
        BY <4>1, <2>1, <3>3, <1>9
      <4>3. q # r
        BY <4>2, <2>3, <1>4
      <4>4. q # l
        BY <4>2, <2>1, <1>3
      <4>5. u.node[q].next = n /\ q \in LeafSet(u)
        BY <4>2, <4>3, <4>4, <1>2, <1>6
      <4> QED BY <4>1, <4>5, <3>1, <3>3
    <3> QED BY <3>2, <3>3
  <2> QED BY <2>2, <2>3
<1>18. \A n \in LeafSet(u) : LinksOf(u, h, n)
  BY <1>16, <1>17 DEF LinksOf
<1> QED BY <1>7, <1>14, <1>15, <1>18 DEF Links

\* The entries of two runs, one after the other.
LEMMA RunJoin ==
    ASSUME NEW A \in Nat, NEW B \in Nat, NEW ka, NEW kb, NEW kc, NEW a \in Int, NEW s \in Int, NEW b \in Int,
           a < s, s < b, Run(A, ka, a, s), Run(B, kb, s, b), Taken(A + B, A, kc, ka, kb)
    PROVE  Run(A + B, kc, a, b)
<1>1. /\ \A i \in 1 .. A : kc[i] = ka[i] /\ ka[i] \in Int /\ a <= ka[i] /\ ka[i] < s
      /\ \A i, k \in 1 .. A : i < k => ka[i] < ka[k]
      /\ \A i \in 1 .. B : kb[i] \in Int /\ s <= kb[i] /\ kb[i] < b
      /\ \A i, k \in 1 .. B : i < k => kb[i] < kb[k]
  BY DEF Run, Taken
<1>2. \A i \in 1 .. B : kc[A + i] = kb[i]
  <2>1. (A + B) - A = B
    OBVIOUS
  <2> QED BY <2>1 DEF Taken
<1>3. ASSUME NEW i \in 1 .. A + B
      PROVE  \/ i \in 1 .. A
             \/ i - A \in 1 .. B /\ kc[i] = kb[i - A]
  <2>1. CASE i > A
    <3>1. i - A \in 1 .. B /\ A + (i - A) = i
      BY <2>1
    <3> QED BY <3>1, <1>2
  <2> QED BY <2>1
<1>4. ASSUME NEW i \in 1 .. A + B PROVE kc[i] \in Int /\ a <= kc[i] /\ kc[i] < b
  <2>1. CASE i \in 1 .. A
    BY <2>1, <1>1
  <2>2. CASE i - A \in 1 .. B /\ kc[i] = kb[i - A]
    <3>1. kb[i - A] \in Int /\ s <= kb[i - A] /\ kb[i - A] < b
      BY <2>2, <1>1
    <3> QED BY <3>1, <2>2
  <2> QED BY <2>1, <2>2, <1>3
<1>5. ASSUME NEW i \in 1 .. A + B, NEW k \in 1 .. A + B, i < k PROVE kc[i] < kc[k]
  <2>1. CASE i \in 1 .. A /\ k \in 1 .. A
    BY <2>1, <1>1, <1>5
  <2>2. CASE i \in 1 .. A /\ k - A \in 1 .. B /\ kc[k] = kb[k - A]
    <3>1. kb[k - A] \in Int /\ s <= kb[k - A] /\ kc[i] \in Int /\ kc[i] < s
      BY <2>2, <1>1
    <3> QED BY <3>1, <2>2
  <2>3. CASE i - A \in 1 .. B /\ kc[i] = kb[i - A] /\ k - A \in 1 .. B /\ kc[k] = kb[k - A]
    <3>1. i - A < k - A
      BY <1>5
    <3> QED BY <3>1, <2>3, <1>1
  <2>4. CASE i - A \in 1 .. B /\ k \in 1 .. A
    BY <2>4, <1>5
  <2> QED BY <2>1, <2>2, <2>3, <2>4, <1>3
<1> QED BY <1>4, <1>5 DEF Run

\* The entries of a leaf are a run within its range.
LEMMA GuidesRun ==
    ASSUME NEW g, NEW n, NEW r, Guides(g, n, r), r.kids = <<>>, r.keys \in Seq(Int)
    PROVE  /\ Len(r.keys) \in Nat /\ Len(r.vals) = Len(r.keys) /\ RangeOf(g, n)
           /\ Run(Len(r.keys), r.keys, g.lo[n], g.hi[n])
<1>1. RangeOf(g, n) /\ Sorted(r.keys) /\ LeafKeys(g, n, r)
  BY DEF Guides
<1>2. \A i \in 1 .. Len(r.keys) : r.keys[i] \in Int
  OBVIOUS
<1> QED BY <1>1, <1>2 DEF Run, Sorted, LeafKeys

\* A run within its range makes a leaf.
LEMMA RunGuides ==
    ASSUME NEW g, NEW n, NEW r, RangeOf(g, n), r.kids = <<>>, NEW L, Len(r.keys) = L, Len(r.vals) = L,
           Run(L, r.keys, g.lo[n], g.hi[n])
    PROVE  Guides(g, n, r)
<1>1. Sorted(r.keys) /\ LeafKeys(g, n, r)
  BY DEF Run, Sorted, LeafKeys
<1> QED BY <1>1 DEF Guides

\* The merged leaf.
LEMMA LeafJoinGuides ==
    ASSUME NEW t, NEW u, NEW g, NEW h, SettledG(t, g), NEW p, NEW j, NEW l, NEW r, Sibs(t, g, p, j, l, r),
           MergeView(t, u, p, j, l, r), LeafJoin(t, u, l, r), l \in LeafSet(t), JoinView(g, h, l, r)
    PROVE  Guides(h, l, u.node[l])
<1>1. Arena(t) /\ Order(t, g)
  BY DEF SettledG, TreeInv
<1>2. r \in LeafSet(t) /\ LeafSet(u) = LeafSet(t) \ {r} /\ l # r
  <2>1. l # r
    BY DEF Sibs
  <2> QED BY <2>1, LeafJoinLeaves
<1>3. /\ l \in DOMAIN t.node /\ r \in DOMAIN t.node /\ t.node[l].kids = <<>> /\ t.node[r].kids = <<>>
      /\ u.node[l].kids = <<>>
  BY <1>2 DEF LeafSet
<1>4. PICK ka : ka = t.node[l].keys
  OBVIOUS
<1>5. PICK kb : kb = t.node[r].keys
  OBVIOUS
<1>6. PICK va : va = t.node[l].vals
  OBVIOUS
<1>7. PICK vb : vb = t.node[r].vals
  OBVIOUS
<1>8. ka \in Seq(Int) /\ kb \in Seq(Int) /\ va \in Seq(Value) /\ vb \in Seq(Value)
  BY <1>1, <1>3, <1>4, <1>5, <1>6, <1>7, KeysAreInts
<1>9. Guides(g, l, t.node[l]) /\ Guides(g, r, t.node[r])
  BY <1>1, <1>3, GuidesParts
<1>10. PICK A : A = Len(ka)
  OBVIOUS
<1>11. PICK B : B = Len(kb)
  OBVIOUS
<1>12. A \in Nat /\ Len(va) = A /\ Run(A, ka, g.lo[l], g.hi[l])
  BY <1>3, <1>4, <1>6, <1>8, <1>9, <1>10, GuidesRun
<1>13. B \in Nat /\ Len(vb) = B /\ Run(B, kb, g.lo[r], g.hi[r])
  BY <1>3, <1>5, <1>7, <1>8, <1>9, <1>11, GuidesRun
<1>14. PICK kc : kc = u.node[l].keys
  OBVIOUS
<1>15. PICK vc : vc = u.node[l].vals
  OBVIOUS
<1>16. kc = ka \o kb /\ vc = va \o vb
  BY <1>4, <1>5, <1>6, <1>7, <1>14, <1>15 DEF LeafJoin
<1>17. Len(kc) = A + B /\ Len(vc) = A + B /\ Taken(A + B, A, kc, ka, kb)
  <2>1. /\ Len(kc) = A + B /\ \A i \in 1 .. A : kc[i] = ka[i]
        /\ \A i \in 1 .. B : kc[A + i] = kb[i]
    BY <1>8, <1>10, <1>11, <1>16, ConcatProps
  <2>2. Len(vc) = A + B
    BY <1>8, <1>12, <1>13, <1>16, ConcatProps
  <2>3. (A + B) - A = B
    BY <1>12, <1>13
  <2> QED BY <2>1, <2>2, <2>3 DEF Taken
<1>18. /\ RangeOf(h, l) /\ h.lo[l] = g.lo[l] /\ h.hi[l] = g.hi[r]
       /\ g.lo[l] \in Int /\ g.hi[r] \in Int /\ g.lo[r] \in Int /\ g.hi[l] = g.lo[r]
       /\ g.lo[l] < g.lo[r] /\ g.lo[r] < g.hi[r]
  <2>1. JoinedIn(g, h, l, r)
    BY JoinedRange
  <2> QED BY <2>1 DEF JoinedIn
<1>19. PICK a : a = g.lo[l]
  OBVIOUS
<1>20. PICK s : s = g.lo[r]
  OBVIOUS
<1>21. PICK b : b = g.hi[r]
  OBVIOUS
<1>22. a \in Int /\ s \in Int /\ b \in Int /\ a < s /\ s < b /\ Run(A, ka, a, s) /\ Run(B, kb, s, b)
  BY <1>12, <1>13, <1>18, <1>19, <1>20, <1>21
<1>23. Run(A + B, kc, a, b)
  BY <1>12, <1>13, <1>17, <1>22, RunJoin
<1>24. Run(A + B, u.node[l].keys, h.lo[l], h.hi[l]) /\ Len(u.node[l].keys) = A + B /\ Len(u.node[l].vals) = A + B
  BY <1>14, <1>15, <1>17, <1>18, <1>19, <1>21, <1>23
<1> QED BY <1>3, <1>18, <1>24, RunGuides

\* No entry is lost.
LEMMA LeafJoinEntries ==
    ASSUME NEW t, NEW u, NEW g, SettledG(t, g), NEW p, NEW j, NEW l, NEW r, Sibs(t, g, p, j, l, r),
           MergeView(t, u, p, j, l, r), LeafJoin(t, u, l, r), l \in LeafSet(t)
    PROVE  SameEntries(t, u)
<1>1. Arena(t) /\ Order(t, g)
  BY DEF SettledG, TreeInv
<1>2. r \in LeafSet(t) /\ LeafSet(u) = LeafSet(t) \ {r} /\ l # r
  <2>1. l # r
    BY DEF Sibs
  <2> QED BY <2>1, LeafJoinLeaves
<1>3. /\ l \in DOMAIN t.node /\ r \in DOMAIN t.node /\ t.node[l].kids = <<>> /\ t.node[r].kids = <<>>
      /\ l \in LeafSet(u)
  BY <1>2 DEF LeafSet
<1>4. PICK ka : ka = t.node[l].keys
  OBVIOUS
<1>5. PICK kb : kb = t.node[r].keys
  OBVIOUS
<1>6. PICK va : va = t.node[l].vals
  OBVIOUS
<1>7. PICK vb : vb = t.node[r].vals
  OBVIOUS
<1>8. ka \in Seq(Int) /\ kb \in Seq(Int) /\ va \in Seq(Value) /\ vb \in Seq(Value)
  BY <1>1, <1>3, <1>4, <1>5, <1>6, <1>7, KeysAreInts
<1>9. Guides(g, l, t.node[l]) /\ Guides(g, r, t.node[r])
  BY <1>1, <1>3, GuidesParts
<1>10. PICK A : A = Len(ka)
  OBVIOUS
<1>11. PICK B : B = Len(kb)
  OBVIOUS
<1>12. A \in Nat /\ Len(va) = A /\ B \in Nat /\ Len(vb) = B
  BY <1>3, <1>4, <1>5, <1>6, <1>7, <1>8, <1>9, <1>10, <1>11, GuidesRun
<1>14. PICK kc : kc = u.node[l].keys
  OBVIOUS
<1>15. PICK vc : vc = u.node[l].vals
  OBVIOUS
<1>16. kc = ka \o kb /\ vc = va \o vb
  BY <1>4, <1>5, <1>6, <1>7, <1>14, <1>15 DEF LeafJoin
<1>17. /\ Len(kc) = A + B
       /\ \A i \in 1 .. A : kc[i] = ka[i] /\ vc[i] = va[i]
       /\ \A i \in 1 .. B : kc[A + i] = kb[i] /\ vc[A + i] = vb[i]
  <2>1. /\ Len(kc) = A + B /\ \A i \in 1 .. A : kc[i] = ka[i]
        /\ \A i \in 1 .. B : kc[A + i] = kb[i]
    BY <1>8, <1>10, <1>11, <1>16, ConcatProps
  <2>2. /\ \A i \in 1 .. A : vc[i] = va[i]
        /\ \A i \in 1 .. B : vc[A + i] = vb[i]
    BY <1>8, <1>12, <1>16, ConcatProps
  <2> QED BY <2>1, <2>2
<1>18. \A n \in LeafSet(t) : n # r /\ n # l => u.node[n].keys = t.node[n].keys /\ u.node[n].vals = t.node[n].vals
  <2>1. p \notin LeafSet(t)
    <3>1. Len(t.node[p].kids) # 0
      BY DEF Sibs
    <3> QED BY <3>1 DEF LeafSet
  <2>2. \A n \in LeafSet(t) : n \in DOMAIN t.node /\ n # p
    BY <2>1 DEF LeafSet
  <2> QED BY <2>2 DEF MergeView
<1>19. ASSUME NEW k, NEW v, Has(t, k, v) PROVE Has(u, k, v)
  <2>1. PICK n \in LeafSet(t) : \E i \in 1 .. Len(t.node[n].keys) : t.node[n].keys[i] = k /\ t.node[n].vals[i] = v
    BY <1>19 DEF Has
  <2>2. PICK i \in 1 .. Len(t.node[n].keys) : t.node[n].keys[i] = k /\ t.node[n].vals[i] = v
    BY <2>1
  <2>3. CASE n # l /\ n # r
    BY <2>2, <2>3, <1>2, <1>18 DEF Has
  <2>4. CASE n = l
    <3>1. i \in 1 .. A /\ ka[i] = k /\ va[i] = v
      BY <2>2, <2>4, <1>4, <1>6, <1>10
    <3>2. i \in 1 .. A + B /\ kc[i] = k /\ vc[i] = v
      BY <3>1, <1>12, <1>17
    <3> QED BY <3>2, <1>3, <1>14, <1>15, <1>17 DEF Has
  <2>5. CASE n = r
    <3>1. i \in 1 .. B /\ kb[i] = k /\ vb[i] = v
      BY <2>2, <2>5, <1>5, <1>7, <1>11
    <3>2. A + i \in 1 .. A + B
      BY <3>1, <1>12
    <3>3. kc[A + i] = k /\ vc[A + i] = v
      BY <3>1, <1>17
    <3> QED BY <3>2, <3>3, <1>3, <1>14, <1>15, <1>17 DEF Has
  <2> QED BY <2>3, <2>4, <2>5
<1>20. ASSUME NEW k, NEW v, Has(u, k, v) PROVE Has(t, k, v)
  <2>1. PICK n \in LeafSet(u) : \E i \in 1 .. Len(u.node[n].keys) : u.node[n].keys[i] = k /\ u.node[n].vals[i] = v
    BY <1>20 DEF Has
  <2>2. PICK i \in 1 .. Len(u.node[n].keys) : u.node[n].keys[i] = k /\ u.node[n].vals[i] = v
    BY <2>1
  <2>3. CASE n # l
    BY <2>2, <2>3, <1>2, <1>18 DEF Has
  <2>4. CASE n = l
    <3>1. i \in 1 .. A + B /\ kc[i] = k /\ vc[i] = v
      BY <2>2, <2>4, <1>14, <1>15, <1>17
    <3>2. CASE i <= A
      <4>1. i \in 1 .. A
        BY <3>1, <3>2, <1>12
      <4>2. ka[i] = k /\ va[i] = v
        BY <4>1, <3>1, <1>17
      <4> QED BY <4>1, <4>2, <1>4, <1>6, <1>10 DEF Has
    <3>3. CASE ~(i <= A)
      <4>1. PICK b : b = i - A
        OBVIOUS
      <4>2. b \in 1 .. B /\ A + b = i
        BY <4>1, <3>1, <3>3, <1>12
      <4>3. kb[b] = k /\ vb[b] = v
        BY <4>2, <3>1, <1>17
      <4> QED BY <4>2, <4>3, <1>2, <1>5, <1>7, <1>11 DEF Has
    <3> QED BY <3>2, <3>3
  <2> QED BY <2>3, <2>4
<1> QED BY <1>19, <1>20 DEF SameEntries

\* What is the same for leaves and internal nodes.
LEMMA MergeInv ==
    ASSUME NEW t, NEW u, NEW g, NEW h, SettledG(t, g), NEW p, NEW j, NEW l, NEW r, Sibs(t, g, p, j, l, r),
           MergeView(t, u, p, j, l, r), JoinView(g, h, l, r), Arena(u),
           Guides(h, l, u.node[l]), Links(u, h), SameEntries(t, u)
    PROVE  SettledG(u, h)
<1>1. Arena(t) /\ t.len = Cardinality(KeySet(t)) /\ RootTop(t, g)
      /\ \A n \in DOMAIN t.node : g.out[n] = g.hi[n]
  BY DEF SettledG, TreeInv
<1>2. h.lev = g.lev
  BY DEF JoinView
<1>3. Shape(u, h, {u.root}) /\ Order(u, h)
  BY <1>2, MergeShape, MergeOrder
<1>4. KeySet(t) = KeySet(u)
  BY <1>1, SameKeySet
<1>5. /\ DOMAIN u.node = DOMAIN t.node \ {r} /\ u.root = t.root /\ u.len = t.len /\ u.height = t.height
      /\ u.node[t.root].parent = IF t.root \in ToSet(t.node[r].kids) THEN l ELSE t.node[t.root].parent
  BY <1>1 DEF MergeView, Sibs, RootTop
<1>6. t.root # r /\ t.root # l /\ r \in DOMAIN t.node
  BY DEF Sibs
<1>7. t.root \notin ToSet(t.node[r].kids)
  <2>1. SUFFICES ASSUME t.root \in ToSet(t.node[r].kids) PROVE FALSE
    OBVIOUS
  <2>2. t.node[r].kids \in Seq(Int)
    BY <1>1, <1>6, KeysAreInts
  <2>3. PICK b \in 1 .. Len(t.node[r].kids) : t.node[r].kids[b] = t.root
    BY <2>1, <2>2, ToSetIs
  <2>4. Shape(t, g, {t.root})
    BY DEF SettledG, TreeInv
  <2> QED BY <2>3, <2>4, <1>6, KidParts
<1>8. \A n \in DOMAIN t.node : n \in Int
  BY <1>1, ArenaParts
<1>9. RootTop(u, h)
  BY <1>1, <1>5, <1>6, <1>7, <1>8 DEF RootTop, JoinView
<1>10. \A n \in DOMAIN u.node : h.out[n] = h.hi[n]
  BY <1>1, <1>5, <1>8 DEF JoinView
<1> QED BY <1>1, <1>3, <1>4, <1>5, <1>9, <1>10 DEF SettledG, TreeInv

\* Two leaves have been merged.
LEMMA LeafJoinInv ==
    ASSUME NEW t, NEW u, NEW g, SettledG(t, g), NEW p, NEW j, NEW l, NEW r, Sibs(t, g, p, j, l, r),
           MergeView(t, u, p, j, l, r), LeafJoin(t, u, l, r), l \in LeafSet(t), Arena(u)
    PROVE  SettledG(u, JoinG(g, l, r)) /\ SameEntries(t, u)
<1>1. PICK h : h = JoinG(g, l, r)
  OBVIOUS
<1>2. l \in Int
  BY ArenaParts DEF SettledG, TreeInv, Sibs
<1>3. JoinView(g, h, l, r)
  BY <1>1, <1>2, JoinParts
<1>4. Guides(h, l, u.node[l]) /\ Links(u, h) /\ SameEntries(t, u)
  BY <1>3, LeafJoinGuides, LeafJoinLinks, LeafJoinEntries
<1>5. SettledG(u, h)
  BY <1>3, <1>4, MergeInv
<1> QED BY <1>1, <1>4, <1>5

\* Internal node r has been emptied into internal node l, with key j of p between.
InnerJoin(t, u, p, j, l, r) ==
    /\ u.node[l].keys = t.node[l].keys \o <<t.node[p].keys[j]>> \o t.node[r].keys
    /\ u.last = t.last
    /\ \A n \in DOMAIN t.node : n # r =>
         u.node[n].vals = t.node[n].vals /\ u.node[n].next = t.node[n].next /\ u.node[n].prev = t.node[n].prev

Chained(A, B, s, u, w) ==
    /\ A \in Nat /\ B \in Nat /\ Len(w) = A + B
    /\ \A i \in 1 .. A : w[i] = s[i]
    /\ \A i \in 1 .. B : w[A + i] = u[i]

\* A concatenation, slot by slot.
LEMMA ConcatDoes ==
    ASSUME NEW S, NEW s \in Seq(S), NEW u \in Seq(S), NEW A, NEW B, A = Len(s), B = Len(u),
           NEW w, w = s \o u
    PROVE  w \in Seq(S) /\ Chained(A, B, s, u, w)
BY ConcatProps DEF Chained

JoinedSeqs(M, N, s, ks, cs, ka, ca, kb, cb) ==
    /\ Parted(M, N, s, ks, cs, ka, ca, kb, cb)
    /\ Len(ks) = M + 1 + N /\ Len(cs) = M + 1 + N + 1 /\ ks \in Seq(Key) /\ cs \in Seq(Int) /\ cs # <<>>

\* Where the keys and the kids of the merged node come from.
LEMMA JoinedParts ==
    ASSUME NEW ka \in Seq(Key), NEW kb \in Seq(Key), NEW s \in Key, NEW ca \in Seq(Int), NEW cb \in Seq(Int),
           NEW M \in Nat, NEW N \in Nat, Len(ka) = M, Len(kb) = N, Len(ca) = M + 1, Len(cb) = N + 1,
           NEW ks, NEW cs, ks = ka \o <<s>> \o kb, cs = ca \o cb
    PROVE  JoinedSeqs(M, N, s, ks, cs, ka, ca, kb, cb)
<1>1. PICK k1 : k1 = ka \o <<s>>
  OBVIOUS
<1>2. <<s>> \in Seq(Key) /\ Len(<<s>>) = 1 /\ <<s>>[1] = s
  OBVIOUS
<1>3. /\ k1 \in Seq(Key) /\ Len(k1) = M + 1 /\ \A i \in 1 .. M : k1[i] = ka[i]
      /\ k1[M + 1] = s
  <2>1. /\ k1 \in Seq(Key) /\ Len(k1) = M + 1 /\ \A i \in 1 .. M : k1[i] = ka[i]
        /\ \A i \in 1 .. 1 : k1[M + i] = <<s>>[i]
    <3>1. k1 \in Seq(Key) /\ Chained(M, 1, ka, <<s>>, k1)
      BY <1>1, <1>2, ConcatDoes
    <3> QED BY <3>1 DEF Chained
  <2>2. 1 \in 1 .. 1
    OBVIOUS
  <2> QED BY <2>1, <2>2, <1>2
<1>4. /\ ks \in Seq(Key) /\ Len(ks) = M + 1 + N /\ \A i \in 1 .. M + 1 : ks[i] = k1[i]
      /\ \A i \in 1 .. N : ks[M + 1 + i] = kb[i]
  <2>1. ks = k1 \o kb
    BY <1>1
  <2>2. ks \in Seq(Key) /\ Chained(M + 1, N, k1, kb, ks)
    BY <2>1, <1>3, ConcatDoes
  <2> QED BY <2>2 DEF Chained
<1>5. /\ cs \in Seq(Int) /\ Len(cs) = (M + 1) + (N + 1) /\ \A i \in 1 .. M + 1 : cs[i] = ca[i]
      /\ \A i \in 1 .. N + 1 : cs[M + 1 + i] = cb[i]
  <2>1. cs \in Seq(Int) /\ Chained(M + 1, N + 1, ca, cb, cs)
    BY ConcatDoes
  <2> QED BY <2>1 DEF Chained
<1>6. (\A i \in 1 .. M : ks[i] = ka[i]) /\ ks[M + 1] = s
  <2>1. \A i \in 1 .. M : i \in 1 .. M + 1
    OBVIOUS
  <2>2. M + 1 \in 1 .. M + 1
    OBVIOUS
  <2> QED BY <2>1, <2>2, <1>3, <1>4
<1>7. Len(cs) = M + 1 + N + 1 /\ Len(cs) # 0
  BY <1>5
<1>8. cs # <<>>
  BY <1>7
<1> QED BY <1>4, <1>5, <1>6, <1>7, <1>8 DEF Parted, JoinedSeqs

\* The merged internal node.
LEMMA InnerJoinGuides ==
    ASSUME NEW t, NEW u, NEW g, NEW h, SettledG(t, g), NEW p, NEW j, NEW l, NEW r, Sibs(t, g, p, j, l, r),
           MergeView(t, u, p, j, l, r), InnerJoin(t, u, p, j, l, r), t.node[l].kids # <<>>, JoinView(g, h, l, r)
    PROVE  Guides(h, l, u.node[l]) /\ t.node[r].kids # <<>> /\ u.node[l].kids # <<>>
<1>1. Arena(t) /\ Order(t, g) /\ Shape(t, g, {t.root})
  BY DEF SettledG, TreeInv
<1>2. /\ l \in DOMAIN t.node /\ r \in DOMAIN t.node /\ g.lev[l] = g.lev[r] /\ l # r
      /\ t.node[l].parent = p /\ p # l /\ p # r
  BY DEF Sibs
<1>3. t.node[r].kids # <<>>
  <2>1. LevelOf(g, l, t.node[l]) /\ LevelOf(g, r, t.node[r])
    BY <1>1, <1>2 DEF Shape, Hangs
  <2> QED BY <2>1, <1>2 DEF LevelOf
<1>4. PICK ka : ka = t.node[l].keys
  OBVIOUS
<1>5. PICK kb : kb = t.node[r].keys
  OBVIOUS
<1>6. PICK ca : ca = t.node[l].kids
  OBVIOUS
<1>7. PICK cb : cb = t.node[r].kids
  OBVIOUS
<1>8. PICK s : s = t.node[p].keys[j]
  OBVIOUS
<1>9. /\ ka \in Seq(Int) /\ kb \in Seq(Int) /\ ka \in Seq(Key) /\ kb \in Seq(Key)
      /\ ca \in Seq(Int) /\ cb \in Seq(Int)
  BY <1>1, <1>2, <1>4, <1>5, <1>6, <1>7, KeysAreInts
<1>10. s \in Key /\ s \in Int /\ g.hi[l] = s /\ g.lo[r] = s
  BY <1>8 DEF Sibs
<1>11. Guides(g, l, t.node[l]) /\ Guides(g, r, t.node[r])
  BY <1>1, <1>2, GuidesParts
<1>12. PICK M : M = Len(ka)
  OBVIOUS
<1>13. PICK N : N = Len(kb)
  OBVIOUS
<1>14. PICK lo : lo = g.lo
  OBVIOUS
<1>15. PICK out : out = g.out
  OBVIOUS
<1>16. PICK a : a = g.lo[l]
  OBVIOUS
<1>17. PICK b : b = g.hi[r]
  OBVIOUS
<1>18. M \in Nat /\ Len(ca) = M + 1 /\ Ruled(M, ka, ca, lo, out, a, s)
  BY <1>4, <1>6, <1>9, <1>10, <1>11, <1>12, <1>14, <1>15, <1>16, GuidesRuled
<1>19. N \in Nat /\ Len(cb) = N + 1 /\ Ruled(N, kb, cb, lo, out, s, b)
  BY <1>3, <1>5, <1>7, <1>9, <1>10, <1>11, <1>13, <1>14, <1>15, <1>17, GuidesRuled
<1>20. PICK ks : ks = u.node[l].keys
  OBVIOUS
<1>21. PICK cs : cs = u.node[l].kids
  OBVIOUS
<1>22. ks = ka \o <<s>> \o kb /\ cs = ca \o cb
  BY <1>4, <1>5, <1>6, <1>7, <1>8, <1>20, <1>21 DEF InnerJoin, MergeView
<1>23. /\ Parted(M, N, s, ks, cs, ka, ca, kb, cb)
       /\ Len(ks) = M + 1 + N /\ Len(cs) = M + 1 + N + 1 /\ cs # <<>>
  <2>1. /\ ka \in Seq(Key) /\ kb \in Seq(Key) /\ s \in Key /\ ca \in Seq(Int) /\ cb \in Seq(Int)
        /\ M \in Nat /\ N \in Nat /\ Len(ka) = M /\ Len(kb) = N /\ Len(ca) = M + 1 /\ Len(cb) = N + 1
        /\ ks = ka \o <<s>> \o kb /\ cs = ca \o cb
    BY <1>9, <1>10, <1>12, <1>13, <1>18, <1>19, <1>22
  <2>2. JoinedSeqs(M, N, s, ks, cs, ka, ca, kb, cb)
    BY ONLY <2>1, JoinedParts
  <2> QED BY <2>2 DEF JoinedSeqs
<1>24. JoinedIn(g, h, l, r)
  BY JoinedRange
<1>25. a \in Int /\ b \in Int /\ a < s /\ s < b /\ h.lo[l] = a /\ h.hi[l] = b /\ RangeOf(h, l)
  BY <1>10, <1>16, <1>17, <1>24 DEF JoinedIn
<1>26. Ruled(M + 1 + N, ks, cs, lo, out, a, b)
  BY <1>10, <1>18, <1>19, <1>23, <1>25, RuledJoin
<1>27. PICK lo2 : lo2 = h.lo
  OBVIOUS
<1>28. PICK out2 : out2 = h.out
  OBVIOUS
<1>29. ASSUME NEW c \in DOMAIN t.node, c # l PROVE lo2[c] = lo[c] /\ out2[c] = out[c]
  <2>1. c \in Int
    BY <1>1, ArenaParts
  <2> QED BY <2>1, <1>14, <1>15, <1>27, <1>28, <1>29 DEF JoinView
<1>30. \A i \in 1 .. M + 1 + N + 1 : lo2[cs[i]] = lo[cs[i]] /\ out2[cs[i]] = out[cs[i]]
  <2>1. ASSUME NEW i \in 1 .. M + 1 + N + 1 PROVE cs[i] \in DOMAIN t.node /\ cs[i] # l
    <3>1. BothOf(ca, cb, cs)
      BY <1>9, <1>22, ConcatSlots
    <3>2. (\E x \in 1 .. Len(ca) : cs[i] = ca[x]) \/ (\E y \in 1 .. Len(cb) : cs[i] = cb[y])
      BY <3>1, <1>23 DEF BothOf
    <3>3. CASE \E x \in 1 .. Len(ca) : cs[i] = ca[x]
      BY <3>3, <1>1, <1>2, <1>6, KidParts
    <3>4. CASE \E y \in 1 .. Len(cb) : cs[i] = cb[y]
      <4>1. PICK y \in 1 .. Len(t.node[r].kids) : cs[i] = t.node[r].kids[y]
        BY <3>4, <1>7
      <4>2. cs[i] \in DOMAIN t.node /\ t.node[cs[i]].parent = r
        BY <4>1, <1>1, <1>2, KidParts
      <4> QED BY <4>2, <1>2
    <3> QED BY <3>2, <3>3, <3>4
  <2> QED BY <2>1, <1>29
<1>31. PICK L : L = M + 1 + N
  OBVIOUS
<1>32. L \in Nat /\ Len(ks) = L /\ Len(cs) = L + 1
  BY <1>18, <1>19, <1>23, <1>31
<1>33. Ruled(L, ks, cs, lo2, out2, a, b)
  <2>1. Ruled(L, ks, cs, lo, out, a, b) /\ \A i \in 1 .. L + 1 : lo2[cs[i]] = lo[cs[i]] /\ out2[cs[i]] = out[cs[i]]
    BY <1>26, <1>30, <1>31
  <2> QED BY <2>1, <1>32, RuledMove
<1>34. /\ Ruled(L, u.node[l].keys, u.node[l].kids, h.lo, h.out, h.lo[l], h.hi[l])
       /\ Len(u.node[l].keys) = L /\ Len(u.node[l].kids) = L + 1 /\ u.node[l].kids # <<>>
  BY <1>20, <1>21, <1>23, <1>25, <1>27, <1>28, <1>32, <1>33
<1>35. Guides(h, l, u.node[l])
  BY <1>25, <1>32, <1>34, RuledGuides
<1> QED BY <1>3, <1>34, <1>35

\* Two internal nodes have been merged.
LEMMA InnerJoinInv ==
    ASSUME NEW t, NEW u, NEW g, SettledG(t, g), NEW p, NEW j, NEW l, NEW r, Sibs(t, g, p, j, l, r),
           MergeView(t, u, p, j, l, r), InnerJoin(t, u, p, j, l, r), t.node[l].kids # <<>>, Arena(u)
    PROVE  SettledG(u, JoinG(g, l, r)) /\ SameEntries(t, u)
<1>1. PICK h : h = JoinG(g, l, r)
  OBVIOUS
<1>2. l \in Int /\ Links(t, g) /\ \A n \in DOMAIN t.node : n \in Int
  BY ArenaParts DEF SettledG, TreeInv, Sibs
<1>3. JoinView(g, h, l, r)
  BY <1>1, <1>2, JoinParts
<1>4. Guides(h, l, u.node[l]) /\ t.node[r].kids # <<>> /\ u.node[l].kids # <<>>
  BY <1>3, InnerJoinGuides
<1>5. t.node[p].kids # <<>> /\ u.node[p].kids # <<>>
  <2>1. PICK M : M = Len(t.node[p].keys)
    OBVIOUS
  <2>2. M \in Nat /\ j \in 1 .. M /\ Len(t.node[p].kids) = M + 1
    BY <2>1 DEF Sibs
  <2>3. Len(u.node[p].kids) = Len(t.node[p].kids) - 1
    BY MergeKids
  <2>4. Len(t.node[p].kids) # 0 /\ Len(u.node[p].kids) # 0
    BY <2>2, <2>3
  <2> QED BY <2>4
<1>6. /\ DOMAIN u.node = DOMAIN t.node \ {r} /\ u.first = t.first
      /\ \A n \in DOMAIN t.node : n # r =>
         /\ n # p /\ n # l => u.node[n].keys = t.node[n].keys /\ u.node[n].kids = t.node[n].kids
  BY DEF MergeView
<1>7. /\ u.last = t.last
      /\ \A n \in DOMAIN t.node : n # r =>
         u.node[n].vals = t.node[n].vals /\ u.node[n].next = t.node[n].next /\ u.node[n].prev = t.node[n].prev
  BY DEF InnerJoin
<1>8. p \in DOMAIN t.node /\ l \in DOMAIN t.node /\ r \in DOMAIN t.node
  BY DEF Sibs
<1>9. LeafSet(u) = LeafSet(t)
  BY <1>4, <1>5, <1>6, <1>8 DEF LeafSet
<1>10. \A n \in LeafSet(t) : n \in DOMAIN t.node /\ n # p /\ n # l /\ n # r
  BY <1>4, <1>5 DEF LeafSet
<1>11. LeavesStay(t, u)
  BY <1>6, <1>7, <1>9, <1>10 DEF LeavesStay
<1>12. Links(u, h)
  <2>1. \A n \in LeafSet(t) : h.lo[n] = g.lo[n] /\ h.hi[n] = g.hi[n]
    BY <1>2, <1>3, <1>10 DEF JoinView
  <2> QED BY <2>1, <1>2, <1>11, LinksStay
<1>13. SameEntries(t, u)
  BY <1>11, LeavesStaySame
<1>14. SettledG(u, h)
  BY <1>3, <1>4, <1>12, <1>13, MergeInv
<1> QED BY <1>1, <1>13, <1>14

RefittedView(t, u, f, len) ==
    /\ u.node = f /\ u.free = t.free /\ u.hi = t.hi /\ u.root = t.root /\ u.first = t.first
    /\ u.last = t.last /\ u.len = len /\ u.height = t.height /\ DOMAIN u.node = DOMAIN t.node

\* New contents for the nodes.
LEMMA Refitted ==
    ASSUME NEW t, Arena(t), NEW f \in [DOMAIN t.node -> NodeRec], NEW u, NEW len,
           u = TreeOf(f, t.free, t.hi, t.root, t.first, t.last, len, t.height)
    PROVE  Arena(u) /\ RefittedView(t, u, f, len)
<1>1. /\ u.node = f /\ u.free = t.free /\ u.hi = t.hi /\ u.root = t.root /\ u.first = t.first
      /\ u.last = t.last /\ u.len = len /\ u.height = t.height
  BY DEF TreeOf
<1>2. DOMAIN u.node = DOMAIN t.node
  BY <1>1
<1>3. u = [node |-> u.node, free |-> u.free, hi |-> u.hi, root |-> u.root,
           first |-> u.first, last |-> u.last, len |-> u.len, height |-> u.height]
  BY <1>1 DEF TreeOf
<1>4. Arena(u)
  BY <1>1, <1>2, <1>3 DEF Arena
<1> QED BY <1>1, <1>2, <1>4 DEF RefittedView

PairView(t, u, p, ks, cs) ==
    /\ SameFrame(t, u)
    /\ u.node[p].keys = ks /\ u.node[p].kids = cs
    /\ \A n \in DOMAIN t.node :
         /\ n # p => u.node[n] = t.node[n]
         /\ u.node[n].parent = t.node[n].parent /\ u.node[n].vals = t.node[n].vals
         /\ u.node[n].prev = t.node[n].prev /\ u.node[n].next = t.node[n].next

Pair(t, p, ks, cs) == [t EXCEPT !.node[p].keys = ks, !.node[p].kids = cs]

\* New keys and kids for one node.
LEMMA PairEffect ==
    ASSUME NEW t, Arena(t), NEW p \in DOMAIN t.node, NEW ks \in Seq(Key), NEW cs \in Seq(Int), NEW u,
           u = Pair(t, p, ks, cs)
    PROVE  Arena(u) /\ PairView(t, u, p, ks, cs)
<1>1. t = TreeOf(t.node, t.free, t.hi, t.root, t.first, t.last, t.len, t.height)
  BY ArenaParts
<1>2. PICK f0 : f0 = t.node
  OBVIOUS
<1>3. PICK D : D = DOMAIN t.node
  OBVIOUS
<1>4. f0 \in [D -> NodeRec] /\ p \in D
  BY <1>2, <1>3 DEF Arena
<1>5. PICK f1 : f1 = WithKeys(f0, p, ks)
  OBVIOUS
<1>6. f1 \in [D -> NodeRec] /\ KeysSet(f0, f1, p, ks)
  BY <1>4, <1>5, SetKeys
<1>7. PICK f2 : f2 = WithKids(f1, p, cs)
  OBVIOUS
<1>8. f2 \in [D -> NodeRec] /\ KidsSet(f1, f2, p, cs)
  BY <1>4, <1>6, <1>7, SetKids
<1>9. u = TreeOf(f2, t.free, t.hi, t.root, t.first, t.last, t.len, t.height)
  BY <1>1, <1>2, <1>5, <1>7 DEF TreeOf, WithKeys, WithKids, Pair
<1>10. /\ Arena(u) /\ u.node = f2 /\ u.free = t.free /\ u.hi = t.hi /\ u.root = t.root /\ u.first = t.first
       /\ u.last = t.last /\ u.len = t.len /\ u.height = t.height /\ DOMAIN u.node = DOMAIN t.node
  <2>1. f2 \in [DOMAIN t.node -> NodeRec]
    BY <1>3, <1>8
  <2>2. Arena(u) /\ RefittedView(t, u, f2, t.len)
    BY ONLY <2>1, <1>9, Arena(t), Refitted
  <2> QED BY <2>2 DEF RefittedView
<1>11. SameFrame(t, u)
  BY <1>10 DEF SameFrame
<1>12. DOMAIN f0 = D /\ DOMAIN f1 = D /\ DOMAIN f2 = D
  BY <1>4, <1>6, <1>8
<1>13. f2[p].keys = ks /\ f2[p].kids = cs
  BY <1>4, <1>6, <1>8, <1>12 DEF KeysSet, KidsSet
<1>14. ASSUME NEW n \in D
       PROVE  /\ n # p => f2[n] = f0[n]
              /\ f2[n].parent = f0[n].parent /\ f2[n].vals = f0[n].vals
              /\ f2[n].prev = f0[n].prev /\ f2[n].next = f0[n].next
  BY <1>6, <1>8, <1>12 DEF KeysSet, KidsSet
<1> QED BY <1>2, <1>3, <1>10, <1>11, <1>13, <1>14 DEF PairView

Rewrite(t, l, ks, vs, len) == [t EXCEPT !.node[l].keys = ks, !.node[l].vals = vs, !.len = len]

\* New keys and values for one node.
LEMMA RewriteEffect ==
    ASSUME NEW t, Arena(t), NEW l \in DOMAIN t.node, NEW ks \in Seq(Key), NEW vs \in Seq(Value), NEW u, NEW len,
           u = Rewrite(t, l, ks, vs, len)
    PROVE  Rewritten(t, u, l, ks, vs) /\ u.len = len
<1>1. t = TreeOf(t.node, t.free, t.hi, t.root, t.first, t.last, t.len, t.height)
  BY ArenaParts
<1>2. PICK r : r = t.node[l]
  OBVIOUS
<1>3. r = Rec(r.keys, r.vals, r.kids, r.parent, r.prev, r.next)
  BY <1>2, ArenaParts
<1>4. u.node = [n \in DOMAIN t.node |-> IF n = l THEN [[r EXCEPT !.keys = ks] EXCEPT !.vals = vs] ELSE t.node[n]]
  <2>1. u.node = [[t.node EXCEPT ![l].keys = ks] EXCEPT ![l].vals = vs]
    BY <1>1 DEF TreeOf, Rewrite
  <2>2. t.node = [n \in DOMAIN t.node |-> t.node[n]]
    BY DEF Arena
  <2> QED BY <2>1, <2>2, <1>2
<1>5. [[r EXCEPT !.keys = ks] EXCEPT !.vals = vs] = Rec(ks, vs, r.kids, r.parent, r.prev, r.next)
  <2>1. PICK a, b, c, d, e, f : r = Rec(a, b, c, d, e, f)
    BY <1>3
  <2>2. r.kids = c /\ r.parent = d /\ r.prev = e /\ r.next = f
    BY <2>1 DEF Rec
  <2>3. [r EXCEPT !.keys = ks] = Rec(ks, b, c, d, e, f)
    BY <2>1 DEF Rec
  <2>4. [Rec(ks, b, c, d, e, f) EXCEPT !.vals = vs] = Rec(ks, vs, c, d, e, f)
    BY DEF Rec
  <2> QED BY <2>2, <2>3, <2>4
<1>6. u = TreeOf(u.node, t.free, t.hi, t.root, t.first, t.last, len, t.height) /\ u.len = len
  BY <1>1 DEF TreeOf, Rewrite
<1> QED BY <1>2, <1>4, <1>5, <1>6 DEF Rewritten

\* MergedLeaves, and the separator gone from the parent.
LEMMA MergedLeavesEffect ==
    ASSUME NEW t, NEW g, SettledG(t, g), NEW p, NEW j, NEW l, NEW r, Sibs(t, g, p, j, l, r), l \in LeafSet(t),
           NEW u, u = WithoutChild(MergedLeaves(t, p, j), p, j)
    PROVE  Arena(u) /\ MergeView(t, u, p, j, l, r) /\ LeafJoin(t, u, l, r)
<1>1. Arena(t) /\ Shape(t, g, {t.root}) /\ Links(t, g)
  BY DEF SettledG, TreeInv
<1>2. /\ p \in DOMAIN t.node /\ l \in DOMAIN t.node /\ r \in DOMAIN t.node /\ p # l /\ p # r /\ l # r
      /\ t.node[p].kids[j] = l /\ t.node[p].kids[j + 1] = r /\ g.lev[l] = g.lev[r]
  BY DEF Sibs
<1>3. t.node[l].kids = <<>> /\ t.node[r].kids = <<>>
  <2>1. LevelOf(g, l, t.node[l]) /\ LevelOf(g, r, t.node[r]) /\ t.node[l].kids = <<>>
    BY <1>1, <1>2 DEF Shape, Hangs, LeafSet
  <2> QED BY <2>1, <1>2 DEF LevelOf
<1>4. PICK z : z = t.node[r].next
  OBVIOUS
<1>5. z \in DOMAIN t.node \cup {NO_NODE}
  <2>1. r \in LeafSet(t)
    BY <1>2, <1>3 DEF LeafSet
  <2>2. LinksOf(t, g, r)
    BY <2>1, <1>1 DEF Links
  <2> QED BY <2>2, <1>4 DEF LinksOf, LeafSet
<1>6. PICK kc : kc = t.node[l].keys \o t.node[r].keys
  OBVIOUS
<1>7. PICK vc : vc = t.node[l].vals \o t.node[r].vals
  OBVIOUS
<1>8. kc \in Seq(Key) /\ vc \in Seq(Value)
  <2>1. /\ t.node[l].keys \in Seq(Key) /\ t.node[r].keys \in Seq(Key)
        /\ t.node[l].vals \in Seq(Value) /\ t.node[r].vals \in Seq(Value)
    BY <1>1, <1>2 DEF Arena, NodeRec
  <2>2. kc \in Seq(Key)
    BY <2>1, <1>6
  <2>3. vc \in Seq(Value)
    BY <2>1, <1>7
  <2> QED BY <2>2, <2>3
<1>9. PICK t1 : t1 = Rewrite(t, l, kc, vc, t.len)
  OBVIOUS
<1>10. Rewritten(t, t1, l, kc, vc) /\ t1.len = t.len
  BY <1>1, <1>2, <1>8, <1>9, RewriteEffect
<1>11. Arena(t1) /\ RewrittenView(t, t1, l, kc, vc)
  BY <1>1, <1>2, <1>8, <1>10, RewrittenArena, RewrittenParts
<1>12. t1 = [t EXCEPT !.node[l].keys = @ \o t.node[r].keys, !.node[l].vals = @ \o t.node[r].vals]
  <2>1. t = TreeOf(t.node, t.free, t.hi, t.root, t.first, t.last, t.len, t.height)
    BY <1>1, ArenaParts
  <2>2. PICK f0 : f0 = t.node
    OBVIOUS
  <2>3. PICK D : D = DOMAIN t.node
    OBVIOUS
  <2>4. f0 \in [D -> NodeRec] /\ l \in D
    BY <1>1, <1>2, <2>2, <2>3 DEF Arena
  <2>5. PICK f1 : f1 = WithKeys(f0, l, kc)
    OBVIOUS
  <2>6. KeysSet(f0, f1, l, kc)
    BY <2>4, <2>5, <1>8, SetKeys
  <2>7. f1[l].vals = t.node[l].vals
    BY <2>2, <2>4, <2>6 DEF KeysSet
  <2>8. PICK w : w = [t EXCEPT !.node[l].keys = @ \o t.node[r].keys, !.node[l].vals = @ \o t.node[r].vals]
    OBVIOUS
  <2>81. w = TreeOf(w.node, t.free, t.hi, t.root, t.first, t.last, t.len, t.height)
    BY <2>1, <2>8 DEF TreeOf
  <2>82. w.node = [[t.node EXCEPT ![l].keys = @ \o t.node[r].keys] EXCEPT ![l].vals = @ \o t.node[r].vals]
    BY <2>1, <2>8 DEF TreeOf
  <2>83. [t.node EXCEPT ![l].keys = @ \o t.node[r].keys] = f1
    BY <2>2, <2>5, <1>6 DEF WithKeys
  <2>84. w.node = [f1 EXCEPT ![l].vals = vc]
    BY <2>82, <2>83, <2>7, <1>7
  <2>9. t1 = TreeOf([f1 EXCEPT ![l].vals = vc], t.free, t.hi, t.root, t.first, t.last, t.len, t.height)
    BY <2>1, <2>2, <2>5, <1>9 DEF TreeOf, WithKeys, Rewrite
  <2> QED BY <2>8, <2>81, <2>84, <2>9
<1>13. PICK t2 : t2 = LinkNext(t1, l, z)
  OBVIOUS
<1>14. Arena(t2) /\ LinkView(t1, t2, l, z)
  <2>1. l \in DOMAIN t1.node /\ z \in DOMAIN t1.node \cup {NO_NODE}
    BY <1>2, <1>5, <1>11 DEF RewrittenView
  <2> QED BY <2>1, <1>11, <1>13, LinkNextEffect
<1>15. PICK t3 : t3 = Free(t2, r)
  OBVIOUS
<1>16. Arena(t3) /\ FreeView(t2, t3, r)
  <2>1. r \in DOMAIN t2.node
    BY <1>2, <1>11, <1>14 DEF LinkView, RewrittenView
  <2> QED BY <2>1, <1>14, <1>15, FreeEffect
<1>17. t3 = MergedLeaves(t, p, j)
  BY <1>2, <1>4, <1>12, <1>13, <1>15 DEF MergedLeaves
<1>18. /\ DOMAIN t1.node = DOMAIN t.node /\ DOMAIN t2.node = DOMAIN t.node /\ DOMAIN t3.node = DOMAIN t.node \ {r}
  BY <1>11, <1>14, <1>16 DEF RewrittenView, LinkView, FreeView
<1>19. ASSUME NEW n \in DOMAIN t.node, n # r
       PROVE  /\ n \in DOMAIN t3.node
              /\ t3.node[n].kids = t.node[n].kids /\ t3.node[n].parent = t.node[n].parent
              /\ n # l => t3.node[n].keys = t.node[n].keys /\ t3.node[n].vals = t.node[n].vals
                          /\ t3.node[n].next = t.node[n].next
              /\ n # z => t3.node[n].prev = t.node[n].prev
  <2>1. t3.node[n] = t2.node[n]
    BY <1>16, <1>18, <1>19 DEF FreeView
  <2>2. /\ t2.node[n].keys = t1.node[n].keys /\ t2.node[n].vals = t1.node[n].vals
        /\ t2.node[n].kids = t1.node[n].kids /\ t2.node[n].parent = t1.node[n].parent
        /\ n # l => t2.node[n].next = t1.node[n].next
        /\ n # z => t2.node[n].prev = t1.node[n].prev
    BY <1>14, <1>18 DEF LinkView
  <2>3. /\ n # l => t1.node[n] = t.node[n]
        /\ t1.node[n].kids = t.node[n].kids /\ t1.node[n].parent = t.node[n].parent
        /\ t1.node[n].prev = t.node[n].prev /\ t1.node[n].next = t.node[n].next
    BY <1>11 DEF RewrittenView
  <2> QED BY <2>1, <2>2, <2>3, <1>18, <1>19
<1>20. t3.node[l].keys = kc /\ t3.node[l].vals = vc /\ t3.node[l].next = z
       /\ (z # NO_NODE /\ z # r => t3.node[z].prev = l)
  <2>1. t3.node[l] = t2.node[l] /\ (z # NO_NODE /\ z # r => t3.node[z] = t2.node[z])
    BY <1>2, <1>5, <1>16, <1>18 DEF FreeView
  <2>2. t2.node[l].keys = t1.node[l].keys /\ t2.node[l].vals = t1.node[l].vals /\ t2.node[l].next = z
        /\ (z # NO_NODE => t2.node[z].prev = l)
    BY <1>2, <1>14, <1>18 DEF LinkView
  <2>3. t1.node[l].keys = kc /\ t1.node[l].vals = vc
    BY <1>11 DEF RewrittenView
  <2> QED BY <2>1, <2>2, <2>3
<1>21. /\ t3.root = t.root /\ t3.first = t.first /\ t3.len = t.len /\ t3.height = t.height
       /\ t3.last = IF z = NO_NODE THEN l ELSE t.last
  BY <1>10, <1>11, <1>14, <1>16 DEF RewrittenView, LinkView, FreeView
<1>22. PICK k2 : k2 = RemoveAt(t.node[p].keys, j)
  OBVIOUS
<1>23. PICK c2 : c2 = RemoveAt(t.node[p].kids, j + 1)
  OBVIOUS
<1>24. k2 \in Seq(Key) /\ c2 \in Seq(Int)
  <2>1. /\ t.node[p].keys \in Seq(Key) /\ j \in 1 .. Len(t.node[p].keys) /\ t.node[p].kids \in Seq(Int)
        /\ Len(t.node[p].kids) = Len(t.node[p].keys) + 1 /\ Len(t.node[p].keys) \in Nat
    BY DEF Sibs
  <2>2. PICK M : M = Len(t.node[p].keys)
    OBVIOUS
  <2>3. j + 1 \in 1 .. M + 1
    BY <2>1, <2>2
  <2>4. j + 1 \in 1 .. Len(t.node[p].kids)
    BY <2>1, <2>2, <2>3
  <2> QED BY <2>1, <2>4, <1>22, <1>23, RemoveAtProps
<1>25. u = Pair(t3, p, k2, c2)
  <2>1. t3.node[p].keys = t.node[p].keys /\ t3.node[p].kids = t.node[p].kids
    BY <1>2, <1>19
  <2>2. p \in DOMAIN t3.node
    BY <1>2, <1>18
  <2>3. t3 = TreeOf(t3.node, t3.free, t3.hi, t3.root, t3.first, t3.last, t3.len, t3.height)
    BY <1>16, ArenaParts
  <2>4. PICK f0 : f0 = t3.node
    OBVIOUS
  <2>5. PICK D : D = DOMAIN t3.node
    OBVIOUS
  <2>6. f0 \in [D -> NodeRec] /\ p \in D
    BY <1>16, <2>2, <2>4, <2>5 DEF Arena
  <2>7. PICK f1 : f1 = WithKeys(f0, p, k2)
    OBVIOUS
  <2>8. KeysSet(f0, f1, p, k2)
    BY <2>6, <2>7, <1>24, SetKeys
  <2>9. f1[p].kids = t.node[p].kids
    BY <2>1, <2>4, <2>6, <2>8 DEF KeysSet
  <2>10. u = TreeOf([f1 EXCEPT ![p].kids = c2], t3.free, t3.hi, t3.root, t3.first, t3.last, t3.len, t3.height)
    <3>1. u = [t3 EXCEPT !.node[p].keys = RemoveAt(@, j), !.node[p].kids = RemoveAt(@, j + 1)]
      BY <1>17 DEF WithoutChild
    <3>2. u = TreeOf(u.node, t3.free, t3.hi, t3.root, t3.first, t3.last, t3.len, t3.height)
      BY <2>3, <3>1 DEF TreeOf
    <3>3. u.node = [[t3.node EXCEPT ![p].keys = RemoveAt(@, j)] EXCEPT ![p].kids = RemoveAt(@, j + 1)]
      BY <2>3, <3>1 DEF TreeOf
    <3>4. [t3.node EXCEPT ![p].keys = RemoveAt(@, j)] = f1
      BY <2>1, <2>4, <2>7, <1>22 DEF WithKeys
    <3>5. u.node = [f1 EXCEPT ![p].kids = c2]
      BY <3>3, <3>4, <2>9, <1>23
    <3> QED BY <3>2, <3>5
  <2>11. Pair(t3, p, k2, c2)
      = TreeOf([f1 EXCEPT ![p].kids = c2], t3.free, t3.hi, t3.root, t3.first, t3.last, t3.len, t3.height)
    <3>1. PICK x : x = Pair(t3, p, k2, c2)
      OBVIOUS
    <3>2. x = TreeOf(x.node, t3.free, t3.hi, t3.root, t3.first, t3.last, t3.len, t3.height)
      BY <2>3, <3>1 DEF TreeOf, Pair
    <3>3. x.node = [[t3.node EXCEPT ![p].keys = k2] EXCEPT ![p].kids = c2]
      BY <2>3, <3>1 DEF TreeOf, Pair
    <3>4. [t3.node EXCEPT ![p].keys = k2] = f1
      BY <2>4, <2>7 DEF WithKeys
    <3> QED BY <3>1, <3>2, <3>3, <3>4
  <2> QED BY <2>10, <2>11
<1>26. Arena(u) /\ PairView(t3, u, p, k2, c2)
  BY <1>2, <1>16, <1>18, <1>24, <1>25, PairEffect
<1>27. /\ DOMAIN u.node = DOMAIN t.node \ {r} /\ u.root = t.root /\ u.first = t.first /\ u.len = t.len
       /\ u.height = t.height /\ u.last = IF z = NO_NODE THEN l ELSE t.last
       /\ u.node[p].keys = k2 /\ u.node[p].kids = c2
  BY <1>18, <1>21, <1>26 DEF PairView, SameFrame
<1>28. ASSUME NEW n \in DOMAIN t.node, n # r
       PROVE  /\ n # p => u.node[n] = t3.node[n]
              /\ u.node[n].parent = t3.node[n].parent /\ u.node[n].vals = t3.node[n].vals
              /\ u.node[n].prev = t3.node[n].prev /\ u.node[n].next = t3.node[n].next
  BY <1>18, <1>26, <1>28 DEF PairView
<1>29. z # NO_NODE => z # r
  <2>1. r \in LeafSet(t) /\ RangeOf(g, r)
    BY <1>2, <1>3 DEF LeafSet, SettledG, TreeInv, Order, Guides
  <2>2. z # NO_NODE => g.lo[z] = g.hi[r]
    BY <2>1, <1>1, <1>4 DEF Links, LinksOf
  <2> QED BY <2>1, <2>2 DEF RangeOf
<1>30. MergeView(t, u, p, j, l, r)
  <2>1. u.node[l].kids = t.node[l].kids \o t.node[r].kids
    <3>1. u.node[l].kids = <<>>
      BY <1>2, <1>3, <1>19, <1>28
    <3> QED BY <3>1, <1>3
  <2>2. ASSUME NEW n \in DOMAIN t.node, n # r
        PROVE  /\ n # p /\ n # l => u.node[n].keys = t.node[n].keys /\ u.node[n].kids = t.node[n].kids
               /\ n # l => u.node[n].vals = t.node[n].vals
               /\ u.node[n].parent = IF n \in ToSet(t.node[r].kids) THEN l ELSE t.node[n].parent
    <3>1. n \notin ToSet(t.node[r].kids)
      BY <1>3 DEF ToSet
    <3> QED BY <3>1, <2>2, <1>19, <1>28
  <2> QED BY <2>1, <2>2, <1>22, <1>23, <1>27 DEF MergeView
<1>31. LeafJoin(t, u, l, r)
  <2>1. u.node[l].keys = kc /\ u.node[l].vals = vc /\ u.node[l].next = z
    BY <1>2, <1>20, <1>28
  <2>2. z # NO_NODE => u.node[z].prev = l
    BY <1>5, <1>20, <1>28, <1>29
  <2>3. ASSUME NEW n \in DOMAIN t.node, n # r
        PROVE  /\ n # l => u.node[n].next = t.node[n].next
               /\ n # z => u.node[n].prev = t.node[n].prev
    BY <2>3, <1>19, <1>28
  <2> QED BY <2>1, <2>2, <2>3, <1>4, <1>6, <1>7, <1>27 DEF LeafJoin
<1> QED BY <1>26, <1>30, <1>31

\* Separator j and the child behind it leave node p.
LEMMA WithoutChildEffect ==
    ASSUME NEW t, Arena(t), NEW p \in DOMAIN t.node, NEW j,
           NEW k2 \in Seq(Key), NEW c2 \in Seq(Int),
           k2 = RemoveAt(t.node[p].keys, j), c2 = RemoveAt(t.node[p].kids, j + 1),
           NEW u, u = WithoutChild(t, p, j)
    PROVE  Arena(u) /\ PairView(t, u, p, k2, c2)
<1>1. t = TreeOf(t.node, t.free, t.hi, t.root, t.first, t.last, t.len, t.height)
  BY ArenaParts
<1>2. PICK f0 : f0 = t.node
  OBVIOUS
<1>3. PICK D : D = DOMAIN t.node
  OBVIOUS
<1>4. f0 \in [D -> NodeRec] /\ p \in D
  BY <1>2, <1>3 DEF Arena
<1>5. PICK f1 : f1 = WithKeys(f0, p, k2)
  OBVIOUS
<1>6. KeysSet(f0, f1, p, k2)
  BY <1>4, <1>5, SetKeys
<1>7. f1[p].kids = t.node[p].kids
  BY <1>2, <1>4, <1>6 DEF KeysSet
<1>8. u = [t EXCEPT !.node[p].keys = RemoveAt(@, j), !.node[p].kids = RemoveAt(@, j + 1)]
  BY DEF WithoutChild
<1>9. u = TreeOf(u.node, t.free, t.hi, t.root, t.first, t.last, t.len, t.height)
  BY <1>1, <1>8 DEF TreeOf
<1>10. u.node = [[t.node EXCEPT ![p].keys = RemoveAt(@, j)] EXCEPT ![p].kids = RemoveAt(@, j + 1)]
  BY <1>1, <1>8 DEF TreeOf
<1>11. [t.node EXCEPT ![p].keys = RemoveAt(@, j)] = f1
  BY <1>2, <1>5 DEF WithKeys
<1>12. u.node = [f1 EXCEPT ![p].kids = c2]
  BY <1>7, <1>10, <1>11
<1>13. PICK x : x = Pair(t, p, k2, c2)
  OBVIOUS
<1>14. x = TreeOf(x.node, t.free, t.hi, t.root, t.first, t.last, t.len, t.height)
  BY <1>1, <1>13 DEF TreeOf, Pair
<1>15. x.node = [[t.node EXCEPT ![p].keys = k2] EXCEPT ![p].kids = c2]
  BY <1>1, <1>13 DEF TreeOf, Pair
<1>16. [t.node EXCEPT ![p].keys = k2] = f1
  BY <1>2, <1>5 DEF WithKeys
<1>17. u = x
  BY <1>9, <1>12, <1>14, <1>15, <1>16
<1> QED BY <1>13, <1>17, PairEffect

\* MergedInternals, and the separator gone from the parent.
LEMMA MergedInternalsEffect ==
    ASSUME NEW t, NEW g, SettledG(t, g), NEW p, NEW j, NEW l, NEW r, Sibs(t, g, p, j, l, r),
           NEW u, u = WithoutChild(MergedInternals(t, p, j), p, j)
    PROVE  Arena(u) /\ MergeView(t, u, p, j, l, r) /\ InnerJoin(t, u, p, j, l, r)
<1>1. Arena(t)
  BY DEF SettledG, TreeInv
<1>2. /\ p \in DOMAIN t.node /\ l \in DOMAIN t.node /\ r \in DOMAIN t.node /\ p # l /\ p # r /\ l # r
      /\ t.node[p].kids[j] = l /\ t.node[p].kids[j + 1] = r /\ t.node[p].keys[j] \in Key
  BY DEF Sibs
<1>3. l \in Int
  BY <1>1, <1>2, ArenaParts
<1>6. PICK kc : kc = t.node[l].keys \o <<t.node[p].keys[j]>> \o t.node[r].keys
  OBVIOUS
<1>7. PICK cc : cc = t.node[l].kids \o t.node[r].kids
  OBVIOUS
<1>8. kc \in Seq(Key) /\ cc \in Seq(Int)
  <2>1. /\ t.node[l].keys \in Seq(Key) /\ t.node[r].keys \in Seq(Key)
        /\ t.node[l].kids \in Seq(Int) /\ t.node[r].kids \in Seq(Int)
    BY <1>1, <1>2 DEF Arena, NodeRec
  <2>2. <<t.node[p].keys[j]>> \in Seq(Key)
    BY <1>2
  <2>3. t.node[l].keys \o <<t.node[p].keys[j]>> \in Seq(Key)
    BY <2>1, <2>2
  <2>4. kc \in Seq(Key)
    BY <2>1, <2>3, <1>6
  <2>5. cc \in Seq(Int)
    BY <2>1, <1>7
  <2> QED BY <2>4, <2>5
<1>9. PICK t1 : t1 = Pair(t, l, kc, cc)
  OBVIOUS
<1>10. Arena(t1) /\ PairView(t, t1, l, kc, cc)
  BY <1>1, <1>2, <1>8, <1>9, PairEffect
<1>12. t1 = [t EXCEPT !.node[l].keys = @ \o <<t.node[p].keys[j]>> \o t.node[r].keys, !.node[l].kids = @ \o t.node[r].kids]
  <2>1. t = TreeOf(t.node, t.free, t.hi, t.root, t.first, t.last, t.len, t.height)
    BY <1>1, ArenaParts
  <2>2. PICK f0 : f0 = t.node
    OBVIOUS
  <2>3. PICK D : D = DOMAIN t.node
    OBVIOUS
  <2>4. f0 \in [D -> NodeRec] /\ l \in D
    BY <1>1, <1>2, <2>2, <2>3 DEF Arena
  <2>5. PICK f1 : f1 = WithKeys(f0, l, kc)
    OBVIOUS
  <2>6. KeysSet(f0, f1, l, kc)
    BY <2>4, <2>5, <1>8, SetKeys
  <2>7. f1[l].kids = t.node[l].kids
    BY <2>2, <2>4, <2>6 DEF KeysSet
  <2>8. PICK w : w = [t EXCEPT !.node[l].keys = @ \o <<t.node[p].keys[j]>> \o t.node[r].keys, !.node[l].kids = @ \o t.node[r].kids]
    OBVIOUS
  <2>81. w = TreeOf(w.node, t.free, t.hi, t.root, t.first, t.last, t.len, t.height)
    BY <2>1, <2>8 DEF TreeOf
  <2>82. w.node = [[t.node EXCEPT ![l].keys = @ \o <<t.node[p].keys[j]>> \o t.node[r].keys] EXCEPT ![l].kids = @ \o t.node[r].kids]
    BY <2>1, <2>8 DEF TreeOf
  <2>83. [t.node EXCEPT ![l].keys = @ \o <<t.node[p].keys[j]>> \o t.node[r].keys] = f1
    BY <2>2, <2>5, <1>6 DEF WithKeys
  <2>84. w.node = [f1 EXCEPT ![l].kids = cc]
    BY <2>82, <2>83, <2>7, <1>7
  <2>9. t1 = TreeOf(t1.node, t.free, t.hi, t.root, t.first, t.last, t.len, t.height)
    BY <2>1, <1>9 DEF TreeOf, Pair
  <2>91. t1.node = [[t.node EXCEPT ![l].keys = kc] EXCEPT ![l].kids = cc]
    BY <2>1, <1>9 DEF TreeOf, Pair
  <2>92. [t.node EXCEPT ![l].keys = kc] = f1
    BY <2>2, <2>5 DEF WithKeys
  <2> QED BY <2>8, <2>81, <2>84, <2>9, <2>91, <2>92
<1>13. PICK N : N = ToSet(t.node[r].kids)
  OBVIOUS
<1>131. PICK t2 : t2 = Adopt(t1, N, l)
  OBVIOUS
<1>14. Arena(t2) /\ AdoptView(t1, t2, N, l)
  BY <1>3, <1>10, <1>131, AdoptEffect
<1>15. PICK t3 : t3 = Free(t2, r)
  OBVIOUS
<1>151. r \in DOMAIN t2.node
  BY <1>2, <1>10, <1>14 DEF AdoptView, PairView, SameFrame
<1>16. Arena(t3) /\ FreeView(t2, t3, r)
  BY <1>151, <1>14, <1>15, FreeEffect
<1>17. t3 = MergedInternals(t, p, j)
  BY <1>2, <1>12, <1>13, <1>131, <1>15 DEF MergedInternals
<1>18. /\ DOMAIN t1.node = DOMAIN t.node /\ DOMAIN t2.node = DOMAIN t.node /\ DOMAIN t3.node = DOMAIN t.node \ {r}
  BY <1>10, <1>14, <1>16 DEF PairView, AdoptView, FreeView, SameFrame
<1>19. ASSUME NEW n \in DOMAIN t.node, n # r
       PROVE  /\ n \in DOMAIN t3.node
              /\ n # l => t3.node[n].keys = t.node[n].keys /\ t3.node[n].kids = t.node[n].kids
              /\ t3.node[n].vals = t.node[n].vals
              /\ t3.node[n].next = t.node[n].next /\ t3.node[n].prev = t.node[n].prev
              /\ t3.node[n].parent = IF n \in N THEN l ELSE t.node[n].parent
  <2>1. t3.node[n] = t2.node[n]
    BY <1>16, <1>18, <1>19 DEF FreeView
  <2>2. /\ t2.node[n].keys = t1.node[n].keys /\ t2.node[n].vals = t1.node[n].vals
        /\ t2.node[n].kids = t1.node[n].kids
        /\ t2.node[n].prev = t1.node[n].prev /\ t2.node[n].next = t1.node[n].next
        /\ t2.node[n].parent = IF n \in N THEN l ELSE t1.node[n].parent
    BY <1>14, <1>18 DEF AdoptView
  <2>3. /\ n # l => t1.node[n] = t.node[n]
        /\ t1.node[n].parent = t.node[n].parent /\ t1.node[n].vals = t.node[n].vals
        /\ t1.node[n].prev = t.node[n].prev /\ t1.node[n].next = t.node[n].next
    BY <1>10 DEF PairView
  <2> QED BY <2>1, <2>2, <2>3, <1>18, <1>19
<1>20. t3.node[l].keys = kc /\ t3.node[l].kids = cc
  <2>1. t3.node[l] = t2.node[l]
    BY <1>2, <1>16, <1>18 DEF FreeView
  <2>2. t2.node[l].keys = t1.node[l].keys /\ t2.node[l].kids = t1.node[l].kids
    BY <1>2, <1>14, <1>18 DEF AdoptView
  <2>3. t1.node[l].keys = kc /\ t1.node[l].kids = cc
    BY <1>10 DEF PairView
  <2> QED BY <2>1, <2>2, <2>3
<1>21. /\ t3.root = t.root /\ t3.first = t.first /\ t3.len = t.len /\ t3.height = t.height /\ t3.last = t.last
  BY <1>10, <1>14, <1>16 DEF PairView, AdoptView, FreeView, SameFrame
<1>22. PICK k2 : k2 = RemoveAt(t.node[p].keys, j)
  OBVIOUS
<1>23. PICK c2 : c2 = RemoveAt(t.node[p].kids, j + 1)
  OBVIOUS
<1>24. k2 \in Seq(Key) /\ c2 \in Seq(Int)
  <2>1. /\ t.node[p].keys \in Seq(Key) /\ j \in 1 .. Len(t.node[p].keys) /\ t.node[p].kids \in Seq(Int)
        /\ Len(t.node[p].kids) = Len(t.node[p].keys) + 1 /\ Len(t.node[p].keys) \in Nat
    BY DEF Sibs
  <2>2. PICK M : M = Len(t.node[p].keys)
    OBVIOUS
  <2>3. j + 1 \in 1 .. M + 1
    BY <2>1, <2>2
  <2>4. j + 1 \in 1 .. Len(t.node[p].kids)
    BY <2>1, <2>2, <2>3
  <2> QED BY <2>1, <2>4, <1>22, <1>23, RemoveAtProps
<1>25. t3.node[p].keys = t.node[p].keys /\ t3.node[p].kids = t.node[p].kids /\ p \in DOMAIN t3.node
  BY <1>2, <1>19
<1>251. k2 = RemoveAt(t3.node[p].keys, j) /\ c2 = RemoveAt(t3.node[p].kids, j + 1) /\ u = WithoutChild(t3, p, j)
  BY <1>17, <1>22, <1>23, <1>25
<1>26. Arena(u) /\ PairView(t3, u, p, k2, c2)
  BY ONLY <1>16, <1>24, <1>25, <1>251, WithoutChildEffect
<1>27. /\ DOMAIN u.node = DOMAIN t.node \ {r} /\ u.root = t.root /\ u.first = t.first /\ u.len = t.len
       /\ u.height = t.height /\ u.last = t.last
       /\ u.node[p].keys = k2 /\ u.node[p].kids = c2
  BY <1>18, <1>21, <1>26 DEF PairView, SameFrame
<1>28. ASSUME NEW n \in DOMAIN t.node, n # r
       PROVE  /\ n # p => u.node[n] = t3.node[n]
              /\ u.node[n].parent = t3.node[n].parent /\ u.node[n].vals = t3.node[n].vals
              /\ u.node[n].prev = t3.node[n].prev /\ u.node[n].next = t3.node[n].next
  BY <1>18, <1>26, <1>28 DEF PairView
<1>30. MergeView(t, u, p, j, l, r)
  <2>1. u.node[l].kids = t.node[l].kids \o t.node[r].kids
    BY <1>2, <1>7, <1>20, <1>28
  <2>2. ASSUME NEW n \in DOMAIN t.node, n # r
        PROVE  /\ n # p /\ n # l => u.node[n].keys = t.node[n].keys /\ u.node[n].kids = t.node[n].kids
               /\ n # l => u.node[n].vals = t.node[n].vals
               /\ u.node[n].parent = IF n \in ToSet(t.node[r].kids) THEN l ELSE t.node[n].parent
    BY <2>2, <1>13, <1>19, <1>28
  <2> QED BY <2>1, <2>2, <1>22, <1>23, <1>27 DEF MergeView
<1>31. InnerJoin(t, u, p, j, l, r)
  <2>1. u.node[l].keys = kc
    BY <1>2, <1>20, <1>28
  <2>3. ASSUME NEW n \in DOMAIN t.node, n # r
        PROVE  u.node[n].vals = t.node[n].vals /\ u.node[n].next = t.node[n].next /\ u.node[n].prev = t.node[n].prev
    BY <2>3, <1>19, <1>28
  <2> QED BY <2>1, <2>3, <1>6, <1>27 DEF InnerJoin
<1> QED BY <1>26, <1>30, <1>31

\* Sequences with the same elements are equal.
LEMMA SameSeq ==
    ASSUME NEW S, NEW s \in Seq(S), NEW w \in Seq(S), Len(s) = Len(w),
           \A j \in 1 .. Len(s) : s[j] = w[j]
    PROVE  s = w
BY SeqEqual

Replaced(S, s, i, e, w) ==
    /\ w \in Seq(S) /\ Len(w) = Len(s) /\ w[i] = e
    /\ \A j \in 1 .. Len(s) : j # i => w[j] = s[j]

\* To take an element out and put one in its place.
LEMMA OutAndIn ==
    ASSUME NEW S, NEW s \in Seq(S), NEW i \in 1 .. Len(s), NEW e \in S, NEW w,
           Replaced(S, s, i, e, w)
    PROVE  w = InsertAt(RemoveAt(s, i), i, e)
<1>1. PICK N : N = Len(s)
  OBVIOUS
<1>2. N \in Nat /\ i \in 1 .. N
  BY <1>1
<1>3. PICK a : a = RemoveAt(s, i)
  OBVIOUS
<1>4. RemovedAt(S, s, i, a)
  BY <1>3, RemoveAtDoes
<1>5. a \in Seq(S) /\ Len(a) = N - 1 /\ \A j \in 1 .. N - 1 : a[j] = IF j < i THEN s[j] ELSE s[j + 1]
  BY <1>1, <1>4 DEF RemovedAt
<1>6. i \in 1 .. Len(a) + 1
  BY <1>2, <1>5
<1>7. PICK b : b = InsertAt(a, i, e)
  OBVIOUS
<1>8. InsertedAt(S, a, i, e, b)
  BY <1>5, <1>6, <1>7, InsertAtDoes
<1>9. b \in Seq(S) /\ Len(b) = Len(a) + 1
      /\ \A j \in 1 .. Len(a) + 1 : b[j] = IF j < i THEN a[j] ELSE IF j = i THEN e ELSE a[j - 1]
  BY <1>8 DEF InsertedAt
<1>10. Len(a) + 1 = N
  BY <1>2, <1>5
<1>11. Len(b) = N /\ \A j \in 1 .. N : b[j] = IF j < i THEN a[j] ELSE IF j = i THEN e ELSE a[j - 1]
  BY <1>9, <1>10
<1>12. w \in Seq(S) /\ Len(w) = N /\ w[i] = e /\ \A j \in 1 .. N : j # i => w[j] = s[j]
  BY <1>1 DEF Replaced
<1>13. ASSUME NEW j \in 1 .. N PROVE w[j] = b[j]
  <2>1. CASE j < i
    <3>1. j \in 1 .. N - 1 /\ j # i
      BY <2>1, <1>2
    <3> QED BY <3>1, <2>1, <1>5, <1>11, <1>12
  <2>2. CASE j = i
    BY <2>2, <1>2, <1>11, <1>12
  <2>3. CASE j > i
    <3>1. j - 1 \in 1 .. N - 1 /\ ~(j - 1 < i) /\ (j - 1) + 1 = j /\ j # i /\ ~(j < i)
      BY <2>3, <1>2
    <3>2. a[j - 1] = s[j]
      BY <3>1, <1>5
    <3> QED BY <3>1, <3>2, <1>11, <1>12
  <2> QED BY <2>1, <2>2, <2>3, <1>2
<1>14. w = b
  BY <1>9, <1>11, <1>12, <1>13, SameSeq
<1> QED BY <1>3, <1>7, <1>14

\* The two parts of a concatenation.
LEMMA PartsOfConcat ==
    ASSUME NEW S, NEW c \in Seq(S), NEW d \in Seq(S), NEW w, w = c \o d, NEW m, m = Len(c), NEW L, L = Len(w)
    PROVE  /\ w \in Seq(S) /\ L \in Nat /\ m \in Nat /\ L = m + Len(d) /\ Len(d) \in Nat
           /\ SubSeq(w, 1, m) = c /\ SubSeq(w, m + 1, L) = d
<1>1. PICK B : B = Len(d)
  OBVIOUS
<1>2. w \in Seq(S) /\ Chained(m, B, c, d, w)
  BY <1>1, ConcatDoes
<1>3. m \in Nat /\ B \in Nat /\ L = m + B /\ L \in Nat
      /\ (\A i \in 1 .. m : w[i] = c[i]) /\ (\A i \in 1 .. B : w[m + i] = d[i])
  BY <1>2 DEF Chained
<1>4. PICK x : x = SubSeq(w, 1, m)
  OBVIOUS
<1>5. x \in Seq(S) /\ Len(x) = m - 1 + 1 /\ \A j \in 1 .. m - 1 + 1 : x[j] = w[1 + j - 1]
  <2>1. 1 \in 1 .. Len(w) + 1 /\ m \in (1 - 1) .. Len(w)
    BY <1>3
  <2> QED BY <1>2, <1>4, <2>1, SubSeqProps
<1>6. Len(x) = m /\ \A j \in 1 .. m : x[j] = c[j]
  <2>1. m - 1 + 1 = m
    BY <1>3
  <2>2. ASSUME NEW j \in 1 .. m PROVE x[j] = c[j]
    <3>1. 1 + j - 1 = j
      OBVIOUS
    <3> QED BY <3>1, <2>1, <1>3, <1>5
  <2> QED BY <2>1, <2>2, <1>5
<1>7. x = c
  BY <1>5, <1>6, SameSeq
<1>8. PICK y : y = SubSeq(w, m + 1, L)
  OBVIOUS
<1>9. y \in Seq(S) /\ Len(y) = L - (m + 1) + 1 /\ \A j \in 1 .. L - (m + 1) + 1 : y[j] = w[(m + 1) + j - 1]
  <2>1. m + 1 \in 1 .. Len(w) + 1 /\ L \in (m + 1 - 1) .. Len(w)
    BY <1>3
  <2> QED BY <1>2, <1>8, <2>1, SubSeqProps
<1>10. Len(y) = B /\ \A j \in 1 .. B : y[j] = d[j]
  <2>1. L - (m + 1) + 1 = B
    BY <1>3
  <2>2. ASSUME NEW j \in 1 .. B PROVE y[j] = d[j]
    <3>1. (m + 1) + j - 1 = m + j
      BY <1>3
    <3> QED BY <3>1, <2>1, <1>3, <1>9
  <2> QED BY <2>1, <2>2, <1>9
<1>11. y = d
  BY <1>1, <1>9, <1>10, SameSeq
<1> QED BY <1>1, <1>2, <1>3, <1>4, <1>7, <1>8, <1>11

\* Entries c and cv for leaf l, d and dv for leaf r, a new separator for p.
LeafShift(t, u, p, j, l, r) ==
    /\ SameFrame(t, u)
    /\ u.node[l].keys \o u.node[r].keys = t.node[l].keys \o t.node[r].keys
    /\ u.node[l].vals \o u.node[r].vals = t.node[l].vals \o t.node[r].vals
    /\ u.node[l].keys # <<>> /\ u.node[r].keys # <<>>
    /\ Len(u.node[l].vals) = Len(u.node[l].keys)
    /\ Replaced(Key, t.node[p].keys, j, u.node[r].keys[1], u.node[p].keys)
    /\ \A n \in DOMAIN t.node :
         /\ n # p /\ n # l /\ n # r => u.node[n].keys = t.node[n].keys
         /\ n # l /\ n # r => u.node[n].vals = t.node[n].vals
         /\ u.node[n].kids = t.node[n].kids /\ u.node[n].parent = t.node[n].parent
         /\ u.node[n].next = t.node[n].next /\ u.node[n].prev = t.node[n].prev

\* A leaf takes entries from its neighbour: as if they were merged, cut at
\* another place and the new leaf entered.
LEMMA LeafShiftViews ==
    ASSUME NEW t, NEW u, NEW w, NEW x, NEW g, SettledG(t, g), NEW p, NEW j, NEW l, NEW r,
           Sibs(t, g, p, j, l, r), l \in LeafSet(t), r \in LeafSet(t), Arena(u), LeafShift(t, u, p, j, l, r),
           MergeView(t, w, p, j, l, r), LeafJoin(t, w, l, r),
           NEW k2, NEW c2, k2 = RemoveAt(t.node[p].keys, j), c2 = RemoveAt(t.node[p].kids, j + 1),
           PairView(u, x, p, k2, c2), NEW m, m = Len(u.node[l].keys)
    PROVE  LeafCut(w, x, l, r, m)
<1>1. Arena(t) /\ Links(t, g) /\ SameFrame(t, u) /\ SameFrame(u, x)
  BY DEF SettledG, TreeInv, LeafShift, PairView
<1>2. /\ p \in DOMAIN t.node /\ l \in DOMAIN t.node /\ r \in DOMAIN t.node /\ p # l /\ p # r /\ l # r
      /\ t.node[l].parent = p /\ t.node[r].parent = p
  BY DEF Sibs
<1>3. t.node[l].kids = <<>> /\ t.node[r].kids = <<>>
  BY DEF LeafSet
<1>4. PICK z : z = t.node[r].next
  OBVIOUS
<1>5. t.node[l].next = r /\ t.node[r].prev = l
  BY SibsLinked
<1>6. LinksOf(t, g, r)
  BY <1>1 DEF Links
<1>7. /\ z = NO_NODE => r = t.last
      /\ z # NO_NODE => z \in DOMAIN t.node /\ t.node[z].prev = r
  BY <1>4, <1>6 DEF LinksOf, LeafSet
<1>8. /\ w.node[l].next = z
      /\ w.last = (IF z = NO_NODE THEN l ELSE t.last)
      /\ \A n \in DOMAIN t.node : n # r =>
           /\ n # l => w.node[n].next = t.node[n].next
           /\ n # z => w.node[n].prev = t.node[n].prev
      /\ w.node[l].keys = t.node[l].keys \o t.node[r].keys
      /\ w.node[l].vals = t.node[l].vals \o t.node[r].vals
  BY <1>4 DEF LeafJoin
<1>9. /\ DOMAIN w.node = DOMAIN t.node \ {r}
      /\ w.root = t.root /\ w.first = t.first /\ w.len = t.len /\ w.height = t.height
      /\ w.node[p].keys = k2 /\ w.node[p].kids = c2
  BY DEF MergeView
<1>10. ASSUME NEW n \in DOMAIN t.node, n # r
       PROVE  /\ n # p /\ n # l => w.node[n].keys = t.node[n].keys /\ w.node[n].kids = t.node[n].kids
              /\ n # l => w.node[n].vals = t.node[n].vals
              /\ w.node[n].parent = t.node[n].parent
  <2>1. n \notin ToSet(t.node[r].kids)
    BY <1>3 DEF ToSet
  <2> QED BY <2>1, <1>10 DEF MergeView
<1>101. w.node[l].kids = <<>>
  <2>1. w.node[l].kids = t.node[l].kids \o t.node[r].kids
    BY DEF MergeView
  <2> QED BY <2>1, <1>3
<1>11. ASSUME NEW n \in DOMAIN t.node
       PROVE  /\ n # p => x.node[n] = u.node[n]
              /\ x.node[n].parent = t.node[n].parent
              /\ x.node[n].prev = t.node[n].prev /\ x.node[n].next = t.node[n].next
              /\ n # p /\ n # l /\ n # r => x.node[n].keys = t.node[n].keys
              /\ n # p => x.node[n].kids = t.node[n].kids
              /\ n # l /\ n # r => x.node[n].vals = t.node[n].vals
  <2>1. n \in DOMAIN u.node
    BY <1>1 DEF SameFrame
  <2>2. /\ n # p => x.node[n] = u.node[n]
        /\ x.node[n].parent = u.node[n].parent /\ x.node[n].vals = u.node[n].vals
        /\ x.node[n].prev = u.node[n].prev /\ x.node[n].next = u.node[n].next
    BY <2>1 DEF PairView
  <2>3. /\ n # p /\ n # l /\ n # r => u.node[n].keys = t.node[n].keys
        /\ n # l /\ n # r => u.node[n].vals = t.node[n].vals
        /\ u.node[n].kids = t.node[n].kids /\ u.node[n].parent = t.node[n].parent
        /\ u.node[n].next = t.node[n].next /\ u.node[n].prev = t.node[n].prev
    BY DEF LeafShift
  <2> QED BY <2>2, <2>3
<1>12. x.node[p].keys = k2 /\ x.node[p].kids = c2
  BY DEF PairView
<1>13. /\ DOMAIN x.node = DOMAIN t.node /\ x.root = t.root /\ x.first = t.first /\ x.last = t.last
       /\ x.len = t.len /\ x.height = t.height
  BY <1>1 DEF SameFrame
<1>14. PICK c, d, cv, dv : c = u.node[l].keys /\ d = u.node[r].keys /\ cv = u.node[l].vals /\ dv = u.node[r].vals
  OBVIOUS
<1>15. c \in Seq(Key) /\ d \in Seq(Key) /\ cv \in Seq(Value) /\ dv \in Seq(Value)
  <2>1. l \in DOMAIN u.node /\ r \in DOMAIN u.node
    BY <1>1, <1>2 DEF SameFrame
  <2> QED BY <2>1, <1>14, ArenaParts
<1>16. w.node[l].keys = c \o d /\ w.node[l].vals = cv \o dv /\ Len(cv) = m /\ Len(c) = m
  BY <1>8, <1>14 DEF LeafShift
<1>17. PICK L : L = Len(w.node[l].keys)
  OBVIOUS
<1>18. SubSeq(w.node[l].keys, 1, m) = c /\ SubSeq(w.node[l].keys, m + 1, L) = d /\ L = m + Len(d)
  <2>1. PICK wk : wk = w.node[l].keys
    OBVIOUS
  <2>2. wk = c \o d /\ m = Len(c) /\ L = Len(wk)
    BY <2>1, <1>16, <1>17
  <2>3. SubSeq(wk, 1, m) = c /\ SubSeq(wk, m + 1, L) = d /\ L = m + Len(d)
    BY ONLY <2>2, <1>15, PartsOfConcat
  <2> QED BY <2>1, <2>3
<1>19. PICK V : V = Len(w.node[l].vals)
  OBVIOUS
<1>20. SubSeq(w.node[l].vals, 1, m) = cv /\ SubSeq(w.node[l].vals, m + 1, V) = dv
  <2>1. PICK wk : wk = w.node[l].vals
    OBVIOUS
  <2>2. wk = cv \o dv /\ m = Len(cv) /\ V = Len(wk)
    BY <2>1, <1>16, <1>19
  <2>3. SubSeq(wk, 1, m) = cv /\ SubSeq(wk, m + 1, V) = dv
    BY ONLY <2>2, <1>15, PartsOfConcat
  <2> QED BY <2>1, <2>3
<1>21. V = L
  <2>1. Guides(g, l, t.node[l]) /\ Guides(g, r, t.node[r])
    BY <1>2 DEF SettledG, TreeInv, Order
  <2>2. Len(t.node[l].vals) = Len(t.node[l].keys) /\ Len(t.node[r].vals) = Len(t.node[r].keys)
    BY <2>1, <1>3 DEF Guides, LeafKeys
  <2>3. /\ t.node[l].keys \in Seq(Key) /\ t.node[r].keys \in Seq(Key)
        /\ t.node[l].vals \in Seq(Value) /\ t.node[r].vals \in Seq(Value)
    BY <1>1, <1>2, ArenaParts
  <2>4. L = Len(t.node[l].keys) + Len(t.node[r].keys)
    BY <2>3, <1>8, <1>17
  <2>5. V = Len(t.node[l].vals) + Len(t.node[r].vals)
    BY <2>3, <1>8, <1>19
  <2> QED BY <2>2, <2>4, <2>5
<1>22. /\ x.node[l].keys = SubSeq(w.node[l].keys, 1, m) /\ x.node[l].vals = SubSeq(w.node[l].vals, 1, m)
       /\ x.node[r].keys = SubSeq(w.node[l].keys, m + 1, L)
       /\ x.node[r].vals = SubSeq(w.node[l].vals, m + 1, L)
  BY <1>2, <1>11, <1>14, <1>18, <1>20, <1>21
<1>23. r \in Nat /\ r \notin DOMAIN w.node /\ DOMAIN x.node = DOMAIN w.node \cup {r}
  <2>1. r \in Nat
    BY <1>1, <1>2 DEF Arena
  <2> QED BY <2>1, <1>2, <1>9, <1>13
<1>24. /\ x.node[r].kids = <<>> /\ x.node[r].parent = w.node[l].parent
       /\ x.node[r].prev = l /\ x.node[r].next = z /\ x.node[l].next = r
  BY <1>2, <1>3, <1>4, <1>5, <1>10, <1>11
<1>25. /\ x.last = IF z = NO_NODE THEN r ELSE w.last
       /\ z # NO_NODE => x.node[z].prev = r
  BY <1>7, <1>8, <1>11, <1>13
<1>26. ASSUME NEW n \in DOMAIN w.node
       PROVE  /\ x.node[n].kids = w.node[n].kids /\ x.node[n].parent = w.node[n].parent
              /\ n # l => x.node[n].keys = w.node[n].keys /\ x.node[n].vals = w.node[n].vals
                          /\ x.node[n].next = w.node[n].next
              /\ n # z => x.node[n].prev = w.node[n].prev
  <2>1. n \in DOMAIN t.node /\ n # r
    BY <1>9
  <2>2. x.node[n].parent = w.node[n].parent /\ (n # l => x.node[n].next = w.node[n].next)
        /\ (n # z => x.node[n].prev = w.node[n].prev)
        /\ (n # l => x.node[n].vals = w.node[n].vals)
    BY <2>1, <1>8, <1>10, <1>11
  <2>3. CASE n = p
    BY <2>2, <2>3, <1>2, <1>9, <1>12
  <2>4. CASE n = l
    BY <2>1, <2>2, <2>4, <1>2, <1>3, <1>101, <1>11
  <2>5. CASE n # p /\ n # l
    BY <2>1, <2>2, <2>5, <1>10, <1>11
  <2> QED BY <2>3, <2>4, <2>5
<1> QED BY <1>8, <1>9, <1>13, <1>17, <1>22, <1>23, <1>24, <1>25, <1>26 DEF LeafCut

\* Key j of p is replaced by s.
Swapped(t, u, p, j, s, r) ==
    /\ SameFrame(t, u) /\ s \in Key /\ Replaced(Key, t.node[p].keys, j, s, u.node[p].keys)
    /\ u.node[p].kids = t.node[p].kids /\ u.node[r].parent = p

\* u without key j of p and the kid behind it.
Lacks(t, u, x, p, j) ==
    PairView(u, x, p, RemoveAt(t.node[p].keys, j), RemoveAt(t.node[p].kids, j + 1))

\* Kid r with separator s can enter p behind l.
Reenters(x, u, p, j, s, l, r) ==
    /\ EnterView(x, u, p, j, s, r) /\ p \in DOMAIN x.node
    /\ j \in 1 .. Len(x.node[p].kids) /\ x.node[p].kids[j] = l

\* The separator and the neighbour enter node p again.
LEMMA BackIn ==
    ASSUME NEW t, NEW u, NEW x, NEW g, NEW p, NEW j, NEW l, NEW r, NEW s, Sibs(t, g, p, j, l, r),
           Swapped(t, u, p, j, s, r), Lacks(t, u, x, p, j)
    PROVE  Reenters(x, u, p, j, s, l, r)
<1>0. PICK k2, c2 : k2 = RemoveAt(t.node[p].keys, j) /\ c2 = RemoveAt(t.node[p].kids, j + 1)
  OBVIOUS
<1>01. /\ SameFrame(t, u) /\ s \in Key /\ Replaced(Key, t.node[p].keys, j, s, u.node[p].keys)
       /\ u.node[p].kids = t.node[p].kids /\ u.node[r].parent = p /\ PairView(u, x, p, k2, c2)
  BY <1>0 DEF Swapped, Lacks
<1>1. PICK ks, cs, M : ks = t.node[p].keys /\ cs = t.node[p].kids /\ M = Len(ks)
  OBVIOUS
<1>2. /\ ks \in Seq(Key) /\ cs \in Seq(Int) /\ M \in Nat /\ j \in 1 .. M /\ Len(cs) = M + 1
      /\ cs[j] = l /\ cs[j + 1] = r /\ p \in DOMAIN t.node /\ r \in DOMAIN t.node /\ p # r
  BY <1>1 DEF Sibs
<1>3. u.node[p].keys = InsertAt(k2, j, s)
  BY <1>0, <1>01, <1>1, <1>2, OutAndIn
<1>4. j + 1 \in 1 .. Len(cs) /\ r \in Int /\ j # j + 1 /\ j \in 1 .. M + 1 - 1 /\ j < j + 1
  BY <1>2
<1>5. Replaced(Int, cs, j + 1, r, cs)
  BY <1>2 DEF Replaced
<1>6. cs = InsertAt(c2, j + 1, r)
  BY <1>0, <1>1, <1>2, <1>4, <1>5, OutAndIn
<1>7. SameFrame(u, x) /\ x.node[p].keys = k2 /\ x.node[p].kids = c2
      /\ \A n \in DOMAIN u.node :
         /\ n # p => x.node[n] = u.node[n]
         /\ x.node[n].parent = u.node[n].parent /\ x.node[n].vals = u.node[n].vals
         /\ x.node[n].prev = u.node[n].prev /\ x.node[n].next = u.node[n].next
  BY <1>01 DEF PairView
<1>8. SameFrame(x, u) /\ DOMAIN x.node = DOMAIN u.node /\ DOMAIN u.node = DOMAIN t.node
  BY <1>01, <1>7 DEF SameFrame
<1>9. EnterView(x, u, p, j, s, r)
  BY <1>01, <1>1, <1>3, <1>6, <1>7, <1>8 DEF EnterView
<1>10. RemovedAt(Int, cs, j + 1, c2)
  BY <1>0, <1>1, <1>2, <1>4, RemoveAtDoes
<1>11. Len(c2) = M + 1 - 1 /\ c2[j] = cs[j]
  BY <1>2, <1>4, <1>10 DEF RemovedAt
<1> QED BY <1>2, <1>4, <1>7, <1>8, <1>9, <1>11 DEF Reenters

\* A leaf takes entries from its neighbour.
LEMMA LeafShiftInv ==
    ASSUME NEW t, NEW u, NEW g, SettledG(t, g), NEW p, NEW j, NEW l, NEW r,
           Sibs(t, g, p, j, l, r), l \in LeafSet(t), Arena(u), LeafShift(t, u, p, j, l, r)
    PROVE  (\E h : SettledG(u, h)) /\ SameEntries(t, u)
<1>1. Arena(t) /\ Shape(t, g, {t.root})
  BY DEF SettledG, TreeInv
<1>2. /\ p \in DOMAIN t.node /\ l \in DOMAIN t.node /\ r \in DOMAIN t.node /\ p # l /\ p # r /\ l # r
      /\ g.lev[l] = g.lev[r] /\ t.node[r].parent = p
  BY DEF Sibs
<1>3. r \in LeafSet(t)
  <2>1. LevelOf(g, l, t.node[l]) /\ LevelOf(g, r, t.node[r]) /\ t.node[l].kids = <<>>
    BY <1>1, <1>2 DEF Shape, Hangs, LeafSet
  <2> QED BY <2>1, <1>2 DEF LevelOf, LeafSet
<1>4. PICK w : w = WithoutChild(MergedLeaves(t, p, j), p, j)
  OBVIOUS
<1>5. Arena(w) /\ MergeView(t, w, p, j, l, r) /\ LeafJoin(t, w, l, r)
  BY <1>4, MergedLeavesEffect
<1>6. PICK g1 : g1 = JoinG(g, l, r)
  OBVIOUS
<1>7. SettledG(w, g1) /\ SameEntries(t, w)
  BY <1>5, <1>6, LeafJoinInv
<1>8. PICK k2, c2 : k2 = RemoveAt(t.node[p].keys, j) /\ c2 = RemoveAt(t.node[p].kids, j + 1)
  OBVIOUS
<1>9. k2 \in Seq(Key) /\ c2 \in Seq(Int)
  <2>1. w.node[p].keys = k2 /\ w.node[p].kids = c2 /\ p \in DOMAIN w.node
    BY <1>2, <1>5, <1>8 DEF MergeView
  <2> QED BY <2>1, <1>5, ArenaParts
<1>10. PICK x : x = Pair(u, p, k2, c2)
  OBVIOUS
<1>11. p \in DOMAIN u.node /\ l \in DOMAIN u.node /\ r \in DOMAIN u.node
  BY <1>2 DEF LeafShift, SameFrame
<1>12. Arena(x) /\ PairView(u, x, p, k2, c2)
  BY <1>9, <1>10, <1>11, PairEffect
<1>13. PICK m : m = Len(u.node[l].keys)
  OBVIOUS
<1>14. LeafCut(w, x, l, r, m)
  BY <1>3, <1>5, <1>8, <1>12, <1>13, LeafShiftViews
<1>15. PICK c, d : c = u.node[l].keys /\ d = u.node[r].keys
  OBVIOUS
<1>16. c \in Seq(Key) /\ d \in Seq(Key) /\ c # <<>> /\ d # <<>> /\ m = Len(c)
  BY <1>11, <1>13, <1>15, ArenaParts DEF LeafShift
<1>17. PICK wk, L : wk = w.node[l].keys /\ L = Len(wk)
  OBVIOUS
<1>18. wk = c \o d
  BY <1>5, <1>15, <1>17 DEF LeafJoin, LeafShift
<1>19. PICK B : B = Len(d)
  OBVIOUS
<1>20. Chained(m, B, c, d, wk)
  BY <1>16, <1>18, <1>19, ConcatDoes
<1>21. m \in Nat /\ B \in Nat /\ m # 0 /\ B # 0 /\ L = m + B
  BY <1>16, <1>17, <1>19, <1>20 DEF Chained
<1>22. m \in 1 .. Len(w.node[l].keys) - 1
  BY <1>17, <1>21
<1>23. PICK s : s = d[1]
  OBVIOUS
<1>24. s = w.node[l].keys[m + 1] /\ s \in Key
  <2>1. 1 \in 1 .. B
    BY <1>21
  <2> QED BY <2>1, <1>16, <1>17, <1>19, <1>20, <1>23 DEF Chained
<1>25. l \in LeafSet(w)
  <2>1. w.node[l].kids = t.node[l].kids \o t.node[r].kids /\ DOMAIN w.node = DOMAIN t.node \ {r}
    BY <1>5 DEF MergeView
  <2>2. t.node[l].kids = <<>> /\ t.node[r].kids = <<>>
    BY <1>3 DEF LeafSet
  <2>3. w.node[l].kids = <<>>
    BY <2>1, <2>2
  <2> QED BY <2>1, <2>3, <1>2 DEF LeafSet
<1>26. PICK g2 : g2 = CutG(g1, l, r, s)
  OBVIOUS
<1>27. SplittingG(x, g2, l, s, r) /\ SameEntries(w, x)
  BY <1>7, <1>12, <1>14, <1>22, <1>24, <1>25, <1>26, LeafCutInv
<1>28. Swapped(t, u, p, j, s, r) /\ Lacks(t, u, x, p, j)
  BY <1>2, <1>8, <1>12, <1>15, <1>23, <1>24 DEF LeafShift, Swapped, Lacks
<1>281. Reenters(x, u, p, j, s, l, r)
  BY <1>28, BackIn
<1>29. /\ EnterView(x, u, p, j, s, r) /\ p \in DOMAIN x.node
       /\ j \in 1 .. Len(x.node[p].kids) /\ x.node[p].kids[j] = l
  BY <1>281 DEF Reenters
<1>30. SettledG(u, Calm(g2)) /\ SameEntries(x, u)
  BY <1>27, <1>29, EnterInv
<1> QED BY <1>7, <1>27, <1>30 DEF SameEntries
==============================================================================
