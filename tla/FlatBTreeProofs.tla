--------------------------- MODULE FlatBTreeProofs ---------------------------
(*****************************************************************************)
(* The theorems about FlatBTree.tla.  TreeRight says for each place in the   *)
(* code what the tree under way is: whole, with a node under the minimum,    *)
(* with a split node not yet in its parent, or a row of loaded nodes not yet *)
(* under a root.  It is an inductive invariant; WellLinked, EveryEntryFound, *)
(* ArenaAccounted and EverythingDropped follow from it, and with it every    *)
(* step is a step of the map or a stutter.                                   *)
(*****************************************************************************)
EXTENDS FlatBTreeRepairProofs

\* A tree of one leaf with one entry.
FirstTree(k, v) ==
    [node |-> [m \in {0} |-> Leaf(<<k>>, <<v>>, NO_NODE, NO_NODE, NO_NODE)], free |-> <<>>, hi |-> 1,
     root |-> 0, first |-> 0, last |-> 0, len |-> 1, height |-> 0]

\* What the first insert makes of tree t.
FirstInsert(t, k, v) ==
    [Alloc(t, Leaf(<<k>>, <<v>>, NO_NODE, NO_NODE, NO_NODE))
                  EXCEPT !.root = Fresh(t), !.first = Fresh(t), !.last = Fresh(t), !.len = 1]

\* The first insert makes that tree.
LEMMA FirstInsertIs ==
    ASSUME NEW k, NEW v
    PROVE  FirstInsert(NewTree, k, v) = FirstTree(k, v)
<1>1. PICK n : n = Leaf(<<k>>, <<v>>, NO_NODE, NO_NODE, NO_NODE)
  OBVIOUS
<1>2. Fresh(NewTree) = 0
  BY DEF Fresh, NewTree
<1>3. PICK a : a = Alloc(NewTree, n)
  OBVIOUS
<1>4. a = [NewTree EXCEPT !.node = [m \in DOMAIN @ \cup {0} |-> IF m = 0 THEN n ELSE @[m]],
              !.free = IF @ = <<>> THEN @ ELSE Tail(@),
              !.hi   = IF NewTree.free = <<>> THEN @ + 1 ELSE @]
  BY <1>2, <1>3 DEF Alloc
<1>5. NewTree.node = <<>> /\ NewTree.free = <<>> /\ NewTree.hi = 0
  BY DEF NewTree
<1>6. a = [node |-> [m \in {0} |-> n], free |-> <<>>, hi |-> 1, root |-> NO_NODE,
            first |-> NO_NODE, last |-> NO_NODE, len |-> 0, height |-> 0]
  <2>1. DOMAIN NewTree.node \cup {0} = {0}
    BY <1>5
  <2>2. [m \in DOMAIN NewTree.node \cup {0} |-> IF m = 0 THEN n ELSE NewTree.node[m]] = [m \in {0} |-> n]
    BY <2>1
  <2>3. PICK nn : nn = [m \in {0} |-> n]
    OBVIOUS
  <2>4. a = [NewTree EXCEPT !.node = nn, !.free = <<>>, !.hi = 1]
    <3>1. NewTree.hi + 1 = 1
      BY <1>5
    <3> QED BY ONLY <2>2, <2>3, <1>4, <1>5, <3>1
  <2>5. [NewTree EXCEPT !.node = nn, !.free = <<>>, !.hi = 1] =
            [node |-> nn, free |-> <<>>, hi |-> 1, root |-> NO_NODE,
            first |-> NO_NODE, last |-> NO_NODE, len |-> 0, height |-> 0]
    <3>1. PICK e : e = <<>>
      OBVIOUS
    <3>2. NewTree = [node |-> e, free |-> e, hi |-> 0, root |-> NO_NODE,
            first |-> NO_NODE, last |-> NO_NODE, len |-> 0, height |-> 0]
      BY <3>1 DEF NewTree
    <3>3. [NewTree EXCEPT !.node = nn, !.free = e, !.hi = 1] =
            [node |-> nn, free |-> e, hi |-> 1, root |-> NO_NODE,
            first |-> NO_NODE, last |-> NO_NODE, len |-> 0, height |-> 0]
      <4>1. PICK a1 : a1 = [NewTree EXCEPT !.node = nn]
        OBVIOUS
      <4>2. PICK a2 : a2 = [a1 EXCEPT !.free = e]
        OBVIOUS
      <4>3. a1 = [node |-> nn, free |-> e, hi |-> 0, root |-> NO_NODE,
            first |-> NO_NODE, last |-> NO_NODE, len |-> 0, height |-> 0]
        BY ONLY <4>1, <3>2
      <4>4. a2 = [node |-> nn, free |-> e, hi |-> 0, root |-> NO_NODE,
            first |-> NO_NODE, last |-> NO_NODE, len |-> 0, height |-> 0]
        BY ONLY <4>2, <4>3
      <4>5. [a2 EXCEPT !.hi = 1] = [node |-> nn, free |-> e, hi |-> 1, root |-> NO_NODE,
            first |-> NO_NODE, last |-> NO_NODE, len |-> 0, height |-> 0]
        BY ONLY <4>4
      <4>6. [NewTree EXCEPT !.node = nn, !.free = e, !.hi = 1] = [a2 EXCEPT !.hi = 1]
        BY <4>1, <4>2
      <4> QED BY <4>5, <4>6
    <3> QED BY ONLY <3>1, <3>3
  <2> QED BY ONLY <2>3, <2>4, <2>5
<1>7. FirstInsert(NewTree, k, v) = [a EXCEPT !.root = 0, !.first = 0, !.last = 0, !.len = 1]
  BY <1>1, <1>2, <1>3 DEF FirstInsert
<1>8. FirstTree(k, v) = [node |-> [m \in {0} |-> n], free |-> <<>>, hi |-> 1,
     root |-> 0, first |-> 0, last |-> 0, len |-> 1, height |-> 0]
  BY <1>1 DEF FirstTree
<1> QED BY <1>6, <1>7, <1>8

\* An empty tree has no entries.
LEMMA NewTreeEmpty ==
    /\ LeafSet(NewTree) = {} /\ KeySet(NewTree) = {} /\ \A k, v : ~Has(NewTree, k, v)
    /\ NewTree.len = 0 /\ NewTree.root = NO_NODE /\ NewTree.node = <<>> /\ NewTree.first = NO_NODE
<1>1. NewTree.node = <<>> /\ NewTree.len = 0 /\ NewTree.root = NO_NODE /\ NewTree.first = NO_NODE
  BY DEF NewTree
<1>2. LeafSet(NewTree) = {}
  BY <1>1 DEF LeafSet
<1>3. KeySet(NewTree) = {}
  BY <1>2 DEF KeySet
<1>4. \A k, v : ~Has(NewTree, k, v)
  BY <1>2 DEF Has
<1> QED BY <1>1, <1>2, <1>3, <1>4

\* A settled tree has a root.
LEMMA SettledRoot ==
    ASSUME NEW t, NEW g, SettledG(t, g)
    PROVE  t.root # NO_NODE /\ t.root \in DOMAIN t.node /\ t # NewTree
<1>1. t.root \in DOMAIN t.node /\ Arena(t)
  BY DEF SettledG, RootTop, TreeInv
<1>2. t.root # NO_NODE
  BY <1>1, ArenaParts
<1> QED BY <1>1, <1>2, NewTreeEmpty

\* The ranges of a single leaf.
FirstGhost == [lev |-> [m \in {0} |-> 0], lo |-> [m \in {0} |-> Least], hi |-> [m \in {0} |-> Greatest],
               out |-> [m \in {0} |-> Greatest]]

\* The tree of one entry is in order.
LEMMA FirstSettled ==
    ASSUME NEW k \in Key, NEW v \in Value, NEW u, u = FirstTree(k, v)
    PROVE  (\E h : SettledG(u, h)) /\ EntryPut(NewTree, u, k, v) /\ Inners(u)
<1>1. PICK n, g : n = Leaf(<<k>>, <<v>>, NO_NODE, NO_NODE, NO_NODE) /\ g = FirstGhost
  OBVIOUS
<1>2. /\ u = [node |-> [m \in {0} |-> n], free |-> <<>>, hi |-> 1,
              root |-> 0, first |-> 0, last |-> 0, len |-> 1, height |-> 0]
  BY <1>1 DEF FirstTree
<1>3. /\ u.node = [m \in {0} |-> n] /\ u.free = <<>> /\ u.hi = 1 /\ u.root = 0 /\ u.first = 0 /\ u.last = 0
      /\ u.len = 1 /\ u.height = 0 /\ DOMAIN u.node = {0} /\ u.node[0] = n
  BY <1>2
<1>4. /\ n = [keys |-> <<k>>, vals |-> <<v>>, kids |-> <<>>, parent |-> NO_NODE, prev |-> NO_NODE, next |-> NO_NODE]
  BY <1>1 DEF Leaf
<1>5. /\ n.keys = <<k>> /\ n.vals = <<v>> /\ n.kids = <<>> /\ n.parent = NO_NODE /\ n.prev = NO_NODE /\ n.next = NO_NODE
  BY <1>4
<1>6. /\ g.lev[0] = 0 /\ g.lo[0] = Least /\ g.hi[0] = Greatest /\ g.out[0] = Greatest
  BY <1>1 DEF FirstGhost
<1>7. /\ Least \in Int /\ Greatest \in Int /\ Least < Greatest /\ Least < k /\ k < Greatest /\ k \in Int
  BY BoundsExist, KeyAssumption
<1>8. Arena(u)
  <2>1. n \in NodeRec
    BY <1>4 DEF NodeRec, NO_NODE
  <2>2. u.node \in [DOMAIN u.node -> NodeRec]
    BY <2>1, <1>3
  <2>3. IsInjective(u.free) /\ u.free \in Seq(Int) /\ ToSet(u.free) = {}
    BY <1>3 DEF IsInjective, ToSet
  <2>4. DOMAIN u.node = 0 .. u.hi - 1
    BY <1>3
  <2>5. u.hi \in Nat /\ u.root \in Int /\ u.first \in Int /\ u.last \in Int /\ u.height \in Nat
    BY <1>3
  <2>6. u = [node |-> u.node, free |-> u.free, hi |-> u.hi, root |-> u.root,
            first |-> u.first, last |-> u.last, len |-> u.len, height |-> u.height]
    BY <1>2
  <2> QED BY <2>2, <2>3, <2>4, <2>5, <2>6 DEF Arena
<1>9. LeafSet(u) = {0}
  BY <1>3, <1>5 DEF LeafSet
<1>10. Len(n.keys) = 1 /\ Len(n.vals) = 1 /\ n.keys[1] = k /\ n.vals[1] = v /\ Len(n.kids) = 0
  BY <1>5
<1>11. Shape(u, g, {u.root})
  <2>1. Hangs(u, g, {u.root}, 0)
    BY <1>3, <1>5, <1>6, <1>10 DEF Hangs, LevelOf
  <2> QED BY <2>1, <1>3 DEF Shape
<1>12. Order(u, g)
  <2>1. RangeOf(g, 0)
    BY <1>6, <1>7 DEF RangeOf
  <2>2. Sorted(n.keys)
    BY <1>10 DEF Sorted
  <2>3. LeafKeys(g, 0, n)
    BY <1>6, <1>7, <1>10 DEF LeafKeys
  <2>4. Guides(g, 0, n)
    BY <2>1, <2>2, <2>3, <1>5 DEF Guides
  <2> QED BY <2>4, <1>3 DEF Order
<1>13. Links(u, g)
  <2>1. LinksOf(u, g, 0)
    BY <1>3, <1>5, <1>6 DEF LinksOf
  <2> QED BY <2>1, <1>3, <1>5, <1>9 DEF Links
<1>14. ASSUME NEW x, NEW y PROVE Has(u, x, y) <=> x = k /\ y = v
  <2>1. Has(u, x, y) <=> \E i \in 1 .. Len(u.node[0].keys) : u.node[0].keys[i] = x /\ u.node[0].vals[i] = y
    BY <1>9 DEF Has
  <2> QED BY <2>1, <1>3, <1>10
<1>15. KeySet(u) = {k}
  <2>1. KeySet(u) = ToSet(<<k>>)
    BY <1>3, <1>5, <1>9 DEF KeySet
  <2> QED BY <2>1 DEF ToSet
<1>16. u.len = Cardinality(KeySet(u))
  BY <1>3, <1>15, FS_Singleton
<1>17. RootTop(u, g)
  BY <1>3, <1>5, <1>6 DEF RootTop
<1>18. SettledG(u, g)
  BY <1>3, <1>6, <1>8, <1>11, <1>12, <1>13, <1>16, <1>17 DEF SettledG, TreeInv
<1>19. EntryPut(NewTree, u, k, v)
  BY <1>14, NewTreeEmpty DEF EntryPut
<1>20. Inners(u)
  BY <1>3, <1>5 DEF Inners
<1> QED BY <1>18, <1>19, <1>20

\* The chain of an empty tree.
LEMMA NewTreeChain == Chain(NewTree) = <<>> /\ BackChain(NewTree) = <<>>
<1>1. PICK e : e = [m \in {NO_NODE} |-> <<>>]
  OBVIOUS
<1>2. ASSUME NEW f PROVE /\ ChainBody(NewTree, f) = [m \in {NO_NODE} |-> <<>>]
                         /\ BackBody(NewTree, f) = [m \in {NO_NODE} |-> <<>>]
  BY NewTreeEmpty DEF ChainBody, BackBody
<1>3. e = ChainBody(NewTree, e) /\ e = BackBody(NewTree, e)
  BY <1>1, <1>2
<1>4. PICK f, h : f = (CHOOSE x : x = ChainBody(NewTree, x)) /\ h = (CHOOSE x : x = BackBody(NewTree, x))
  OBVIOUS
<1>5. f = ChainBody(NewTree, f) /\ h = BackBody(NewTree, h)
  BY <1>3, <1>4
<1>6. f[NO_NODE] = <<>> /\ h[NO_NODE] = <<>>
  BY <1>2, <1>5
<1>7. NewTree.last = NO_NODE
  BY DEF NewTree
<1> QED BY <1>4, <1>6, <1>7, ChainIs, NewTreeEmpty DEF Chain

\* A scan of an empty tree.
LEMMA NewTreeScan ==
    ASSUME NEW k
    PROVE  ScanFor(NewTree, k) = <<NO_NODE, 1>>
<1>1. PICK c, I : c = Chain(NewTree) /\ I = {j \in 1 .. Len(c) : Contains(NewTree.node[c[j]].keys, k)}
  OBVIOUS
<1>2. Len(c) = 0
  BY <1>1, NewTreeChain
<1>3. I = {}
  BY <1>1, <1>2
<1>4. SelectInSeq(c, LAMBDA l : Contains(NewTree.node[l].keys, k)) = 0
  BY <1>1, <1>3 DEF SelectInSeq
<1> QED BY <1>1, <1>4 DEF ScanFor

\* Between calls: an empty tree, or one in order.
Whole(t) == t = NewTree \/ (Inners(t) /\ \E g : SettledG(t, g))

\* What the calls under way rely on.
RetainJob(t, j) == /\ j = [at |-> j.at, slot |-> j.slot] /\ j.slot \in Nat \ {0}
                   /\ j.at \in LeafSet(t) \cup {NO_NODE}
RepairJob(t, j) == Inners(t) /\ (\E g : SettledG(t, g)) /\ j.at \in DOMAIN t.node /\ j.at # t.root
LeafJob(t, j) == RepairJob(t, j) /\ j.at \in LeafSet(t) /\ Len(t.node[j.at].keys) < LeafMin
InnerJob(t, j) == RepairJob(t, j) /\ t.node[j.at].kids # <<>>
PathJob(t, j) == /\ Inners(t) /\ j = [path |-> j.path, key |-> j.key, new |-> j.new]
                 /\ \E g, x : SplittingG(t, g, x, j.key, j.new) /\ PathIs(t, j.path, x)
LazyJob(t, j) == /\ Inners(t) /\ j = [at |-> j.at, key |-> j.key, new |-> j.new]
                 /\ \E g : SplittingG(t, g, j.at, j.key, j.new)
BulkJob(t, j) == /\ Inners(t) /\ j = [row |-> j.row, mins |-> j.mins]
                 /\ \E g : LoadingG(t, g, j.row, j.mins)

\* The tree while a call is at c with local variables j.
TreeOK(t, c, j) ==
    \/ c = "idle" /\ Whole(t)
    \/ c = "underflow" /\ Whole(t)
    \/ c = "retain" /\ Whole(t) /\ RetainJob(t, j)
    \/ c = "rebalance_leaf" /\ LeafJob(t, j)
    \/ c = "rebalance_internal" /\ InnerJob(t, j)
    \/ c = "propagate_split" /\ PathJob(t, j)
    \/ c = "propagate_split_lazy" /\ LazyJob(t, j)
    \/ c = "bulk_load" /\ BulkJob(t, j)

\* r is the value of k, or NONE when k has none.
Answer(t, k, r) == Has(t, k, r) \/ ((\A v : ~Has(t, k, v)) /\ r = NONE)

\* What a put leaves behind: done, or leaf l has been split at s and f is new.
PutDone(t, u, k, v) == (\E h : SettledG(u, h)) /\ Inners(u) /\ EntryPut(t, u, k, v)
PutSplits(t, u, l, k, v, s, f) ==
    /\ (\E h : SplittingG(u, h, l, s, f)) /\ Inners(u) /\ EntryPut(t, u, k, v)
    /\ \A path : PathIs(t, path, l) => PathIs(u, path, l)

\* The local variables of a split at s with new node f.
SplitJob(j, s, f) == [j EXCEPT !.key = s, !.new = f]

\* PutInLeaf puts the entry.
LEMMA PutInLeafDoes ==
    ASSUME NEW t, t = tree, NEW u, u = tree', NEW g, SettledG(t, g), Inners(t), NEW l, NEW i, NEW k \in Key, NEW v \in Value,
           PutPoint(t, g, l, i, k), ~IsAt(t, l, i, k), NEW then, NEW j, PutInLeaf(l, i, k, v, then, j)
    PROVE  /\ ret' = NONE
           /\ \/ pc' = "idle" /\ PutDone(t, u, k, v)
              \/ \E s, f : pc' = then /\ PutSplits(t, u, l, k, v, s, f) /\ job' = SplitJob(j, s, f)
<1>1. ret' = NONE
  BY DEF PutInLeaf
<1>2. CASE u = LeafInsertAt(t, l, i, k, v) /\ Done
  <2>1. SettledG(u, g) /\ EntryPut(t, u, k, v) /\ Inners(u)
    BY <1>2, LeafPut
  <2>2. pc' = "idle"
    BY <1>2 DEF Done
  <2> QED BY <2>1, <2>2, <1>1 DEF PutDone
<1>3. CASE /\ Len(t.node[l].keys) = LeafCap
           /\ u = LeafSplitAndInsert(t, l, i, k, v)
           /\ pc' = then
           /\ job' = [j EXCEPT !.key = Head(u.node[Fresh(t)].keys), !.new = Fresh(t)]
  <2>1. PICK s, f : f = Fresh(t) /\ s = Head(u.node[f].keys)
    OBVIOUS
  <2>2. /\ SplittingG(u, CutG(g, l, f, s), l, s, f) /\ EntryPut(t, u, k, v) /\ Inners(u)
        /\ \A path : PathIs(t, path, l) => PathIs(u, path, l)
    BY <1>3, <2>1, PutSplit
  <2>3. PutSplits(t, u, l, k, v, s, f)
    BY <2>2 DEF PutSplits
  <2>4. job' = SplitJob(j, s, f)
    BY <2>1, <1>3 DEF SplitJob
  <2> QED BY <2>3, <2>4, <1>1, <1>3
<1> QED BY <1>2, <1>3 DEF PutInLeaf

\* The first insert.
LEMMA InsertFirstDoes ==
    ASSUME NEW t, t = tree, NEW u, u = tree', Whole(t), NEW k \in Key, NEW v \in Value, InsertFirst(k, v)
    PROVE  /\ t = NewTree /\ PutDone(t, u, k, v) /\ pc' = "idle" /\ ret' = NONE
<1>1. t.root = NO_NODE /\ ret' = NONE /\ pc' = "idle"
  BY DEF InsertFirst, Return, Done
<1>2. t = NewTree
  BY <1>1, SettledRoot DEF Whole
<1>3. u = FirstInsert(t, k, v)
  BY DEF InsertFirst, FirstInsert
<1>4. u = FirstTree(k, v)
  BY <1>2, <1>3, FirstInsertIs
<1> QED BY <1>1, <1>2, <1>4, FirstSettled DEF PutDone

\* A whole tree with a root is in order.
LEMMA WholeRooted ==
    ASSUME NEW t, Whole(t), t.root # NO_NODE
    PROVE  Inners(t) /\ \E g : SettledG(t, g)
BY NewTreeEmpty DEF Whole

\* insert keeps the tree in order, puts the entry and hands the old value back.
LEMMA InsertDoes ==
    ASSUME NEW t, t = tree, NEW u, u = tree', NEW j, j = job', Whole(t), NEW k \in Key, NEW v \in Value, Insert(k, v)
    PROVE  /\ (pc' = "idle" /\ Whole(u)) \/ (pc' = "propagate_split" /\ PathJob(u, j))
           /\ EntryPut(t, u, k, v) /\ Answer(t, k, ret')
<1>1. CASE InsertFirst(k, v)
  <2>1. t = NewTree /\ PutDone(t, u, k, v) /\ pc' = "idle" /\ ret' = NONE
    BY <1>1, InsertFirstDoes
  <2>2. Whole(u) /\ EntryPut(t, u, k, v)
    BY <2>1 DEF Whole, PutDone
  <2>3. Answer(t, k, ret')
    BY <2>1, NewTreeEmpty DEF Answer
  <2> QED BY <2>1, <2>2, <2>3
<1>2. CASE t.root # NO_NODE
  <2>1. PICK p : p = InsertPoint(t, k)
    OBVIOUS
  <2>2. Inners(t)
    BY <1>2, WholeRooted
  <2>3. PICK g : SettledG(t, g)
    BY <1>2, WholeRooted
  <2>4. PutPoint(t, g, p.leaf, p.slot, k) /\ PathIs(t, p.path, p.leaf)
    BY <2>1, <2>3, InsertPointRight
  <2>5. k \in Int /\ TreeInv(t, g, {t.root})
    BY <2>3, KeyAssumption DEF SettledG
  <2>6. /\ IsAt(t, p.leaf, p.slot, k) => Has(t, k, t.node[p.leaf].vals[p.slot]) /\ p.slot \in 1 .. Len(t.node[p.leaf].keys)
        /\ ~IsAt(t, p.leaf, p.slot, k) => \A w : ~Has(t, k, w)
    BY <2>4, <2>5, PutPointDecides
  <2>7. CASE IsAt(t, p.leaf, p.slot, k) /\ u = [t EXCEPT !.node[p.leaf].vals[p.slot] = v]
             /\ Return(t.node[p.leaf].vals[p.slot])
    <3>1. u = Written(t, p.leaf, p.slot, v)
      BY <2>7 DEF Written
    <3>2. p.leaf \in LeafSet(t)
      BY <2>4 DEF PutPoint
    <3>3. k = t.node[p.leaf].keys[p.slot]
      BY <2>7 DEF IsAt
    <3>4. SettledG(u, g) /\ EntryPut(t, u, k, v) /\ Inners(u)
      <4>1. PICK l, i : l = p.leaf /\ i = p.slot
        OBVIOUS
      <4>2. /\ l \in LeafSet(t) /\ i \in 1 .. Len(t.node[l].keys) /\ k = t.node[l].keys[i] /\ u = Written(t, l, i, v)
            /\ v \in Value
        BY <4>1, <3>1, <3>2, <3>3, <2>6, <2>7
      <4> QED BY ONLY <4>2, <2>2, <2>3, LeafWrite
    <3>5. ret' = t.node[p.leaf].vals[p.slot] /\ pc' = "idle"
      BY <2>7 DEF Return, Done
    <3> QED BY <3>4, <3>5, <2>6, <2>7 DEF Whole, Answer
  <2>8. CASE ~IsAt(t, p.leaf, p.slot, k)
             /\ PutInLeaf(p.leaf, p.slot, k, v, "propagate_split", [path |-> p.path, key |-> k, new |-> NO_NODE])
    <3>1. PICK l, i, j0, path : l = p.leaf /\ i = p.slot /\ path = p.path /\ j0 = [path |-> p.path, key |-> k, new |-> NO_NODE]
      OBVIOUS
    <3>2. PutInLeaf(l, i, k, v, "propagate_split", j0) /\ PutPoint(t, g, l, i, k) /\ ~IsAt(t, l, i, k) /\ PathIs(t, path, l)
      BY <3>1, <2>4, <2>8
    <3>3. /\ ret' = NONE
          /\ \/ pc' = "idle" /\ PutDone(t, u, k, v)
             \/ \E s, f : pc' = "propagate_split" /\ PutSplits(t, u, l, k, v, s, f) /\ job' = SplitJob(j0, s, f)
      <4>1. t = tree /\ u = tree' /\ k \in Key /\ v \in Value
        OBVIOUS
      <4> QED BY ONLY <4>1, <3>2, <2>2, <2>3, PutInLeafDoes
    <3>4. Answer(t, k, ret')
      BY <3>3, <2>6, <2>8 DEF Answer
    <3>5. CASE pc' = "idle" /\ PutDone(t, u, k, v)
      BY <3>4, <3>5 DEF PutDone, Whole
    <3>6. ASSUME NEW s, NEW f, pc' = "propagate_split", PutSplits(t, u, l, k, v, s, f), job' = SplitJob(j0, s, f)
          PROVE  PathJob(u, j) /\ EntryPut(t, u, k, v)
      <4>1. j = [path |-> path, key |-> s, new |-> f]
        BY <3>1, <3>6 DEF SplitJob
      <4>2. j.path = path /\ j.key = s /\ j.new = f /\ j = [path |-> j.path, key |-> j.key, new |-> j.new]
        BY <4>1
      <4>3. PICK h : SplittingG(u, h, l, s, f)
        BY <3>6 DEF PutSplits
      <4>4. Inners(u) /\ EntryPut(t, u, k, v) /\ PathIs(u, path, l)
        BY <3>2, <3>6 DEF PutSplits
      <4> QED BY <4>2, <4>3, <4>4 DEF PathJob
    <3> QED BY <3>3, <3>4, <3>5, <3>6
  <2> QED BY <2>1, <2>7, <2>8, <1>2 DEF Insert, InsertFirst
<1> QED BY <1>1, <1>2 DEF Insert

\* try_insert and the vacant entries do the same when the key is absent.
LEMMA TryInsertDoes ==
    ASSUME NEW t, t = tree, NEW u, u = tree', NEW j, j = job', Whole(t), NEW k \in Key, NEW v \in Value, TryInsert(k, v)
    PROVE  /\ (pc' = "idle" /\ Whole(u)) \/ (pc' = "propagate_split_lazy" /\ LazyJob(u, j))
           /\ \/ EntryPut(t, u, k, v) /\ ret' = NONE /\ \A w : ~Has(t, k, w)
              \/ u = t /\ ret' = v /\ \E w : Has(t, k, w)
<1>1. CASE InsertFirst(k, v)
  <2>1. t = NewTree /\ PutDone(t, u, k, v) /\ pc' = "idle" /\ ret' = NONE
    BY <1>1, InsertFirstDoes
  <2>2. Whole(u) /\ EntryPut(t, u, k, v)
    BY <2>1 DEF Whole, PutDone
  <2> QED BY <2>1, <2>2, NewTreeEmpty
<1>2. CASE t.root # NO_NODE
  <2>1. PICK l, i : l = LeafFor(t, k) /\ i = SlotFor(t, l, k)
    OBVIOUS
  <2>2. Inners(t)
    BY <1>2, WholeRooted
  <2>3. PICK g : SettledG(t, g)
    BY <1>2, WholeRooted
  <2>4. PutPoint(t, g, l, i, k)
    BY <2>1, <2>3, SearchPoint
  <2>5. k \in Int /\ TreeInv(t, g, {t.root})
    BY <2>3, KeyAssumption DEF SettledG
  <2>6. /\ IsAt(t, l, i, k) => Has(t, k, t.node[l].vals[i]) /\ i \in 1 .. Len(t.node[l].keys)
        /\ ~IsAt(t, l, i, k) => \A w : ~Has(t, k, w)
    BY <2>4, <2>5, PutPointDecides
  <2>7. CASE IsAt(t, l, i, k) /\ Return(v) /\ UNCHANGED tree
    <3>1. ret' = v /\ pc' = "idle" /\ u = t
      BY <2>7 DEF Return, Done
    <3> QED BY <3>1, <2>6, <2>7
  <2>8. CASE ~IsAt(t, l, i, k)
             /\ PutInLeaf(l, i, k, v, "propagate_split_lazy", [at |-> l, key |-> k, new |-> NO_NODE])
    <3>1. PICK j0 : j0 = [at |-> l, key |-> k, new |-> NO_NODE]
      OBVIOUS
    <3>2. PutInLeaf(l, i, k, v, "propagate_split_lazy", j0)
      BY <3>1, <2>8
    <3>3. /\ ret' = NONE
          /\ \/ pc' = "idle" /\ PutDone(t, u, k, v)
             \/ \E s, f : pc' = "propagate_split_lazy" /\ PutSplits(t, u, l, k, v, s, f) /\ job' = SplitJob(j0, s, f)
      <4>1. t = tree /\ u = tree' /\ k \in Key /\ v \in Value /\ ~IsAt(t, l, i, k)
        BY <2>8
      <4> QED BY ONLY <4>1, <3>2, <2>2, <2>3, <2>4, PutInLeafDoes
    <3>5. CASE pc' = "idle" /\ PutDone(t, u, k, v)
      BY <3>3, <3>5, <2>6, <2>8 DEF PutDone, Whole
    <3>6. ASSUME NEW s, NEW f, pc' = "propagate_split_lazy", PutSplits(t, u, l, k, v, s, f), job' = SplitJob(j0, s, f)
          PROVE  LazyJob(u, j) /\ EntryPut(t, u, k, v)
      <4>1. j = [at |-> l, key |-> s, new |-> f]
        BY <3>1, <3>6 DEF SplitJob
      <4>2. j.at = l /\ j.key = s /\ j.new = f /\ j = [at |-> j.at, key |-> j.key, new |-> j.new]
        BY <4>1
      <4>3. PICK h : SplittingG(u, h, l, s, f)
        BY <3>6 DEF PutSplits
      <4>4. Inners(u) /\ EntryPut(t, u, k, v)
        BY <3>6 DEF PutSplits
      <4> QED BY <4>2, <4>3, <4>4 DEF LazyJob
    <3> QED BY <3>3, <3>5, <3>6, <2>6, <2>8
  <2> QED BY <2>1, <2>7, <2>8, <1>2 DEF TryInsert, InsertFirst
<1> QED BY <1>1, <1>2 DEF TryInsert

\* Entering a parent with room ends the split; a full one is split in turn.
Settles(t, u) == (\E h : SettledG(u, h)) /\ SameEntries(t, u) /\ Inners(u)
SplitsOn(t, u, p, s, f) ==
    /\ (\E h : SplittingG(u, h, p, s, f)) /\ SameEntries(t, u) /\ Inners(u)
    /\ u.root = t.root /\ \A n \in DOMAIN t.node : n \in DOMAIN u.node /\ (n # p => u.node[n].kids = t.node[n].kids)

\* EnterParent takes the new child in.
LEMMA EnterParentDoes ==
    ASSUME NEW t, t = tree, NEW u, u = tree', NEW k, k = job.key, NEW r, r = job.new, NEW g, NEW x, Inners(t),
           SplittingG(t, g, x, k, r), NEW p \in DOMAIN t.node, NEW i \in 1 .. Len(t.node[p].kids), t.node[p].kids[i] = x,
           NEW up, EnterParent(p, i, up)
    PROVE  \/ pc' = "idle" /\ Settles(t, u)
           \/ \E s, f : pc' = pc /\ SplitsOn(t, u, p, s, f) /\ job' = SplitJob(up, s, f)
<1>1. EnterPoint(t, g, x, p, i, k, r)
  BY EnterPointIs
<1>2. CASE u = InternalInsertAt(t, p, i, k, r) /\ Done
  <2>1. SettledG(u, Calm(g)) /\ SameEntries(t, u) /\ Inners(u)
    BY <1>1, <1>2, EnterRoom
  <2> QED BY <2>1, <1>2 DEF Settles, Done
<1>3. CASE /\ Len(t.node[p].keys) = InternalCap
           /\ u = InternalSplitAndInsert(t, p, i, k, r)
           /\ job' = [up EXCEPT !.key = Promoted(t, p, i, k), !.new = Fresh(t)]
           /\ UNCHANGED pc
  <2>1. PICK s, f : s = Promoted(t, p, i, k) /\ f = Fresh(t)
    OBVIOUS
  <2>2. /\ SplittingG(u, CutG(Calm(g), p, f, s), p, s, f) /\ SameEntries(t, u) /\ Inners(u)
        /\ u.root = t.root /\ \A n \in DOMAIN t.node : n \in DOMAIN u.node /\ (n # p => u.node[n].kids = t.node[n].kids)
    BY <1>1, <1>3, <2>1, EnterSplit
  <2>3. SplitsOn(t, u, p, s, f)
    BY <2>2 DEF SplitsOn
  <2>4. job' = SplitJob(up, s, f)
    BY <2>1, <1>3 DEF SplitJob
  <2> QED BY <2>3, <2>4, <1>3
<1> QED BY <1>2, <1>3 DEF EnterParent

\* One level of a split that knows its path.
LEMMA PropagateSplitDoes ==
    ASSUME NEW t, t = tree, NEW u, u = tree', NEW j, j = job, NEW e, e = job', PathJob(t, j), PropagateSplit
    PROVE  /\ (pc' = "idle" /\ Whole(u)) \/ (pc' = "propagate_split" /\ PathJob(u, e))
           /\ SameEntries(t, u) /\ ret' = ret
<1>1. PICK k, r, path : k = j.key /\ r = j.new /\ path = j.path
  OBVIOUS
<1>2. Inners(t) /\ j = [path |-> path, key |-> k, new |-> r]
  BY <1>1 DEF PathJob
<1>3. PICK g, x : SplittingG(t, g, x, k, r) /\ PathIs(t, path, x)
  BY <1>1 DEF PathJob
<1>4. ret' = ret /\ pc = "propagate_split"
  BY DEF PropagateSplit
<1>5. CASE path = <<>> /\ u = NewRoot(t, t.root, k, r) /\ Done
  <2>1. x = t.root
    BY <1>3, <1>5 DEF PathIs
  <2>2. PICK f : f = Fresh(t)
    OBVIOUS
  <2>3. SettledG(u, RootG(g, x, f)) /\ SameEntries(t, u) /\ Inners(u)
    BY <2>1, <2>2, <1>2, <1>3, <1>5, RootGrows
  <2> QED BY <2>3, <1>4, <1>5 DEF Whole, Done
<1>6. CASE path # <<>> /\ EnterParent(Last(path)[1], Last(path)[2], [j EXCEPT !.path = Front(@)])
  <2>1. PICK p, i, up, fr : p = Last(path)[1] /\ i = Last(path)[2] /\ fr = Front(path) /\ up = [path |-> fr, key |-> k, new |-> r]
    OBVIOUS
  <2>2. /\ p \in DOMAIN t.node /\ i \in 1 .. Len(t.node[p].kids) /\ t.node[p].kids[i] = x
    BY <2>1, <1>3, <1>6, PathUp
  <2>3. up = [j EXCEPT !.path = Front(@)]
    BY <2>1, <1>2
  <2>4. EnterParent(p, i, up)
    BY <2>1, <2>3, <1>6
  <2>5. t = tree /\ u = tree' /\ k = job.key /\ r = job.new
    BY <1>1
  <2>6. \/ pc' = "idle" /\ Settles(t, u)
        \/ \E s, f : pc' = pc /\ SplitsOn(t, u, p, s, f) /\ job' = SplitJob(up, s, f)
    BY ONLY <2>2, <2>4, <2>5, <1>2, <1>3, EnterParentDoes
  <2>7. CASE pc' = "idle" /\ Settles(t, u)
    BY <2>7, <1>4 DEF Settles, Whole
  <2>8. ASSUME NEW s, NEW f, pc' = pc, SplitsOn(t, u, p, s, f), job' = SplitJob(up, s, f)
        PROVE  PathJob(u, e) /\ SameEntries(t, u)
    <3>1. e = [path |-> fr, key |-> s, new |-> f]
      BY <2>1, <2>8 DEF SplitJob
    <3>2. e.path = fr /\ e.key = s /\ e.new = f /\ e = [path |-> e.path, key |-> e.key, new |-> e.new]
      BY <3>1
    <3>3. PICK h : SplittingG(u, h, p, s, f)
      BY <2>8 DEF SplitsOn
    <3>4. /\ SameEntries(t, u) /\ Inners(u) /\ u.root = t.root
          /\ \A n \in DOMAIN t.node : n \in DOMAIN u.node /\ (n # p => u.node[n].kids = t.node[n].kids)
      BY <2>8 DEF SplitsOn
    <3>5. Shape(t, g, {t.root, r}) /\ g.lev[t.root] = t.height /\ t.height \in Nat
      BY <1>3 DEF SplittingG, TreeInv, RootTop, Arena
    <3>6. PathIs(u, Front(path), p)
      BY <3>4, <3>5, <2>1, <1>3, <1>6, PathUpSplit
    <3> QED BY <3>2, <3>3, <3>4, <3>6, <2>1 DEF PathJob
  <2> QED BY <2>6, <2>7, <2>8, <1>4
<1> QED BY <1>1, <1>5, <1>6 DEF PropagateSplit

\* One level of a split that asks for the parent.
LEMMA PropagateSplitLazyDoes ==
    ASSUME NEW t, t = tree, NEW u, u = tree', NEW j, j = job, NEW e, e = job', LazyJob(t, j), PropagateSplitLazy
    PROVE  /\ (pc' = "idle" /\ Whole(u)) \/ (pc' = "propagate_split_lazy" /\ LazyJob(u, e))
           /\ SameEntries(t, u) /\ ret' = ret
<1>1. PICK k, r, x, p, i : k = j.key /\ r = j.new /\ x = j.at /\ p = t.node[x].parent /\ i = SlotInParent(t, x)
  OBVIOUS
<1>2. Inners(t) /\ j = [at |-> x, key |-> k, new |-> r]
  BY <1>1 DEF LazyJob
<1>3. PICK g : SplittingG(t, g, x, k, r)
  BY <1>1 DEF LazyJob
<1>4. ret' = ret /\ pc = "propagate_split_lazy"
  BY DEF PropagateSplitLazy
<1>401. /\ p = NO_NODE <=> x = t.root
        /\ p # NO_NODE => p \in DOMAIN t.node /\ i \in 1 .. Len(t.node[p].kids) /\ t.node[p].kids[i] = x
  BY <1>1, <1>3, SplitSlot
<1>5. CASE p = NO_NODE /\ u = NewRoot(t, x, k, r) /\ Done
  <2>1. x = t.root
    BY <1>5, <1>401
  <2>2. PICK f : f = Fresh(t)
    OBVIOUS
  <2>3. SettledG(u, RootG(g, x, f)) /\ SameEntries(t, u) /\ Inners(u)
    BY <2>1, <2>2, <1>2, <1>3, <1>5, RootGrows
  <2> QED BY <2>3, <1>4, <1>5 DEF Whole, Done
<1>6. CASE p # NO_NODE /\ EnterParent(p, i, [j EXCEPT !.at = p])
  <2>1. PICK up : up = [at |-> p, key |-> k, new |-> r]
    OBVIOUS
  <2>2. /\ p \in DOMAIN t.node /\ i \in 1 .. Len(t.node[p].kids) /\ t.node[p].kids[i] = x
    BY <1>6, <1>401
  <2>3. up = [j EXCEPT !.at = p]
    BY <2>1, <1>2
  <2>4. EnterParent(p, i, up)
    BY <2>3, <1>6
  <2>5. t = tree /\ u = tree' /\ k = job.key /\ r = job.new
    BY <1>1
  <2>6. \/ pc' = "idle" /\ Settles(t, u)
        \/ \E s, f : pc' = pc /\ SplitsOn(t, u, p, s, f) /\ job' = SplitJob(up, s, f)
    BY ONLY <2>2, <2>4, <2>5, <1>2, <1>3, EnterParentDoes
  <2>7. CASE pc' = "idle" /\ Settles(t, u)
    BY <2>7, <1>4 DEF Settles, Whole
  <2>8. ASSUME NEW s, NEW f, pc' = pc, SplitsOn(t, u, p, s, f), job' = SplitJob(up, s, f)
        PROVE  LazyJob(u, e) /\ SameEntries(t, u)
    <3>1. e = [at |-> p, key |-> s, new |-> f]
      BY <2>1, <2>8 DEF SplitJob
    <3>2. e.at = p /\ e.key = s /\ e.new = f /\ e = [at |-> e.at, key |-> e.key, new |-> e.new]
      BY <3>1
    <3>3. PICK h : SplittingG(u, h, p, s, f)
      BY <2>8 DEF SplitsOn
    <3>4. SameEntries(t, u) /\ Inners(u)
      BY <2>8 DEF SplitsOn
    <3> QED BY <3>2, <3>3, <3>4 DEF LazyJob
  <2> QED BY <2>6, <2>7, <2>8, <1>4
<1> QED BY <1>1, <1>5, <1>6 DEF PropagateSplitLazy

\* Taking an entry out of a leaf.
LEMMA LeafRemoveDoes ==
    ASSUME NEW t, t = tree, NEW u, u = tree', NEW e, e = job', NEW g, SettledG(t, g), Inners(t), NEW l \in LeafSet(t),
           NEW i \in 1 .. Len(t.node[l].keys), LeafRemoveAt(l, i), NEW k, k = t.node[l].keys[i]
    PROVE  /\ (pc' = "idle" /\ Whole(u)) \/ (pc' = "rebalance_leaf" /\ LeafJob(u, e))
           /\ EntryGone(t, u, k) /\ Has(t, k, ret') /\ k \in Key
<1>1. u = WithoutEntry(t, l, i) /\ ret' = t.node[l].vals[i]
  BY DEF LeafRemoveAt
<1>2. /\ SettledG(u, g) /\ EntryGone(t, u, k) /\ Inners(u) /\ LeafSet(u) = LeafSet(t) /\ Has(t, k, ret')
  BY <1>1, LeafDrop
<1>3. k \in Key
  <2>1. t.node[l].keys \in Seq(Key)
    BY LeafRun DEF SettledG
  <2> QED BY <2>1
<1>4. CASE NeedsRepair(u, l) /\ pc' = "rebalance_leaf" /\ job' = [at |-> l]
  <2>1. e.at = l
    BY <1>4
  <2>2. Len(u.node[l].keys) < LeafMin /\ u.height > 0
    BY <1>4 DEF NeedsRepair
  <2>3. l \in DOMAIN u.node /\ l \in LeafSet(u) /\ u.node[l].kids = <<>>
    BY <1>2 DEF LeafSet
  <2>4. l # u.root
    <3>1. Shape(u, g, {u.root}) /\ g.lev[u.root] = u.height
      BY <1>2 DEF SettledG, TreeInv, RootTop
    <3>2. g.lev[l] = 0
      BY <3>1, <2>3 DEF Shape, Hangs, LevelOf
    <3>3. ~(0 > 0)
      OBVIOUS
    <3> QED BY <3>1, <3>2, <3>3, <2>2
  <2>5. LeafJob(u, e)
    BY <2>1, <2>2, <2>3, <2>4, <1>2 DEF LeafJob, RepairJob
  <2> QED BY <2>5, <1>2, <1>3, <1>4
<1>5. CASE ~NeedsRepair(u, l) /\ Done
  BY <1>2, <1>3, <1>5 DEF Done, Whole
<1> QED BY <1>4, <1>5 DEF LeafRemoveAt

\* A search finds the key exactly when it is there.
LEMMA FoundRight ==
    ASSUME NEW t, Whole(t), NEW k \in Key
    PROVE  /\ ~Found(t, k) => \A v : ~Has(t, k, v)
           /\ Found(t, k) => LET l == LeafFor(t, k)
                                 i == SlotFor(t, l, k)
                             IN  /\ l \in LeafSet(t) /\ i \in 1 .. Len(t.node[l].keys) /\ t.node[l].keys[i] = k
                                 /\ Has(t, k, t.node[l].vals[i]) /\ Inners(t) /\ \E g : SettledG(t, g)
           /\ Answer(t, k, ValueOf(t, k))
<1>1. CASE t.root = NO_NODE
  <2>1. t = NewTree
    BY <1>1, SettledRoot DEF Whole
  <2> QED BY <1>1, <2>1, NewTreeEmpty DEF Found, Answer, ValueOf
<1>2. CASE t.root # NO_NODE
  <2>1. PICK l, i : l = LeafFor(t, k) /\ i = SlotFor(t, l, k)
    OBVIOUS
  <2>2. Inners(t)
    BY <1>2, WholeRooted
  <2>3. PICK g : SettledG(t, g)
    BY <1>2, WholeRooted
  <2>4. PutPoint(t, g, l, i, k)
    BY <2>1, <2>3, SearchPoint
  <2>5. k \in Int /\ TreeInv(t, g, {t.root})
    BY <2>3, KeyAssumption DEF SettledG
  <2>6. /\ IsAt(t, l, i, k) => Has(t, k, t.node[l].vals[i]) /\ i \in 1 .. Len(t.node[l].keys)
        /\ ~IsAt(t, l, i, k) => \A w : ~Has(t, k, w)
    BY <2>4, <2>5, PutPointDecides
  <2>7. l \in LeafSet(t)
    BY <2>4 DEF PutPoint
  <2>8. Found(t, k) <=> IsAt(t, l, i, k)
    BY <2>1, <1>2 DEF Found
  <2>9. IsAt(t, l, i, k) => t.node[l].keys[i] = k
    BY DEF IsAt
  <2>10. Answer(t, k, ValueOf(t, k))
    BY <2>1, <2>6, <2>8 DEF Answer, ValueOf
  <2> QED BY <2>1, <2>2, <2>3, <2>6, <2>7, <2>8, <2>9, <2>10
<1> QED BY <1>1, <1>2

\* A step that takes out k, or finds no k to take out.
Removes(t, u, k, r) ==
    \/ k \in Key /\ EntryGone(t, u, k) /\ Has(t, k, r)
    \/ u = t /\ r = NONE /\ \A v : ~Has(t, k, v)

\* remove.
LEMMA RemoveKeyDoes ==
    ASSUME NEW t, t = tree, NEW u, u = tree', NEW e, e = job', Whole(t), NEW k \in Key, RemoveKey(k)
    PROVE  /\ (pc' = "idle" /\ Whole(u)) \/ (pc' = "rebalance_leaf" /\ LeafJob(u, e))
           /\ Removes(t, u, k, ret')
<1>1. CASE ~Found(t, k) /\ Return(NONE) /\ UNCHANGED tree
  BY <1>1, FoundRight DEF Return, Done, Removes
<1>2. CASE Found(t, k) /\ LeafRemoveAt(LeafFor(t, k), SlotFor(t, LeafFor(t, k), k))
  <2>1. PICK l, i : l = LeafFor(t, k) /\ i = SlotFor(t, l, k)
    OBVIOUS
  <2>2. l \in LeafSet(t) /\ i \in 1 .. Len(t.node[l].keys) /\ t.node[l].keys[i] = k /\ Inners(t)
    BY <2>1, <1>2, FoundRight
  <2>3. PICK g : SettledG(t, g)
    BY <1>2, FoundRight
  <2>4. LeafRemoveAt(l, i)
    BY <2>1, <1>2
  <2> QED BY <2>2, <2>3, <2>4, LeafRemoveDoes DEF Removes
<1> QED BY <1>1, <1>2 DEF RemoveKey

\* The scan of a whole tree.
LEMMA WholeScan ==
    ASSUME NEW t, Whole(t), NEW k, NEW at, at = ScanFor(t, k)
    PROVE  /\ at[1] = NO_NODE => \A v : ~Has(t, k, v)
           /\ at[1] # NO_NODE => /\ at[1] \in LeafSet(t) /\ at[2] \in 1 .. Len(t.node[at[1]].keys)
                                 /\ t.node[at[1]].keys[at[2]] = k /\ Inners(t) /\ \E g : SettledG(t, g)
<1>1. CASE t = NewTree
  <2>1. at[1] = NO_NODE
    BY <1>1, NewTreeScan
  <2> QED BY <2>1, <1>1, NewTreeEmpty
<1>2. CASE Inners(t) /\ \E g : SettledG(t, g)
  <2>1. PICK g : SettledG(t, g)
    BY <1>2
  <2> QED BY <2>1, <1>2, ScanRight
<1> QED BY <1>1, <1>2 DEF Whole

\* Removal by a scan of the chain.
LEMMA RemoveByEqDoes ==
    ASSUME NEW t, t = tree, NEW u, u = tree', NEW e, e = job', Whole(t), NEW k \in Key, RemoveByEq(k)
    PROVE  /\ (pc' = "idle" /\ Whole(u)) \/ (pc' = "rebalance_leaf" /\ LeafJob(u, e))
           /\ Removes(t, u, k, ret')
<1>1. PICK at : at = ScanFor(t, k)
  OBVIOUS
<1>2. CASE at[1] = NO_NODE /\ Return(NONE) /\ UNCHANGED tree
  <2>1. \A v : ~Has(t, k, v)
    BY <1>1, <1>2, WholeScan
  <2> QED BY <1>2, <2>1 DEF Return, Done, Removes
<1>3. CASE at[1] # NO_NODE /\ LeafRemoveAt(at[1], at[2])
  <2>1. PICK l, i : l = at[1] /\ i = at[2]
    OBVIOUS
  <2>2. /\ l \in LeafSet(t) /\ i \in 1 .. Len(t.node[l].keys) /\ t.node[l].keys[i] = k /\ Inners(t)
        /\ \E g : SettledG(t, g)
    BY <2>1, <1>1, <1>3, WholeScan
  <2>3. PICK g : SettledG(t, g)
    BY <2>2
  <2>4. LeafRemoveAt(l, i)
    BY <2>1, <1>3
  <2> QED BY <2>2, <2>3, <2>4, LeafRemoveDoes DEF Removes
<1> QED BY <1>1, <1>2, <1>3 DEF RemoveByEq

\* The hashed-map lookup: a scan.
LEMMA GetByEqDoes ==
    ASSUME NEW t, t = tree, Whole(t), NEW k \in Key, GetByEq(k)
    PROVE  tree' = tree /\ pc' = "idle" /\ Answer(t, k, ret')
<1>1. PICK at : at = ScanFor(t, k)
  OBVIOUS
<1>2. Return(IF at[1] = NO_NODE THEN NONE ELSE t.node[at[1]].vals[at[2]]) /\ tree' = tree
  BY <1>1 DEF GetByEq
<1>3. ret' = (IF at[1] = NO_NODE THEN NONE ELSE t.node[at[1]].vals[at[2]]) /\ pc' = "idle"
  BY <1>2 DEF Return, Done
<1>4. CASE at[1] = NO_NODE
  <2>1. \A v : ~Has(t, k, v)
    BY <1>1, <1>4, WholeScan
  <2> QED BY <2>1, <1>2, <1>3, <1>4 DEF Answer
<1>5. CASE at[1] # NO_NODE
  <2>1. /\ at[1] \in LeafSet(t) /\ at[2] \in 1 .. Len(t.node[at[1]].keys) /\ t.node[at[1]].keys[at[2]] = k
    BY <1>1, <1>5, WholeScan
  <2>2. Has(t, k, t.node[at[1]].vals[at[2]])
    BY <2>1 DEF Has
  <2> QED BY <2>2, <1>2, <1>3, <1>5 DEF Answer
<1> QED BY <1>4, <1>5

\* A pop takes some entry, or there is none.
Pops(t, u, r) ==
    \/ \E k : k \in Key /\ EntryGone(t, u, k) /\ Has(t, k, r)
    \/ u = t /\ r = NONE /\ \A k, v : ~Has(t, k, v)

\* A tree of length 0 has no entries.
LEMMA LenZero ==
    ASSUME NEW t, Whole(t)
    PROVE  /\ t.len = 0 => \A k, v : ~Has(t, k, v)
           /\ t.len > 0 => Inners(t) /\ \E g : SettledG(t, g)
           /\ t.len \in Nat
<1>1. CASE t = NewTree
  <2>1. ~(0 > 0) /\ 0 \in Nat
    OBVIOUS
  <2> QED BY <1>1, <2>1, NewTreeEmpty
<1>2. CASE Inners(t) /\ \E g : SettledG(t, g)
  <2>1. PICK g : SettledG(t, g)
    BY <1>2
  <2>2. Arena(t) /\ t.len = Cardinality(KeySet(t)) /\ TreeInv(t, g, {t.root})
    BY <2>1 DEF SettledG, TreeInv
  <2>3. IsFiniteSet(KeySet(t)) /\ Cardinality(KeySet(t)) \in Nat
    BY <2>2, KeySetFinite
  <2>4. ASSUME t.len = 0, NEW k, NEW v, Has(t, k, v) PROVE FALSE
    <3>1. KeySet(t) = {}
      BY <2>2, <2>3, <2>4, FS_EmptySet
    <3>2. PICK l \in LeafSet(t) : \E i \in 1 .. Len(t.node[l].keys) : t.node[l].keys[i] = k
      BY <2>4 DEF Has
    <3>3. t.node[l].keys \in Seq(Key)
      BY <2>2, LeafRun
    <3>4. k \in ToSet(t.node[l].keys)
      BY <3>2, <3>3 DEF ToSet
    <3> QED BY <3>1, <3>2, <3>4 DEF KeySet
  <2> QED BY <2>2, <2>3, <2>4, <1>2
<1> QED BY <1>1, <1>2 DEF Whole

\* pop_first.
LEMMA PopFirstDoes ==
    ASSUME NEW t, t = tree, NEW u, u = tree', NEW e, e = job', Whole(t), PopFirst
    PROVE  /\ (pc' = "idle" /\ Whole(u)) \/ (pc' = "rebalance_leaf" /\ LeafJob(u, e))
           /\ Pops(t, u, ret')
<1>1. CASE t.len = 0 /\ Return(NONE) /\ UNCHANGED tree
  BY <1>1, LenZero DEF Return, Done, Pops
<1>2. CASE t.len > 0 /\ LeafRemoveAt(NonEmptyOf(t, Chain(t)), 1)
  <2>1. PICK l : l = NonEmptyOf(t, Chain(t))
    OBVIOUS
  <2>2. Inners(t) /\ \E g : SettledG(t, g)
    BY <1>2, LenZero
  <2>3. PICK g : SettledG(t, g)
    BY <2>2
  <2>4. l \in LeafSet(t) /\ 1 \in 1 .. Len(t.node[l].keys)
    BY <2>1, <2>2, <2>3, <1>2, EndsRight
  <2>5. LeafRemoveAt(l, 1)
    BY <2>1, <1>2
  <2> QED BY <2>2, <2>3, <2>4, <2>5, LeafRemoveDoes DEF Pops
<1> QED BY <1>1, <1>2 DEF PopFirst

\* pop_last.
LEMMA PopLastDoes ==
    ASSUME NEW t, t = tree, NEW u, u = tree', NEW e, e = job', Whole(t), PopLast
    PROVE  /\ (pc' = "idle" /\ Whole(u)) \/ (pc' = "rebalance_leaf" /\ LeafJob(u, e))
           /\ Pops(t, u, ret')
<1>1. CASE t.len = 0 /\ Return(NONE) /\ UNCHANGED tree
  BY <1>1, LenZero DEF Return, Done, Pops
<1>2. CASE t.len > 0 /\ LET l == NonEmptyOf(t, BackChain(t)) IN LeafRemoveAt(l, Len(t.node[l].keys))
  <2>1. PICK l, i : l = NonEmptyOf(t, BackChain(t)) /\ i = Len(t.node[l].keys)
    OBVIOUS
  <2>2. Inners(t) /\ \E g : SettledG(t, g)
    BY <1>2, LenZero
  <2>3. PICK g : SettledG(t, g)
    BY <2>2
  <2>4. l \in LeafSet(t) /\ i \in 1 .. Len(t.node[l].keys)
    BY <2>1, <2>2, <2>3, <1>2, EndsRight
  <2>5. LeafRemoveAt(l, i)
    BY <2>1, <1>2
  <2> QED BY <2>2, <2>3, <2>4, <2>5, LeafRemoveDoes DEF Pops
<1> QED BY <1>1, <1>2 DEF PopLast

\* get_mut writes one value.
LEMMA GetMutDoes ==
    ASSUME NEW t, t = tree, NEW u, u = tree', Whole(t), NEW k \in Key, NEW v \in Value, GetMut(k, v)
    PROVE  pc' = "idle" /\ Whole(u) /\ EntryPut(t, u, k, v) /\ Answer(t, k, ret')
<1>1. PICK l, i : l = LeafFor(t, k) /\ i = SlotFor(t, l, k)
  OBVIOUS
<1>2. Found(t, k) /\ Return(ValueOf(t, k)) /\ u = [t EXCEPT !.node[l].vals[i] = v]
  BY <1>1 DEF GetMut
<1>3. l \in LeafSet(t) /\ i \in 1 .. Len(t.node[l].keys) /\ k = t.node[l].keys[i] /\ Inners(t)
  BY <1>1, <1>2, FoundRight
<1>4. PICK g : SettledG(t, g)
  BY <1>2, FoundRight
<1>5. u = Written(t, l, i, v)
  BY <1>2 DEF Written
<1>6. SettledG(u, g) /\ EntryPut(t, u, k, v) /\ Inners(u)
  BY <1>3, <1>4, <1>5, LeafWrite
<1>7. ret' = ValueOf(t, k) /\ pc' = "idle"
  BY <1>2 DEF Return, Done
<1> QED BY <1>6, <1>7, FoundRight DEF Whole

\* The end of a merge.
LEMMA InternalRemoveDoes ==
    ASSUME NEW t, NEW w, NEW u, u = tree', NEW e, e = job', NEW p, NEW j, MergeMends(t, w, p, j), InternalRemoveAt(w, p, j)
    PROVE  /\ (pc' = "idle" /\ Whole(u)) \/ (pc' = "rebalance_internal" /\ InnerJob(u, e))
           /\ SameEntries(t, u)
<1>1. PICK t1, n : t1 = WithoutChild(w, p, j) /\ n = Len(t1.node[p].keys)
  OBVIOUS
<1>2. /\ w.root = t.root /\ Mended(t, t1) /\ t1.root = t.root /\ p \in DOMAIN t1.node /\ t1.node[p].kids # <<>>
  BY <1>1 DEF MergeMends
<1>3. CASE p = w.root /\ n = 0 /\ u = CollapseRoot(t1) /\ Done
  <2>1. Mended(t, u)
    BY <1>1, <1>3, MergeCollapses
  <2> QED BY <2>1, <1>3 DEF Mended, Done, Whole
<1>4. CASE p # w.root /\ u = t1 /\ pc' = "rebalance_internal" /\ job' = [at |-> p]
  <2>1. e.at = p
    BY <1>4
  <2>2. InnerJob(u, e)
    BY <2>1, <1>2, <1>4 DEF InnerJob, RepairJob, Mended
  <2> QED BY <2>2, <1>2, <1>4 DEF Mended
<1>5. CASE u = t1 /\ Done
  BY <1>2, <1>5 DEF Mended, Done, Whole
<1> QED BY <1>1, <1>3, <1>4, <1>5 DEF InternalRemoveAt

\* The repair of a leaf.
LEMMA RebalanceLeafDoes ==
    ASSUME NEW t, t = tree, NEW u, u = tree', NEW j, j = job, NEW e, e = job', LeafJob(t, j), RebalanceLeaf
    PROVE  /\ \/ pc' \in {"idle", "underflow"} /\ Whole(u)
              \/ pc' = "rebalance_internal" /\ InnerJob(u, e)
           /\ SameEntries(t, u) /\ ret' = ret
<1>1. PICK n, p, i, kids : n = j.at /\ p = t.node[n].parent /\ i = SlotInParent(t, n) /\ kids = t.node[p].kids
  OBVIOUS
<1>2. PICK g : SettledG(t, g)
  BY DEF LeafJob, RepairJob
<1>3. n \in LeafSet(t) /\ n # t.root /\ Len(t.node[n].keys) < LeafMin /\ Inners(t)
  BY <1>1 DEF LeafJob, RepairJob
<1>4. LeafRepairs(t, p, i, kids) /\ DOMAIN kids = 1 .. Len(kids)
  BY <1>1, <1>2, <1>3, LeafRepaired
<1>5. PICK d : d = IF i < Len(kids) THEN i ELSE i - 1
  OBVIOUS
<1>6. /\ i + 1 \in DOMAIN kids /\ Len(t.node[kids[i + 1]].keys) > LeafMin => Mended(t, LeafFromRight(t, p, i))
      /\ i - 1 \in DOMAIN kids /\ Len(t.node[kids[i - 1]].keys) > LeafMin => Mended(t, LeafFromLeft(t, p, i))
      /\ Len(kids) > 1 => MergeMends(t, MergedLeaves(t, p, d), p, d)
  BY <1>4, <1>5 DEF LeafRepairs
<1>7. ret' = ret
  BY DEF RebalanceLeaf
<1>8. \/ i + 1 \in DOMAIN kids /\ Len(t.node[kids[i + 1]].keys) > LeafMin /\ u = LeafFromRight(t, p, i) /\ Done
      \/ i - 1 \in DOMAIN kids /\ Len(t.node[kids[i - 1]].keys) > LeafMin /\ u = LeafFromLeft(t, p, i) /\ Done
      \/ Len(kids) > 1 /\ InternalRemoveAt(MergedLeaves(t, p, d), p, d)
      \/ pc' = "underflow" /\ u = t
  BY <1>1, <1>5 DEF RebalanceLeaf, Rebalance
<1>9. ASSUME Mended(t, u), Done PROVE pc' = "idle" /\ Whole(u) /\ SameEntries(t, u)
  BY <1>9 DEF Mended, Done, Whole
<1>10. CASE Len(kids) > 1 /\ InternalRemoveAt(MergedLeaves(t, p, d), p, d)
  BY <1>6, <1>7, <1>10, InternalRemoveDoes
<1>11. CASE pc' = "underflow" /\ u = t
  BY <1>2, <1>3, <1>7, <1>11 DEF Whole, SameEntries
<1> QED BY <1>6, <1>7, <1>8, <1>9, <1>10, <1>11

\* The repair of an internal node.
LEMMA RebalanceInternalDoes ==
    ASSUME NEW t, t = tree, NEW u, u = tree', NEW j, j = job, NEW e, e = job', InnerJob(t, j), RebalanceInternal
    PROVE  /\ \/ pc' \in {"idle", "underflow"} /\ Whole(u)
              \/ pc' = "rebalance_internal" /\ InnerJob(u, e)
           /\ SameEntries(t, u) /\ ret' = ret
<1>1. PICK n, p, i, kids : n = j.at /\ p = t.node[n].parent /\ i = SlotInParent(t, n) /\ kids = t.node[p].kids
  OBVIOUS
<1>2. PICK g : SettledG(t, g)
  BY DEF InnerJob, RepairJob
<1>3. n \in DOMAIN t.node /\ t.node[n].kids # <<>> /\ n # t.root /\ Inners(t)
  BY <1>1 DEF InnerJob, RepairJob
<1>4. InnerRepairs(t, p, i, kids) /\ DOMAIN kids = 1 .. Len(kids)
  BY <1>1, <1>2, <1>3, InnerRepaired
<1>5. PICK d : d = IF i < Len(kids) THEN i ELSE i - 1
  OBVIOUS
<1>6. /\ i + 1 \in DOMAIN kids /\ Len(t.node[kids[i + 1]].keys) > InternalMin => Mended(t, InternalFromRight(t, p, i))
      /\ i - 1 \in DOMAIN kids /\ Len(t.node[kids[i - 1]].keys) > InternalMin => Mended(t, InternalFromLeft(t, p, i))
      /\ Len(kids) > 1 => MergeMends(t, MergedInternals(t, p, d), p, d)
  BY <1>4, <1>5 DEF InnerRepairs
<1>7. ret' = ret
  BY DEF RebalanceInternal
<1>8. \/ i + 1 \in DOMAIN kids /\ Len(t.node[kids[i + 1]].keys) > InternalMin /\ u = InternalFromRight(t, p, i) /\ Done
      \/ i - 1 \in DOMAIN kids /\ Len(t.node[kids[i - 1]].keys) > InternalMin /\ u = InternalFromLeft(t, p, i) /\ Done
      \/ Len(kids) > 1 /\ InternalRemoveAt(MergedInternals(t, p, d), p, d)
      \/ pc' = "underflow" /\ u = t
  BY <1>1, <1>5 DEF RebalanceInternal, Rebalance
<1>9. ASSUME Mended(t, u), Done PROVE pc' = "idle" /\ Whole(u) /\ SameEntries(t, u)
  BY <1>9 DEF Mended, Done, Whole
<1>10. CASE Len(kids) > 1 /\ InternalRemoveAt(MergedInternals(t, p, d), p, d)
  BY <1>6, <1>7, <1>10, InternalRemoveDoes
<1>11. CASE pc' = "underflow" /\ u = t
  BY <1>2, <1>3, <1>7, <1>11 DEF Whole, SameEntries
<1> QED BY <1>6, <1>7, <1>8, <1>9, <1>10, <1>11

\* One step of a retain.
LEMMA RetainStepDoes ==
    ASSUME NEW t, t = tree, NEW u, u = tree', NEW j, j = job, NEW e, e = job', Whole(t), RetainJob(t, j), RetainStep
    PROVE  /\ pc' = "retain" /\ Whole(u) /\ RetainJob(u, e) /\ ret' = ret
           /\ (u = t) \/ (\E k : k \in Key /\ EntryGone(t, u, k))
<1>1. PICK l, i : l = j.at /\ i = j.slot
  OBVIOUS
<1>2. l # NO_NODE /\ pc' = "retain" /\ ret' = ret
  BY <1>1 DEF RetainStep
<1>3. l \in LeafSet(t) /\ i \in Nat \ {0} /\ j = [at |-> l, slot |-> i]
  BY <1>1, <1>2 DEF RetainJob
<1>4. Inners(t) /\ \E g : SettledG(t, g)
  BY <1>3, NewTreeEmpty DEF Whole
<1>5. PICK g : SettledG(t, g)
  BY <1>4
<1>6. TreeInv(t, g, {t.root})
  BY <1>5 DEF SettledG
<1>7. Len(t.node[l].keys) \in Nat
  BY <1>3, <1>6, LeafRun
<1>8. CASE e = [j EXCEPT !.slot = i + 1] /\ u = t
  <2>1. e = [at |-> l, slot |-> i + 1] /\ i + 1 \in Nat \ {0}
    BY <1>3, <1>8
  <2>101. e.at = l /\ e.slot = i + 1 /\ e = [at |-> e.at, slot |-> e.slot] /\ e.slot \in Nat \ {0}
    BY <2>1
  <2>2. RetainJob(u, e)
    <3>1. e.at \in LeafSet(u) \cup {NO_NODE}
      BY ONLY <2>101, <1>3, <1>8
    <3> QED BY ONLY <3>1, <2>101 DEF RetainJob
  <2> QED BY <2>2, <1>2, <1>8
<1>9. CASE i <= Len(t.node[l].keys) /\ u = WithoutEntry(t, l, i) /\ e = j
  <2>1. PICK k : k = t.node[l].keys[i]
    OBVIOUS
  <2>2. i \in 1 .. Len(t.node[l].keys)
    BY <1>3, <1>7, <1>9
  <2>3. /\ SettledG(u, g) /\ EntryGone(t, u, k) /\ Inners(u) /\ LeafSet(u) = LeafSet(t)
    <3>1. u = WithoutEntry(t, l, i) /\ l \in LeafSet(t)
      BY <1>3, <1>9
    <3> QED BY ONLY <3>1, <2>1, <2>2, <1>4, <1>5, LeafDrop
  <2>4. k \in Key
    <3>1. t.node[l].keys \in Seq(Key)
      BY <1>3, <1>6, LeafRun
    <3> QED BY <3>1, <2>1, <2>2
  <2>5. RetainJob(u, e)
    BY <2>3, <1>9 DEF RetainJob
  <2> QED BY <2>3, <2>4, <2>5, <1>2 DEF Whole
<1>10. CASE e = [at |-> t.node[l].next, slot |-> 1] /\ u = t
  <2>1. t.node[l].next \in LeafSet(t) \cup {NO_NODE}
    BY <1>3, <1>6, LeafNeighbours
  <2>2. e.at = t.node[l].next /\ e.slot = 1 /\ e = [at |-> e.at, slot |-> e.slot] /\ 1 \in Nat \ {0}
    BY <1>10
  <2>3. RetainJob(u, e)
    BY <2>1, <2>2, <1>10 DEF RetainJob
  <2> QED BY <2>3, <1>2, <1>10
<1> QED BY <1>1, <1>8, <1>9, <1>10 DEF RetainStep

\* The start of a retain.
LEMMA RetainBeginDoes ==
    ASSUME NEW t, t = tree, NEW e, e = job', Whole(t), RetainBegin
    PROVE  pc' = "retain" /\ tree' = tree /\ RetainJob(t, e) /\ ret' = ret
<1>1. e = [at |-> t.first, slot |-> 1] /\ pc' = "retain" /\ tree' = tree /\ ret' = ret
  BY DEF RetainBegin
<1>2. t.first \in LeafSet(t) \cup {NO_NODE}
  BY NewTreeEmpty DEF Whole, SettledG, TreeInv, Links
<1>3. e.at = t.first /\ e.slot = 1 /\ e = [at |-> e.at, slot |-> e.slot] /\ 1 \in Nat \ {0}
  BY <1>1
<1> QED BY <1>1, <1>2, <1>3 DEF RetainJob

\* The flattening of ss up to its i-th member.
FlatFrom(ss, i, f) == IF i = 1 THEN ss[i] ELSE f[i - 1] \o ss[i]
FlatBody(ss, f) == [i \in 1 .. Len(ss) |-> FlatFrom(ss, i, f)]

\* FlattenSeq is the last value of that function.
LEMMA FlattenIs ==
    ASSUME NEW ss, Len(ss) # 0
    PROVE  FlattenSeq(ss) = (CHOOSE f : f = FlatBody(ss, f))[Len(ss)]
BY DEF FlattenSeq, FlatBody, FlatFrom

\* There is such a function.
LEMMA FlatExists ==
    ASSUME NEW S, NEW ss, NEW N \in Nat, Len(ss) = N, \A i \in 1 .. N : ss[i] \in Seq(S)
    PROVE  \E f : f = FlatBody(ss, f)
<1>1. PICK D, V, rk : D = 1 .. N /\ V = Seq(S) /\ rk = [i \in D |-> i]
  OBVIOUS
<1>2. ASSUME NEW m \in D, NEW f \in [D -> V] PROVE FlatFrom(ss, m, f) \in V
  <2>1. CASE m = 1
    BY <2>1, <1>1 DEF FlatFrom
  <2>2. CASE m # 1
    <3>1. m - 1 \in D /\ ss[m] \in Seq(S)
      BY <2>2, <1>1
    <3>2. f[m - 1] \in Seq(S)
      BY <3>1, <1>1
    <3>3. f[m - 1] \o ss[m] \in Seq(S)
      BY <3>1, <3>2
    <3> QED BY <3>3, <2>2, <1>1 DEF FlatFrom
  <2> QED BY <2>1, <2>2
<1>3. PICK F : F = [m \in D |-> [f \in [D -> V] |-> FlatFrom(ss, m, f)]]
  OBVIOUS
<1>4. F \in [D -> [[D -> V] -> V]] /\ \A m \in D : \A f \in [D -> V] : F[m][f] = FlatFrom(ss, m, f)
  BY <1>2, <1>3
<1>5. rk \in [D -> Nat] /\ (\A m \in D : rk[m] = m /\ m \in Nat) /\ \A m \in D : rk[m] <= N
  BY <1>1
<1>6. Local(D, V, rk, F)
  <2>1. ASSUME NEW m \in D, NEW f \in [D -> V], NEW h \in [D -> V], \A n \in D : rk[n] < rk[m] => f[n] = h[n]
        PROVE  F[m][f] = F[m][h]
    <3>1. FlatFrom(ss, m, f) = FlatFrom(ss, m, h)
      <4>1. CASE m = 1
        BY <4>1 DEF FlatFrom
      <4>2. CASE m # 1
        <5>1. m - 1 \in D /\ m - 1 < m
          BY <4>2, <1>1
        <5>2. f[m - 1] = h[m - 1]
          BY <5>1, <2>1, <1>5
        <5> QED BY <5>2 DEF FlatFrom
      <4> QED BY <4>1, <4>2
    <3> QED BY <3>1, <1>4
  <2> QED BY <2>1, <1>4, <1>5 DEF Local
<1>7. PICK f \in [D -> V] : Obeys(D, F, f)
  <2>1. <<>> \in V
    BY <1>1
  <2> QED BY <2>1, <1>5, <1>6, RecursionExists
<1>8. \A m \in D : f[m] = FlatFrom(ss, m, f)
  BY <1>4, <1>7 DEF Obeys
<1>9. f = FlatBody(ss, f)
  BY <1>1, <1>7, <1>8 DEF FlatBody
<1> QED BY <1>9

\* G holds for the first members and is kept when one more is flattened.
Carries(S, W, ss, ww, N, G) ==
    /\ N \in Nat \ {0} /\ Len(ss) = N /\ Len(ww) = N
    /\ \A i \in 1 .. N : ss[i] \in Seq(S) /\ ww[i] \in Seq(W)
    /\ <<1, ss[1], ww[1]>> \in G
    /\ \A i \in 1 .. N - 1 : \A s \in Seq(S), w \in Seq(W) :
          <<i, s, w>> \in G => <<i + 1, s \o ss[i + 1], w \o ww[i + 1]>> \in G

\* What every prefix of a flattening has in common with the first one, the
\* flattening has.  Two sequences of the same length are flattened at once.
LEMMA FlattenTwo ==
    ASSUME NEW S, NEW W, NEW ss, NEW ww, NEW N, NEW G, Carries(S, W, ss, ww, N, G)
    PROVE  /\ <<N, FlattenSeq(ss), FlattenSeq(ww)>> \in G
           /\ FlattenSeq(ss) \in Seq(S) /\ FlattenSeq(ww) \in Seq(W)
<1>0. /\ N \in Nat \ {0} /\ Len(ss) = N /\ Len(ww) = N
      /\ \A i \in 1 .. N : ss[i] \in Seq(S) /\ ww[i] \in Seq(W)
      /\ <<1, ss[1], ww[1]>> \in G
      /\ \A i \in 1 .. N - 1 : \A s \in Seq(S), w \in Seq(W) :
            <<i, s, w>> \in G => <<i + 1, s \o ss[i + 1], w \o ww[i + 1]>> \in G
  BY DEF Carries
<1>1. PICK f : f = (CHOOSE x : x = FlatBody(ss, x))
  OBVIOUS
<1>2. PICK h : h = (CHOOSE x : x = FlatBody(ww, x))
  OBVIOUS
<1>3. f = FlatBody(ss, f)
  BY <1>0, <1>1, FlatExists
<1>4. h = FlatBody(ww, h)
  BY <1>0, <1>2, FlatExists
<1>5. \A i \in 1 .. N : f[i] = FlatFrom(ss, i, f) /\ h[i] = FlatFrom(ww, i, h)
  BY <1>0, <1>3, <1>4 DEF FlatBody
<1>6. PICK B : B = {i \in 1 .. N : ~(f[i] \in Seq(S) /\ h[i] \in Seq(W) /\ <<i, f[i], h[i]>> \in G)}
  OBVIOUS
<1>7. B = {}
  <2>1. SUFFICES ASSUME B # {} PROVE FALSE
    OBVIOUS
  <2>2. B \in SUBSET Nat
    BY <1>0, <1>6
  <2>3. PICK m \in B : \A y \in B : m <= y
    BY <2>1, <2>2, MinOfNats
  <2>4. m \in 1 .. N
    BY <1>6, <2>3
  <2>5. CASE m = 1
    <3>1. f[1] = ss[1] /\ h[1] = ww[1] /\ 1 \in 1 .. N
      BY <1>0, <2>4, <2>5, <1>5 DEF FlatFrom
    <3>2. f[1] \in Seq(S) /\ h[1] \in Seq(W) /\ <<1, f[1], h[1]>> \in G
      BY <1>0, <3>1
    <3> QED BY <3>2, <2>3, <2>5, <1>6
  <2>6. CASE m # 1
    <3>1. PICK i : i = m - 1
      OBVIOUS
    <3>2. i \in 1 .. N - 1 /\ i \in 1 .. N /\ i + 1 = m /\ ~(m <= i)
      BY <1>0, <3>1, <2>4, <2>6
    <3>3. i \notin B
      BY <3>2, <2>3
    <3>4. f[i] \in Seq(S) /\ h[i] \in Seq(W) /\ <<i, f[i], h[i]>> \in G
      BY <3>2, <3>3, <1>6
    <3>5. <<i + 1, f[i] \o ss[i + 1], h[i] \o ww[i + 1]>> \in G
      BY <1>0, <3>2, <3>4
    <3>6. f[m] = f[i] \o ss[m] /\ h[m] = h[i] \o ww[m]
      BY <2>4, <2>6, <3>1, <1>5 DEF FlatFrom
    <3>7. f[m] \in Seq(S) /\ h[m] \in Seq(W)
      BY <1>0, <3>4, <3>6, <2>4
    <3>8. <<m, f[m], h[m]>> \in G
      BY <3>2, <3>5, <3>6
    <3> QED BY <3>7, <3>8, <2>3, <1>6
  <2> QED BY <2>5, <2>6
<1>8. N \in 1 .. N
  BY <1>0
<1>9. f[N] \in Seq(S) /\ h[N] \in Seq(W) /\ <<N, f[N], h[N]>> \in G
  BY <1>6, <1>7, <1>8
<1>10. N # 0
  BY <1>0
<1>11. FlattenSeq(ss) = f[N] /\ FlattenSeq(ww) = h[N]
  BY <1>0, <1>1, <1>2, <1>10, FlattenIs
<1> QED BY <1>9, <1>11

\* w is u behind s.
JoinedTo(S, s, u, w) ==
    /\ w \in Seq(S) /\ Len(w) = Len(s) + Len(u)
    /\ \A j \in 1 .. Len(s) : w[j] = s[j]
    /\ \A j \in 1 .. Len(u) : w[Len(s) + j] = u[j]

\* One sequence behind another.
LEMMA JoinDoes ==
    ASSUME NEW S, NEW s \in Seq(S), NEW u \in Seq(S)
    PROVE  JoinedTo(S, s, u, s \o u)
BY ConcatProps DEF JoinedTo

\* The entries of two sequences one behind the other.
LEMMA PairsJoin ==
    ASSUME NEW ka \in Seq(Key), NEW va \in Seq(Value), NEW kb \in Seq(Key), NEW vb \in Seq(Value),
           Len(ka) = Len(va), Len(kb) = Len(vb), NEW x, NEW y
    PROVE  Pairs(ka \o kb, va \o vb, x, y) <=> Pairs(ka, va, x, y) \/ Pairs(kb, vb, x, y)
<1>1. PICK A, B, kc, vc : A = Len(ka) /\ B = Len(kb) /\ kc = ka \o kb /\ vc = va \o vb
  OBVIOUS
<1>2. A \in Nat /\ B \in Nat
  BY <1>1
<1>3. /\ Len(kc) = A + B
      /\ \A j \in 1 .. A : kc[j] = ka[j] /\ vc[j] = va[j]
      /\ \A j \in 1 .. B : kc[A + j] = kb[j] /\ vc[A + j] = vb[j]
  <2>1. /\ Len(kc) = Len(ka) + Len(kb)
        /\ \A j \in 1 .. Len(ka) : kc[j] = ka[j]
        /\ \A j \in 1 .. Len(kb) : kc[Len(ka) + j] = kb[j]
    <3>1. JoinedTo(Key, ka, kb, ka \o kb)
      BY JoinDoes
    <3> QED BY <3>1, <1>1 DEF JoinedTo
  <2>2. /\ \A j \in 1 .. Len(va) : vc[j] = va[j]
        /\ \A j \in 1 .. Len(vb) : vc[Len(va) + j] = vb[j]
    <3>1. JoinedTo(Value, va, vb, va \o vb)
      BY JoinDoes
    <3> QED BY <3>1, <1>1 DEF JoinedTo
  <2>3. Len(ka) = A /\ Len(va) = A /\ Len(kb) = B /\ Len(vb) = B
    BY <1>1
  <2> QED BY ONLY <2>1, <2>2, <2>3
<1>4. Pairs(ka, va, x, y) <=> \E i \in 1 .. A : ka[i] = x /\ va[i] = y
  BY <1>1 DEF Pairs
<1>5. Pairs(kb, vb, x, y) <=> \E i \in 1 .. B : kb[i] = x /\ vb[i] = y
  BY <1>1 DEF Pairs
<1>6. Pairs(kc, vc, x, y) <=> \E i \in 1 .. A + B : kc[i] = x /\ vc[i] = y
  BY <1>3 DEF Pairs
<1>7. ASSUME NEW i \in 1 .. A + B, kc[i] = x, vc[i] = y PROVE Pairs(ka, va, x, y) \/ Pairs(kb, vb, x, y)
  <2>1. CASE i \in 1 .. A
    BY <2>1, <1>3, <1>4, <1>7
  <2>2. CASE i \notin 1 .. A
    <3>1. PICK j : j = i - A
      OBVIOUS
    <3>2. j \in 1 .. B /\ A + j = i
      BY <3>1, <2>2, <1>2
    <3> QED BY <3>2, <1>3, <1>5, <1>7
  <2> QED BY <2>1, <2>2
<1>8. ASSUME NEW i \in 1 .. A, ka[i] = x, va[i] = y PROVE Pairs(kc, vc, x, y)
  <2>1. i \in 1 .. A + B
    BY <1>2
  <2> QED BY <2>1, <1>3, <1>6, <1>8
<1>9. ASSUME NEW i \in 1 .. B, kb[i] = x, vb[i] = y PROVE Pairs(kc, vc, x, y)
  <2>1. A + i \in 1 .. A + B
    BY <1>2
  <2> QED BY <2>1, <1>3, <1>6, <1>9
<1> QED BY <1>1, <1>4, <1>5, <1>6, <1>7, <1>8, <1>9

\* s and w hold the entries of the first i leaves of c, in ascending order.
Gathered(t, g, c, i, s, w) ==
    /\ Len(s) = Len(w) /\ Run(Len(s), s, Least, g.hi[c[i]])
    /\ \A x, y : Pairs(s, w, x, y) <=> \E j \in 1 .. i : Holds(t, c[j], x, y)

\* One leaf more.
LEMMA GatherMore ==
    ASSUME NEW t, NEW g, NEW O, TreeInv(t, g, O), NEW c, NEW N \in Nat, c \in Seq(LeafSet(t)), Len(c) = N,
           Tiles(g.lo, g.hi, c, N, Least, Greatest), NEW i \in 1 .. N - 1, NEW s \in Seq(Key), NEW w \in Seq(Value),
           Gathered(t, g, c, i, s, w)
    PROVE  Gathered(t, g, c, i + 1, s \o t.node[c[i + 1]].keys, w \o t.node[c[i + 1]].vals)
<1>1. PICK k, ka, va : k = i + 1 /\ ka = t.node[c[k]].keys /\ va = t.node[c[k]].vals
  OBVIOUS
<1>2. k \in 1 .. N /\ i \in 1 .. N /\ 1 .. k = (1 .. i) \cup {k}
  BY <1>1
<1>3. c[k] \in LeafSet(t) /\ c[i] \in LeafSet(t) /\ g.hi[c[i]] = g.lo[c[k]]
  BY <1>1, <1>2 DEF Tiles
<1>4. /\ ka \in Seq(Key) /\ va \in Seq(Value) /\ Len(ka) = Len(va) /\ Run(Len(ka), ka, g.lo[c[k]], g.hi[c[k]])
      /\ g.lo[c[k]] \in Int /\ g.hi[c[k]] \in Int
  BY <1>1, <1>3, LeafRun
<1>5. PICK A, B, sk, b, m : A = Len(s) /\ B = Len(ka) /\ sk = s \o ka /\ m = g.lo[c[k]] /\ b = g.hi[c[k]]
  OBVIOUS
<1>6. A \in Nat /\ B \in Nat /\ m \in Int /\ b \in Int /\ Least \in Int /\ m < b /\ Least < m
  <2>1. A \in Nat /\ B \in Nat /\ m \in Int /\ b \in Int
    BY <1>4, <1>5
  <2>2. Least \in Int
    BY BoundsExist
  <2>3. m < b
    BY <1>3, <1>5, LeafNeighbours
  <2>4. Least <= g.lo[c[i]] /\ g.lo[c[i]] < g.hi[c[i]] /\ g.lo[c[i]] \in Int
    BY <1>3, LeafNeighbours
  <2>5. Least < m
    BY <2>1, <2>2, <2>4, <1>3, <1>5
  <2> QED BY <2>1, <2>2, <2>3, <2>5
<1>7. JoinedTo(Key, s, ka, sk)
  BY <1>4, <1>5, JoinDoes
<1>8. Len(sk) = A + B /\ Taken(A + B, A, sk, s, ka)
  <2>1. Len(sk) = A + B
    BY <1>5, <1>7 DEF JoinedTo
  <2>2. (A + B) - A = B
    BY <1>6
  <2>3. /\ \A j \in 1 .. A : sk[j] = s[j]
        /\ \A j \in 1 .. B : sk[A + j] = ka[j]
    BY <1>5, <1>7 DEF JoinedTo
  <2> QED BY ONLY <2>1, <2>2, <2>3 DEF Taken
<1>9. Run(A, s, Least, m) /\ Run(B, ka, m, b)
  BY <1>3, <1>4, <1>5 DEF Gathered
<1>10. Run(A + B, sk, Least, b)
  BY ONLY <1>6, <1>8, <1>9, RunJoin
<1>11. Len(w) = A
  BY <1>5 DEF Gathered
<1>12. Len(w \o va) = A + B
  <2>1. JoinedTo(Value, w, va, w \o va)
    BY <1>4, JoinDoes
  <2>2. Len(va) = B
    BY <1>4, <1>5
  <2> QED BY <2>1, <2>2, <1>11 DEF JoinedTo
<1>13. ASSUME NEW x, NEW y PROVE Pairs(sk, w \o va, x, y) <=> \E j \in 1 .. k : Holds(t, c[j], x, y)
  <2>1. Pairs(sk, w \o va, x, y) <=> Pairs(s, w, x, y) \/ Pairs(ka, va, x, y)
    BY <1>4, <1>5, <1>11, PairsJoin
  <2>2. Pairs(ka, va, x, y) <=> Holds(t, c[k], x, y)
    BY <1>1, HoldsIs
  <2>3. Pairs(s, w, x, y) <=> \E j \in 1 .. i : Holds(t, c[j], x, y)
    BY DEF Gathered
  <2> QED BY <2>1, <2>2, <2>3, <1>2
<1>14. Gathered(t, g, c, k, sk, w \o va)
  BY <1>5, <1>8, <1>10, <1>12, <1>13 DEF Gathered
<1> QED BY <1>1, <1>5, <1>14

\* The first leaf.
LEMMA GatherFirst ==
    ASSUME NEW t, NEW g, NEW O, TreeInv(t, g, O), NEW c, NEW N \in Nat, c \in Seq(LeafSet(t)), Len(c) = N,
           Tiles(g.lo, g.hi, c, N, Least, Greatest)
    PROVE  Gathered(t, g, c, 1, t.node[c[1]].keys, t.node[c[1]].vals)
<1>1. N # 0 /\ g.lo[c[1]] = Least
  BY DEF Tiles
<1>2. c[1] \in LeafSet(t)
  BY <1>1
<1>3. /\ Len(t.node[c[1]].keys) = Len(t.node[c[1]].vals)
      /\ Run(Len(t.node[c[1]].keys), t.node[c[1]].keys, g.lo[c[1]], g.hi[c[1]])
  BY <1>2, LeafRun
<1>4. ASSUME NEW x, NEW y
      PROVE  Pairs(t.node[c[1]].keys, t.node[c[1]].vals, x, y) <=> \E j \in 1 .. 1 : Holds(t, c[j], x, y)
  <2>1. 1 .. 1 = {1}
    OBVIOUS
  <2> QED BY <2>1, HoldsIs
<1> QED BY <1>1, <1>3, <1>4 DEF Gathered

\* K and V are the keys and values of t in ascending order.
Listing(t, K, V, M) ==
    /\ K \in Seq(Key) /\ V \in Seq(Value) /\ Len(K) = M /\ Len(V) = M /\ M \in Nat
    /\ Run(M, K, Least, Greatest)
    /\ \A x, y : Pairs(K, V, x, y) <=> Has(t, x, y)

\* KeysOf and ValsOf list the entries.
LEMMA KeysOfListing ==
    ASSUME NEW t, NEW g, NEW O, TreeInv(t, g, O), Inners(t)
    PROVE  Listing(t, KeysOf(t), ValsOf(t), Len(KeysOf(t)))
<1>1. PICK c, N : c = Chain(t) /\ N = Len(c)
  OBVIOUS
<1>2. c \in Seq(LeafSet(t)) /\ Tiles(g.lo, g.hi, c, N, Least, Greatest)
  BY <1>1, ChainTiles
<1>3. N \in Nat \ {0} /\ DOMAIN c = 1 .. N /\ \A i \in 1 .. N : c[i] \in LeafSet(t)
  BY <1>1, <1>2 DEF Tiles
<1>4. PICK ss, ww : ss = [i \in DOMAIN c |-> t.node[c[i]].keys] /\ ww = [i \in DOMAIN c |-> t.node[c[i]].vals]
  OBVIOUS
<1>5. /\ \A i \in 1 .. N : /\ ss[i] = t.node[c[i]].keys /\ ww[i] = t.node[c[i]].vals
                           /\ ss[i] \in Seq(Key) /\ ww[i] \in Seq(Value)
      /\ Len(ss) = N /\ Len(ww) = N
  <2>1. \A i \in 1 .. N : /\ ss[i] = t.node[c[i]].keys /\ ww[i] = t.node[c[i]].vals
    BY <1>3, <1>4
  <2>2. ASSUME NEW i \in 1 .. N PROVE ss[i] \in Seq(Key) /\ ww[i] \in Seq(Value)
    <3>1. t.node[c[i]].keys \in Seq(Key) /\ t.node[c[i]].vals \in Seq(Value)
      BY <1>3, LeafRun
    <3> QED BY <3>1, <2>1
  <2>3. ss \in Seq(Seq(Key)) /\ ww \in Seq(Seq(Value)) /\ Len(ss) = N /\ Len(ww) = N
    <3>1. ss \in [1 .. N -> Seq(Key)] /\ ww \in [1 .. N -> Seq(Value)]
      BY <1>3, <1>4, <2>2
    <3>2. N \in Nat
      BY <1>3
    <3>3. PICK A, B : A = Seq(Key) /\ B = Seq(Value)
      OBVIOUS
    <3>4. ss \in [1 .. N -> A] => ss \in Seq(A) /\ Len(ss) = N
      BY ONLY <3>2
    <3>5. ww \in [1 .. N -> B] => ww \in Seq(B) /\ Len(ww) = N
      BY ONLY <3>2
    <3> QED BY ONLY <3>1, <3>3, <3>4, <3>5
  <2> QED BY <2>1, <2>2, <2>3
<1>6. PICK G : G = {p \in (1 .. N) \X Seq(Key) \X Seq(Value) : Gathered(t, g, c, p[1], p[2], p[3])}
  OBVIOUS
<1>7. \A i \in 1 .. N : \A s \in Seq(Key), w \in Seq(Value) : <<i, s, w>> \in G <=> Gathered(t, g, c, i, s, w)
  BY <1>6
<1>8. 1 \in 1 .. N /\ N \in Nat
  BY <1>3
<1>9. <<1, ss[1], ww[1]>> \in G
  <2>1. Gathered(t, g, c, 1, ss[1], ww[1])
    BY <1>1, <1>2, <1>5, <1>8, GatherFirst
  <2> QED BY <2>1, <1>5, <1>7, <1>8
<1>10. ASSUME NEW i \in 1 .. N - 1, NEW s \in Seq(Key), NEW w \in Seq(Value), <<i, s, w>> \in G
       PROVE  <<i + 1, s \o ss[i + 1], w \o ww[i + 1]>> \in G
  <2>1. i \in 1 .. N /\ i + 1 \in 1 .. N
    BY <1>3
  <2>2. Gathered(t, g, c, i, s, w)
    BY <2>1, <1>7, <1>10
  <2>3. Gathered(t, g, c, i + 1, s \o t.node[c[i + 1]].keys, w \o t.node[c[i + 1]].vals)
    BY <2>2, <1>1, <1>2, <1>8, GatherMore
  <2>4. ss[i + 1] \in Seq(Key) /\ ww[i + 1] \in Seq(Value) /\ ss[i + 1] = t.node[c[i + 1]].keys /\ ww[i + 1] = t.node[c[i + 1]].vals
    BY <2>1, <1>5
  <2>5. s \o ss[i + 1] \in Seq(Key) /\ w \o ww[i + 1] \in Seq(Value)
    BY <2>4
  <2>6. Gathered(t, g, c, i + 1, s \o ss[i + 1], w \o ww[i + 1])
    BY <2>3, <2>4
  <2> QED BY ONLY <2>1, <2>5, <2>6, <1>7
<1>11. PICK K, V, M : K = FlattenSeq(ss) /\ V = FlattenSeq(ww) /\ M = Len(K)
  OBVIOUS
<1>12. <<N, K, V>> \in G /\ K \in Seq(Key) /\ V \in Seq(Value)
  <2>1. /\ N \in Nat \ {0} /\ Len(ss) = N /\ Len(ww) = N
        /\ \A i \in 1 .. N : ss[i] \in Seq(Key) /\ ww[i] \in Seq(Value)
    BY <1>3, <1>5
  <2>2. \A i \in 1 .. N - 1 : \A s \in Seq(Key), w \in Seq(Value) :
              <<i, s, w>> \in G => <<i + 1, s \o ss[i + 1], w \o ww[i + 1]>> \in G
    BY <1>10
  <2>3. /\ <<N, FlattenSeq(ss), FlattenSeq(ww)>> \in G
        /\ FlattenSeq(ss) \in Seq(Key) /\ FlattenSeq(ww) \in Seq(Value)
    <3>1. Carries(Key, Value, ss, ww, N, G)
      BY ONLY <2>1, <2>2, <1>9 DEF Carries
    <3> QED BY ONLY <3>1, FlattenTwo
  <2> QED BY <2>3, <1>11
<1>13. Gathered(t, g, c, N, K, V)
  <2>1. N \in 1 .. N
    BY <1>3
  <2> QED BY <2>1, <1>7, <1>12
<1>14. g.hi[c[N]] = Greatest
  BY <1>2 DEF Tiles
<1>15. ASSUME NEW x, NEW y PROVE Pairs(K, V, x, y) <=> Has(t, x, y)
  <2>1. Pairs(K, V, x, y) <=> \E j \in 1 .. N : Holds(t, c[j], x, y)
    BY <1>13 DEF Gathered
  <2>2. \A l \in LeafSet(t) : \E j \in 1 .. N : c[j] = l
    BY <1>1, ChainHasLeaves
  <2> QED BY <2>1, <2>2, <1>3, HoldsIs
<1>16. Listing(t, K, V, M)
  BY <1>11, <1>12, <1>13, <1>14, <1>15 DEF Listing, Gathered
<1>17. K = KeysOf(t) /\ V = ValsOf(t)
  BY <1>1, <1>4, <1>11 DEF KeysOf, ValsOf
<1> QED BY <1>11, <1>16, <1>17

\* A listing is as long as there are keys.
LEMMA ListingCard ==
    ASSUME NEW t, Arena(t), NEW K, NEW V, NEW M, Listing(t, K, V, M)
    PROVE  /\ M = Cardinality(KeySet(t)) /\ KeySet(t) = {K[i] : i \in 1 .. M}
<1>1. /\ K \in Seq(Key) /\ V \in Seq(Value) /\ Len(K) = M /\ Len(V) = M /\ M \in Nat
      /\ Run(M, K, Least, Greatest)
      /\ \A x, y : Pairs(K, V, x, y) <=> Has(t, x, y)
  BY DEF Listing
<1>2. \A x : x \in KeySet(t) <=> \E y : Has(t, x, y)
  <2>1. ASSUME NEW x, x \in KeySet(t) PROVE \E y : Has(t, x, y)
    <3>1. x \in UNION {ToSet(t.node[l].keys) : l \in LeafSet(t)}
      BY <2>1 DEF KeySet
    <3>2. PICK l \in LeafSet(t) : x \in ToSet(t.node[l].keys)
      BY <3>1
    <3>3. t.node[l].keys \in Seq(Key)
      BY <3>2, ArenaParts DEF LeafSet
    <3>4. PICK i \in 1 .. Len(t.node[l].keys) : t.node[l].keys[i] = x
      BY <3>2, <3>3 DEF ToSet
    <3> QED BY <3>2, <3>4 DEF Has
  <2>2. ASSUME NEW x, NEW y, Has(t, x, y) PROVE x \in KeySet(t)
    <3>1. PICK l \in LeafSet(t) : \E i \in 1 .. Len(t.node[l].keys) : t.node[l].keys[i] = x
      BY <2>2 DEF Has
    <3>2. t.node[l].keys \in Seq(Key)
      BY <3>1, ArenaParts DEF LeafSet
    <3>3. x \in ToSet(t.node[l].keys)
      BY <3>1, <3>2 DEF ToSet
    <3> QED BY <3>1, <3>3 DEF KeySet
  <2> QED BY <2>1, <2>2
<1>3. KeySet(t) = {K[i] : i \in 1 .. M}
  <2>1. ASSUME NEW x PROVE (\E y : Pairs(K, V, x, y)) <=> \E i \in 1 .. M : K[i] = x
    BY <1>1 DEF Pairs
  <2>2. ASSUME NEW x PROVE x \in KeySet(t) <=> \E i \in 1 .. M : K[i] = x
    BY <2>1, <1>1, <1>2
  <2> QED BY <2>2
<1>4. \A i, j \in 1 .. M : K[i] = K[j] => i = j
  <2>1. \A i, j \in 1 .. M : i < j => K[i] < K[j]
    BY <1>1 DEF Run
  <2>2. \A i \in 1 .. M : K[i] \in Int
    BY <1>1 DEF Run
  <2> QED BY <2>1, <2>2
<1>5. Cardinality(KeySet(t)) = M
  <2>1. K \in Bijection(1 .. M, KeySet(t))
    <3>1. K \in [1 .. M -> KeySet(t)]
      BY <1>1, <1>3
    <3> QED BY <3>1, <1>3, <1>4 DEF Bijection, Injection, Surjection, IsInjective
  <2>2. ExistsBijection(1 .. M, KeySet(t))
    BY <2>1 DEF ExistsBijection
  <2>3. IsFiniteSet(1 .. M) /\ Cardinality(1 .. M) = M
    <3>1. IsFiniteSet(1 .. M) /\ Cardinality(1 .. M) = IF 1 > M THEN 0 ELSE M - 1 + 1
      BY <1>1, FS_Interval
    <3> QED BY <3>1, <1>1
  <2> QED BY <2>2, <2>3, FS_Bijection
<1> QED BY <1>3, <1>5

\* len counts the entries that are listed.
LEMMA ListingLen ==
    ASSUME NEW t, NEW g, NEW O, TreeInv(t, g, O), NEW K, NEW V, NEW M, Listing(t, K, V, M)
    PROVE  /\ M = t.len /\ KeySet(t) = {K[i] : i \in 1 .. M}
BY ListingCard DEF TreeInv

\* M elements cut into m pieces of at most d: piece i goes from off[i] + 1 to e[i].
Cuts(M, d, m, off, e) ==
    /\ M \in Nat \ {0} /\ m \in Nat \ {0} /\ d \in Nat \ {0} /\ m <= M
    /\ \A i \in 0 .. m - 1 : /\ off[i] \in Nat /\ e[i] \in Nat /\ off[i] < e[i] /\ e[i] <= M
                             /\ (i = 0 => off[i] = 0) /\ (i = m - 1 => e[i] = M)
                             /\ (i # m - 1 => e[i] = off[i + 1])
    /\ \A i, j \in 0 .. m - 1 : i < j => e[i] <= off[j]
    /\ \A x \in 1 .. M : \E i \in 0 .. m - 1 : off[i] < x /\ x <= e[i]

\* Rounding up.
LEMMA CeilProps ==
    ASSUME NEW M \in Nat \ {0}, NEW d \in Nat \ {0}, NEW m, m = CeilDiv(M, d)
    PROVE  m \in Nat \ {0} /\ M <= m * d /\ (m - 1) * d < M
<1>1. PICK x : x = M + d - 1
  OBVIOUS
<1>2. x \in Nat /\ m = x \div d
  BY <1>1 DEF CeilDiv
<1>3. m \in Int /\ d * m <= x /\ x < d * m + d
  BY <1>2
<1> QED BY <1>1, <1>3

\* Products grow.
LEMMA MulStep ==
    ASSUME NEW a \in Nat, NEW d \in Nat
    PROVE  a * d \in Nat /\ (a + 1) * d = a * d + d /\ 0 * d = 0
OBVIOUS
\* Products keep the order.
LEMMA MulMono ==
    ASSUME NEW a \in Nat, NEW b \in Nat, NEW d \in Nat, a <= b
    PROVE  a * d <= b * d
OBVIOUS

\* The pieces of bulk_load.
OffOf(m, d) == [i \in 0 .. m - 1 |-> i * d]
EndsOf(M, m, d) == [i \in 0 .. m - 1 |-> IF (i + 1) * d < M THEN (i + 1) * d ELSE M]

\* The offsets of the pieces cut M into pieces.
LEMMA CutsAre ==
    ASSUME NEW M \in Nat \ {0}, NEW d \in Nat \ {0}, NEW m, m = CeilDiv(M, d), NEW off, off = OffOf(m, d), NEW e, e = EndsOf(M, m, d)
    PROVE  Cuts(M, d, m, off, e)
<1>1. m \in Nat \ {0} /\ M <= m * d /\ (m - 1) * d < M
  BY CeilProps
<1>2. \A i \in 0 .. m - 1 : off[i] = i * d /\ e[i] = IF (i + 1) * d < M THEN (i + 1) * d ELSE M
  BY DEF OffOf, EndsOf
<1>3. ASSUME NEW i \in 0 .. m - 1 PROVE i \in Nat /\ i * d \in Nat /\ (i + 1) * d = i * d + d /\ i * d < M /\ i * d + d \in Nat
  <2>1. i \in Nat /\ m - 1 \in Nat /\ i <= m - 1
    BY <1>1
  <2>2. i * d <= (m - 1) * d /\ (m - 1) * d \in Nat /\ i * d \in Nat
    BY <2>1, MulMono, MulStep
  <2>3. (i + 1) * d = i * d + d
    BY <2>1, MulStep
  <2> QED BY <2>1, <2>2, <2>3, <1>1
<1>4. m <= M
  <2>1. PICK q : q = (m - 1) * d
    OBVIOUS
  <2>2. m - 1 \in Nat
    BY <1>1
  <2>3. m - 1 <= q /\ q \in Nat
    BY <2>1, <2>2
  <2> QED BY <2>1, <2>3, <1>1
<1>5. ASSUME NEW i \in 0 .. m - 1
      PROVE  /\ off[i] \in Nat /\ e[i] \in Nat /\ off[i] < e[i] /\ e[i] <= M
             /\ (i = 0 => off[i] = 0) /\ (i = m - 1 => e[i] = M)
             /\ (i # m - 1 => e[i] = off[i + 1])
  <2>1. PICK p : p = i * d
    OBVIOUS
  <2>2. p \in Nat /\ p < M /\ off[i] = p /\ e[i] = (IF p + d < M THEN p + d ELSE M) /\ p + d \in Nat
    BY <2>1, <1>2, <1>3
  <2>3. off[i] \in Nat /\ e[i] \in Nat /\ off[i] < e[i] /\ e[i] <= M
    BY ONLY <2>2, d \in Nat \ {0}, M \in Nat \ {0}
  <2>4. i = 0 => off[i] = 0
    BY <2>1, <2>2
  <2>5. i = m - 1 => e[i] = M
    <3>1. i = m - 1 => i + 1 = m
      BY <1>1
    <3>2. i = m - 1 => (i + 1) * d = m * d
      BY <3>1
    <3>3. i = m - 1 => ~(p + d < M)
      <4>1. m * d \in Nat
        BY <1>1
      <4> QED BY <3>2, <2>1, <2>2, <1>1, <1>3, <4>1
    <3> QED BY <3>3, <2>2
  <2>6. ASSUME i # m - 1 PROVE e[i] = off[i + 1]
    <3>1. i + 1 \in 0 .. m - 1
      BY <2>6, <1>1
    <3>2. off[i + 1] = (i + 1) * d /\ (i + 1) * d < M
      BY <3>1, <1>2, <1>3
    <3>3. (i + 1) * d = p + d
      BY <2>1, <1>3
    <3> QED BY <3>2, <3>3, <2>2
  <2> QED BY <2>3, <2>4, <2>5, <2>6
<1>6. ASSUME NEW i \in 0 .. m - 1, NEW j \in 0 .. m - 1, i < j PROVE e[i] <= off[j]
  <2>1. i + 1 \in Nat /\ j \in Nat /\ i + 1 <= j
    BY <1>1, <1>6
  <2>2. (i + 1) * d <= j * d /\ (i + 1) * d \in Nat /\ j * d \in Nat
    BY <2>1, MulMono, MulStep
  <2>3. i # m - 1
    BY <1>1, <1>6
  <2>4. e[i] = off[i + 1] /\ off[i + 1] = (i + 1) * d
    <3>1. i + 1 \in 0 .. m - 1
      BY <2>3, <1>1
    <3> QED BY <3>1, <2>3, <1>2, <1>5
  <2> QED BY <2>2, <2>4, <1>2
<1>7. ASSUME NEW x \in 1 .. M PROVE \E i \in 0 .. m - 1 : off[i] < x /\ x <= e[i]
  <2>1. PICK I : I = {i \in 0 .. m - 1 : x <= e[i]}
    OBVIOUS
  <2>2. m - 1 \in I
    <3>1. m - 1 \in 0 .. m - 1
      BY <1>1
    <3>2. e[m - 1] = M
      BY <3>1, <1>5
    <3> QED BY <3>1, <3>2, <2>1
  <2>3. I \in SUBSET Nat
    BY <2>1
  <2>4. PICK i \in I : \A y \in I : i <= y
    BY <2>2, <2>3, MinOfNats
  <2>5. i \in 0 .. m - 1 /\ x <= e[i]
    BY <2>1, <2>4
  <2>6. off[i] < x
    <3>1. CASE i = 0
      BY <3>1, <2>5, <1>5
    <3>2. CASE i # 0
      <4>1. PICK h : h = i - 1
        OBVIOUS
      <4>2. h \in 0 .. m - 1 /\ h + 1 = i /\ h # m - 1 /\ ~(i <= h)
        BY <4>1, <3>2, <2>5, <1>1
      <4>3. ~(x <= e[h])
        BY <4>2, <2>1, <2>4
      <4>4. e[h] = off[i] /\ e[h] \in Nat
        BY <4>2, <1>5
      <4> QED BY <4>3, <4>4
    <3> QED BY <3>1, <3>2
  <2> QED BY <2>5, <2>6
<1> QED BY <1>1, <1>4, <1>5, <1>6, <1>7 DEF Cuts

\* A piece of a sequence.
PieceIs(S, s, w, a, b) ==
    /\ w \in Seq(S) /\ Len(w) = b - a /\ b - a \in Nat \ {0}
    /\ \A j \in 1 .. b - a : w[j] = s[a + j] /\ a + j \in 1 .. Len(s)

\* What Piece returns.
LEMMA PieceDoes ==
    ASSUME NEW S, NEW s \in Seq(S), NEW M, M = Len(s), NEW d, NEW m, m = CeilDiv(M, d), NEW off, off = OffOf(m, d), NEW e, e = EndsOf(M, m, d),
           Cuts(M, d, m, off, e), NEW i \in 0 .. m - 1
    PROVE  PieceIs(S, s, Piece(s, i, d), off[i], e[i])
<1>1. PICK a, b : a = off[i] /\ b = e[i]
  OBVIOUS
<1>2. a \in Nat /\ b \in Nat /\ a < b /\ b <= M /\ M \in Nat
  BY <1>1 DEF Cuts
<1>3. a = i * d /\ b = IF (i + 1) * d < M THEN (i + 1) * d ELSE M
  BY <1>1 DEF OffOf, EndsOf
<1>4. Piece(s, i, d) = SubSeq(s, a + 1, b)
  BY <1>3 DEF Piece
<1>5. a + 1 \in 1 .. Len(s) + 1 /\ b \in ((a + 1) - 1) .. Len(s)
  BY <1>2
<1>6. PICK w, c : w = SubSeq(s, c, b) /\ c = a + 1
  OBVIOUS
<1>7. /\ w \in Seq(S) /\ Len(w) = b - c + 1
      /\ \A j \in 1 .. b - c + 1 : w[j] = s[c + j - 1]
  BY ONLY <1>5, <1>6, s \in Seq(S), SubSeqProps
<1>8. b - c + 1 = b - a /\ b - a \in Nat \ {0}
  BY <1>2, <1>6
<1>9. ASSUME NEW j \in 1 .. b - a PROVE w[j] = s[a + j] /\ a + j \in 1 .. Len(s)
  <2>1. c + j - 1 = a + j /\ a + j \in 1 .. M
    BY <1>2, <1>6
  <2>2. w[j] = s[c + j - 1]
    BY <1>7, <1>8
  <2> QED BY <2>1, <2>2
<1> QED BY <1>1, <1>4, <1>6, <1>7, <1>8, <1>9 DEF PieceIs

\* The range of piece i of the sorted keys ks.
LoOf(ks, off, i) == IF i = 0 THEN Least ELSE ks[off[i] + 1]
HiOf(ks, off, m, i) == IF i = m - 1 THEN Greatest ELSE ks[off[i + 1] + 1]

\* The bounds are integers.
LEMMA PieceBounds ==
    ASSUME NEW M, NEW d, NEW m, NEW off, NEW e, Cuts(M, d, m, off, e), NEW ks, Run(M, ks, Least, Greatest), NEW i \in 0 .. m - 1
    PROVE  /\ LoOf(ks, off, i) \in Int /\ HiOf(ks, off, m, i) \in Int
           /\ Least <= LoOf(ks, off, i) /\ HiOf(ks, off, m, i) <= Greatest
           /\ i = 0 => LoOf(ks, off, i) = Least
           /\ i = m - 1 => HiOf(ks, off, m, i) = Greatest
           /\ i # m - 1 => HiOf(ks, off, m, i) = LoOf(ks, off, i + 1) /\ i + 1 \in 0 .. m - 1
           /\ i # 0 => LoOf(ks, off, i) = ks[off[i] + 1]
           /\ off[i] + 1 \in 1 .. M
<1>1. Least \in Int /\ Greatest \in Int /\ Least < Greatest
  BY BoundsExist
<1>2. m \in Nat \ {0} /\ M \in Nat \ {0}
  BY DEF Cuts
<1>3. \A j \in 0 .. m - 1 : off[j] \in Nat /\ off[j] + 1 \in 1 .. M
  <2>1. ASSUME NEW j \in 0 .. m - 1 PROVE off[j] \in Nat /\ off[j] + 1 \in 1 .. M
    <3>1. off[j] \in Nat /\ e[j] \in Nat /\ off[j] < e[j] /\ e[j] <= M
      BY DEF Cuts
    <3> QED BY <3>1, <1>2
  <2> QED BY <2>1
<1>4. \A x \in 1 .. M : ks[x] \in Int /\ Least <= ks[x] /\ ks[x] < Greatest
  BY DEF Run
<1>5. i # m - 1 => i + 1 \in 0 .. m - 1 /\ i + 1 # 0
  BY <1>2
<1>6. \A j \in 0 .. m - 1 : ks[off[j] + 1] \in Int /\ Least <= ks[off[j] + 1] /\ ks[off[j] + 1] < Greatest
  BY <1>3, <1>4
<1>7. LoOf(ks, off, i) \in Int /\ Least <= LoOf(ks, off, i)
  BY <1>1, <1>6 DEF LoOf
<1>8. HiOf(ks, off, m, i) \in Int /\ HiOf(ks, off, m, i) <= Greatest
  BY <1>1, <1>5, <1>6 DEF HiOf
<1> QED BY <1>3, <1>5, <1>7, <1>8 DEF LoOf, HiOf

\* A piece is a run within its range.
LEMMA PieceRun ==
    ASSUME NEW M, NEW d, NEW m, NEW off, NEW e, Cuts(M, d, m, off, e), NEW ks, Run(M, ks, Least, Greatest), NEW i \in 0 .. m - 1,
           NEW w, NEW S, PieceIs(S, ks, w, off[i], e[i]), NEW L, L = Len(w)
    PROVE  L \in Nat \ {0} /\ Run(L, w, LoOf(ks, off, i), HiOf(ks, off, m, i)) /\ LoOf(ks, off, i) < HiOf(ks, off, m, i)
<1>1. PICK a, b, lo, hi : a = off[i] /\ b = e[i] /\ lo = LoOf(ks, off, i) /\ hi = HiOf(ks, off, m, i)
  OBVIOUS
<1>2. a \in Nat /\ b \in Nat /\ a < b /\ b <= M /\ M \in Nat /\ L = b - a
  BY <1>1 DEF Cuts, PieceIs
<1>3. \A j \in 1 .. L : w[j] = ks[a + j] /\ a + j \in 1 .. M
  <2>1. \A j \in 1 .. b - a : w[j] = ks[a + j]
    BY <1>1 DEF PieceIs
  <2> QED BY <2>1, <1>2
<1>4. /\ \A x \in 1 .. M : ks[x] \in Int /\ Least <= ks[x] /\ ks[x] < Greatest
      /\ \A x, y \in 1 .. M : x < y => ks[x] < ks[y]
  BY DEF Run
<1>5. lo \in Int /\ hi \in Int
  BY <1>1, PieceBounds
<1>6. ASSUME NEW j \in 1 .. L PROVE w[j] \in Int /\ lo <= w[j] /\ w[j] < hi
  <2>1. PICK x : x = a + j
    OBVIOUS
  <2>2. x \in 1 .. M /\ w[j] = ks[x] /\ ks[x] \in Int /\ x <= b /\ a + 1 <= x
    BY <2>1, <1>2, <1>3, <1>4
  <2>3. lo <= ks[x]
    <3>1. CASE i = 0
      BY <3>1, <2>2, <1>1, <1>4 DEF LoOf
    <3>2. CASE i # 0
      <4>1. lo = ks[a + 1] /\ a + 1 \in 1 .. M
        BY <3>2, <1>1, PieceBounds
      <4>2. CASE a + 1 = x
        BY <4>1, <4>2, <1>5
      <4>3. CASE a + 1 < x
        BY <4>1, <4>3, <2>2, <1>4, <1>5
      <4> QED BY <4>2, <4>3, <2>2, <1>2
    <3> QED BY <3>1, <3>2
  <2>4. ks[x] < hi
    <3>1. CASE i = m - 1
      BY <3>1, <2>2, <1>1, <1>4 DEF HiOf
    <3>2. CASE i # m - 1
      <4>1. i + 1 \in 0 .. m - 1
        BY <3>2, PieceBounds
      <4>2. off[i + 1] = b /\ off[i + 1] + 1 \in 1 .. M
        BY <4>1, <3>2, <1>1, PieceBounds DEF Cuts
      <4>3. hi = ks[b + 1] /\ b + 1 \in 1 .. M
        BY <4>2, <3>2, <1>1 DEF HiOf
      <4>4. x < b + 1
        BY <2>2, <1>2
      <4> QED BY <4>3, <4>4, <2>2, <1>4
    <3> QED BY <3>1, <3>2
  <2> QED BY <2>2, <2>3, <2>4
<1>7. ASSUME NEW j \in 1 .. L, NEW k \in 1 .. L, j < k PROVE w[j] < w[k]
  <2>1. a + j \in 1 .. M /\ a + k \in 1 .. M /\ a + j < a + k
    BY <1>2, <1>3, <1>7
  <2> QED BY <2>1, <1>3, <1>4
<1>8. L \in Nat \ {0}
  BY <1>2
<1>9. lo < hi
  <2>1. 1 \in 1 .. L
    BY <1>8
  <2> QED BY <2>1, <1>5, <1>6
<1> QED BY <1>1, <1>6, <1>7, <1>8, <1>9 DEF Run

\* Ranges of different pieces are apart.
LEMMA PiecesApart ==
    ASSUME NEW M, NEW d, NEW m, NEW off, NEW e, Cuts(M, d, m, off, e), NEW ks, Run(M, ks, Least, Greatest),
           NEW i \in 0 .. m - 1, NEW j \in 0 .. m - 1, i < j
    PROVE  HiOf(ks, off, m, i) <= LoOf(ks, off, j)
<1>1. m \in Nat \ {0} /\ M \in Nat
  BY DEF Cuts
<1>2. i # m - 1 /\ j # 0 /\ i + 1 \in 0 .. m - 1
  BY <1>1
<1>3. HiOf(ks, off, m, i) = ks[off[i + 1] + 1] /\ LoOf(ks, off, j) = ks[off[j] + 1]
  BY <1>2 DEF HiOf, LoOf
<1>4. e[i] = off[i + 1] /\ e[i] <= off[j]
  BY <1>2 DEF Cuts
<1>5. PICK a, b : a = off[i + 1] + 1 /\ b = off[j] + 1
  OBVIOUS
<1>6. off[i + 1] \in Nat /\ off[j] \in Nat
  BY <1>2 DEF Cuts
<1>7. a \in 1 .. M /\ b \in 1 .. M
  BY <1>2, <1>5, PieceBounds
<1>8. a <= b
  BY <1>4, <1>5, <1>6
<1>9. ks[a] \in Int /\ ks[b] \in Int /\ (a < b => ks[a] < ks[b])
  BY <1>7 DEF Run
<1>10. a = b \/ a < b
  BY <1>7, <1>8
<1>11. ks[a] <= ks[b]
  BY <1>9, <1>10
<1> QED BY <1>3, <1>5, <1>11

\* Leaf i of a bulk load in m leaves with keys pk[i] and values pv[i].
LoadLeaf(pk, pv, m, i) ==
    Leaf(pk[i], pv[i], NO_NODE, IF i > 0 THEN i - 1 ELSE NO_NODE, IF i + 1 < m THEN i + 1 ELSE NO_NODE)

\* What the first phase of a bulk load leaves.
LeavesLoaded(t, m, M, pk, pv) ==
    t = TreeOf([i \in 0 .. m - 1 |-> LoadLeaf(pk, pv, m, i)], <<>>, m, NO_NODE, 0, m - 1, M, 0)

\* A sequence in m pieces of length d, the numbers of the pieces, and the
\* first members of the pieces.
CutInto(s, m, d) == [i \in 0 .. m - 1 |-> Piece(s, i, d)]
RowFrom(a, m) == [i \in 1 .. m |-> a + i - 1]
MinsOf(s, m, d) == [i \in 1 .. m |-> s[(i - 1) * d + 1]]

\* BulkStart makes these leaves.
LEMMA BulkStartIs ==
    ASSUME NEW ks, NEW vs, NEW M, M = Len(ks), NEW m, m = CeilDiv(M, LeafCap), NEW b, b = BulkStart(ks, vs),
           NEW pk, pk = CutInto(ks, m, LeafCap), NEW pv, pv = CutInto(vs, m, LeafCap)
    PROVE  LeavesLoaded(b.tree, m, M, pk, pv) /\ b.row = [i \in 1 .. m |-> i - 1] /\ b.mins = MinsOf(ks, m, LeafCap)
<1>0. pk = [i \in 0 .. m - 1 |-> Piece(ks, i, LeafCap)] /\ pv = [i \in 0 .. m - 1 |-> Piece(vs, i, LeafCap)]
  BY DEF CutInto
<1>1. PICK nodes : nodes = [i \in 0 .. m - 1 |-> LoadLeaf(pk, pv, m, i)]
  OBVIOUS
<1>2. \A i \in 0 .. m - 1 : LoadLeaf(pk, pv, m, i) =
          Leaf(Piece(ks, i, LeafCap), Piece(vs, i, LeafCap), NO_NODE,
               IF i > 0 THEN i - 1 ELSE NO_NODE, IF i + 1 < m THEN i + 1 ELSE NO_NODE)
  BY <1>0 DEF LoadLeaf
<1>3. nodes = [i \in 0 .. m - 1 |-> Leaf(Piece(ks, i, LeafCap), Piece(vs, i, LeafCap), NO_NODE,
               IF i > 0 THEN i - 1 ELSE NO_NODE, IF i + 1 < m THEN i + 1 ELSE NO_NODE)]
  BY <1>1, <1>2
<1>4. PICK a : a = [NewTree EXCEPT !.node = nodes, !.hi = m, !.first = 0, !.last = m - 1, !.len = M]
  OBVIOUS
<1>5. b = [tree |-> a, row |-> [i \in 1 .. m |-> i - 1], mins |-> [i \in 1 .. m |-> ks[(i - 1) * LeafCap + 1]]]
  BY <1>3, <1>4 DEF BulkStart
<1>6. a = TreeOf(nodes, <<>>, m, NO_NODE, 0, m - 1, M, 0)
  <2>1. PICK x : x = <<>>
    OBVIOUS
  <2>2. NewTree = TreeOf(x, x, 0, NO_NODE, NO_NODE, NO_NODE, 0, 0)
    BY <2>1 DEF NewTree, TreeOf
  <2>3. PICK a1 : a1 = [NewTree EXCEPT !.node = nodes]
    OBVIOUS
  <2>4. PICK a2 : a2 = [a1 EXCEPT !.hi = m]
    OBVIOUS
  <2>5. PICK a3 : a3 = [a2 EXCEPT !.first = 0]
    OBVIOUS
  <2>6. PICK z : z = m - 1
    OBVIOUS
  <2>7. PICK a4 : a4 = [a3 EXCEPT !.last = z]
    OBVIOUS
  <2>8. a1 = TreeOf(nodes, x, 0, NO_NODE, NO_NODE, NO_NODE, 0, 0)
    BY ONLY <2>2, <2>3 DEF TreeOf
  <2>9. a2 = TreeOf(nodes, x, m, NO_NODE, NO_NODE, NO_NODE, 0, 0)
    BY ONLY <2>4, <2>8 DEF TreeOf
  <2>10. a3 = TreeOf(nodes, x, m, NO_NODE, 0, NO_NODE, 0, 0)
    BY ONLY <2>5, <2>9 DEF TreeOf
  <2>11. a4 = TreeOf(nodes, x, m, NO_NODE, 0, z, 0, 0)
    BY ONLY <2>7, <2>10 DEF TreeOf
  <2>12. [a4 EXCEPT !.len = M] = TreeOf(nodes, x, m, NO_NODE, 0, z, M, 0)
    BY ONLY <2>11 DEF TreeOf
  <2>13. a = [a4 EXCEPT !.len = M]
    BY ONLY <1>4, <2>3, <2>4, <2>5, <2>6, <2>7
  <2> QED BY ONLY <2>1, <2>6, <2>12, <2>13
<1>7. b.tree = a /\ b.row = [i \in 1 .. m |-> i - 1] /\ b.mins = MinsOf(ks, m, LeafCap)
  BY ONLY <1>5 DEF MinsOf
<1> QED BY ONLY <1>1, <1>6, <1>7 DEF LeavesLoaded

\* The ranges of the leaves.
LoadGhost(m, ks, off) ==
    [lev |-> [n \in 0 .. m - 1 |-> 0], lo |-> [n \in 0 .. m - 1 |-> LoOf(ks, off, n)],
     hi |-> [n \in 0 .. m - 1 |-> HiOf(ks, off, m, n)], out |-> [n \in 0 .. m - 1 |-> HiOf(ks, off, m, n)]]

\* The pieces of keys and values.
LoadCut(M, d, m, off, e, ks, vs, pk, pv) ==
    /\ Cuts(M, d, m, off, e) /\ Run(M, ks, Least, Greatest) /\ ks \in Seq(Key) /\ vs \in Seq(Value) /\ Len(ks) = M /\ Len(vs) = M
    /\ \A i \in 0 .. m - 1 : PieceIs(Key, ks, pk[i], off[i], e[i]) /\ PieceIs(Value, vs, pv[i], off[i], e[i])

\* The fields of the loaded leaves.
LoadView(t, m, M, pk, pv) ==
    /\ DOMAIN t.node = 0 .. m - 1 /\ t.free = <<>> /\ t.hi = m /\ t.root = NO_NODE /\ t.first = 0 /\ t.last = m - 1 /\ t.len = M
    /\ t.height = 0
    /\ \A i \in 0 .. m - 1 :
         /\ t.node[i].keys = pk[i] /\ t.node[i].vals = pv[i] /\ t.node[i].kids = <<>> /\ t.node[i].parent = NO_NODE
         /\ t.node[i].prev = IF i = 0 THEN NO_NODE ELSE i - 1
         /\ t.node[i].next = IF i = m - 1 THEN NO_NODE ELSE i + 1

\* The arena of the loaded leaves.
LEMMA LoadArena ==
    ASSUME NEW t, NEW M, NEW d, NEW m, NEW off, NEW e, NEW ks, NEW vs, NEW pk, NEW pv, LoadCut(M, d, m, off, e, ks, vs, pk, pv),
           LeavesLoaded(t, m, M, pk, pv)
    PROVE  Arena(t) /\ LoadView(t, m, M, pk, pv)
<1>1. m \in Nat \ {0} /\ M \in Nat
  BY DEF LoadCut, Cuts
<1>2. \A i \in 0 .. m - 1 : pk[i] \in Seq(Key) /\ pv[i] \in Seq(Value)
  BY DEF LoadCut, PieceIs
<1>3. PICK nodes : nodes = [i \in 0 .. m - 1 |-> LoadLeaf(pk, pv, m, i)]
  OBVIOUS
<1>4. t = TreeOf(nodes, <<>>, m, NO_NODE, 0, m - 1, M, 0)
  BY <1>3 DEF LeavesLoaded
<1>5. /\ t.node = nodes /\ t.free = <<>> /\ t.hi = m /\ t.root = NO_NODE /\ t.first = 0 /\ t.last = m - 1 /\ t.len = M /\ t.height = 0
      /\ t = [node |-> t.node, free |-> t.free, hi |-> t.hi, root |-> t.root,
            first |-> t.first, last |-> t.last, len |-> t.len, height |-> t.height]
  BY <1>4 DEF TreeOf
<1>6. ASSUME NEW i \in 0 .. m - 1
      PROVE  /\ nodes[i] = Leaf(pk[i], pv[i], NO_NODE, IF i = 0 THEN NO_NODE ELSE i - 1, IF i = m - 1 THEN NO_NODE ELSE i + 1)
  <2>1. (i > 0 <=> i # 0) /\ (i + 1 < m <=> i # m - 1)
    BY <1>1
  <2>2. nodes[i] = LoadLeaf(pk, pv, m, i)
    BY <1>3
  <2>3. (IF i > 0 THEN i - 1 ELSE NO_NODE) = (IF i = 0 THEN NO_NODE ELSE i - 1)
    BY <2>1
  <2>4. (IF i + 1 < m THEN i + 1 ELSE NO_NODE) = (IF i = m - 1 THEN NO_NODE ELSE i + 1)
    BY <2>1
  <2> QED BY <2>2, <2>3, <2>4 DEF LoadLeaf
<1>7. ASSUME NEW i \in 0 .. m - 1 PROVE nodes[i] \in NodeRec
  <2>1. PICK p, n : p = (IF i = 0 THEN NO_NODE ELSE i - 1) /\ n = (IF i = m - 1 THEN NO_NODE ELSE i + 1)
    OBVIOUS
  <2>2. p \in Int /\ n \in Int /\ NO_NODE \in Int
    BY <2>1, <1>1 DEF NO_NODE
  <2>3. nodes[i] = [keys |-> pk[i], vals |-> pv[i], kids |-> <<>>, parent |-> NO_NODE, prev |-> p, next |-> n]
    BY <2>1, <1>6 DEF Leaf
  <2> QED BY <2>2, <2>3, <1>2 DEF NodeRec
<1>8. Arena(t)
  <2>1. DOMAIN nodes = 0 .. m - 1
    BY <1>3
  <2>2. t.node \in [DOMAIN t.node -> NodeRec]
    BY <2>1, <1>3, <1>5, <1>7
  <2>3. IsInjective(t.free) /\ t.free \in Seq(Int) /\ ToSet(t.free) = {}
    BY <1>5 DEF IsInjective, ToSet
  <2>4. DOMAIN t.node = 0 .. t.hi - 1
    BY <2>1, <1>5
  <2>5. t.hi \in Nat /\ t.root \in Int /\ t.first \in Int /\ t.last \in Int /\ t.height \in Nat
    BY <1>1, <1>5 DEF NO_NODE
  <2> QED BY <2>2, <2>3, <2>4, <2>5, <1>5 DEF Arena
<1>9. LoadView(t, m, M, pk, pv)
  <2>1. DOMAIN t.node = 0 .. m - 1
    BY <1>3, <1>5
  <2>2. ASSUME NEW i \in 0 .. m - 1
        PROVE  /\ t.node[i].keys = pk[i] /\ t.node[i].vals = pv[i] /\ t.node[i].kids = <<>> /\ t.node[i].parent = NO_NODE
               /\ t.node[i].prev = IF i = 0 THEN NO_NODE ELSE i - 1
               /\ t.node[i].next = IF i = m - 1 THEN NO_NODE ELSE i + 1
    <3>1. PICK p, n : p = (IF i = 0 THEN NO_NODE ELSE i - 1) /\ n = (IF i = m - 1 THEN NO_NODE ELSE i + 1)
      OBVIOUS
    <3>2. t.node[i] = [keys |-> pk[i], vals |-> pv[i], kids |-> <<>>, parent |-> NO_NODE, prev |-> p, next |-> n]
      BY <3>1, <1>5, <1>6 DEF Leaf
    <3>3. PICK r : r = t.node[i]
      OBVIOUS
    <3>4. r.keys = pk[i] /\ r.vals = pv[i] /\ r.kids = <<>> /\ r.parent = NO_NODE /\ r.prev = p /\ r.next = n
      BY ONLY <3>2, <3>3
    <3> QED BY ONLY <3>1, <3>3, <3>4
  <2> QED BY <2>1, <2>2, <1>5 DEF LoadView
<1> QED BY <1>8, <1>9

\* The loaded leaves list the entries.
LEMMA LoadListing ==
    ASSUME NEW t, NEW M, NEW d, NEW m, NEW off, NEW e, NEW ks, NEW vs, NEW pk, NEW pv, LoadCut(M, d, m, off, e, ks, vs, pk, pv),
           LoadView(t, m, M, pk, pv)
    PROVE  Listing(t, ks, vs, M) /\ LeafSet(t) = 0 .. m - 1
<1>1. /\ M \in Nat /\ Run(M, ks, Least, Greatest) /\ ks \in Seq(Key) /\ vs \in Seq(Value) /\ Len(ks) = M /\ Len(vs) = M
  BY DEF LoadCut, Cuts
<1>2. LeafSet(t) = 0 .. m - 1
  BY DEF LeafSet, LoadView
<1>3. ASSUME NEW i \in 0 .. m - 1
      PROVE  /\ off[i] \in Nat /\ e[i] \in Nat /\ Len(t.node[i].keys) = e[i] - off[i]
             /\ \A j \in 1 .. e[i] - off[i] : /\ t.node[i].keys[j] = ks[off[i] + j] /\ t.node[i].vals[j] = vs[off[i] + j]
                                              /\ off[i] + j \in 1 .. M
  <2>1. PieceIs(Key, ks, pk[i], off[i], e[i]) /\ PieceIs(Value, vs, pv[i], off[i], e[i])
    BY DEF LoadCut
  <2>2. t.node[i].keys = pk[i] /\ t.node[i].vals = pv[i]
    BY DEF LoadView
  <2>3. off[i] \in Nat /\ e[i] \in Nat
    BY DEF LoadCut, Cuts
  <2> QED BY <2>1, <2>2, <2>3, <1>1 DEF PieceIs
<1>4. ASSUME NEW x, NEW y, Has(t, x, y) PROVE Pairs(ks, vs, x, y)
  <2>1. PICK i \in 0 .. m - 1 : \E j \in 1 .. Len(t.node[i].keys) : t.node[i].keys[j] = x /\ t.node[i].vals[j] = y
    BY <1>2, <1>4 DEF Has
  <2>2. PICK j \in 1 .. Len(t.node[i].keys) : t.node[i].keys[j] = x /\ t.node[i].vals[j] = y
    BY <2>1
  <2>3. j \in 1 .. e[i] - off[i]
    BY <2>2, <1>3
  <2>4. off[i] + j \in 1 .. M /\ ks[off[i] + j] = x /\ vs[off[i] + j] = y
    BY <2>2, <2>3, <1>3
  <2> QED BY <2>4, <1>1 DEF Pairs
<1>5. ASSUME NEW x, NEW y, Pairs(ks, vs, x, y) PROVE Has(t, x, y)
  <2>1. PICK q \in 1 .. M : ks[q] = x /\ vs[q] = y
    BY <1>1, <1>5 DEF Pairs
  <2>2. PICK i \in 0 .. m - 1 : off[i] < q /\ q <= e[i]
    BY DEF LoadCut, Cuts
  <2>3. PICK j : j = q - off[i]
    OBVIOUS
  <2>4. j \in 1 .. e[i] - off[i] /\ off[i] + j = q
    BY <2>2, <2>3, <1>3
  <2>5. t.node[i].keys[j] = x /\ t.node[i].vals[j] = y /\ j \in 1 .. Len(t.node[i].keys)
    BY <2>1, <2>4, <1>3
  <2> QED BY <2>2, <2>5, <1>2 DEF Has
<1> QED BY <1>1, <1>2, <1>4, <1>5 DEF Listing

\* The loaded leaves are in order and linked.
LEMMA LoadOrder ==
    ASSUME NEW t, NEW M, NEW d, NEW m, NEW off, NEW e, NEW ks, NEW vs, NEW pk, NEW pv, LoadCut(M, d, m, off, e, ks, vs, pk, pv),
           LoadView(t, m, M, pk, pv), NEW g, g = LoadGhost(m, ks, off)
    PROVE  Order(t, g) /\ Links(t, g) /\ Shape(t, g, 0 .. m - 1) /\ \A n \in DOMAIN t.node : g.out[n] = g.hi[n]
<1>1. /\ Cuts(M, d, m, off, e) /\ Run(M, ks, Least, Greatest) /\ m \in Nat \ {0}
  BY DEF LoadCut, Cuts
<1>2. DOMAIN t.node = 0 .. m - 1 /\ LeafSet(t) = 0 .. m - 1 /\ t.first = 0 /\ t.last = m - 1
  <2>1. DOMAIN t.node = 0 .. m - 1 /\ t.first = 0 /\ t.last = m - 1
    BY DEF LoadView
  <2>2. LeafSet(t) = 0 .. m - 1
    BY LoadListing
  <2> QED BY <2>1, <2>2
<1>3. \A i \in 0 .. m - 1 : /\ g.lev[i] = 0 /\ g.lo[i] = LoOf(ks, off, i) /\ g.hi[i] = HiOf(ks, off, m, i)
                            /\ g.out[i] = HiOf(ks, off, m, i)
  BY DEF LoadGhost
<1>4. ASSUME NEW i \in 0 .. m - 1
      PROVE  /\ t.node[i].kids = <<>> /\ t.node[i].parent = NO_NODE
             /\ t.node[i].prev = (IF i = 0 THEN NO_NODE ELSE i - 1)
             /\ t.node[i].next = (IF i = m - 1 THEN NO_NODE ELSE i + 1)
             /\ Len(t.node[i].vals) = Len(t.node[i].keys)
             /\ Run(Len(t.node[i].keys), t.node[i].keys, g.lo[i], g.hi[i]) /\ g.lo[i] < g.hi[i]
  <2>1. PieceIs(Key, ks, pk[i], off[i], e[i]) /\ PieceIs(Value, vs, pv[i], off[i], e[i])
    BY DEF LoadCut
  <2>2. /\ t.node[i].keys = pk[i] /\ t.node[i].vals = pv[i] /\ t.node[i].kids = <<>> /\ t.node[i].parent = NO_NODE
        /\ t.node[i].prev = (IF i = 0 THEN NO_NODE ELSE i - 1)
        /\ t.node[i].next = (IF i = m - 1 THEN NO_NODE ELSE i + 1)
    BY DEF LoadView
  <2>3. Len(pk[i]) = Len(pv[i])
    BY <2>1 DEF PieceIs
  <2>4. Run(Len(pk[i]), pk[i], LoOf(ks, off, i), HiOf(ks, off, m, i)) /\ LoOf(ks, off, i) < HiOf(ks, off, m, i)
    BY <2>1, <1>1, PieceRun
  <2> QED BY <2>2, <2>3, <2>4, <1>3
<1>5. ASSUME NEW i \in 0 .. m - 1 PROVE Guides(g, i, t.node[i])
  <2>1. RangeOf(g, i)
    BY <1>1, <1>3, <1>4, PieceBounds DEF RangeOf
  <2> QED BY <2>1, <1>4, RunGuides
<1>6. ASSUME NEW i \in 0 .. m - 1, NEW j \in 0 .. m - 1, i # j PROVE Apart(g, i, j)
  <2>1. CASE i < j
    BY <2>1, <1>1, <1>3, PiecesApart DEF Apart
  <2>2. CASE j < i
    BY <2>2, <1>1, <1>3, PiecesApart DEF Apart
  <2> QED BY <2>1, <2>2, <1>6
<1>7. Order(t, g)
  BY <1>2, <1>5, <1>6 DEF Order
<1>8. ASSUME NEW i \in 0 .. m - 1 PROVE LinksOf(t, g, i)
  <2>1. NO_NODE \notin 0 .. m - 1
    BY DEF NO_NODE
  <2>3. ASSUME i # m - 1
        PROVE  /\ t.node[i].next # NO_NODE /\ t.node[i].next \in LeafSet(t) /\ t.node[t.node[i].next].prev = i
               /\ g.lo[t.node[i].next] = g.hi[i]
    <3>1. i + 1 \in 0 .. m - 1 /\ i + 1 # 0 /\ (i + 1) - 1 = i
      BY <2>3, <1>1
    <3>2. t.node[i].next = i + 1 /\ t.node[i + 1].prev = i
      BY <3>1, <2>3, <1>4
    <3>3. g.lo[i + 1] = g.hi[i]
      BY <3>1, <2>3, <1>1, <1>3, PieceBounds
    <3> QED BY <3>1, <3>2, <3>3, <2>1, <1>2
  <2>4. i = m - 1 => t.node[i].next = NO_NODE /\ i = t.last /\ g.hi[i] = Greatest
    BY <1>1, <1>2, <1>3, <1>4, PieceBounds
  <2>5. i = 0 => t.node[i].prev = NO_NODE /\ i = t.first /\ g.lo[i] = Least
    BY <1>1, <1>2, <1>3, <1>4, PieceBounds
  <2>6. ASSUME i # 0 PROVE t.node[i].prev # NO_NODE /\ t.node[i].prev \in LeafSet(t) /\ t.node[t.node[i].prev].next = i
    <3>1. i - 1 \in 0 .. m - 1 /\ i - 1 # m - 1 /\ (i - 1) + 1 = i
      BY <2>6, <1>1
    <3>2. t.node[i].prev = i - 1 /\ t.node[i - 1].next = i
      BY <3>1, <2>6, <1>4
    <3> QED BY <3>1, <3>2, <2>1, <1>2
  <2> QED BY <2>3, <2>4, <2>5, <2>6 DEF LinksOf
<1>9. Links(t, g)
  <2>1. 0 \in 0 .. m - 1 /\ m - 1 \in 0 .. m - 1
    BY <1>1
  <2>2. t.node[0].prev = NO_NODE /\ t.node[m - 1].next = NO_NODE
    BY <2>1, <1>4
  <2> QED BY <2>1, <2>2, <1>2, <1>8 DEF Links
<1>10. Shape(t, g, 0 .. m - 1)
  <2>1. ASSUME NEW i \in 0 .. m - 1 PROVE Hangs(t, g, 0 .. m - 1, i)
    <3>1. Len(t.node[i].kids) = 0
      BY <1>4
    <3>2. LevelOf(g, i, t.node[i])
      BY <1>3, <1>4 DEF LevelOf
    <3> QED BY <3>1, <3>2 DEF Hangs
  <2> QED BY <2>1, <1>2 DEF Shape
<1> QED BY <1>2, <1>3, <1>7, <1>9, <1>10

\* The start of a bulk load: b is loading ks and vs.
Started(t, row, mins, ks, vs, M) ==
    (\E g : LoadingG(t, g, row, mins)) /\ Inners(t) /\ Listing(t, ks, vs, M)

\* The first phase of a bulk load.
LEMMA BulkStartDoes ==
    ASSUME NEW ks \in Seq(Key), NEW vs \in Seq(Value), NEW M, M = Len(ks), M = Len(vs), M # 0, Run(M, ks, Least, Greatest),
           NEW b, b = BulkStart(ks, vs)
    PROVE  Started(b.tree, b.row, b.mins, ks, vs, M)
<1>1. M \in Nat \ {0} /\ LeafCap \in Nat \ {0}
  BY CapAssumption
<1>2. PICK m : m = CeilDiv(M, LeafCap)
  OBVIOUS
<1>3. PICK off, e : off = OffOf(m, LeafCap) /\ e = EndsOf(M, m, LeafCap)
  OBVIOUS
<1>4. Cuts(M, LeafCap, m, off, e)
  BY <1>1, <1>2, <1>3, CutsAre
<1>5. PICK pk, pv : pk = CutInto(ks, m, LeafCap) /\ pv = CutInto(vs, m, LeafCap)
  OBVIOUS
<1>6. PICK t, row, mins : t = b.tree /\ row = b.row /\ mins = b.mins
  OBVIOUS
<1>7. LeavesLoaded(t, m, M, pk, pv) /\ row = [i \in 1 .. m |-> i - 1] /\ mins = [i \in 1 .. m |-> ks[(i - 1) * LeafCap + 1]]
  <2>1. M = Len(ks) /\ m = CeilDiv(M, LeafCap) /\ b = BulkStart(ks, vs)
    BY <1>2
  <2>2. LeavesLoaded(b.tree, m, M, pk, pv) /\ b.row = [i \in 1 .. m |-> i - 1] /\ b.mins = MinsOf(ks, m, LeafCap)
    BY ONLY <2>1, <1>5, BulkStartIs
  <2> QED BY ONLY <2>2, <1>6 DEF MinsOf
<1>8. m \in Nat \ {0}
  BY <1>4 DEF Cuts
<1>9. LoadCut(M, LeafCap, m, off, e, ks, vs, pk, pv)
  <2>1. ASSUME NEW i \in 0 .. m - 1 PROVE PieceIs(Key, ks, pk[i], off[i], e[i]) /\ PieceIs(Value, vs, pv[i], off[i], e[i])
    <3>1. pk[i] = Piece(ks, i, LeafCap) /\ pv[i] = Piece(vs, i, LeafCap)
      BY <1>5 DEF CutInto
    <3>2. PieceIs(Key, ks, Piece(ks, i, LeafCap), off[i], e[i])
      BY <1>2, <1>3, <1>4, PieceDoes
    <3>3. PieceIs(Value, vs, Piece(vs, i, LeafCap), off[i], e[i])
      BY <1>2, <1>3, <1>4, PieceDoes
    <3> QED BY <3>1, <3>2, <3>3
  <2> QED BY <2>1, <1>4 DEF LoadCut
<1>10. Arena(t) /\ LoadView(t, m, M, pk, pv)
  BY <1>7, <1>9, LoadArena
<1>11. Listing(t, ks, vs, M) /\ LeafSet(t) = 0 .. m - 1
  BY <1>9, <1>10, LoadListing
<1>12. PICK g : g = LoadGhost(m, ks, off)
  OBVIOUS
<1>13. Order(t, g) /\ Links(t, g) /\ Shape(t, g, 0 .. m - 1) /\ \A n \in DOMAIN t.node : g.out[n] = g.hi[n]
  BY <1>9, <1>10, <1>12, LoadOrder
<1>14. t.len = M /\ t.root = NO_NODE /\ t.free = <<>> /\ t.height = 0
  BY <1>10 DEF LoadView
<1>15. t.len = Cardinality(KeySet(t))
  BY <1>10, <1>11, <1>14, ListingCard
<1>16. row \in Seq(Int) /\ Len(row) = m /\ IsInjective(row) /\ ToSet(row) = 0 .. m - 1 /\ row # <<>>
  <2>1. row \in Seq(Int) /\ Len(row) = m /\ DOMAIN row = 1 .. m
    BY <1>7, <1>8
  <2>2. IsInjective(row)
    BY <2>1, <1>7, <1>8 DEF IsInjective
  <2>3. ToSet(row) = 0 .. m - 1
    <3>1. ASSUME NEW x \in 0 .. m - 1 PROVE x \in ToSet(row)
      <4>1. x + 1 \in 1 .. m /\ (x + 1) - 1 = x
        BY <1>8
      <4> QED BY <4>1, <2>1, <1>7 DEF ToSet
    <3>2. ASSUME NEW i \in 1 .. m PROVE row[i] \in 0 .. m - 1
      BY <1>7, <1>8
    <3> QED BY <3>1, <3>2, <2>1 DEF ToSet
  <2> QED BY <2>1, <2>2, <2>3, <1>8
<1>17. mins \in Seq(Key) /\ Len(mins) = m
  <2>1. ASSUME NEW i \in 1 .. m PROVE ks[(i - 1) * LeafCap + 1] \in Key
    <3>1. i - 1 \in 0 .. m - 1
      BY <1>8
    <3>2. off[i - 1] = (i - 1) * LeafCap
      BY <3>1, <1>3 DEF OffOf
    <3>3. off[i - 1] + 1 \in 1 .. M
      BY <3>1, <1>4, PieceBounds
    <3>4. PICK x : x = off[i - 1] + 1
      OBVIOUS
    <3>5. ks[x] \in Key
      <4>1. x \in 1 .. Len(ks) /\ ks \in Seq(Key)
        BY <3>3, <3>4
      <4> QED BY ONLY <4>1
    <3>6. x = (i - 1) * LeafCap + 1
      BY ONLY <3>2, <3>4
    <3> QED BY ONLY <3>5, <3>6
  <2> QED BY <2>1, <1>7, <1>8
<1>18. ASSUME NEW i \in 1 .. m
       PROVE  /\ g.lev[row[i]] = t.height
              /\ t.node[row[i]].parent = NO_NODE
              /\ g.lo[row[i]] = IF i = 1 THEN Least ELSE mins[i]
              /\ g.hi[row[i]] = IF i = m THEN Greatest ELSE mins[i + 1]
  <2>1. PICK n : n = i - 1
    OBVIOUS
  <2>2. n \in 0 .. m - 1 /\ row[i] = n /\ (n = 0 <=> i = 1) /\ (n = m - 1 <=> i = m)
    BY <2>1, <1>7, <1>8
  <2>3. g.lev[n] = 0 /\ g.lo[n] = LoOf(ks, off, n) /\ g.hi[n] = HiOf(ks, off, m, n)
    BY <2>2, <1>12 DEF LoadGhost
  <2>4. t.node[n].parent = NO_NODE
    BY <2>2, <1>10 DEF LoadView
  <2>5. off[n] = n * LeafCap /\ mins[i] = ks[off[n] + 1]
    BY <2>1, <2>2, <1>3, <1>7 DEF OffOf
  <2>6. ASSUME i # m PROVE mins[i + 1] = ks[off[n + 1] + 1]
    <3>1. i + 1 \in 1 .. m /\ n + 1 \in 0 .. m - 1 /\ (i + 1) - 1 = n + 1
      BY <2>1, <2>6, <1>8
    <3>2. off[n + 1] = (n + 1) * LeafCap
      BY <3>1, <1>3 DEF OffOf
    <3>3. mins[i + 1] = ks[((i + 1) - 1) * LeafCap + 1]
      BY <3>1, <1>7
    <3> QED BY <3>1, <3>2, <3>3
  <2>7. g.lo[n] = IF i = 1 THEN Least ELSE mins[i]
    BY <2>2, <2>3, <2>5 DEF LoOf
  <2>8. g.hi[n] = IF i = m THEN Greatest ELSE mins[i + 1]
    BY <2>2, <2>3, <2>6 DEF HiOf
  <2> QED BY <2>2, <2>3, <2>4, <2>7, <2>8, <1>14
<1>19. LoadingG(t, g, row, mins)
  <2>1. TreeInv(t, g, ToSet(row))
    BY <1>10, <1>13, <1>15, <1>16 DEF TreeInv
  <2> QED BY <2>1, <1>13, <1>14, <1>16, <1>17, <1>18 DEF LoadingG
<1>20. Inners(t)
  BY <1>10 DEF Inners, LoadView
<1> QED BY <1>6, <1>11, <1>19, <1>20 DEF Started

\* The node over piece i of the row.
LevelInner(row, mins, d, i) == BulkInner(Piece(mins, i, d), Piece(row, i, d))
ParentIn(t, row, d, m, n) == t.hi + CHOOSE i \in 0 .. m - 1 : n \in ToSet(Piece(row, i, d))
LevelNode(t, row, mins, d, m, n) ==
    IF n \notin DOMAIN t.node THEN LevelInner(row, mins, d, n - t.hi)
    ELSE IF n \in ToSet(row) THEN [t.node[n] EXCEPT !.parent = ParentIn(t, row, d, m, n)]
    ELSE t.node[n]
LevelNodes(t, row, mins, d, m) ==
    [n \in DOMAIN t.node \cup (t.hi .. t.hi + m - 1) |-> LevelNode(t, row, mins, d, m, n)]

\* What one round of a bulk load makes of tree t.
LevelMade(t, u, row, mins, d, m) ==
    u = TreeOf(LevelNodes(t, row, mins, d, m), t.free, t.hi + m, t.root, t.first, t.last, t.len, t.height + 1)

\* BulkRow makes this level.
LEMMA BulkRowIs ==
    ASSUME NEW t, Arena(t), NEW row, NEW mins, NEW d, d = InternalCap + 1, NEW m, m = CeilDiv(Len(row), d),
           NEW b, b = BulkRow([tree |-> t, row |-> row, mins |-> mins])
    PROVE  LevelMade(t, b.tree, row, mins, d, m) /\ b.row = RowFrom(t.hi, m) /\ b.mins = MinsOf(mins, m, d)
<1>1. PICK nodes : nodes = LevelNodes(t, row, mins, d, m)
  OBVIOUS
<1>2. PICK z : z = [tree |-> t, row |-> row, mins |-> mins]
  OBVIOUS
<1>3. z.tree = t /\ z.row = row /\ z.mins = mins
  BY <1>2
<1>4. PICK a : a = [t EXCEPT !.node = nodes, !.hi = @ + m, !.height = @ + 1]
  OBVIOUS
<1>5. nodes = [n \in DOMAIN t.node \cup (t.hi .. t.hi + m - 1) |->
                 IF n \notin DOMAIN t.node THEN BulkInner(Piece(mins, n - t.hi, d), Piece(row, n - t.hi, d))
                 ELSE IF n \in ToSet(row)
                   THEN [t.node[n] EXCEPT !.parent = t.hi + CHOOSE i \in 0 .. m - 1 : n \in ToSet(Piece(row, i, d))]
                 ELSE t.node[n]]
  BY <1>1 DEF LevelNodes, LevelNode, LevelInner, ParentIn
<1>6. b = [tree |-> a, row |-> [i \in 1 .. m |-> t.hi + i - 1], mins |-> [i \in 1 .. m |-> mins[(i - 1) * d + 1]]]
  BY <1>2, <1>3, <1>4, <1>5 DEF BulkRow
<1>7. a = TreeOf(nodes, t.free, t.hi + m, t.root, t.first, t.last, t.len, t.height + 1)
  <2>1. t = TreeOf(t.node, t.free, t.hi, t.root, t.first, t.last, t.len, t.height)
    BY ArenaParts
  <2>2. PICK a1 : a1 = [t EXCEPT !.node = nodes]
    OBVIOUS
  <2>3. PICK y, w : y = t.hi + m /\ w = t.height + 1
    OBVIOUS
  <2>4. PICK a2 : a2 = [a1 EXCEPT !.hi = y]
    OBVIOUS
  <2>5. a1 = TreeOf(nodes, t.free, t.hi, t.root, t.first, t.last, t.len, t.height)
    BY ONLY <2>1, <2>2 DEF TreeOf
  <2>6. a2 = TreeOf(nodes, t.free, y, t.root, t.first, t.last, t.len, t.height)
    BY ONLY <2>4, <2>5 DEF TreeOf
  <2>7. [a2 EXCEPT !.height = w] = TreeOf(nodes, t.free, y, t.root, t.first, t.last, t.len, w)
    BY ONLY <2>6 DEF TreeOf
  <2>8. a = [a2 EXCEPT !.height = w]
    <3>1. a = [t EXCEPT !.node = nodes, !.hi = t.hi + m, !.height = t.height + 1]
      BY ONLY <1>4
    <3> QED BY ONLY <3>1, <2>2, <2>3, <2>4
  <2> QED BY ONLY <2>3, <2>7, <2>8
<1>8. b.tree = a /\ b.row = RowFrom(t.hi, m) /\ b.mins = MinsOf(mins, m, d)
  BY ONLY <1>6 DEF MinsOf, RowFrom
<1> QED BY ONLY <1>1, <1>7, <1>8 DEF LevelMade

\* The pieces of a row and of its smallest keys.
LevelCut(t, row, mins, R, d, m, off, e) ==
    /\ Cuts(R, d, m, off, e) /\ row \in Seq(Int) /\ mins \in Seq(Key) /\ Len(row) = R /\ Len(mins) = R /\ IsInjective(row)
    /\ \A x \in 1 .. R : row[x] \in DOMAIN t.node
    /\ \A i \in 0 .. m - 1 : /\ PieceIs(Int, row, Piece(row, i, d), off[i], e[i])
                             /\ PieceIs(Key, mins, Piece(mins, i, d), off[i], e[i])

\* The fields of the tree with the new level.
LevelView(t, u, row, mins, R, d, m, off, e) ==
    /\ DOMAIN t.node = 0 .. t.hi - 1 /\ DOMAIN u.node = 0 .. u.hi - 1 /\ u.hi = t.hi + m /\ u.free = t.free /\ u.root = t.root
    /\ u.first = t.first /\ u.last = t.last /\ u.len = t.len /\ u.height = t.height + 1
    /\ \A i \in 0 .. m - 1 :
         /\ u.node[t.hi + i].keys = Tail(Piece(mins, i, d)) /\ u.node[t.hi + i].vals = <<>>
         /\ u.node[t.hi + i].kids = Piece(row, i, d)
         /\ u.node[t.hi + i].parent = NO_NODE /\ u.node[t.hi + i].prev = NO_NODE /\ u.node[t.hi + i].next = NO_NODE
    /\ \A n \in DOMAIN t.node :
         /\ u.node[n].keys = t.node[n].keys /\ u.node[n].vals = t.node[n].vals /\ u.node[n].kids = t.node[n].kids
         /\ u.node[n].prev = t.node[n].prev /\ u.node[n].next = t.node[n].next
         /\ n \notin ToSet(row) => u.node[n].parent = t.node[n].parent
    /\ \A i \in 0 .. m - 1 : \A x \in 1 .. R : off[i] < x /\ x <= e[i] => u.node[row[x]].parent = t.hi + i

\* The new parent of a node of the row.
LEMMA ParentOfPiece ==
    ASSUME NEW t, NEW row, NEW mins, NEW R, NEW d, NEW m, NEW off, NEW e, LevelCut(t, row, mins, R, d, m, off, e),
           NEW i \in 0 .. m - 1, NEW x \in 1 .. R, off[i] < x, x <= e[i]
    PROVE  ParentIn(t, row, d, m, row[x]) = t.hi + i
<1>1. /\ m \in Nat /\ R \in Nat /\ \A a \in 0 .. m - 1 : off[a] \in Nat /\ e[a] \in Nat
      /\ \A a, c \in 0 .. m - 1 : a < c => e[a] <= off[c]
  BY DEF LevelCut, Cuts
<1>2. ASSUME NEW a \in 0 .. m - 1
      PROVE  row[x] \in ToSet(Piece(row, a, d)) <=> (off[a] < x /\ x <= e[a])
  <2>1. PICK w : w = Piece(row, a, d)
    OBVIOUS
  <2>2. PieceIs(Int, row, w, off[a], e[a])
    BY <2>1 DEF LevelCut
  <2>3. PICK L : L = e[a] - off[a]
    OBVIOUS
  <2>4. Len(w) = L /\ L \in Nat /\ DOMAIN w = 1 .. L /\ \A j \in 1 .. L : w[j] = row[off[a] + j] /\ off[a] + j \in 1 .. R
    <3>1. w \in Seq(Int) /\ Len(row) = R
      BY <2>2 DEF PieceIs, LevelCut
    <3> QED BY <3>1, <2>2, <2>3 DEF PieceIs
  <2>5. ASSUME off[a] < x, x <= e[a] PROVE row[x] \in ToSet(w)
    <3>1. PICK j : j = x - off[a]
      OBVIOUS
    <3>2. j \in 1 .. L /\ off[a] + j = x
      BY <3>1, <2>3, <2>5, <1>1
    <3>3. w[j] = row[x]
      BY <3>2, <2>4
    <3> QED BY <3>2, <3>3, <2>4 DEF ToSet
  <2>6. ASSUME row[x] \in ToSet(w) PROVE off[a] < x /\ x <= e[a]
    <3>1. PICK j \in 1 .. L : w[j] = row[x]
      BY <2>4, <2>6 DEF ToSet
    <3>2. row[off[a] + j] = row[x] /\ off[a] + j \in 1 .. R
      BY <3>1, <2>4
    <3>3. off[a] + j = x
      <4>1. IsInjective(row) /\ DOMAIN row = 1 .. R
        BY DEF LevelCut
      <4> QED BY <4>1, <3>2 DEF IsInjective
    <3> QED BY <3>1, <3>3, <2>3, <1>1
  <2> QED BY <2>1, <2>5, <2>6
<1>3. PICK a : a = CHOOSE c \in 0 .. m - 1 : row[x] \in ToSet(Piece(row, c, d))
  OBVIOUS
<1>4. \E c \in 0 .. m - 1 : row[x] \in ToSet(Piece(row, c, d))
  BY <1>2
<1>5. a \in 0 .. m - 1 /\ row[x] \in ToSet(Piece(row, a, d))
  BY ONLY <1>3, <1>4
<1>6. off[a] < x /\ x <= e[a]
  BY <1>2, <1>5
<1>7. a = i
  BY <1>1, <1>5, <1>6
<1> QED BY <1>3, <1>7 DEF ParentIn

\* The node over a piece.
LEMMA LevelInnerIs ==
    ASSUME NEW t, NEW row, NEW mins, NEW R, NEW d, NEW m, NEW off, NEW e, LevelCut(t, row, mins, R, d, m, off, e),
           NEW i \in 0 .. m - 1, NEW r, r = LevelInner(row, mins, d, i)
    PROVE  /\ r \in NodeRec /\ r.keys = Tail(Piece(mins, i, d)) /\ r.vals = <<>> /\ r.kids = Piece(row, i, d)
           /\ r.parent = NO_NODE /\ r.prev = NO_NODE /\ r.next = NO_NODE
<1>1. PICK w, c, x : w = Tail(Piece(mins, i, d)) /\ c = Piece(row, i, d) /\ x = <<>>
  OBVIOUS
<1>2. w \in Seq(Key) /\ c \in Seq(Int) /\ x \in Seq(Value)
  <2>1. PICK p : p = Piece(mins, i, d)
    OBVIOUS
  <2>2. PieceIs(Int, row, c, off[i], e[i]) /\ PieceIs(Key, mins, p, off[i], e[i])
    BY <1>1, <2>1 DEF LevelCut
  <2>3. c \in Seq(Int) /\ p \in Seq(Key) /\ Len(p) \in Nat \ {0}
    BY <2>2 DEF PieceIs
  <2> QED BY <1>1, <2>1, <2>3
<1>3. PICK no : no = NO_NODE
  OBVIOUS
<1>4. no \in Int
  BY <1>3 DEF NO_NODE
<1>5. r = [keys |-> w, vals |-> x, kids |-> c, parent |-> no, prev |-> no, next |-> no]
  BY <1>1, <1>3 DEF LevelInner, BulkInner, Internal
<1>6. r \in NodeRec /\ r.keys = w /\ r.vals = x /\ r.kids = c /\ r.parent = no /\ r.prev = no /\ r.next = no
  BY ONLY <1>2, <1>4, <1>5 DEF NodeRec
<1> QED BY ONLY <1>1, <1>3, <1>6

\* The arena with the new level.
LEMMA LevelArena ==
    ASSUME NEW t, NEW u, NEW row, NEW mins, NEW R, NEW d, NEW m, NEW off, NEW e, LevelCut(t, row, mins, R, d, m, off, e),
           Arena(t), t.free = <<>>, LevelMade(t, u, row, mins, d, m)
    PROVE  Arena(u) /\ LevelView(t, u, row, mins, R, d, m, off, e)
<1>1. m \in Nat \ {0} /\ R \in Nat /\ t.hi \in Nat /\ t.height \in Nat
  BY DEF LevelCut, Cuts, Arena
<1>2. DOMAIN t.node = 0 .. t.hi - 1
  <2>1. ToSet(t.free) = {}
    BY DEF ToSet
  <2>2. DOMAIN t.node \subseteq 0 .. t.hi - 1 /\ {} = (0 .. t.hi - 1) \ DOMAIN t.node
    BY <2>1 DEF Arena
  <2> QED BY <2>2
<1>3. PICK nodes : nodes = LevelNodes(t, row, mins, d, m)
  OBVIOUS
<1>4. /\ u.node = nodes /\ u.free = t.free /\ u.hi = t.hi + m /\ u.root = t.root /\ u.first = t.first /\ u.last = t.last
      /\ u.len = t.len /\ u.height = t.height + 1
      /\ u = [node |-> u.node, free |-> u.free, hi |-> u.hi, root |-> u.root,
            first |-> u.first, last |-> u.last, len |-> u.len, height |-> u.height]
  <2>1. PICK y, w : y = t.hi + m /\ w = t.height + 1
    OBVIOUS
  <2>2. u = TreeOf(nodes, t.free, y, t.root, t.first, t.last, t.len, w)
    BY <2>1, <1>3 DEF LevelMade
  <2>3. u = [node |-> nodes, free |-> t.free, hi |-> y, root |-> t.root, first |-> t.first,
             last |-> t.last, len |-> t.len, height |-> w]
    BY ONLY <2>2 DEF TreeOf
  <2> QED BY ONLY <2>1, <2>3
<1>5. DOMAIN nodes = 0 .. t.hi + m - 1
  BY <1>1, <1>2, <1>3 DEF LevelNodes
<1>6. ASSUME NEW i \in 0 .. m - 1 PROVE nodes[t.hi + i] = LevelInner(row, mins, d, i)
  <2>1. t.hi + i \in t.hi .. t.hi + m - 1 /\ t.hi + i \notin DOMAIN t.node /\ (t.hi + i) - t.hi = i
    BY <1>1, <1>2
  <2>2. nodes[t.hi + i] = LevelNode(t, row, mins, d, m, t.hi + i)
    BY <2>1, <1>3 DEF LevelNodes
  <2>3. LevelNode(t, row, mins, d, m, t.hi + i) = LevelInner(row, mins, d, (t.hi + i) - t.hi)
    BY <2>1 DEF LevelNode
  <2> QED BY <2>1, <2>2, <2>3
<1>7. ASSUME NEW n \in DOMAIN t.node, n \notin ToSet(row) PROVE nodes[n] = t.node[n]
  BY <1>3, <1>7 DEF LevelNodes, LevelNode
<1>8. ASSUME NEW n \in DOMAIN t.node, NEW x \in 1 .. R, n = row[x], NEW i \in 0 .. m - 1, off[i] < x, x <= e[i]
      PROVE  nodes[n] = Rec(t.node[n].keys, t.node[n].vals, t.node[n].kids, t.hi + i, t.node[n].prev, t.node[n].next)
  <2>1. n \in ToSet(row)
    BY <1>8 DEF ToSet, LevelCut
  <2>2. PICK q : q = t.hi + i
    OBVIOUS
  <2>3. ParentIn(t, row, d, m, n) = q
    BY <2>2, <1>8, ParentOfPiece
  <2>4. nodes[n] = [t.node[n] EXCEPT !.parent = q]
    BY <2>1, <2>3, <1>3 DEF LevelNodes, LevelNode
  <2>5. PICK r : r = t.node[n]
    OBVIOUS
  <2>6. r = Rec(r.keys, r.vals, r.kids, r.parent, r.prev, r.next)
    BY <2>5, ArenaParts
  <2>7. [r EXCEPT !.parent = q] = Rec(r.keys, r.vals, r.kids, q, r.prev, r.next)
    BY ONLY <2>6 DEF Rec
  <2> QED BY ONLY <2>2, <2>4, <2>5, <2>7
<1>9. ASSUME NEW n \in DOMAIN t.node
      PROVE  /\ nodes[n] \in NodeRec
             /\ nodes[n].keys = t.node[n].keys /\ nodes[n].vals = t.node[n].vals /\ nodes[n].kids = t.node[n].kids
             /\ nodes[n].prev = t.node[n].prev /\ nodes[n].next = t.node[n].next
             /\ n \notin ToSet(row) => nodes[n].parent = t.node[n].parent
  <2>1. CASE n \notin ToSet(row)
    BY <2>1, <1>7, ArenaParts
  <2>2. CASE n \in ToSet(row)
    <3>1. PICK x \in 1 .. R : n = row[x]
      BY <2>2 DEF ToSet, LevelCut
    <3>2. PICK i \in 0 .. m - 1 : off[i] < x /\ x <= e[i]
      BY DEF LevelCut, Cuts
    <3>3. PICK r, q : r = t.node[n] /\ q = t.hi + i
      OBVIOUS
    <3>4. nodes[n] = Rec(r.keys, r.vals, r.kids, q, r.prev, r.next)
      BY <3>1, <3>2, <3>3, <1>8
    <3>5. /\ r.keys \in Seq(Key) /\ r.vals \in Seq(Value) /\ r.kids \in Seq(Int) /\ q \in Int /\ r.prev \in Int /\ r.next \in Int
      BY <3>3, <1>1, ArenaParts
    <3>6. nodes[n] \in NodeRec /\ nodes[n].keys = r.keys /\ nodes[n].vals = r.vals /\ nodes[n].kids = r.kids
          /\ nodes[n].prev = r.prev /\ nodes[n].next = r.next
      BY ONLY <3>4, <3>5, RecFields
    <3> QED BY ONLY <2>2, <3>3, <3>6
  <2> QED BY <2>1, <2>2
<1>10. ASSUME NEW n \in DOMAIN nodes PROVE nodes[n] \in NodeRec
  <2>1. CASE n \in DOMAIN t.node
    BY <2>1, <1>9
  <2>2. CASE n \notin DOMAIN t.node
    <3>1. PICK i : i = n - t.hi
      OBVIOUS
    <3>2. i \in 0 .. m - 1 /\ n = t.hi + i
      BY <3>1, <2>2, <1>1, <1>2, <1>5
    <3> QED BY <3>2, <1>6, LevelInnerIs
  <2> QED BY <2>1, <2>2
<1>11. Arena(u)
  <2>1. u.node \in [DOMAIN u.node -> NodeRec]
    <3>1. nodes = [n \in DOMAIN nodes |-> nodes[n]]
      BY <1>3 DEF LevelNodes
    <3> QED BY <3>1, <1>4, <1>10
  <2>2. IsInjective(u.free) /\ u.free \in Seq(Int) /\ ToSet(u.free) = {}
    <3>1. u.free = t.free /\ u.free = <<>>
      BY <1>4
    <3>2. IsInjective(t.free) /\ t.free \in Seq(Int)
      BY DEF Arena
    <3>3. ToSet(u.free) = {}
      BY ONLY <3>1 DEF ToSet
    <3> QED BY ONLY <3>1, <3>2, <3>3
  <2>3. DOMAIN u.node = 0 .. u.hi - 1
    <3>1. PICK a, c, h : a = u.node /\ c = t.hi + m /\ h = u.hi
      OBVIOUS
    <3>2. a = nodes /\ h = c /\ DOMAIN nodes = 0 .. c - 1
      BY ONLY <3>1, <1>1, <1>4, <1>5
    <3> QED BY ONLY <3>1, <3>2
  <2>4. u.hi \in Nat /\ u.root \in Int /\ u.first \in Int /\ u.last \in Int /\ u.height \in Nat
    BY <1>1, <1>4 DEF Arena
  <2> QED BY <2>1, <2>2, <2>3, <2>4, <1>4 DEF Arena
<1>12. ASSUME NEW i \in 0 .. m - 1, NEW x \in 1 .. R, off[i] < x, x <= e[i] PROVE nodes[row[x]].parent = t.hi + i
  <2>1. PICK n, q : n = row[x] /\ q = t.hi + i
    OBVIOUS
  <2>2. n \in DOMAIN t.node
    BY <2>1 DEF LevelCut
  <2>3. nodes[n] = Rec(t.node[n].keys, t.node[n].vals, t.node[n].kids, q, t.node[n].prev, t.node[n].next)
    BY <2>1, <2>2, <1>8, <1>12
  <2>4. nodes[n].parent = q
    BY ONLY <2>3 DEF Rec
  <2> QED BY <2>1, <2>4
<1>13. ASSUME NEW i \in 0 .. m - 1
       PROVE  /\ nodes[t.hi + i].keys = Tail(Piece(mins, i, d)) /\ nodes[t.hi + i].vals = <<>>
              /\ nodes[t.hi + i].kids = Piece(row, i, d)
              /\ nodes[t.hi + i].parent = NO_NODE /\ nodes[t.hi + i].prev = NO_NODE /\ nodes[t.hi + i].next = NO_NODE
  <2>1. PICK r : r = nodes[t.hi + i]
    OBVIOUS
  <2>2. r = LevelInner(row, mins, d, i)
    BY <2>1, <1>6
  <2>3. /\ r \in NodeRec /\ r.keys = Tail(Piece(mins, i, d)) /\ r.vals = <<>> /\ r.kids = Piece(row, i, d)
        /\ r.parent = NO_NODE /\ r.prev = NO_NODE /\ r.next = NO_NODE
    BY <2>2, LevelInnerIs
  <2> QED BY ONLY <2>1, <2>3
<1>14. DOMAIN u.node = 0 .. u.hi - 1
  <2>1. PICK a, c, h : a = u.node /\ c = t.hi + m /\ h = u.hi
    OBVIOUS
  <2>2. a = nodes /\ h = c /\ DOMAIN nodes = 0 .. c - 1
    BY ONLY <2>1, <1>1, <1>4, <1>5
  <2> QED BY ONLY <2>1, <2>2
<1> QED BY <1>2, <1>4, <1>9, <1>11, <1>12, <1>13, <1>14 DEF LevelView

\* A sequence of bounds in which every member is below the next one.
Rising(bnd, N) == (\A x \in 1 .. N : bnd[x] \in Int) /\ \A x \in 1 .. N - 1 : bnd[x] < bnd[x + 1]

\* Then every member is below every later one.
LEMMA StepsAscend ==
    ASSUME NEW bnd, NEW N \in Nat, Rising(bnd, N), NEW i \in 1 .. N, NEW j \in 1 .. N, i < j
    PROVE  bnd[i] < bnd[j]
<1>1. (\A x \in 1 .. N : bnd[x] \in Int) /\ \A x \in 1 .. N - 1 : bnd[x] < bnd[x + 1]
  BY DEF Rising
<1>2. PICK B : B = {x \in Nat : x \in 1 .. N /\ i < x /\ ~(bnd[i] < bnd[x])}
  OBVIOUS
<1>3. SUFFICES ASSUME B # {} PROVE FALSE
  BY <1>2
<1>4. PICK q \in B : \A y \in B : q <= y
  BY <1>2, <1>3, MinOfNats
<1>5. q \in Nat /\ q \in 1 .. N /\ i < q /\ ~(bnd[i] < bnd[q])
  BY <1>2, <1>4
<1>6. PICK y : y = q - 1
  OBVIOUS
<1>7. y \in Nat /\ y \in 1 .. N /\ y \in 1 .. N - 1 /\ y + 1 = q /\ ~(q <= y) /\ (i < y \/ i = y)
  BY <1>5, <1>6
<1>8. y \notin B
  BY <1>4, <1>7
<1>9. bnd[y] < bnd[q] /\ bnd[y] \in Int /\ bnd[q] \in Int /\ bnd[i] \in Int
  BY <1>1, <1>5, <1>7
<1>10. CASE i = y
  BY <1>5, <1>9, <1>10
<1>11. CASE i < y
  <2>1. bnd[i] < bnd[y]
    BY <1>2, <1>7, <1>8, <1>11
  <2> QED BY <2>1, <1>5, <1>9
<1> QED BY <1>7, <1>10, <1>11

\* And is at most every member that is not before it.
LEMMA StepsAtMost ==
    ASSUME NEW bnd, NEW N \in Nat, Rising(bnd, N), NEW i \in 1 .. N, NEW j \in 1 .. N, i <= j
    PROVE  bnd[i] <= bnd[j] /\ bnd[i] \in Int /\ bnd[j] \in Int
<1>1. bnd[i] \in Int /\ bnd[j] \in Int
  BY DEF Rising
<1>2. CASE i = j
  BY <1>1, <1>2
<1>3. CASE i < j
  BY <1>1, <1>3, StepsAscend
<1> QED BY <1>1, <1>2, <1>3

\* The bounds between the nodes of a row.
BoundsOf(mins, R) == [x \in 1 .. R + 1 |-> IF x = 1 THEN Least ELSE IF x = R + 1 THEN Greatest ELSE mins[x]]
RowBounds(g, row, mins, R, bnd) ==
    /\ Rising(bnd, R + 1) /\ bnd[1] = Least /\ bnd[R + 1] = Greatest /\ R \in Nat \ {0}
    /\ \A x \in 1 .. R : g.lo[row[x]] = bnd[x] /\ g.hi[row[x]] = bnd[x + 1] /\ (x # 1 => bnd[x] = mins[x])

\* The ranges of the row rise.
LEMMA RowRises ==
    ASSUME NEW t, NEW g, NEW row, NEW mins, LoadingG(t, g, row, mins), NEW R, R = Len(row), NEW bnd, bnd = BoundsOf(mins, R)
    PROVE  /\ RowBounds(g, row, mins, R, bnd) /\ row \in Seq(Int) /\ mins \in Seq(Key) /\ Len(mins) = R /\ IsInjective(row)
           /\ \A x \in 1 .. R : row[x] \in DOMAIN t.node /\ row[x] \in ToSet(row) /\ g.lev[row[x]] = t.height
<1>1. /\ TreeInv(t, g, ToSet(row)) /\ row \in Seq(Int) /\ mins \in Seq(Key) /\ Len(mins) = R /\ row # <<>> /\ IsInjective(row)
      /\ \A x \in 1 .. R : /\ g.lev[row[x]] = t.height
                           /\ g.lo[row[x]] = IF x = 1 THEN Least ELSE mins[x]
                           /\ g.hi[row[x]] = IF x = R THEN Greatest ELSE mins[x + 1]
  BY DEF LoadingG
<1>2. R \in Nat \ {0} /\ DOMAIN row = 1 .. R
  BY <1>1
<1>3. ToSet(row) \subseteq DOMAIN t.node
  BY <1>1 DEF TreeInv, Shape
<1>4. ASSUME NEW x \in 1 .. R PROVE row[x] \in DOMAIN t.node /\ row[x] \in ToSet(row)
  BY <1>2, <1>3 DEF ToSet
<1>5. ASSUME NEW x \in 1 .. R
      PROVE  /\ g.lo[row[x]] = bnd[x] /\ g.hi[row[x]] = bnd[x + 1] /\ (x # 1 => bnd[x] = mins[x])
             /\ bnd[x] \in Int /\ bnd[x + 1] \in Int /\ bnd[x] < bnd[x + 1]
  <2>1. x \in 1 .. R + 1 /\ x + 1 \in 1 .. R + 1 /\ x # R + 1 /\ x + 1 # 1 /\ (x + 1 = R + 1 <=> x = R)
    BY <1>2
  <2>2. bnd[x] = (IF x = 1 THEN Least ELSE mins[x]) /\ bnd[x + 1] = (IF x = R THEN Greatest ELSE mins[x + 1])
    BY <2>1 DEF BoundsOf
  <2>3. g.lo[row[x]] = bnd[x] /\ g.hi[row[x]] = bnd[x + 1] /\ (x # 1 => bnd[x] = mins[x])
    BY <2>2, <1>1
  <2>4. RangeOf(g, row[x])
    BY <1>1, <1>4, GuidesParts DEF TreeInv, Guides
  <2> QED BY <2>3, <2>4 DEF RangeOf
<1>6. Rising(bnd, R + 1)
  <2>1. ASSUME NEW x \in 1 .. R + 1 PROVE bnd[x] \in Int
    <3>1. CASE x = R + 1
      <4>1. R \in 1 .. R
        BY <1>2
      <4> QED BY <4>1, <3>1, <1>5
    <3>2. CASE x # R + 1
      <4>1. x \in 1 .. R
        BY <3>2, <1>2
      <4> QED BY <4>1, <1>5
    <3> QED BY <3>1, <3>2
  <2>2. (R + 1) - 1 = R
    BY <1>2
  <2> QED BY <2>1, <2>2, <1>5 DEF Rising
<1>7. bnd[1] = Least /\ bnd[R + 1] = Greatest
  <2>1. 1 \in 1 .. R + 1 /\ R + 1 \in 1 .. R + 1 /\ R + 1 # 1
    BY <1>2
  <2> QED BY <2>1 DEF BoundsOf
<1>8. RowBounds(g, row, mins, R, bnd)
  BY <1>2, <1>5, <1>6, <1>7 DEF RowBounds
<1> QED BY <1>1, <1>4, <1>8

\* The ranges with the new level.
LevelGhost(t, g, bnd, off, e) ==
    [lev |-> [n \in Int |-> IF n >= t.hi THEN t.height + 1 ELSE g.lev[n]],
     lo  |-> [n \in Int |-> IF n >= t.hi THEN bnd[off[n - t.hi] + 1] ELSE g.lo[n]],
     hi  |-> [n \in Int |-> IF n >= t.hi THEN bnd[e[n - t.hi] + 1] ELSE g.hi[n]],
     out |-> [n \in Int |-> IF n >= t.hi THEN bnd[e[n - t.hi] + 1] ELSE g.hi[n]]]
LevelGhostView(t, g, h, bnd, off, e, m) ==
    /\ Calm(h) = h
    /\ \A i \in 0 .. m - 1 : /\ h.lev[t.hi + i] = t.height + 1 /\ h.lo[t.hi + i] = bnd[off[i] + 1]
                             /\ h.hi[t.hi + i] = bnd[e[i] + 1] /\ h.out[t.hi + i] = bnd[e[i] + 1]
    /\ \A n \in DOMAIN t.node : /\ h.lev[n] = g.lev[n] /\ h.lo[n] = g.lo[n] /\ h.hi[n] = g.hi[n] /\ h.out[n] = g.hi[n]

\* Their values.
LEMMA LevelGhostIs ==
    ASSUME NEW t, Arena(t), NEW g, NEW bnd, NEW off, NEW e, NEW m, NEW h, h = LevelGhost(t, g, bnd, off, e)
    PROVE  LevelGhostView(t, g, h, bnd, off, e, m)
<1>1. t.hi \in Nat
  BY DEF Arena
<1>2. PICK lv, lw, up : /\ lv = [n \in Int |-> IF n >= t.hi THEN t.height + 1 ELSE g.lev[n]]
                        /\ lw = [n \in Int |-> IF n >= t.hi THEN bnd[off[n - t.hi] + 1] ELSE g.lo[n]]
                        /\ up = [n \in Int |-> IF n >= t.hi THEN bnd[e[n - t.hi] + 1] ELSE g.hi[n]]
  OBVIOUS
<1>3. h = [lev |-> lv, lo |-> lw, hi |-> up, out |-> up]
  BY <1>2 DEF LevelGhost
<1>4. Calm(h) = h /\ h.lev = lv /\ h.lo = lw /\ h.hi = up /\ h.out = up
  BY ONLY <1>3 DEF Calm
<1>5. ASSUME NEW i \in 0 .. m - 1
      PROVE  lv[t.hi + i] = t.height + 1 /\ lw[t.hi + i] = bnd[off[i] + 1] /\ up[t.hi + i] = bnd[e[i] + 1]
  <2>1. PICK n : n = t.hi + i
    OBVIOUS
  <2>2. n \in Int /\ n >= t.hi /\ n - t.hi = i
    BY <2>1, <1>1
  <2>3. lv[n] = t.height + 1 /\ lw[n] = bnd[off[n - t.hi] + 1] /\ up[n] = bnd[e[n - t.hi] + 1]
    BY <2>2, <1>2
  <2> QED BY <2>1, <2>2, <2>3
<1>6. ASSUME NEW n \in DOMAIN t.node PROVE lv[n] = g.lev[n] /\ lw[n] = g.lo[n] /\ up[n] = g.hi[n]
  <2>1. n \in Int /\ ~(n >= t.hi)
    BY <1>1, ArenaParts
  <2> QED BY <2>1, <1>2
<1> QED BY <1>4, <1>5, <1>6 DEF LevelGhostView

\* Node p has the bounds of members a + 1 to b of the row, which are its kids,
\* and all but the first of their smallest keys.
PieceFits(g, row, mins, R, a, L, p, lo, hi, bnd, b, ks, cs) ==
    /\ L = b - a /\ lo[p] = bnd[a + 1] /\ hi[p] = bnd[b + 1]
    /\ \A j \in 1 .. L - 1 : ks[j] = mins[a + (j + 1)]
    /\ \A j \in 1 .. L : cs[j] = row[a + j]
    /\ \A x \in 1 .. R : lo[row[x]] = g.lo[row[x]] /\ hi[row[x]] = g.hi[row[x]]

\* The range and the keys of the node over a piece.
LEMMA PieceCutsUp ==
    ASSUME NEW g, NEW row, NEW mins, NEW R, NEW bnd, RowBounds(g, row, mins, R, bnd), NEW d, NEW m, NEW off, NEW e,
           Cuts(R, d, m, off, e), NEW i \in 0 .. m - 1, NEW a, a = off[i], NEW L, NEW p, NEW lo, NEW hi, NEW ks, NEW cs,
           PieceFits(g, row, mins, R, a, L, p, lo, hi, bnd, e[i], ks, cs)
    PROVE  CutUp(L - 1, p, ks, cs, lo, hi) /\ L \in Nat \ {0} /\ lo[p] < hi[p] /\ Least <= lo[p] /\ hi[p] <= Greatest
           /\ lo[p] \in Int /\ hi[p] \in Int
<1>0. /\ L = e[i] - off[i] /\ lo[p] = bnd[a + 1] /\ hi[p] = bnd[e[i] + 1]
      /\ \A j \in 1 .. L - 1 : ks[j] = mins[a + (j + 1)]
      /\ \A j \in 1 .. L : cs[j] = row[a + j]
      /\ \A x \in 1 .. R : lo[row[x]] = g.lo[row[x]] /\ hi[row[x]] = g.hi[row[x]]
  BY DEF PieceFits
<1>1. /\ R \in Nat \ {0} /\ a \in Nat /\ e[i] \in Nat /\ a < e[i] /\ e[i] <= R
  BY DEF Cuts
<1>2. L \in Nat \ {0} /\ a + L = e[i]
  BY <1>0, <1>1
<1>3. /\ Rising(bnd, R + 1) /\ R + 1 \in Nat /\ bnd[1] = Least /\ bnd[R + 1] = Greatest
      /\ \A x \in 1 .. R : g.lo[row[x]] = bnd[x] /\ g.hi[row[x]] = bnd[x + 1] /\ (x # 1 => bnd[x] = mins[x])
  BY <1>1 DEF RowBounds
<1>4. lo[p] = bnd[a + 1] /\ hi[p] = bnd[(a + L) + 1]
  BY <1>0, <1>2
<1>5. a + 1 \in 1 .. R + 1 /\ (a + L) + 1 \in 1 .. R + 1 /\ a + 1 < (a + L) + 1
  BY <1>1, <1>2
<1>6. ASSUME NEW j \in 1 .. L - 1
      PROVE  ks[j] = bnd[(a + j) + 1] /\ (a + j) + 1 \in 1 .. R + 1 /\ a + 1 < (a + j) + 1 /\ (a + j) + 1 < (a + L) + 1
  <2>1. PICK x : x = (a + j) + 1
    OBVIOUS
  <2>2. x \in 1 .. R /\ x # 1 /\ x = a + (j + 1) /\ a + 1 < x /\ x < (a + L) + 1 /\ x \in 1 .. R + 1
    BY <2>1, <1>1, <1>2
  <2>3. bnd[x] = mins[x]
    BY <2>2, <1>3
  <2>4. ks[j] = mins[a + (j + 1)]
    BY <1>0
  <2> QED BY ONLY <2>1, <2>2, <2>3, <2>4
<1>7. ASSUME NEW j \in 1 .. L
      PROVE  lo[cs[j]] = bnd[a + j] /\ hi[cs[j]] = bnd[(a + j) + 1]
  <2>1. PICK x : x = a + j
    OBVIOUS
  <2>2. x \in 1 .. R
    BY <2>1, <1>1, <1>2
  <2>3. cs[j] = row[x]
    BY <2>1, <1>0
  <2>4. lo[row[x]] = bnd[x] /\ hi[row[x]] = bnd[x + 1]
    BY <2>2, <1>0, <1>3
  <2> QED BY ONLY <2>1, <2>3, <2>4
<1>8. ASSUME NEW j \in 1 .. L - 1, NEW k \in 1 .. L - 1, j < k PROVE ks[j] < ks[k]
  <2>1. PICK x, y : x = (a + j) + 1 /\ y = (a + k) + 1
    OBVIOUS
  <2>2. x \in 1 .. R + 1 /\ y \in 1 .. R + 1 /\ x < y /\ ks[j] = bnd[x] /\ ks[k] = bnd[y]
    BY <2>1, <1>1, <1>6, <1>8
  <2>3. bnd[x] < bnd[y]
    BY <2>2, <1>3, StepsAscend
  <2> QED BY <2>2, <2>3
<1>9. ASSUME NEW j \in 1 .. L - 1 PROVE lo[p] < ks[j] /\ ks[j] < hi[p]
  <2>1. PICK x, y, z : x = (a + j) + 1 /\ y = a + 1 /\ z = (a + L) + 1
    OBVIOUS
  <2>2. x \in 1 .. R + 1 /\ y \in 1 .. R + 1 /\ z \in 1 .. R + 1 /\ y < x /\ x < z /\ ks[j] = bnd[x] /\ lo[p] = bnd[y] /\ hi[p] = bnd[z]
    BY <2>1, <1>4, <1>5, <1>6
  <2>3. bnd[y] < bnd[x] /\ bnd[x] < bnd[z]
    BY <2>2, <1>3, StepsAscend
  <2> QED BY <2>2, <2>3
<1>10. ASSUME NEW j \in 1 .. L
       PROVE  /\ lo[cs[j]] = IF j = 1 THEN lo[p] ELSE ks[j - 1]
              /\ hi[cs[j]] = IF j = L THEN hi[p] ELSE ks[j]
  <2>2. ASSUME j # 1 PROVE lo[cs[j]] = ks[j - 1]
    <3>1. PICK z : z = j - 1
      OBVIOUS
    <3>2. z \in 1 .. L - 1 /\ (a + z) + 1 = a + j
      BY <3>1, <2>2, <1>1, <1>2
    <3> QED BY <3>1, <3>2, <1>6, <1>7
  <2>3. ASSUME j # L PROVE hi[cs[j]] = ks[j]
    <3>1. j \in 1 .. L - 1
      BY <2>3, <1>2
    <3> QED BY <3>1, <1>6, <1>7
  <2>4. j = 1 => lo[cs[j]] = lo[p]
    BY <1>4, <1>7
  <2>5. j = L => hi[cs[j]] = hi[p]
    BY <1>4, <1>7
  <2> QED BY ONLY <2>2, <2>3, <2>4, <2>5
<1>11. lo[p] < hi[p] /\ lo[p] \in Int /\ hi[p] \in Int
  <2>1. bnd[a + 1] < bnd[(a + L) + 1]
    BY <1>3, <1>5, StepsAscend
  <2> QED BY <2>1, <1>3, <1>4, <1>5 DEF Rising
<1>12. Least <= lo[p] /\ hi[p] <= Greatest
  <2>1. 1 \in 1 .. R + 1 /\ R + 1 \in 1 .. R + 1 /\ 1 <= a + 1 /\ (a + L) + 1 <= R + 1
    BY <1>1, <1>2
  <2>2. bnd[1] <= bnd[a + 1]
    BY <2>1, <1>3, <1>5, StepsAtMost
  <2>3. bnd[(a + L) + 1] <= bnd[R + 1]
    BY <2>1, <1>3, <1>5, StepsAtMost
  <2> QED BY <2>2, <2>3, <1>3, <1>4
<1>13. CutUp(L - 1, p, ks, cs, lo, hi)
  <2>1. PICK K : K = L - 1
    OBVIOUS
  <2>2. K + 1 = L /\ K \in Nat
    BY <2>1, <1>2
  <2>3. \A x, y \in 1 .. K : x < y => ks[x] < ks[y]
    BY <2>1, <1>8
  <2>4. \A x \in 1 .. K : lo[p] < ks[x] /\ ks[x] < hi[p]
    BY <2>1, <1>9
  <2>5. \A x \in 1 .. K + 1 : /\ lo[cs[x]] = IF x = 1 THEN lo[p] ELSE ks[x - 1]
                              /\ hi[cs[x]] = IF x = K + 1 THEN hi[p] ELSE ks[x]
    BY <2>2, <1>10
  <2>6. CutUp(K, p, ks, cs, lo, hi)
    BY ONLY <2>3, <2>4, <2>5 DEF CutUp
  <2> QED BY ONLY <2>1, <2>6
<1> QED BY <1>2, <1>11, <1>12, <1>13

\* The state of a bulk load and the level above it.
LevelCase(t, u, g, h, row, mins, R, bnd, d, m, off, e) ==
    /\ TreeInv(t, g, ToSet(row)) /\ \A n \in DOMAIN t.node : g.out[n] = g.hi[n]
    /\ RowBounds(g, row, mins, R, bnd)
    /\ \A x \in 1 .. R : row[x] \in DOMAIN t.node /\ row[x] \in ToSet(row) /\ g.lev[row[x]] = t.height
    /\ LevelCut(t, row, mins, R, d, m, off, e) /\ LevelView(t, u, row, mins, R, d, m, off, e)
    /\ LevelGhostView(t, g, h, bnd, off, e, m)

\* Every node is an old one or over a piece.
LEMMA LevelSplit ==
    ASSUME NEW t, NEW u, NEW g, NEW h, NEW row, NEW mins, NEW R, NEW bnd, NEW d, NEW m, NEW off, NEW e,
           LevelCase(t, u, g, h, row, mins, R, bnd, d, m, off, e)
    PROVE  /\ t.hi \in Nat /\ m \in Nat \ {0}
           /\ \A n \in DOMAIN u.node : n \notin DOMAIN t.node => \E i \in 0 .. m - 1 : n = t.hi + i
           /\ \A i \in 0 .. m - 1 : t.hi + i \in DOMAIN u.node /\ t.hi + i \notin DOMAIN t.node
           /\ DOMAIN t.node \subseteq DOMAIN u.node
<1>1. t.hi \in Nat /\ m \in Nat \ {0}
  BY DEF LevelCase, TreeInv, Arena, LevelCut, Cuts
<1>2. DOMAIN t.node = 0 .. t.hi - 1 /\ DOMAIN u.node = 0 .. u.hi - 1 /\ u.hi = t.hi + m
  BY DEF LevelCase, LevelView
<1>3. PICK a, D, E : a = t.hi /\ D = DOMAIN t.node /\ E = DOMAIN u.node
  OBVIOUS
<1>4. a \in Nat /\ D = 0 .. a - 1 /\ E = 0 .. (a + m) - 1
  BY <1>1, <1>2, <1>3
<1>5. ASSUME NEW n \in E, n \notin D PROVE \E i \in 0 .. m - 1 : n = a + i
  <2>1. n - a \in 0 .. m - 1 /\ n = a + (n - a)
    BY ONLY <1>1, <1>4, <1>5
  <2> QED BY ONLY <2>1
<1>6. \A i \in 0 .. m - 1 : a + i \in E /\ a + i \notin D
  BY ONLY <1>1, <1>4
<1>7. D \subseteq E
  BY ONLY <1>1, <1>4
<1> QED BY ONLY <1>1, <1>3, <1>5, <1>6, <1>7

\* The node over members a + 1 to b of a row, L of them.
PieceNode(r, row, mins, R, a, b, L) ==
    /\ L \in Nat \ {0} /\ a \in Nat /\ r.keys \in Seq(Key) /\ Len(r.keys) = L - 1 /\ r.kids \in Seq(Int) /\ Len(r.kids) = L
    /\ \A j \in 1 .. L - 1 : r.keys[j] = mins[a + (j + 1)]
    /\ \A j \in 1 .. L : r.kids[j] = row[a + j] /\ a + j \in 1 .. R /\ a < a + j /\ a + j <= b
    /\ r.kids # <<>>

\* The record of the node over piece i.
LEMMA LevelPiece ==
    ASSUME NEW t, NEW u, NEW g, NEW h, NEW row, NEW mins, NEW R, NEW bnd, NEW d, NEW m, NEW off, NEW e,
           LevelCase(t, u, g, h, row, mins, R, bnd, d, m, off, e), NEW i \in 0 .. m - 1, NEW r, r = u.node[t.hi + i],
           NEW L, L = e[i] - off[i]
    PROVE  PieceNode(r, row, mins, R, off[i], e[i], L)
<1>1. PICK c, p : c = Piece(row, i, d) /\ p = Piece(mins, i, d)
  OBVIOUS
<1>2. PieceIs(Int, row, c, off[i], e[i]) /\ PieceIs(Key, mins, p, off[i], e[i]) /\ Len(row) = R
  BY <1>1 DEF LevelCase, LevelCut
<1>3. r.keys = Tail(p) /\ r.kids = c
  BY <1>1 DEF LevelCase, LevelView
<1>4. off[i] \in Nat /\ e[i] \in Nat
  BY DEF LevelCase, LevelCut, Cuts
<1>5. /\ L \in Nat \ {0} /\ c \in Seq(Int) /\ Len(c) = L /\ p \in Seq(Key) /\ Len(p) = L
      /\ \A j \in 1 .. L : c[j] = row[off[i] + j] /\ off[i] + j \in 1 .. R /\ p[j] = mins[off[i] + j]
  BY <1>2 DEF PieceIs
<1>6. Tail(p) \in Seq(Key) /\ Len(Tail(p)) = L - 1 /\ \A j \in 1 .. L - 1 : Tail(p)[j] = p[j + 1]
  <2>1. p # <<>>
    BY <1>5
  <2> QED BY <2>1, <1>5, LastFront
<1>7. ASSUME NEW j \in 1 .. L - 1 PROVE Tail(p)[j] = mins[off[i] + (j + 1)]
  <2>1. j + 1 \in 1 .. L
    BY <1>5
  <2> QED BY <2>1, <1>5, <1>6
<1>8. \A j \in 1 .. L : off[i] < off[i] + j /\ off[i] + j <= e[i]
  BY <1>4
<1> QED BY <1>3, <1>4, <1>5, <1>6, <1>7, <1>8 DEF PieceNode

\* The new nodes guide searches.
LEMMA LevelGuides ==
    ASSUME NEW t, NEW u, NEW g, NEW h, NEW row, NEW mins, NEW R, NEW bnd, NEW d, NEW m, NEW off, NEW e,
           LevelCase(t, u, g, h, row, mins, R, bnd, d, m, off, e), NEW i \in 0 .. m - 1, NEW p, p = t.hi + i
    PROVE  Guides(h, p, u.node[p])
<1>1. PICK r, L, lo, hi, a : r = u.node[p] /\ L = e[i] - off[i] /\ lo = h.lo /\ hi = h.hi /\ a = off[i]
  OBVIOUS
<1>2. /\ L \in Nat \ {0} /\ r.keys \in Seq(Key) /\ Len(r.keys) = L - 1 /\ r.kids \in Seq(Int) /\ Len(r.kids) = L
      /\ \A j \in 1 .. L - 1 : r.keys[j] = mins[a + (j + 1)]
      /\ \A j \in 1 .. L : r.kids[j] = row[a + j]
  <2>1. PieceNode(r, row, mins, R, off[i], e[i], L)
    BY <1>1, LevelPiece
  <2> QED BY <2>1, <1>1 DEF PieceNode
<1>3. lo[p] = bnd[off[i] + 1] /\ hi[p] = bnd[e[i] + 1] /\ h.out[p] = hi[p] /\ Calm(h) = h
  BY <1>1 DEF LevelCase, LevelGhostView
<1>4. \A x \in 1 .. R : lo[row[x]] = g.lo[row[x]] /\ hi[row[x]] = g.hi[row[x]]
  BY <1>1 DEF LevelCase, LevelGhostView
<1>5. RowBounds(g, row, mins, R, bnd) /\ Cuts(R, d, m, off, e)
  BY DEF LevelCase, LevelCut
<1>6. PICK ks, cs : ks = r.keys /\ cs = r.kids
  OBVIOUS
<1>7. (\A j \in 1 .. L - 1 : ks[j] = mins[a + (j + 1)]) /\ \A j \in 1 .. L : cs[j] = row[a + j]
  BY <1>2, <1>6
<1>8. CutUp(L - 1, p, ks, cs, lo, hi) /\ lo[p] < hi[p] /\ Least <= lo[p] /\ hi[p] <= Greatest /\ lo[p] \in Int /\ hi[p] \in Int
  <2>1. PieceFits(g, row, mins, R, a, L, p, lo, hi, bnd, e[i], ks, cs)
    BY <1>1, <1>3, <1>4, <1>7 DEF PieceFits
  <2>2. i \in 0 .. m - 1
    OBVIOUS
  <2> QED BY ONLY <2>1, <2>2, <1>1, <1>5, PieceCutsUp
<1>9. RangeOf(h, p)
  BY <1>1, <1>3, <1>8 DEF RangeOf
<1>10. PICK K : K = L - 1
  OBVIOUS
<1>11. K \in Nat /\ K + 1 = L
  BY <1>2, <1>10
<1>12. Guides(Calm(h), p, r)
  <2>1. Len(r.keys) = K /\ Len(r.kids) = K + 1 /\ r.keys \in Seq(Key) /\ r.kids \in Seq(Int)
    BY <1>2, <1>10, <1>11
  <2>2. CutUp(K, p, r.keys, r.kids, h.lo, h.hi)
    BY ONLY <1>1, <1>6, <1>8, <1>10
  <2> QED BY ONLY <2>1, <2>2, <1>9, <1>11, CutUpGuides
<1> QED BY <1>1, <1>3, <1>12

\* The tree with the new level is in order.
LEMMA LevelOrder ==
    ASSUME NEW t, NEW u, NEW g, NEW h, NEW row, NEW mins, NEW R, NEW bnd, NEW d, NEW m, NEW off, NEW e,
           LevelCase(t, u, g, h, row, mins, R, bnd, d, m, off, e)
    PROVE  Order(u, h)
<1>1. /\ TreeInv(t, g, ToSet(row)) /\ Arena(t) /\ Shape(t, g, ToSet(row)) /\ Order(t, g) /\ t.height \in Nat
      /\ \A n \in DOMAIN t.node : g.out[n] = g.hi[n]
  BY DEF LevelCase, TreeInv, Arena
<1>2. \A n \in DOMAIN t.node : /\ h.lev[n] = g.lev[n] /\ h.lo[n] = g.lo[n] /\ h.hi[n] = g.hi[n] /\ h.out[n] = g.hi[n]
  BY DEF LevelCase, LevelGhostView
<1>3. \A i \in 0 .. m - 1 : h.lev[t.hi + i] = t.height + 1 /\ h.lo[t.hi + i] = bnd[off[i] + 1] /\ h.hi[t.hi + i] = bnd[e[i] + 1]
  BY DEF LevelCase, LevelGhostView
<1>4. ASSUME NEW n \in DOMAIN t.node PROVE Guides(h, n, u.node[n])
  <2>1. Guides(g, n, t.node[n])
    BY <1>1, GuidesParts
  <2>2. u.node[n].keys = t.node[n].keys /\ u.node[n].vals = t.node[n].vals /\ u.node[n].kids = t.node[n].kids
    BY DEF LevelCase, LevelView
  <2>3. h.out[n] \in Int
    BY <2>1, <1>2 DEF Guides, RangeOf
  <2>4. \A i \in 1 .. Len(t.node[n].kids) : LET c == t.node[n].kids[i] IN h.lo[c] = g.lo[c] /\ h.out[c] = g.out[c]
    BY <1>1, <1>2, KidParts
  <2> QED BY <2>1, <2>2, <2>3, <2>4, <1>2, GuidesMove
<1>5. ASSUME NEW n \in DOMAIN u.node PROVE Guides(h, n, u.node[n])
  <2>1. CASE n \in DOMAIN t.node
    BY <2>1, <1>4
  <2>2. CASE n \notin DOMAIN t.node
    <3>1. PICK i \in 0 .. m - 1 : n = t.hi + i
      BY <2>2, LevelSplit
    <3> QED BY <3>1, LevelGuides
  <2> QED BY <2>1, <2>2
<1>6. \A n \in DOMAIN t.node : g.lev[n] <= t.height /\ g.lev[n] \in Nat
  <2>1. ASSUME NEW o \in ToSet(row) PROVE g.lev[o] <= t.height
    <3>1. PICK x \in 1 .. R : o = row[x]
      BY DEF ToSet, LevelCase, LevelCut
    <3>2. g.lev[o] = t.height
      BY <3>1 DEF LevelCase
    <3> QED BY <3>2, <1>1
  <2>2. \A n \in DOMAIN t.node : g.lev[n] <= t.height
    BY <2>1, <1>1, TopLevel
  <2> QED BY <2>2, <1>1 DEF Shape, Hangs, LevelOf
<1>7. ASSUME NEW i \in 0 .. m - 1, NEW j \in 0 .. m - 1, i < j PROVE h.hi[t.hi + i] <= h.lo[t.hi + j]
  <2>1. PICK x, y : x = e[i] + 1 /\ y = off[j] + 1
    OBVIOUS
  <2>2. e[i] \in Nat /\ off[j] \in Nat /\ e[i] <= off[j] /\ off[j] < e[j] /\ e[j] <= R /\ e[j] \in Nat
    BY <1>7 DEF LevelCase, LevelCut, Cuts
  <2>3. Rising(bnd, R + 1) /\ R \in Nat
    BY DEF LevelCase, RowBounds
  <2>4. x \in 1 .. R + 1 /\ y \in 1 .. R + 1 /\ x <= y /\ R + 1 \in Nat
    BY <2>1, <2>2, <2>3
  <2>5. bnd[x] <= bnd[y]
    BY <2>3, <2>4, StepsAtMost
  <2> QED BY <2>1, <2>5, <1>3
<1>8. ASSUME NEW n \in DOMAIN u.node, NEW q \in DOMAIN u.node, n # q, h.lev[n] = h.lev[q] PROVE Apart(h, n, q)
  <2>1. CASE n \in DOMAIN t.node /\ q \in DOMAIN t.node
    <3>1. Apart(g, n, q)
      BY <2>1, <1>1, <1>2, <1>8 DEF Order
    <3> QED BY <3>1, <2>1, <1>2 DEF Apart
  <2>2. CASE n \in DOMAIN t.node /\ q \notin DOMAIN t.node
    <3>1. PICK i \in 0 .. m - 1 : q = t.hi + i
      BY <2>2, LevelSplit
    <3>2. h.lev[q] = t.height + 1 /\ h.lev[n] <= t.height /\ h.lev[n] \in Nat
      BY <3>1, <2>2, <1>2, <1>3, <1>6
    <3> QED BY <3>2, <1>1, <1>8
  <2>3. CASE n \notin DOMAIN t.node /\ q \in DOMAIN t.node
    <3>1. PICK i \in 0 .. m - 1 : n = t.hi + i
      BY <2>3, LevelSplit
    <3>2. h.lev[n] = t.height + 1 /\ h.lev[q] <= t.height /\ h.lev[q] \in Nat
      BY <3>1, <2>3, <1>2, <1>3, <1>6
    <3> QED BY <3>2, <1>1, <1>8
  <2>4. CASE n \notin DOMAIN t.node /\ q \notin DOMAIN t.node
    <3>1. PICK i \in 0 .. m - 1 : n = t.hi + i
      BY <2>4, LevelSplit
    <3>2. PICK j \in 0 .. m - 1 : q = t.hi + j
      BY <2>4, LevelSplit
    <3>3. i < j \/ j < i
      BY <3>1, <3>2, <1>8
    <3> QED BY <3>1, <3>2, <3>3, <1>7 DEF Apart
  <2> QED BY <2>1, <2>2, <2>3, <2>4
<1> QED BY <1>5, <1>8 DEF Order

\* The new nodes are the ones without a parent.
LEMMA LevelShape ==
    ASSUME NEW t, NEW u, NEW g, NEW h, NEW row, NEW mins, NEW R, NEW bnd, NEW d, NEW m, NEW off, NEW e,
           LevelCase(t, u, g, h, row, mins, R, bnd, d, m, off, e), NEW O, O = {t.hi + i : i \in 0 .. m - 1}
    PROVE  Shape(u, h, O)
<1>1. /\ Arena(t) /\ Shape(t, g, ToSet(row)) /\ t.height \in Nat
  BY DEF LevelCase, TreeInv, Arena
<1>2. \A n \in DOMAIN t.node : /\ h.lev[n] = g.lev[n] /\ u.node[n].kids = t.node[n].kids
                               /\ n \notin ToSet(row) => u.node[n].parent = t.node[n].parent
  BY DEF LevelCase, LevelGhostView, LevelView
<1>3. O \cap DOMAIN t.node = {} /\ O \subseteq DOMAIN u.node /\ DOMAIN t.node \subseteq DOMAIN u.node
  BY LevelSplit
<1>4. ASSUME NEW i \in 0 .. m - 1, NEW x \in 1 .. R, off[i] < x, x <= e[i]
      PROVE  /\ u.node[row[x]].parent = t.hi + i /\ row[x] \in DOMAIN t.node /\ g.lev[row[x]] = t.height
  BY <1>4 DEF LevelCase, LevelView
<1>5. ASSUME NEW x \in 1 .. R PROVE Placed(u, row[x])
  <2>1. PICK i \in 0 .. m - 1 : off[i] < x /\ x <= e[i]
    BY DEF LevelCase, LevelCut, Cuts
  <2>2. PICK p, r, L, j : p = t.hi + i /\ r = u.node[p] /\ L = e[i] - off[i] /\ j = x - off[i]
    OBVIOUS
  <2>3. L \in Nat /\ off[i] \in Nat /\ Len(r.kids) = L /\ \A y \in 1 .. L : r.kids[y] = row[off[i] + y]
    <3>1. PieceNode(r, row, mins, R, off[i], e[i], L)
      BY <2>2, LevelPiece
    <3> QED BY <3>1 DEF PieceNode
  <2>4. e[i] \in Nat
    BY DEF LevelCase, LevelCut, Cuts
  <2>5. j \in 1 .. L /\ off[i] + j = x
    BY <2>1, <2>2, <2>3, <2>4
  <2>6. r.kids[j] = row[x] /\ j \in 1 .. Len(r.kids)
    BY <2>3, <2>5
  <2>7. p \in DOMAIN u.node /\ u.node[row[x]].parent = p
    BY <2>1, <2>2, <1>4, LevelSplit
  <2> QED BY <2>2, <2>6, <2>7 DEF Placed
<1>6. ASSUME NEW n \in DOMAIN t.node PROVE Hangs(u, h, O, n)
  <2>1. Hangs(t, g, ToSet(row), n)
    BY <1>1 DEF Shape
  <2>2. ASSUME NEW i \in 1 .. Len(t.node[n].kids), NEW c, c = t.node[n].kids[i]
        PROVE  c \in DOMAIN u.node /\ c \notin O /\ u.node[c].parent = n /\ h.lev[c] = g.lev[c]
    <3>1. c \in DOMAIN t.node /\ c \notin ToSet(row) /\ t.node[c].parent = n
      BY <2>2, <1>1, KidParts
    <3> QED BY <3>1, <1>2, <1>3
  <2>3. Placed(u, n)
    <3>1. CASE n \in ToSet(row)
      <4>1. PICK x \in 1 .. R : n = row[x]
        BY <3>1 DEF ToSet, LevelCase, LevelCut
      <4> QED BY <4>1, <1>5
    <3>2. CASE n \notin ToSet(row)
      <4>1. Placed(t, n)
        BY <3>2, <2>1 DEF Hangs
      <4>2. PICK p : p = t.node[n].parent
        OBVIOUS
      <4>3. p \in DOMAIN t.node /\ \E i \in 1 .. Len(t.node[p].kids) : t.node[p].kids[i] = n
        BY <4>1, <4>2 DEF Placed
      <4>4. u.node[n].parent = p /\ u.node[p].kids = t.node[p].kids /\ p \in DOMAIN u.node
        BY <4>2, <4>3, <3>2, <1>2, <1>3
      <4> QED BY <4>3, <4>4 DEF Placed
    <3> QED BY <3>1, <3>2
  <2>4. u.node[n].kids = t.node[n].kids /\ h.lev[n] = g.lev[n]
    BY <1>2
  <2> QED BY <2>1, <2>2, <2>3, <2>4, HangsMove
<1>7. ASSUME NEW i \in 0 .. m - 1 PROVE Hangs(u, h, O, t.hi + i)
  <2>1. PICK p, r, L : p = t.hi + i /\ r = u.node[p] /\ L = e[i] - off[i]
    OBVIOUS
  <2>2. /\ L \in Nat /\ Len(r.kids) = L /\ r.kids # <<>>
        /\ \A y \in 1 .. L : r.kids[y] = row[off[i] + y] /\ off[i] + y \in 1 .. R /\ off[i] < off[i] + y /\ off[i] + y <= e[i]
    <3>1. PieceNode(r, row, mins, R, off[i], e[i], L)
      BY <2>1, LevelPiece
    <3> QED BY <3>1 DEF PieceNode
  <2>3. h.lev[p] = t.height + 1
    BY <2>1 DEF LevelCase, LevelGhostView
  <2>4. LevelOf(h, p, r)
    BY <2>2, <2>3, <1>1 DEF LevelOf
  <2>5. ASSUME NEW y \in 1 .. Len(r.kids) PROVE KidOf(u, h, O, p, r.kids[y])
    <3>1. PICK x : x = off[i] + y
      OBVIOUS
    <3>2. x \in 1 .. R /\ off[i] < x /\ x <= e[i] /\ r.kids[y] = row[x]
      BY <3>1, <2>2, <2>5
    <3>3. u.node[row[x]].parent = p /\ row[x] \in DOMAIN t.node /\ g.lev[row[x]] = t.height
      BY <3>2, <2>1, <1>4
    <3>4. h.lev[row[x]] = h.lev[p] - 1
      BY <3>3, <2>3, <1>1, <1>2
    <3> QED BY <3>2, <3>3, <3>4, <1>3 DEF KidOf
  <2>6. p \in O
    BY <2>1
  <2> QED BY <2>1, <2>4, <2>5, <2>6 DEF Hangs
<1>8. ASSUME NEW n \in DOMAIN u.node PROVE Hangs(u, h, O, n)
  <2>1. CASE n \in DOMAIN t.node
    BY <2>1, <1>6
  <2>2. CASE n \notin DOMAIN t.node
    <3>1. PICK i \in 0 .. m - 1 : n = t.hi + i
      BY <2>2, LevelSplit
    <3> QED BY <3>1, <1>7
  <2> QED BY <2>1, <2>2
<1> QED BY <1>3, <1>8 DEF Shape

\* The leaves stay as they are.
LEMMA LevelLeaves ==
    ASSUME NEW t, NEW u, NEW g, NEW h, NEW row, NEW mins, NEW R, NEW bnd, NEW d, NEW m, NEW off, NEW e,
           LevelCase(t, u, g, h, row, mins, R, bnd, d, m, off, e)
    PROVE  LeavesStay(t, u) /\ Links(u, h) /\ (Inners(t) => Inners(u))
<1>1. \A n \in DOMAIN t.node :
         /\ u.node[n].keys = t.node[n].keys /\ u.node[n].vals = t.node[n].vals /\ u.node[n].kids = t.node[n].kids
         /\ u.node[n].prev = t.node[n].prev /\ u.node[n].next = t.node[n].next
  BY DEF LevelCase, LevelView
<1>2. ASSUME NEW i \in 0 .. m - 1
      PROVE  u.node[t.hi + i].kids # <<>> /\ u.node[t.hi + i].prev = NO_NODE /\ u.node[t.hi + i].next = NO_NODE
  <2>1. u.node[t.hi + i].kids # <<>>
    <3>1. PICK r, L : r = u.node[t.hi + i] /\ L = e[i] - off[i]
      OBVIOUS
    <3>2. PieceNode(r, row, mins, R, off[i], e[i], L)
      BY <3>1, LevelPiece
    <3> QED BY <3>1, <3>2 DEF PieceNode
  <2> QED BY <2>1 DEF LevelCase, LevelView
<1>3. ASSUME NEW n \in DOMAIN u.node, n \notin DOMAIN t.node
      PROVE  u.node[n].kids # <<>> /\ u.node[n].prev = NO_NODE /\ u.node[n].next = NO_NODE
  <2>1. PICK i \in 0 .. m - 1 : n = t.hi + i
    BY <1>3, LevelSplit
  <2> QED BY <2>1, <1>2
<1>4. DOMAIN t.node \subseteq DOMAIN u.node
  BY LevelSplit
<1>5. LeafSet(u) = LeafSet(t)
  BY <1>1, <1>3, <1>4 DEF LeafSet
<1>6. LeavesStay(t, u)
  <2>1. u.first = t.first /\ u.last = t.last
    BY DEF LevelCase, LevelView
  <2>2. \A l \in LeafSet(t) : l \in DOMAIN t.node
    BY DEF LeafSet
  <2> QED BY <2>1, <2>2, <1>1, <1>5 DEF LeavesStay
<1>7. \A l \in LeafSet(t) : h.lo[l] = g.lo[l] /\ h.hi[l] = g.hi[l]
  BY DEF LeafSet, LevelCase, LevelGhostView
<1>8. Links(t, g)
  BY DEF LevelCase, TreeInv
<1>9. Links(u, h)
  BY <1>6, <1>7, <1>8, LinksStay
<1>10. Inners(t) => Inners(u)
  BY <1>1, <1>3 DEF Inners
<1> QED BY <1>6, <1>9, <1>10

\* The new row and its smallest keys.
RowView(t, row2, mins2, mins, off, m) ==
    /\ row2 \in Seq(Int) /\ Len(row2) = m /\ IsInjective(row2) /\ ToSet(row2) = {t.hi + i : i \in 0 .. m - 1} /\ row2 # <<>>
    /\ mins2 \in Seq(Key) /\ Len(mins2) = m
    /\ \A i \in 0 .. m - 1 : row2[i + 1] = t.hi + i /\ mins2[i + 1] = mins[off[i] + 1]

\* The new row.
LEMMA RowViewIs ==
    ASSUME NEW t, Arena(t), NEW row, NEW mins, NEW R, NEW d, NEW m, NEW off, off = OffOf(m, d), NEW e, LevelCut(t, row, mins, R, d, m, off, e),
           NEW row2, row2 = RowFrom(t.hi, m), NEW mins2, mins2 = MinsOf(mins, m, d)
    PROVE  RowView(t, row2, mins2, mins, off, m)
<1>1. m \in Nat \ {0} /\ t.hi \in Nat /\ R \in Nat
  BY DEF LevelCut, Cuts, Arena
<1>2. PICK a : a = t.hi
  OBVIOUS
<1>3. row2 = [x \in 1 .. m |-> a + x - 1]
  BY <1>2 DEF RowFrom
<1>4. row2 \in Seq(Int) /\ Len(row2) = m /\ DOMAIN row2 = 1 .. m /\ row2 # <<>>
  <2>1. \A x \in 1 .. m : a + x - 1 \in Int
    BY <1>1, <1>2
  <2>2. row2 \in [1 .. m -> Int] /\ m \in Nat
    BY <2>1, <1>1, <1>3
  <2>3. row2 \in Seq(Int) /\ Len(row2) = m /\ DOMAIN row2 = 1 .. m
    BY ONLY <2>2
  <2> QED BY <2>3, <1>1
<1>5. IsInjective(row2)
  BY <1>1, <1>2, <1>3, <1>4 DEF IsInjective
<1>6. ASSUME NEW i \in 0 .. m - 1 PROVE i + 1 \in 1 .. m /\ row2[i + 1] = a + i
  BY <1>1, <1>2, <1>3
<1>7. ToSet(row2) = {a + i : i \in 0 .. m - 1}
  <2>1. ASSUME NEW x \in 1 .. m PROVE row2[x] \in {a + i : i \in 0 .. m - 1}
    <3>1. x - 1 \in 0 .. m - 1 /\ row2[x] = a + (x - 1)
      BY <1>1, <1>2, <1>3
    <3> QED BY <3>1
  <2>2. ASSUME NEW i \in 0 .. m - 1 PROVE a + i \in ToSet(row2)
    BY <1>4, <1>6 DEF ToSet
  <2> QED BY <2>1, <2>2, <1>4 DEF ToSet
<1>8. ASSUME NEW i \in 0 .. m - 1 PROVE mins2[i + 1] = mins[off[i] + 1] /\ mins[off[i] + 1] \in Key
  <2>1. off[i] = i * d /\ (i + 1) - 1 = i
    BY <1>1 DEF OffOf
  <2>2. mins2[i + 1] = mins[((i + 1) - 1) * d + 1]
    BY <1>6 DEF MinsOf
  <2>3. PICK y : y = off[i] + 1
    OBVIOUS
  <2>4. y \in 1 .. Len(mins) /\ mins \in Seq(Key)
    <3>1. off[i] \in Nat /\ e[i] \in Nat /\ off[i] < e[i] /\ e[i] <= R
      BY DEF LevelCut, Cuts
    <3>2. Len(mins) = R /\ mins \in Seq(Key)
      BY DEF LevelCut
    <3> QED BY <3>1, <3>2, <2>3, <1>1
  <2>5. mins[y] \in Key
    BY ONLY <2>4
  <2> QED BY <2>1, <2>2, <2>3, <2>5
<1>9. mins2 \in Seq(Key) /\ Len(mins2) = m
  <2>1. DOMAIN mins2 = 1 .. m /\ mins2 = [x \in 1 .. m |-> mins2[x]]
    BY DEF MinsOf
  <2>2. ASSUME NEW x \in 1 .. m PROVE mins2[x] \in Key
    <3>1. PICK i : i = x - 1
      OBVIOUS
    <3>2. i \in 0 .. m - 1 /\ i + 1 = x
      BY <3>1, <1>1
    <3> QED BY <3>2, <1>8
  <2> QED BY <2>1, <2>2, <1>1
<1> QED BY <1>2, <1>4, <1>5, <1>6, <1>7, <1>8, <1>9 DEF RowView

\* A round of a bulk load.
LEMMA BulkRowDoes ==
    ASSUME NEW t, NEW g, NEW row, NEW mins, LoadingG(t, g, row, mins), Inners(t),
           NEW b, b = BulkRow([tree |-> t, row |-> row, mins |-> mins])
    PROVE  (\E h : LoadingG(b.tree, h, b.row, b.mins)) /\ Inners(b.tree) /\ SameEntries(t, b.tree)
<1>1. PICK R, d : R = Len(row) /\ d = InternalCap + 1
  OBVIOUS
<1>2. PICK m, bnd : m = CeilDiv(R, d) /\ bnd = BoundsOf(mins, R)
  OBVIOUS
<1>3. PICK off, e : off = OffOf(m, d) /\ e = EndsOf(R, m, d)
  OBVIOUS
<1>4. PICK u, row2, mins2 : u = b.tree /\ row2 = b.row /\ mins2 = b.mins
  OBVIOUS
<1>5. /\ TreeInv(t, g, ToSet(row)) /\ Arena(t) /\ t.free = <<>> /\ t.root = NO_NODE /\ t.len = Cardinality(KeySet(t))
      /\ \A n \in DOMAIN t.node : g.out[n] = g.hi[n]
  BY DEF LoadingG, TreeInv
<1>6. /\ RowBounds(g, row, mins, R, bnd) /\ row \in Seq(Int) /\ mins \in Seq(Key) /\ Len(mins) = R /\ IsInjective(row)
      /\ \A x \in 1 .. R : row[x] \in DOMAIN t.node /\ row[x] \in ToSet(row) /\ g.lev[row[x]] = t.height
  BY <1>1, <1>2, RowRises
<1>7. R \in Nat \ {0} /\ d \in Nat \ {0}
  BY <1>1, <1>6, CapAssumption DEF RowBounds
<1>8. Cuts(R, d, m, off, e)
  BY <1>2, <1>3, <1>7, CutsAre
<1>9. LevelCut(t, row, mins, R, d, m, off, e)
  <2>1. ASSUME NEW i \in 0 .. m - 1
        PROVE  PieceIs(Int, row, Piece(row, i, d), off[i], e[i]) /\ PieceIs(Key, mins, Piece(mins, i, d), off[i], e[i])
    <3>1. PieceIs(Int, row, Piece(row, i, d), off[i], e[i])
      BY <1>1, <1>2, <1>3, <1>6, <1>8, PieceDoes
    <3>2. PieceIs(Key, mins, Piece(mins, i, d), off[i], e[i])
      BY <1>1, <1>2, <1>3, <1>6, <1>8, PieceDoes
    <3> QED BY <3>1, <3>2
  <2> QED BY <2>1, <1>1, <1>6, <1>8 DEF LevelCut
<1>10. LevelMade(t, u, row, mins, d, m) /\ row2 = RowFrom(t.hi, m) /\ mins2 = MinsOf(mins, m, d)
  <2>1. m = CeilDiv(Len(row), d)
    BY <1>1, <1>2
  <2> QED BY <2>1, <1>1, <1>4, <1>5, BulkRowIs
<1>11. Arena(u) /\ LevelView(t, u, row, mins, R, d, m, off, e)
  BY <1>5, <1>9, <1>10, LevelArena
<1>12. PICK h : h = LevelGhost(t, g, bnd, off, e)
  OBVIOUS
<1>13. LevelGhostView(t, g, h, bnd, off, e, m)
  BY <1>5, <1>12, LevelGhostIs
<1>14. LevelCase(t, u, g, h, row, mins, R, bnd, d, m, off, e)
  BY <1>5, <1>6, <1>9, <1>11, <1>13 DEF LevelCase
<1>15. PICK O : O = {t.hi + i : i \in 0 .. m - 1}
  OBVIOUS
<1>16. Order(u, h) /\ Shape(u, h, O) /\ LeavesStay(t, u) /\ Links(u, h) /\ Inners(u)
  BY <1>14, <1>15, LevelOrder, LevelShape, LevelLeaves
<1>17. RowView(t, row2, mins2, mins, off, m)
  BY <1>3, <1>5, <1>9, <1>10, RowViewIs
<1>18. SameEntries(t, u)
  BY <1>16, LeavesStaySame
<1>19. u.len = Cardinality(KeySet(u))
  <2>1. KeySet(t) = KeySet(u)
    BY <1>5, <1>11, <1>18, SameKeySet
  <2>2. u.len = t.len
    BY <1>11 DEF LevelView
  <2> QED BY <2>1, <2>2, <1>5
<1>20. ToSet(row2) = O
  BY <1>15, <1>17 DEF RowView
<1>21. TreeInv(u, h, ToSet(row2))
  BY <1>11, <1>16, <1>19, <1>20 DEF TreeInv
<1>22. m \in Nat \ {0} /\ t.hi \in Nat
  BY <1>5, <1>8 DEF Cuts, Arena
<1>23. ASSUME NEW i \in 0 .. m - 1
       PROVE  /\ h.lev[t.hi + i] = u.height /\ u.node[t.hi + i].parent = NO_NODE /\ h.out[t.hi + i] = h.hi[t.hi + i]
              /\ h.lo[t.hi + i] = (IF i = 0 THEN Least ELSE mins2[i + 1])
              /\ h.hi[t.hi + i] = (IF i = m - 1 THEN Greatest ELSE mins2[(i + 1) + 1])
  <2>1. /\ h.lev[t.hi + i] = t.height + 1 /\ h.lo[t.hi + i] = bnd[off[i] + 1]
        /\ h.hi[t.hi + i] = bnd[e[i] + 1] /\ h.out[t.hi + i] = bnd[e[i] + 1]
    BY <1>13 DEF LevelGhostView
  <2>2. u.height = t.height + 1 /\ u.node[t.hi + i].parent = NO_NODE
    BY <1>11 DEF LevelView
  <2>3. bnd[1] = Least /\ bnd[R + 1] = Greatest /\ \A x \in 1 .. R : x # 1 => bnd[x] = mins[x]
    BY <1>6 DEF RowBounds
  <2>4. i = 0 => h.lo[t.hi + i] = Least
    <3>1. i = 0 => off[i] = 0
      BY <1>8 DEF Cuts
    <3> QED BY <3>1, <2>1, <2>3
  <2>5. \A j \in 0 .. m - 1 : j # 0 => bnd[off[j] + 1] = mins2[j + 1]
    <3>1. SUFFICES ASSUME NEW j \in 0 .. m - 1, j # 0 PROVE bnd[off[j] + 1] = mins2[j + 1]
      OBVIOUS
    <3>2. 0 \in 0 .. m - 1 /\ 0 < j
      BY <3>1, <1>22
    <3>3. e[0] <= off[j] /\ off[0] = 0 /\ off[0] < e[0] /\ off[j] \in Nat /\ e[0] \in Nat /\ off[j] < e[j] /\ e[j] <= R /\ e[j] \in Nat
      BY <3>2, <1>8 DEF Cuts
    <3>4. off[j] + 1 \in 1 .. R /\ off[j] + 1 # 1
      BY <3>3, <1>7
    <3>5. mins2[j + 1] = mins[off[j] + 1]
      BY <1>17 DEF RowView
    <3> QED BY <3>4, <3>5, <2>3
  <2>6. i = m - 1 => h.hi[t.hi + i] = Greatest
    <3>1. i = m - 1 => e[i] = R
      BY <1>8 DEF Cuts
    <3> QED BY <3>1, <2>1, <2>3
  <2>7. ASSUME i # m - 1 PROVE h.hi[t.hi + i] = mins2[(i + 1) + 1]
    <3>1. i + 1 \in 0 .. m - 1 /\ i + 1 # 0
      BY <2>7, <1>22
    <3>2. e[i] = off[i + 1]
      BY <2>7, <1>8 DEF Cuts
    <3> QED BY <3>1, <3>2, <2>1, <2>5
  <2>8. i # 0 => h.lo[t.hi + i] = mins2[i + 1]
    BY <2>1, <2>5
  <2> QED BY <2>1, <2>2, <2>4, <2>6, <2>7, <2>8
<1>24. ASSUME NEW x \in 1 .. m
       PROVE  /\ h.lev[row2[x]] = u.height /\ u.node[row2[x]].parent = NO_NODE
              /\ h.lo[row2[x]] = IF x = 1 THEN Least ELSE mins2[x]
              /\ h.hi[row2[x]] = IF x = m THEN Greatest ELSE mins2[x + 1]
  <2>1. PICK i : i = x - 1
    OBVIOUS
  <2>2. i \in 0 .. m - 1 /\ i + 1 = x /\ (i = 0 <=> x = 1) /\ (i = m - 1 <=> x = m)
    BY <2>1, <1>22
  <2>3. row2[i + 1] = t.hi + i
    BY <2>2, <1>17 DEF RowView
  <2>4. PICK q : q = t.hi + i
    OBVIOUS
  <2>5. /\ h.lev[q] = u.height /\ u.node[q].parent = NO_NODE
        /\ h.lo[q] = (IF i = 0 THEN Least ELSE mins2[i + 1])
        /\ h.hi[q] = (IF i = m - 1 THEN Greatest ELSE mins2[(i + 1) + 1])
    BY <2>2, <2>4, <1>23
  <2> QED BY ONLY <2>2, <2>3, <2>4, <2>5
<1>25. ASSUME NEW n \in DOMAIN u.node PROVE h.out[n] = h.hi[n]
  <2>1. CASE n \in DOMAIN t.node
    BY <2>1, <1>13 DEF LevelGhostView
  <2>2. CASE n \notin DOMAIN t.node
    <3>1. PICK i \in 0 .. m - 1 : n = t.hi + i
      BY <2>2, <1>14, LevelSplit
    <3> QED BY <3>1, <1>23
  <2> QED BY <2>1, <2>2
<1>26. u.root = NO_NODE /\ u.free = <<>>
  BY <1>5, <1>11 DEF LevelView
<1>27. row2 \in Seq(Int) /\ mins2 \in Seq(Key) /\ Len(row2) = m /\ Len(mins2) = m /\ row2 # <<>> /\ IsInjective(row2)
  BY <1>17 DEF RowView
<1>28. LoadingG(u, h, row2, mins2)
  BY <1>21, <1>24, <1>25, <1>26, <1>27 DEF LoadingG
<1> QED BY <1>4, <1>16, <1>18, <1>28

\* The members of S up to k.
UpTo(S, k) == {m \in S : m <= k}

\* How many they are.
LEMMA RankProps ==
    ASSUME NEW S \in SUBSET Int, IsFiniteSet(S), NEW k \in S, NEW j \in S
    PROVE  /\ Cardinality(UpTo(S, k)) \in 1 .. Cardinality(S)
           /\ k < j => Cardinality(UpTo(S, k)) < Cardinality(UpTo(S, j))
<1>1. UpTo(S, k) \in SUBSET S /\ UpTo(S, j) \in SUBSET S /\ k \in UpTo(S, k) /\ j \in UpTo(S, j)
  BY DEF UpTo
<1>2. IsFiniteSet(UpTo(S, k)) /\ Cardinality(UpTo(S, k)) <= Cardinality(S)
  BY <1>1, FS_Subset
<1>3. IsFiniteSet(UpTo(S, j))
  BY <1>1, FS_Subset
<1>4. Cardinality(UpTo(S, k)) \in Nat /\ Cardinality(UpTo(S, j)) \in Nat /\ Cardinality(S) \in Nat
  BY <1>2, <1>3, FS_CardinalityType
<1>5. Cardinality(UpTo(S, k)) # 0
  BY <1>1, <1>2, FS_EmptySet
<1>6. ASSUME k < j PROVE Cardinality(UpTo(S, k)) < Cardinality(UpTo(S, j))
  <2>1. UpTo(S, k) \in SUBSET UpTo(S, j) /\ j \notin UpTo(S, k)
    <3>1. k \in Int /\ j \in Int
      OBVIOUS
    <3>2. ASSUME NEW x \in UpTo(S, k) PROVE x \in UpTo(S, j)
      <4>1. x \in S /\ x \in Int /\ x <= k
        BY <3>2 DEF UpTo
      <4>2. x <= j
        BY ONLY <4>1, <3>1, <1>6
      <4> QED BY <4>1, <4>2 DEF UpTo
    <3>3. ~(j <= k)
      BY ONLY <3>1, <1>6
    <3> QED BY <3>2, <3>3 DEF UpTo
  <2>2. UpTo(S, k) # UpTo(S, j)
    BY <2>1, <1>1
  <2>3. Cardinality(UpTo(S, k)) <= Cardinality(UpTo(S, j)) /\ Cardinality(UpTo(S, k)) # Cardinality(UpTo(S, j))
    BY <2>1, <2>2, <1>3, FS_Subset
  <2> QED BY <2>3, <1>4
<1> QED BY <1>2, <1>4, <1>5, <1>6

\* Every rank is taken.
LEMMA RankTaken ==
    ASSUME NEW S \in SUBSET Int, IsFiniteSet(S), NEW i \in 1 .. Cardinality(S)
    PROVE  \E k \in S : Cardinality(UpTo(S, k)) = i
<1>1. PICK N, f : N = Cardinality(S) /\ f = [k \in S |-> Cardinality(UpTo(S, k))]
  OBVIOUS
<1>2. N \in Nat
  BY <1>1, FS_CardinalityType
<1>3. \A k \in S : f[k] \in 1 .. N
  BY <1>1, RankProps
<1>4. ASSUME NEW k \in S, NEW j \in S, k # j PROVE f[k] # f[j]
  <2>1. f[k] \in Int /\ f[j] \in Int /\ (k < j => f[k] < f[j]) /\ (j < k => f[j] < f[k])
    BY <1>1, <1>2, <1>3, RankProps
  <2>2. k \in Int /\ j \in Int
    OBVIOUS
  <2> QED BY <2>1, <2>2, <1>4
<1>5. f \in Injection(S, 1 .. N)
  <2>1. f \in [S -> 1 .. N]
    BY <1>1, <1>3
  <2> QED BY <2>1, <1>4 DEF Injection, IsInjective
<1>6. IsFiniteSet(1 .. N) /\ Cardinality(1 .. N) = N
  BY <1>2, FS_Interval
<1>7. f \in Surjection(S, 1 .. N)
  BY <1>1, <1>5, <1>6, FS_Injection
<1>8. \E k \in S : f[k] = i
  BY <1>1, <1>7 DEF Surjection
<1> QED BY <1>1, <1>8

\* The key of rank i.
RankKey(S, i) == CHOOSE k \in S : Cardinality({m \in S : m <= k}) = i

\* Ascending lists a set of keys in order.
LEMMA AscendingRuns ==
    ASSUME NEW S \in SUBSET Key, NEW N, N = Cardinality(S), NEW A, A = Ascending(S)
    PROVE  /\ N \in Nat /\ A \in Seq(Key) /\ Len(A) = N /\ Run(N, A, Least, Greatest)
           /\ \A x : x \in S <=> \E i \in 1 .. N : A[i] = x
           /\ S # {} => N # 0
<1>1. S \in SUBSET Int /\ IsFiniteSet(S)
  BY KeyAssumption, FS_Subset
<1>2. N \in Nat /\ (S # {} => N # 0)
  BY <1>1, FS_CardinalityType, FS_EmptySet
<1>3. ASSUME NEW i \in 1 .. N PROVE A[i] \in S /\ Cardinality(UpTo(S, A[i])) = i
  <2>1. A[i] = CHOOSE k \in S : Cardinality({m \in S : m <= k}) = i
    BY DEF Ascending
  <2>2. \E k \in S : Cardinality({m \in S : m <= k}) = i
    BY <1>1, RankTaken DEF UpTo
  <2>3. A[i] \in S /\ Cardinality({m \in S : m <= A[i]}) = i
    BY ONLY <2>1, <2>2
  <2> QED BY <2>3 DEF UpTo
<1>4. DOMAIN A = 1 .. N /\ A = [i \in 1 .. N |-> A[i]]
  <2>1. A = [i \in 1 .. N |-> RankKey(S, i)]
    BY DEF Ascending, RankKey
  <2> QED BY ONLY <2>1
<1>5. A \in Seq(Key) /\ Len(A) = N
  <2>1. \A i \in 1 .. N : A[i] \in Key
    BY <1>3
  <2> QED BY <2>1, <1>2, <1>4
<1>6. ASSUME NEW i \in 1 .. N, NEW j \in 1 .. N, i < j PROVE A[i] < A[j]
  <2>1. A[i] \in S /\ A[j] \in S /\ A[i] \in Int /\ A[j] \in Int /\ Cardinality(UpTo(S, A[i])) = i /\ Cardinality(UpTo(S, A[j])) = j
    BY <1>1, <1>3
  <2>2. A[j] < A[i] => j < i
    BY <2>1, <1>1, RankProps
  <2>3. A[i] # A[j]
    BY <2>1, <1>2, <1>6
  <2> QED BY <2>1, <2>2, <2>3, <1>2, <1>6
<1>7. Run(N, A, Least, Greatest)
  <2>1. ASSUME NEW i \in 1 .. N PROVE A[i] \in Int /\ Least <= A[i] /\ A[i] < Greatest
    <3>1. A[i] \in Key
      BY <1>3
    <3> QED BY <3>1, BoundsExist
  <2> QED BY <2>1, <1>6 DEF Run
<1>8. ASSUME NEW x \in S PROVE \E i \in 1 .. N : A[i] = x
  <2>1. PICK i : i = Cardinality(UpTo(S, x))
    OBVIOUS
  <2>2. i \in 1 .. N
    BY <2>1, <1>1, RankProps
  <2>3. A[i] \in S /\ Cardinality(UpTo(S, A[i])) = i /\ A[i] \in Int /\ x \in Int
    BY <2>2, <1>1, <1>3
  <2>4. (A[i] < x => i < i) /\ (x < A[i] => i < i)
    BY <2>1, <2>3, <1>1, RankProps
  <2> QED BY <2>2, <2>3, <2>4, <1>2
<1> QED BY <1>2, <1>3, <1>5, <1>7, <1>8

\* The start of a bulk load of ks and vs.
LEMMA BulkLeavesDoes ==
    ASSUME NEW u, u = tree', NEW j, j = job', NEW ks \in Seq(Key), NEW vs \in Seq(Value), NEW M, M = Len(ks), M = Len(vs), M # 0,
           Run(M, ks, Least, Greatest), BulkLeaves(ks, vs)
    PROVE  pc' = "bulk_load" /\ BulkJob(u, j) /\ Listing(u, ks, vs, M)
<1>1. PICK b : b = BulkStart(ks, vs)
  OBVIOUS
<1>2. Started(b.tree, b.row, b.mins, ks, vs, M)
  BY <1>1, BulkStartDoes
<1>3. u = b.tree /\ j = [row |-> b.row, mins |-> b.mins] /\ pc' = "bulk_load"
  BY <1>1 DEF BulkLeaves, BulkState
<1>4. j.row = b.row /\ j.mins = b.mins
  BY <1>3
<1>5. (\E g : LoadingG(u, g, j.row, j.mins)) /\ Inners(u) /\ Listing(u, ks, vs, M)
  BY <1>2, <1>3, <1>4 DEF Started
<1> QED BY <1>3, <1>4, <1>5 DEF BulkJob

\* Trees with the same listing have the same entries.
LEMMA ListingSame ==
    ASSUME NEW t, NEW u, NEW K, NEW V, NEW M, Listing(t, K, V, M), Listing(u, K, V, M)
    PROVE  SameEntries(t, u)
BY DEF SameEntries, Listing

\* Two trees without entries.
LEMMA NoneSame ==
    ASSUME NEW t, NEW u, \A k, v : ~Has(t, k, v), \A k, v : ~Has(u, k, v)
    PROVE  SameEntries(t, u)
BY DEF SameEntries

\* shrink_to_fit.
LEMMA ShrinkToFitDoes ==
    ASSUME NEW t, t = tree, NEW u, u = tree', NEW e, e = job', Whole(t), ShrinkToFit
    PROVE  /\ (pc' = "idle" /\ Whole(u)) \/ (pc' = "bulk_load" /\ BulkJob(u, e))
           /\ SameEntries(t, u) /\ ret' = ret
<1>1. ret' = ret
  BY DEF ShrinkToFit
<1>2. CASE tree.len = 0 /\ tree' = NewTree /\ Done
  <2>1. SameEntries(t, u)
    BY <1>2, LenZero, NewTreeEmpty, NoneSame
  <2> QED BY <2>1, <1>1, <1>2 DEF Done, Whole
<1>3. CASE tree.len > 0 /\ BulkLeaves(KeysOf(tree), ValsOf(tree))
  <2>1. PICK ks, vs : ks = KeysOf(t) /\ vs = ValsOf(t)
    OBVIOUS
  <2>2. PICK M : M = Len(ks)
    OBVIOUS
  <2>3. Inners(t) /\ \E g : SettledG(t, g)
    BY <1>3, LenZero
  <2>4. PICK g : SettledG(t, g)
    BY <2>3
  <2>5. TreeInv(t, g, {t.root})
    BY <2>4 DEF SettledG
  <2>6. Listing(t, ks, vs, M)
    BY <2>1, <2>2, <2>3, <2>5, KeysOfListing
  <2>7. M = t.len
    BY <2>5, <2>6, ListingLen
  <2>8. ks \in Seq(Key) /\ vs \in Seq(Value) /\ Len(vs) = M /\ Run(M, ks, Least, Greatest)
    BY <2>6 DEF Listing
  <2>9. M # 0
    BY <2>7, <1>3
  <2>10. BulkLeaves(ks, vs)
    BY <2>1, <1>3
  <2>11. pc' = "bulk_load" /\ BulkJob(u, e) /\ Listing(u, ks, vs, M)
    BY <2>2, <2>8, <2>9, <2>10, BulkLeavesDoes
  <2>12. SameEntries(t, u)
    BY <2>6, <2>11, ListingSame
  <2> QED BY <2>11, <2>12, <1>1
<1> QED BY <1>2, <1>3 DEF ShrinkToFit

\* The entries of u are the keys in S with value v.
Filled(u, S, v) == \A x, y : Has(u, x, y) <=> x \in S /\ y = v

\* from_sorted_iter.
LEMMA FromSortedIterDoes ==
    ASSUME NEW u, u = tree', NEW e, e = job', NEW S \in SUBSET Key, NEW v \in Value, FromSortedIter(S, v)
    PROVE  pc' = "bulk_load" /\ BulkJob(u, e) /\ Filled(u, S, v) /\ ret' = ret /\ tree = NewTree
<1>1. PICK N, A, w : N = Cardinality(S) /\ A = Ascending(S) /\ w = [i \in 1 .. N |-> v]
  OBVIOUS
<1>2. S # {} /\ BulkLeaves(A, w) /\ ret' = ret /\ tree = NewTree
  BY <1>1 DEF FromSortedIter
<1>3. /\ N \in Nat /\ A \in Seq(Key) /\ Len(A) = N /\ Run(N, A, Least, Greatest) /\ N # 0
      /\ \A x : x \in S <=> \E i \in 1 .. N : A[i] = x
  BY <1>1, <1>2, AscendingRuns
<1>4. w \in Seq(Value) /\ Len(w) = N /\ \A i \in 1 .. N : w[i] = v
  BY <1>1, <1>3
<1>5. pc' = "bulk_load" /\ BulkJob(u, e) /\ Listing(u, A, w, N)
  BY <1>2, <1>3, <1>4, BulkLeavesDoes
<1>6. ASSUME NEW x, NEW y PROVE Has(u, x, y) <=> x \in S /\ y = v
  <2>1. Has(u, x, y) <=> Pairs(A, w, x, y)
    BY <1>5 DEF Listing
  <2>2. Pairs(A, w, x, y) <=> \E i \in 1 .. N : A[i] = x /\ w[i] = y
    BY <1>3 DEF Pairs
  <2> QED BY <2>1, <2>2, <1>3, <1>4
<1> QED BY <1>2, <1>5, <1>6 DEF Filled

\* A round of a bulk load.
LEMMA BulkLevelDoes ==
    ASSUME NEW t, t = tree, NEW u, u = tree', NEW j, j = job, NEW e, e = job', BulkJob(t, j), BulkLevel, pc = "bulk_load"
    PROVE  pc' = "bulk_load" /\ BulkJob(u, e) /\ SameEntries(t, u) /\ ret' = ret
<1>1. PICK g : LoadingG(t, g, j.row, j.mins)
  BY DEF BulkJob
<1>2. PICK row, mins : row = j.row /\ mins = j.mins
  OBVIOUS
<1>3. PICK b : b = BulkRow([tree |-> t, row |-> row, mins |-> mins])
  OBVIOUS
<1>4. u = b.tree /\ e = [row |-> b.row, mins |-> b.mins] /\ pc' = "bulk_load" /\ ret' = ret
  BY <1>2, <1>3 DEF BulkLevel, BulkState
<1>5. Inners(t) /\ LoadingG(t, g, row, mins)
  BY <1>1, <1>2 DEF BulkJob
<1>6. (\E h : LoadingG(b.tree, h, b.row, b.mins)) /\ Inners(b.tree) /\ SameEntries(t, b.tree)
  BY <1>3, <1>5, BulkRowDoes
<1>7. e.row = b.row /\ e.mins = b.mins
  BY <1>4
<1>8. (\E h : LoadingG(u, h, e.row, e.mins)) /\ Inners(u) /\ SameEntries(t, u)
  BY <1>4, <1>6, <1>7
<1> QED BY <1>4, <1>7, <1>8 DEF BulkJob

\* The root of a loaded tree.
Rooted(t, n) == [t EXCEPT !.root = n]

\* The last node of a bulk load is the root.
LEMMA RootedSettled ==
    ASSUME NEW t, NEW g, NEW row, NEW mins, LoadingG(t, g, row, mins), Len(row) = 1, NEW n, n = row[1], NEW u, u = Rooted(t, n)
    PROVE  SettledG(u, g) /\ SameEntries(t, u) /\ (Inners(t) => Inners(u))
<1>1. /\ TreeInv(t, g, ToSet(row)) /\ row \in Seq(Int) /\ \A x \in DOMAIN t.node : g.out[x] = g.hi[x]
      /\ g.lev[n] = t.height /\ t.node[n].parent = NO_NODE /\ g.lo[n] = Least /\ g.hi[n] = Greatest
  <2>1. 1 \in 1 .. Len(row) /\ 1 = Len(row)
    OBVIOUS
  <2> QED BY <2>1 DEF LoadingG
<1>2. ToSet(row) = {n}
  BY <1>1 DEF ToSet
<1>3. Arena(t) /\ Shape(t, g, {n}) /\ Order(t, g) /\ Links(t, g) /\ t.len = Cardinality(KeySet(t))
  BY <1>1, <1>2 DEF TreeInv
<1>4. n \in DOMAIN t.node /\ n \in Int
  BY <1>3, ArenaParts DEF Shape
<1>5. t = TreeOf(t.node, t.free, t.hi, t.root, t.first, t.last, t.len, t.height)
  BY <1>3, ArenaParts
<1>6. u = TreeOf(t.node, t.free, t.hi, n, t.first, t.last, t.len, t.height)
  BY ONLY <1>5, u = Rooted(t, n) DEF TreeOf, Rooted
<1>7. /\ u.node = t.node /\ u.free = t.free /\ u.hi = t.hi /\ u.root = n /\ u.first = t.first /\ u.last = t.last
      /\ u.len = t.len /\ u.height = t.height
      /\ u = [node |-> u.node, free |-> u.free, hi |-> u.hi, root |-> u.root,
            first |-> u.first, last |-> u.last, len |-> u.len, height |-> u.height]
  BY ONLY <1>6 DEF TreeOf
<1>8. Arena(u)
  <2>1. /\ t.node \in [DOMAIN t.node -> NodeRec] /\ t.hi \in Nat /\ t.first \in Int /\ t.last \in Int /\ t.height \in Nat
        /\ DOMAIN t.node \subseteq 0 .. t.hi - 1 /\ t.free \in Seq(Int) /\ IsInjective(t.free)
        /\ ToSet(t.free) = (0 .. t.hi - 1) \ DOMAIN t.node
    BY <1>3 DEF Arena
  <2> QED BY ONLY <2>1, <1>4, <1>7 DEF Arena
<1>9. Shape(u, g, {n})
  BY <1>3, <1>7 DEF Shape, Hangs, KidOf, Placed
<1>10. Order(u, g)
  BY <1>3, <1>7 DEF Order
<1>11. LeafSet(u) = LeafSet(t)
  BY <1>7 DEF LeafSet
<1>12. Links(u, g)
  BY <1>3, <1>7, <1>11 DEF Links, LinksOf
<1>13. KeySet(u) = KeySet(t)
  BY <1>7, <1>11 DEF KeySet
<1>14. TreeInv(u, g, {u.root})
  BY <1>3, <1>7, <1>8, <1>9, <1>10, <1>12, <1>13 DEF TreeInv
<1>15. RootTop(u, g)
  BY <1>1, <1>4, <1>7 DEF RootTop
<1>16. SameEntries(t, u)
  BY <1>7, <1>11 DEF SameEntries, Has
<1>17. Inners(t) => Inners(u)
  BY <1>7 DEF Inners
<1> QED BY <1>1, <1>7, <1>14, <1>15, <1>16, <1>17 DEF SettledG

\* The end of a bulk load.
LEMMA BulkDoneDoes ==
    ASSUME NEW t, t = tree, NEW u, u = tree', NEW j, j = job, BulkJob(t, j), BulkDone
    PROVE  pc' = "idle" /\ Whole(u) /\ SameEntries(t, u) /\ ret' = ret
<1>1. PICK g : LoadingG(t, g, j.row, j.mins)
  BY DEF BulkJob
<1>2. Inners(t) /\ Len(j.row) = 1 /\ pc' = "idle" /\ ret' = ret
  BY DEF BulkJob, BulkDone, Done
<1>3. u = Rooted(t, j.row[1])
  BY DEF BulkDone, Rooted
<1>4. SettledG(u, g) /\ SameEntries(t, u) /\ Inners(u)
  BY <1>1, <1>2, <1>3, RootedSettled
<1> QED BY <1>2, <1>4 DEF Whole

\* clear.
LEMMA ClearDoes ==
    ASSUME NEW u, u = tree', Clear
    PROVE  pc' = "idle" /\ u = NewTree /\ Whole(u) /\ ret' = ret /\ \A k, v : ~Has(u, k, v)
BY NewTreeEmpty DEF Clear, Done, Whole

\* The end of a retain.
LEMMA RetainEndDoes ==
    ASSUME NEW t, t = tree, NEW u, u = tree', Whole(t), RetainEnd
    PROVE  pc' = "idle" /\ Whole(u) /\ SameEntries(t, u) /\ ret' = ret
<1>1. pc' = "idle" /\ ret' = ret
  BY DEF RetainEnd, Done
<1>2. CASE tree.len = 0 /\ tree' = NewTree
  <2>1. SameEntries(t, u)
    BY <1>2, LenZero, NewTreeEmpty, NoneSame
  <2> QED BY <2>1, <1>1, <1>2 DEF Whole
<1>3. CASE UNCHANGED tree
  BY <1>1, <1>3 DEF SameEntries
<1> QED BY <1>2, <1>3 DEF RetainEnd

\* get.
LEMMA GetDoes ==
    ASSUME NEW t, t = tree, Whole(t), NEW k \in Key, Get(k)
    PROVE  tree' = tree /\ pc' = "idle" /\ Answer(t, k, ret')
<1>1. tree' = tree /\ pc' = "idle" /\ ret' = ValueOf(tree, k)
  BY DEF Get, Return, Done
<1> QED BY <1>1, FoundRight

\* What the tree is at each point of a call.
LEMMA TreeOKParts ==
    ASSUME NEW t, NEW c, NEW j, TreeOK(t, c, j)
    PROVE  /\ c \in {"idle", "underflow", "retain"} => Whole(t)
           /\ c = "retain" => RetainJob(t, j)
           /\ c = "rebalance_leaf" => LeafJob(t, j)
           /\ c = "rebalance_internal" => InnerJob(t, j)
           /\ c = "propagate_split" => PathJob(t, j)
           /\ c = "propagate_split_lazy" => LazyJob(t, j)
           /\ c = "bulk_load" => BulkJob(t, j)
  BY DEF TreeOK

\* What a call that changes or answers entries does, from tree t to u, with
\* answer s.
Reads(t, u, s) == \E k \in Key : u = t /\ Answer(t, k, s)
Puts(t, u, s) == \E k \in Key, v \in Value : EntryPut(t, u, k, v) /\ Answer(t, k, s)
Tries(t, u, s) == \E k \in Key, v \in Value :
    \/ EntryPut(t, u, k, v) /\ s = NONE /\ \A w : ~Has(t, k, w)
    \/ u = t /\ s = v /\ \E w : Has(t, k, w)
Takes(t, u, s) == \E k \in Key : Removes(t, u, k, s)
Empties(t, u, r, s) == (\A k, v : ~Has(u, k, v)) /\ s = r
Fills(t, u, r, s) == t = NewTree /\ s = r /\ "from_iter" \in Calls

Serves(t, u, r, s) == \/ Reads(t, u, s) \/ Puts(t, u, s) \/ Tries(t, u, s) \/ Takes(t, u, s)
                      \/ Pops(t, u, s) \/ Empties(t, u, r, s) \/ Fills(t, u, r, s)

\* What a step does to the entries and to the answer.
Change(t, u, c, d, r, s) ==
    \/ SameEntries(t, u) /\ s = r
    \/ c # "retain" /\ d # "retain" /\ Serves(t, u, r, s)
    \/ c = "retain" /\ d = "retain" /\ s = r /\ \E k \in Key : EntryGone(t, u, k)

\* What a step of a call in tree t leaves.
StepOK(t, u, c, d, e, r, s) == TreeOK(u, d, e) /\ Change(t, u, c, d, r, s)

\* A step that keeps the tree keeps the entries.
LEMMA NoChange ==
    ASSUME NEW t
    PROVE  SameEntries(t, t)
  BY DEF SameEntries

\* The calls that read.
LEMMA ReadsStep ==
    ASSUME NEW t, t = tree, NEW u, u = tree', NEW c, c = pc, NEW d, d = pc', NEW j, j = job, NEW e, e = job', NEW r, r = ret,
           NEW s, s = ret', TreeOK(t, c, j), NEW k \in Key, Get(k) \/ GetByEq(k)
    PROVE  StepOK(t, u, c, d, e, r, s)
<1>1. c = "idle" /\ Whole(t)
  BY TreeOKParts DEF Get, GetByEq, Idle
<1>2. u = t /\ d = "idle" /\ Answer(t, k, s)
  BY <1>1, GetDoes, GetByEqDoes
<1>3. TreeOK(u, d, e)
  BY <1>1, <1>2 DEF TreeOK
<1>4. Reads(t, u, s)
  BY <1>2 DEF Reads
<1>5. c # "retain" /\ d # "retain"
  BY <1>1, <1>2
<1>6. QED BY <1>3, <1>4, <1>5 DEF StepOK, Change, Serves

\* The calls that remove.
LEMMA RemovesStep ==
    ASSUME NEW t, t = tree, NEW u, u = tree', NEW c, c = pc, NEW d, d = pc', NEW j, j = job, NEW e, e = job', NEW r, r = ret,
           NEW s, s = ret', TreeOK(t, c, j), NEW k \in Key, RemoveKey(k) \/ RemoveByEq(k)
    PROVE  StepOK(t, u, c, d, e, r, s)
<1>1. c = "idle" /\ Whole(t)
  BY TreeOKParts DEF RemoveKey, RemoveByEq, Idle
<1>2. ((d = "idle" /\ Whole(u)) \/ (d = "rebalance_leaf" /\ LeafJob(u, e))) /\ Removes(t, u, k, s)
  BY <1>1, RemoveKeyDoes, RemoveByEqDoes
<1>3. TreeOK(u, d, e)
  BY <1>2 DEF TreeOK
<1>4. Takes(t, u, s)
  BY <1>2 DEF Takes
<1>5. c # "retain" /\ d # "retain"
  BY <1>1, <1>2
<1>6. QED BY <1>3, <1>4, <1>5 DEF StepOK, Change, Serves

\* The pops.
LEMMA PopsStep ==
    ASSUME NEW t, t = tree, NEW u, u = tree', NEW c, c = pc, NEW d, d = pc', NEW j, j = job, NEW e, e = job', NEW r, r = ret,
           NEW s, s = ret', TreeOK(t, c, j), PopFirst \/ PopLast
    PROVE  StepOK(t, u, c, d, e, r, s)
<1>1. c = "idle" /\ Whole(t)
  BY TreeOKParts DEF PopFirst, PopLast, Idle
<1>2. ((d = "idle" /\ Whole(u)) \/ (d = "rebalance_leaf" /\ LeafJob(u, e))) /\ Pops(t, u, s)
  BY <1>1, PopFirstDoes, PopLastDoes
<1>3. TreeOK(u, d, e)
  BY <1>2 DEF TreeOK
<1>5. c # "retain" /\ d # "retain"
  BY <1>1, <1>2
<1>6. QED BY <1>2, <1>3, <1>5 DEF StepOK, Change, Serves

\* insert and get_mut.
LEMMA PutsStep ==
    ASSUME NEW t, t = tree, NEW u, u = tree', NEW c, c = pc, NEW d, d = pc', NEW j, j = job, NEW e, e = job', NEW r, r = ret,
           NEW s, s = ret', TreeOK(t, c, j), NEW k \in Key, NEW v \in Value, Insert(k, v) \/ GetMut(k, v)
    PROVE  StepOK(t, u, c, d, e, r, s)
<1>1. c = "idle" /\ Whole(t)
  BY TreeOKParts DEF Insert, GetMut, Idle
<1>2. ((d = "idle" /\ Whole(u)) \/ (d = "propagate_split" /\ PathJob(u, e))) /\ EntryPut(t, u, k, v) /\ Answer(t, k, s)
  BY <1>1, InsertDoes, GetMutDoes
<1>3. TreeOK(u, d, e)
  BY <1>2 DEF TreeOK
<1>4. Puts(t, u, s)
  BY <1>2 DEF Puts
<1>5. c # "retain" /\ d # "retain"
  BY <1>1, <1>2
<1>6. QED BY <1>3, <1>4, <1>5 DEF StepOK, Change, Serves

\* try_insert.
LEMMA TriesStep ==
    ASSUME NEW t, t = tree, NEW u, u = tree', NEW c, c = pc, NEW d, d = pc', NEW j, j = job, NEW e, e = job', NEW r, r = ret,
           NEW s, s = ret', TreeOK(t, c, j), NEW k \in Key, NEW v \in Value, TryInsert(k, v)
    PROVE  StepOK(t, u, c, d, e, r, s)
<1>1. c = "idle" /\ Whole(t)
  BY TreeOKParts DEF TryInsert, Idle
<1>2. /\ (d = "idle" /\ Whole(u)) \/ (d = "propagate_split_lazy" /\ LazyJob(u, e))
      /\ \/ EntryPut(t, u, k, v) /\ s = NONE /\ \A w : ~Has(t, k, w)
         \/ u = t /\ s = v /\ \E w : Has(t, k, w)
  BY <1>1, TryInsertDoes
<1>3. TreeOK(u, d, e)
  BY <1>2 DEF TreeOK
<1>4. Tries(t, u, s)
  BY <1>2 DEF Tries
<1>5. c # "retain" /\ d # "retain"
  BY <1>1, <1>2
<1>6. QED BY <1>3, <1>4, <1>5 DEF StepOK, Change, Serves

\* from_iter.
LEMMA FillsStep ==
    ASSUME NEW t, t = tree, NEW u, u = tree', NEW c, c = pc, NEW d, d = pc', NEW j, j = job, NEW e, e = job', NEW r, r = ret,
           NEW s, s = ret', TreeOK(t, c, j), NEW S \in SUBSET Key, NEW v \in Value, FromSortedIter(S, v)
    PROVE  StepOK(t, u, c, d, e, r, s)
<1>1. c = "idle" /\ "from_iter" \in Calls
  BY DEF FromSortedIter, Idle
<1>2. d = "bulk_load" /\ BulkJob(u, e) /\ s = r /\ t = NewTree
  BY FromSortedIterDoes
<1>3. TreeOK(u, d, e)
  BY <1>2 DEF TreeOK
<1>4. Fills(t, u, r, s)
  BY <1>1, <1>2 DEF Fills
<1>5. c # "retain" /\ d # "retain"
  BY <1>1, <1>2
<1>6. QED BY <1>3, <1>4, <1>5 DEF StepOK, Change, Serves

\* retain, up to its end.
LEMMA RetainStepOK ==
    ASSUME NEW t, t = tree, NEW u, u = tree', NEW c, c = pc, NEW d, d = pc', NEW j, j = job, NEW e, e = job', NEW r, r = ret,
           NEW s, s = ret', TreeOK(t, c, j), RetainBegin \/ RetainStep
    PROVE  StepOK(t, u, c, d, e, r, s)
<1>1. ASSUME RetainBegin
      PROVE  StepOK(t, u, c, d, e, r, s)
  <2>1. c = "idle" /\ Whole(t)
    BY <1>1, TreeOKParts DEF RetainBegin, Idle
  <2>2. d = "retain" /\ u = t /\ RetainJob(t, e) /\ s = r
    BY <1>1, <2>1, RetainBeginDoes
  <2>3. TreeOK(u, d, e)
    BY <2>1, <2>2 DEF TreeOK
  <2>4. QED BY <2>2, <2>3, NoChange DEF StepOK, Change
<1>2. ASSUME RetainStep
      PROVE  StepOK(t, u, c, d, e, r, s)
  <2>1. c = "retain" /\ Whole(t) /\ RetainJob(t, j)
    BY <1>2, TreeOKParts DEF RetainStep
  <2>2. d = "retain" /\ Whole(u) /\ RetainJob(u, e) /\ s = r /\ ((u = t) \/ (\E k : k \in Key /\ EntryGone(t, u, k)))
    BY <1>2, <2>1, RetainStepDoes
  <2>3. TreeOK(u, d, e)
    BY <2>2 DEF TreeOK
  <2>4. CASE u = t
    BY <2>2, <2>3, <2>4, NoChange DEF StepOK, Change
  <2>5. CASE u # t
    BY <2>1, <2>2, <2>3, <2>5 DEF StepOK, Change
  <2>6. QED BY <2>4, <2>5
<1>3. QED BY <1>1, <1>2

\* The steps that leave the entries alone.
LEMMA QuietStep ==
    ASSUME NEW t, t = tree, NEW u, u = tree', NEW c, c = pc, NEW d, d = pc', NEW j, j = job, NEW e, e = job', NEW r, r = ret,
           NEW s, s = ret', TreeOK(t, c, j),
           \/ ShrinkToFit \/ PropagateSplit \/ PropagateSplitLazy \/ RebalanceLeaf \/ RebalanceInternal
           \/ BulkLevel \/ BulkDone \/ RetainEnd
    PROVE  StepOK(t, u, c, d, e, r, s)
<1>1. CASE ShrinkToFit
  <2>1. c = "idle" /\ Whole(t)
    BY <1>1, TreeOKParts DEF ShrinkToFit, Idle
  <2>2. ((d = "idle" /\ Whole(u)) \/ (d = "bulk_load" /\ BulkJob(u, e))) /\ SameEntries(t, u) /\ s = r
    BY <1>1, <2>1, ShrinkToFitDoes
  <2>3. QED BY <2>2 DEF StepOK, Change, TreeOK
<1>2. CASE PropagateSplit
  <2>1. PathJob(t, j)
    BY <1>2, TreeOKParts DEF PropagateSplit
  <2>2. ((d = "idle" /\ Whole(u)) \/ (d = "propagate_split" /\ PathJob(u, e))) /\ SameEntries(t, u) /\ s = r
    BY <1>2, <2>1, PropagateSplitDoes
  <2>3. QED BY <2>2 DEF StepOK, Change, TreeOK
<1>3. CASE PropagateSplitLazy
  <2>1. LazyJob(t, j)
    BY <1>3, TreeOKParts DEF PropagateSplitLazy
  <2>2. ((d = "idle" /\ Whole(u)) \/ (d = "propagate_split_lazy" /\ LazyJob(u, e))) /\ SameEntries(t, u) /\ s = r
    BY <1>3, <2>1, PropagateSplitLazyDoes
  <2>3. QED BY <2>2 DEF StepOK, Change, TreeOK
<1>4. CASE RebalanceLeaf
  <2>1. LeafJob(t, j)
    BY <1>4, TreeOKParts DEF RebalanceLeaf
  <2>2. ((d \in {"idle", "underflow"} /\ Whole(u)) \/ (d = "rebalance_internal" /\ InnerJob(u, e))) /\ SameEntries(t, u) /\ s = r
    BY <1>4, <2>1, RebalanceLeafDoes
  <2>3. QED BY <2>2 DEF StepOK, Change, TreeOK
<1>5. CASE RebalanceInternal
  <2>1. InnerJob(t, j)
    BY <1>5, TreeOKParts DEF RebalanceInternal
  <2>2. ((d \in {"idle", "underflow"} /\ Whole(u)) \/ (d = "rebalance_internal" /\ InnerJob(u, e))) /\ SameEntries(t, u) /\ s = r
    BY <1>5, <2>1, RebalanceInternalDoes
  <2>3. QED BY <2>2 DEF StepOK, Change, TreeOK
<1>6. CASE BulkLevel
  <2>1. pc = "bulk_load" /\ BulkJob(t, j)
    BY <1>6, TreeOKParts DEF BulkLevel
  <2>2. d = "bulk_load" /\ BulkJob(u, e) /\ SameEntries(t, u) /\ s = r
    BY <1>6, <2>1, BulkLevelDoes
  <2>3. QED BY <2>2 DEF StepOK, Change, TreeOK
<1>7. CASE BulkDone
  <2>1. BulkJob(t, j)
    BY <1>7, TreeOKParts DEF BulkDone
  <2>2. d = "idle" /\ Whole(u) /\ SameEntries(t, u) /\ s = r
    BY <1>7, <2>1, BulkDoneDoes
  <2>3. QED BY <2>2 DEF StepOK, Change, TreeOK
<1>8. CASE RetainEnd
  <2>1. Whole(t)
    BY <1>8, TreeOKParts DEF RetainEnd
  <2>2. d = "idle" /\ Whole(u) /\ SameEntries(t, u) /\ s = r
    BY <1>8, <2>1, RetainEndDoes
  <2>3. QED BY <2>2 DEF StepOK, Change, TreeOK
<1>9. QED BY <1>1, <1>2, <1>3, <1>4, <1>5, <1>6, <1>7, <1>8

\* clear.
LEMMA ClearStep ==
    ASSUME NEW t, t = tree, NEW u, u = tree', NEW c, c = pc, NEW d, d = pc', NEW e, e = job', NEW r, r = ret,
           NEW s, s = ret', Clear
    PROVE  StepOK(t, u, c, d, e, r, s)
<1>1. c = "idle"
  BY DEF Clear, Idle
<1>2. d = "idle" /\ Whole(u) /\ s = r /\ \A k, v : ~Has(u, k, v)
  BY ClearDoes
<1>3. TreeOK(u, d, e)
  BY <1>2 DEF TreeOK
<1>4. Empties(t, u, r, s)
  BY <1>2 DEF Empties
<1>5. c # "retain" /\ d # "retain"
  BY <1>1, <1>2
<1>6. QED BY <1>3, <1>4, <1>5 DEF StepOK, Change, Serves

\* Every step.
LEMMA EveryStep ==
    ASSUME NEW t, t = tree, NEW u, u = tree', NEW c, c = pc, NEW d, d = pc', NEW j, j = job, NEW e, e = job', NEW r, r = ret,
           NEW s, s = ret', TreeOK(t, c, j), Next
    PROVE  StepOK(t, u, c, d, e, r, s)
<1>0. Entries \subseteq Key \X Value /\ FromSets \subseteq (SUBSET Key) \X Value
  BY KeyAssumption
<1>1. ASSUME NEW k \in Key, Get(k) \/ GetByEq(k)
      PROVE  StepOK(t, u, c, d, e, r, s)
  BY <1>1, ReadsStep
<1>2. ASSUME NEW k \in Key, RemoveKey(k) \/ RemoveByEq(k)
      PROVE  StepOK(t, u, c, d, e, r, s)
  BY <1>2, RemovesStep
<1>3. ASSUME NEW x \in Entries, Insert(x[1], x[2]) \/ TryInsert(x[1], x[2]) \/ GetMut(x[1], x[2])
      PROVE  StepOK(t, u, c, d, e, r, s)
  <2>1. PICK k \in Key, v \in Value : k = x[1] /\ v = x[2]
    BY <1>0
  <2>2. Insert(k, v) \/ TryInsert(k, v) \/ GetMut(k, v)
    BY <2>1, <1>3
  <2>3. QED BY <2>2, PutsStep, TriesStep
<1>4. ASSUME NEW f \in FromSets, FromSortedIter(f[1], f[2])
      PROVE  StepOK(t, u, c, d, e, r, s)
  <2>1. PICK S \in SUBSET Key, v \in Value : S = f[1] /\ v = f[2]
    BY <1>0
  <2>2. FromSortedIter(S, v)
    BY <2>1, <1>4
  <2>3. QED BY <2>2, FillsStep
<1>5. CASE PopFirst \/ PopLast
  BY <1>5, PopsStep
<1>6. CASE RetainBegin \/ RetainStep
  BY <1>6, RetainStepOK
<1>7. CASE \/ ShrinkToFit \/ PropagateSplit \/ PropagateSplitLazy \/ RebalanceLeaf \/ RebalanceInternal
           \/ BulkLevel \/ BulkDone \/ RetainEnd
  BY <1>7, QuietStep
<1>8. CASE Clear
  BY <1>8, ClearStep
<1>9. QED BY <1>1, <1>2, <1>3, <1>4, <1>5, <1>6, <1>7, <1>8 DEF Next, Call, Work

\* The tree is in order at the start.
LEMMA InitOK ==
    ASSUME Init
    PROVE  TreeOK(tree, pc, job)
<1>1. tree = NewTree /\ pc = "idle"
  BY DEF Init
<1>2. Whole(tree)
  BY <1>1 DEF Whole
<1>3. QED BY <1>1, <1>2 DEF TreeOK

\* The tree is in order in every state: the inductive invariant.
TreeRight == TreeOK(tree, pc, job)

\* Whatever the calls of raw.rs have done, and in the middle of a split
\* cascade, a repair, a retain or a bulk load, the tree is what the step under
\* way relies on: arena, levels, separators, chain and length agree.
THEOREM TreeAlwaysRight == Spec => []TreeRight
<1>1. Init => TreeRight
  BY InitOK DEF TreeRight
<1>2. TreeRight /\ [Next]_vars => TreeRight'
  <2>1. SUFFICES ASSUME TreeRight, [Next]_vars PROVE TreeRight'
    OBVIOUS
  <2>2. CASE Next
    <3>1. PICK t : t = tree
      OBVIOUS
    <3>2. PICK u : u = tree'
      OBVIOUS
    <3>3. PICK c : c = pc
      OBVIOUS
    <3>4. PICK d : d = pc'
      OBVIOUS
    <3>5. PICK j : j = job
      OBVIOUS
    <3>6. PICK e : e = job'
      OBVIOUS
    <3>7. PICK r : r = ret
      OBVIOUS
    <3>8. PICK s : s = ret'
      OBVIOUS
    <3>9. TreeOK(t, c, j)
      BY <2>1, <3>1, <3>3, <3>5 DEF TreeRight
    <3>10. StepOK(t, u, c, d, e, r, s)
      BY ONLY <2>2, <3>1, <3>2, <3>3, <3>4, <3>5, <3>6, <3>7, <3>8, <3>9, EveryStep
    <3>11. TreeOK(u, d, e)
      BY <3>10 DEF StepOK
    <3>12. QED BY <3>11, <3>2, <3>4, <3>6 DEF TreeRight
  <2>3. CASE UNCHANGED vars
    BY <2>1, <2>3 DEF TreeRight, vars
  <2>4. QED BY <2>1, <2>2, <2>3
<1>3. QED BY <1>1, <1>2, PTL DEF Spec

\* The function that Below defines.
BelowFrom(t, m, b) == {m} \cup UNION {b[c] : c \in ToSet(t.node[m].kids)}
BelowBody(t, b) == [m \in DOMAIN t.node |-> BelowFrom(t, m, b)]

\* Below is a value of that function.
LEMMA BelowIs ==
    ASSUME NEW t, NEW n
    PROVE  Below(t, n) = (CHOOSE b : b = BelowBody(t, b))[n]
  BY DEF Below, BelowBody, BelowFrom

\* The kids of a node, as a set.
LEMMA KidSet ==
    ASSUME NEW t, NEW g, NEW O, Arena(t), Shape(t, g, O), NEW n \in DOMAIN t.node, NEW c
    PROVE  /\ c \in ToSet(t.node[n].kids) => /\ c \in DOMAIN t.node /\ t.node[c].parent = n
                                             /\ g.lev[n] \in Nat /\ g.lev[c] \in Nat /\ g.lev[c] < g.lev[n]
           /\ (\E i \in 1 .. Len(t.node[n].kids) : t.node[n].kids[i] = c) => c \in ToSet(t.node[n].kids)
<1>1. PICK cs \in Seq(Int) : cs = t.node[n].kids
  BY KeysAreInts
<1>2. ToSet(cs) = {cs[i] : i \in 1 .. Len(cs)}
  BY DEF ToSet
<1>3. ASSUME c \in ToSet(cs)
      PROVE  /\ c \in DOMAIN t.node /\ t.node[c].parent = n
             /\ g.lev[n] \in Nat /\ g.lev[c] \in Nat /\ g.lev[c] < g.lev[n]
  <2>1. PICK i \in 1 .. Len(cs) : cs[i] = c
    BY <1>2, <1>3
  <2>2. /\ c \in DOMAIN t.node /\ t.node[c].parent = n
        /\ g.lev[c] = g.lev[n] - 1 /\ g.lev[n] \in Nat /\ g.lev[c] \in Nat
    BY <2>1, <1>1, KidParts
  <2>3. QED BY <2>2
<1>4. QED BY <1>1, <1>2, <1>3

\* That function exists.
LEMMA BelowExists ==
    ASSUME NEW t, NEW g, NEW O, Arena(t), Shape(t, g, O)
    PROVE  \E b : b = BelowBody(t, b)
<1>1. PICK D, V, rk : D = DOMAIN t.node /\ V = SUBSET D /\ rk = [i \in D |-> g.lev[i]]
  OBVIOUS
<1>2. ASSUME NEW m \in D, NEW f \in [D -> V] PROVE BelowFrom(t, m, f) \in V
  <2>1. \A c \in ToSet(t.node[m].kids) : c \in D
    BY <1>1, KidSet
  <2>2. \A c \in ToSet(t.node[m].kids) : f[c] \subseteq D
    BY <2>1, <1>1
  <2>3. QED BY <2>2, <1>1 DEF BelowFrom
<1>3. PICK F : F = [m \in D |-> [f \in [D -> V] |-> BelowFrom(t, m, f)]]
  OBVIOUS
<1>4. F \in [D -> [[D -> V] -> V]] /\ \A m \in D : \A f \in [D -> V] : F[m][f] = BelowFrom(t, m, f)
  BY <1>2, <1>3
<1>5. PICK N \in Nat : \A m \in D : g.lev[m] <= N
  BY <1>1, LevelsBounded
<1>6. rk \in [D -> Nat] /\ (\A m \in D : rk[m] = g.lev[m]) /\ \A m \in D : rk[m] <= N
  <2>1. \A m \in D : g.lev[m] \in Nat
    BY <1>1 DEF Shape, Hangs, LevelOf
  <2>2. QED BY <2>1, <1>1, <1>5
<1>7. Local(D, V, rk, F)
  <2>1. ASSUME NEW m \in D, NEW f \in [D -> V], NEW h \in [D -> V], \A n \in D : rk[n] < rk[m] => f[n] = h[n]
        PROVE  F[m][f] = F[m][h]
    <3>1. \A c \in ToSet(t.node[m].kids) : c \in D /\ rk[c] < rk[m]
      BY <1>1, <1>6, KidSet
    <3>2. \A c \in ToSet(t.node[m].kids) : f[c] = h[c]
      BY <3>1, <2>1
    <3>3. {f[c] : c \in ToSet(t.node[m].kids)} = {h[c] : c \in ToSet(t.node[m].kids)}
      BY <3>2
    <3>4. BelowFrom(t, m, f) = BelowFrom(t, m, h)
      BY <3>3 DEF BelowFrom
    <3> QED BY <3>4, <1>4
  <2> QED BY <2>1, <1>4, <1>6 DEF Local
<1>8. PICK f \in [D -> V] : Obeys(D, F, f)
  <2>1. {} \in V
    BY <1>1
  <2> QED BY <2>1, <1>5, <1>6, <1>7, RecursionExists
<1>9. \A m \in D : f[m] = BelowFrom(t, m, f)
  BY <1>4, <1>8 DEF Obeys
<1>10. f = BelowBody(t, f)
  BY <1>1, <1>8, <1>9 DEF BelowBody
<1>11. QED BY <1>10

\* What Below computes, level by level.
LEMMA BelowStep ==
    ASSUME NEW t, NEW g, NEW O, Arena(t), Shape(t, g, O), NEW m \in DOMAIN t.node
    PROVE  Below(t, m) = {m} \cup UNION {Below(t, c) : c \in ToSet(t.node[m].kids)}
<1>1. PICK b : b = (CHOOSE f : f = BelowBody(t, f))
  OBVIOUS
<1>2. b = BelowBody(t, b)
  BY <1>1, BelowExists
<1>3. b[m] = BelowFrom(t, m, b)
  BY <1>2 DEF BelowBody
<1>4. \A n : Below(t, n) = b[n]
  BY <1>1, BelowIs
<1>5. QED BY <1>3, <1>4 DEF BelowFrom

\* Everything below a node is a node.
LEMMA BelowInside ==
    ASSUME NEW t, NEW g, NEW O, Arena(t), Shape(t, g, O), NEW m \in DOMAIN t.node
    PROVE  Below(t, m) \subseteq DOMAIN t.node
<1>1. SUFFICES ASSUME ~(Below(t, m) \subseteq DOMAIN t.node) PROVE FALSE
  OBVIOUS
<1>2. PICK S : S = {g.lev[n] : n \in {x \in DOMAIN t.node : ~(Below(t, x) \subseteq DOMAIN t.node)}}
  OBVIOUS
<1>3. \A n \in DOMAIN t.node : g.lev[n] \in Nat
  BY DEF Shape, Hangs, LevelOf
<1>4. S \in SUBSET Nat /\ S # {}
  BY <1>1, <1>2, <1>3
<1>5. PICK y \in S : \A z \in S : y <= z
  BY <1>4, MinOfNats
<1>6. PICK n \in DOMAIN t.node : ~(Below(t, n) \subseteq DOMAIN t.node) /\ g.lev[n] = y
  BY <1>5, <1>2
<1>7. \A c \in ToSet(t.node[n].kids) : c \in DOMAIN t.node /\ g.lev[c] < g.lev[n] /\ g.lev[c] \in Nat /\ g.lev[n] \in Nat
  BY <1>6, KidSet
<1>8. \A c \in ToSet(t.node[n].kids) : Below(t, c) \subseteq DOMAIN t.node
  <2>1. SUFFICES ASSUME NEW c \in ToSet(t.node[n].kids), ~(Below(t, c) \subseteq DOMAIN t.node) PROVE FALSE
    OBVIOUS
  <2>2. c \in DOMAIN t.node /\ g.lev[c] < g.lev[n] /\ g.lev[c] \in Nat /\ g.lev[n] \in Nat
    BY <1>7
  <2>3. g.lev[c] \in S
    BY <2>1, <2>2, <1>2
  <2>4. y <= g.lev[c]
    BY <2>3, <1>5
  <2>5. QED BY <2>2, <2>4, <1>6
<1>9. Below(t, n) \subseteq DOMAIN t.node
  BY <1>6, <1>8, BelowStep
<1>10. QED BY <1>6, <1>9

\* A node is below its parent, and so is all that is below it.
LEMMA BelowParent ==
    ASSUME NEW t, NEW g, NEW O, Arena(t), Shape(t, g, O), NEW n \in DOMAIN t.node, n \notin O
    PROVE  LET p == t.node[n].parent IN
           p \in DOMAIN t.node /\ Below(t, n) \subseteq Below(t, p) /\ g.lev[p] = g.lev[n] + 1
<1>1. PICK p : p = t.node[n].parent
  OBVIOUS
<1>2. p \in DOMAIN t.node /\ \E i \in 1 .. Len(t.node[p].kids) : t.node[p].kids[i] = n
  BY <1>1 DEF Shape, Hangs, Placed
<1>3. n \in ToSet(t.node[p].kids)
  BY <1>2, KidSet
<1>4. Below(t, n) \subseteq Below(t, p)
  BY <1>2, <1>3, BelowStep
<1>5. g.lev[n] = g.lev[p] - 1 /\ g.lev[p] \in Nat /\ g.lev[n] \in Nat
  BY <1>2, KidParts
<1>6. QED BY <1>1, <1>2, <1>4, <1>5

\* In a settled tree every node is below the root.
LEMMA BelowAll ==
    ASSUME NEW t, NEW g, SettledG(t, g)
    PROVE  Below(t, t.root) = DOMAIN t.node
<1>0. Arena(t) /\ Shape(t, g, {t.root}) /\ t.root \in DOMAIN t.node /\ g.lev[t.root] = t.height /\ t.height \in Nat
  BY DEF SettledG, TreeInv, RootTop, Arena
<1>1. Below(t, t.root) \subseteq DOMAIN t.node
  BY <1>0, BelowInside
<1>2. ASSUME NEW m \in DOMAIN t.node, ~(Below(t, m) \subseteq Below(t, t.root)) PROVE FALSE
  <2>1. \A n \in DOMAIN t.node : g.lev[n] \in Nat /\ g.lev[n] <= t.height
    <3>1. \A o \in {t.root} : g.lev[o] <= t.height
      BY <1>0
    <3>2. \A n \in DOMAIN t.node : g.lev[n] <= t.height
      BY <1>0, <3>1, TopLevel
    <3>3. QED BY <3>2, <1>0 DEF Shape, Hangs, LevelOf
  <2>2. PICK S : S = {t.height - g.lev[n] : n \in {x \in DOMAIN t.node : ~(Below(t, x) \subseteq Below(t, t.root))}}
    OBVIOUS
  <2>3. S \in SUBSET Nat
    <3>1. \A n \in DOMAIN t.node : t.height - g.lev[n] \in Nat
      BY <2>1, <1>0
    <3>2. QED BY <3>1, <2>2
  <2>4. S # {}
    BY <1>2, <2>2
  <2>5. PICK y \in S : \A z \in S : y <= z
    BY <2>3, <2>4, MinOfNats
  <2>6. PICK n \in DOMAIN t.node : ~(Below(t, n) \subseteq Below(t, t.root)) /\ t.height - g.lev[n] = y
    BY <2>5, <2>2
  <2>7. PICK p : p = t.node[n].parent
    OBVIOUS
  <2>8. p \in DOMAIN t.node /\ Below(t, n) \subseteq Below(t, p) /\ g.lev[p] = g.lev[n] + 1
    <3>1. n \notin {t.root}
      BY <2>6
    <3>2. QED BY <3>1, <2>7, <1>0, BelowParent
  <2>9. ~(Below(t, p) \subseteq Below(t, t.root))
    BY <2>6, <2>8
  <2>10. t.height - g.lev[p] \in S
    BY <2>8, <2>9, <2>2
  <2>11. y <= t.height - g.lev[p]
    BY <2>10, <2>5
  <2>12. g.lev[n] \in Nat /\ g.lev[p] \in Nat
    BY <2>1, <2>8
  <2>13. QED BY ONLY <2>6, <2>8, <2>11, <2>12, <1>0
<1>3. \A m \in DOMAIN t.node : m \in Below(t, m)
  BY <1>0, BelowStep
<1>4. QED BY <1>1, <1>2, <1>3

\* The kids of the nodes in c, one after the other.
KidRow(t, c) == FlattenSeq([i \in DOMAIN c |-> t.node[c[i]].kids])
RowBelow(t, h, f) == IF h = 0 THEN <<t.root>> ELSE KidRow(t, f[h - 1])
RowsBody(t, f) == [h \in 0 .. t.height |-> RowBelow(t, h, f)]

\* Rows is that function.
LEMMA RowsIs ==
    ASSUME NEW t
    PROVE  Rows(t) = (CHOOSE f : f = RowsBody(t, f))
  BY DEF Rows, RowsBody, RowBelow, KidRow

\* A sequence of nodes at level L whose ranges follow each other from a to b.
RowAt(t, g, c, L, a, b) ==
    /\ c \in Seq(DOMAIN t.node) /\ Tiles(g.lo, g.hi, c, Len(c), a, b)
    /\ \A i \in 1 .. Len(c) : g.lev[c[i]] = L

\* Two tilings in a row.
LEMMA TilesJoin ==
    ASSUME NEW lo, NEW hi, NEW c, NEW N, NEW d, NEW M, NEW e, NEW x, NEW y, NEW z, Tiles(lo, hi, c, N, x, y), Tiles(lo, hi, d, M, y, z),
           \A j \in 1 .. N : e[j] = c[j], \A j \in 1 .. M : e[N + j] = d[j]
    PROVE  Tiles(lo, hi, e, N + M, x, z)
<1>1. N \in Nat \ {0} /\ M \in Nat \ {0}
  BY DEF Tiles
<1>2. N + M \in Nat \ {0} /\ 1 \in 1 .. N /\ N \in 1 .. N /\ 1 \in 1 .. M /\ M \in 1 .. M
  BY <1>1
<1>3. lo[e[1]] = x /\ hi[e[N + M]] = z
  BY <1>2 DEF Tiles
<1>4. ASSUME NEW i \in 1 .. (N + M) - 1 PROVE hi[e[i]] = lo[e[i + 1]]
  <2>1. CASE i < N
    <3>1. i \in 1 .. N - 1 /\ i \in 1 .. N /\ i + 1 \in 1 .. N
      BY <1>1, <2>1
    <3>2. QED BY <3>1 DEF Tiles
  <2>2. CASE i = N
    <3>1. e[i] = c[N] /\ e[i + 1] = d[1]
      BY <1>2, <2>2
    <3>2. QED BY <3>1 DEF Tiles
  <2>3. CASE i > N
    <3>1. PICK k : k = i - N
      OBVIOUS
    <3>2. k \in 1 .. M - 1 /\ k \in 1 .. M /\ k + 1 \in 1 .. M /\ i = N + k /\ i + 1 = N + (k + 1)
      BY <1>1, <2>3, <3>1
    <3>3. e[i] = d[k] /\ e[i + 1] = d[k + 1]
      BY <3>2
    <3>4. QED BY <3>2, <3>3 DEF Tiles
  <2>4. QED BY <1>1, <2>1, <2>2, <2>3
<1>5. QED BY <1>2, <1>3, <1>4 DEF Tiles

\* Two rows in a row.
LEMMA RowJoin ==
    ASSUME NEW t, NEW g, NEW c, NEW d, NEW L, NEW x, NEW y, NEW z, RowAt(t, g, c, L, x, y), RowAt(t, g, d, L, y, z)
    PROVE  RowAt(t, g, c \o d, L, x, z)
<1>1. c \in Seq(DOMAIN t.node) /\ d \in Seq(DOMAIN t.node)
  BY DEF RowAt
<1>2. PICK e, N, M : e = c \o d /\ N = Len(c) /\ M = Len(d)
  OBVIOUS
<1>3. JoinedTo(DOMAIN t.node, c, d, e)
  BY <1>1, <1>2, JoinDoes
<1>4. e \in Seq(DOMAIN t.node) /\ Len(e) = N + M /\ (\A j \in 1 .. N : e[j] = c[j]) /\ (\A j \in 1 .. M : e[N + j] = d[j])
  BY <1>2, <1>3 DEF JoinedTo
<1>5. Tiles(g.lo, g.hi, c, N, x, y) /\ Tiles(g.lo, g.hi, d, M, y, z)
  BY <1>2 DEF RowAt
<1>6. PICK lo, hi : lo = g.lo /\ hi = g.hi
  OBVIOUS
<1>7. Tiles(lo, hi, c, N, x, y) /\ Tiles(lo, hi, d, M, y, z)
  BY <1>5, <1>6
<1>8. Tiles(lo, hi, e, N + M, x, z)
  BY ONLY <1>4, <1>7, TilesJoin
<1>9. ASSUME NEW i \in 1 .. N + M PROVE g.lev[e[i]] = L
  <2>1. (\A j \in 1 .. N : g.lev[c[j]] = L) /\ (\A j \in 1 .. M : g.lev[d[j]] = L)
    BY <1>2 DEF RowAt
  <2>2. N \in Nat /\ M \in Nat
    BY <1>1, <1>2
  <2>3. CASE i <= N
    <3>1. i \in 1 .. N
      BY <2>2, <2>3
    <3>2. QED BY <3>1, <2>1, <1>4
  <2>4. CASE i > N
    <3>1. PICK k : k = i - N
      OBVIOUS
    <3>2. k \in 1 .. M /\ i = N + k
      BY <2>2, <2>4, <3>1
    <3>3. QED BY <3>2, <2>1, <1>4
  <2>5. QED BY <2>2, <2>3, <2>4
<1>10. QED BY <1>2, <1>4, <1>6, <1>8, <1>9 DEF RowAt

\* The kids of a node are nodes.
LEMMA KidsInside ==
    ASSUME NEW t, NEW g, NEW O, Arena(t), Shape(t, g, O), NEW n \in DOMAIN t.node
    PROVE  t.node[n].kids \in Seq(DOMAIN t.node)
<1>1. PICK cs \in Seq(Int) : cs = t.node[n].kids
  BY KeysAreInts
<1>2. \A i \in 1 .. Len(cs) : cs[i] \in DOMAIN t.node
  BY <1>1, KidParts
<1>3. PICK D : D = DOMAIN t.node
  OBVIOUS
<1>4. cs \in Seq(D)
  BY ONLY <1>1, <1>2, <1>3
<1>5. QED BY <1>1, <1>3, <1>4

\* The ranges of the kids of a node follow each other through its range.
LEMMA KidsRow ==
    ASSUME NEW t, NEW g, SettledG(t, g), NEW n \in DOMAIN t.node, t.node[n].kids # <<>>
    PROVE  RowAt(t, g, t.node[n].kids, g.lev[n] - 1, g.lo[n], g.hi[n])
<1>0. Arena(t) /\ Shape(t, g, {t.root}) /\ Order(t, g) /\ \A m \in DOMAIN t.node : g.out[m] = g.hi[m]
  BY DEF SettledG, TreeInv
<1>1. PICK cs : cs = t.node[n].kids
  OBVIOUS
<1>2. PICK ks : ks = t.node[n].keys
  OBVIOUS
<1>3. PICK N : N = Len(cs)
  OBVIOUS
<1>4. cs \in Seq(DOMAIN t.node) /\ N \in Nat \ {0}
  <2>1. cs \in Seq(DOMAIN t.node)
    BY <1>0, <1>1, KidsInside
  <2>2. cs # <<>>
    BY <1>1
  <2>3. QED BY <2>1, <2>2, <1>3
<1>5. \A i \in 1 .. N : cs[i] \in DOMAIN t.node /\ g.lev[cs[i]] = g.lev[n] - 1
  BY <1>0, <1>1, <1>3, KidParts
<1>6. \A i \in 1 .. N : KidRange(g, n, t.node[n], i)
  BY <1>0, <1>1, <1>3, KidBounds
<1>7. \A i \in 1 .. N : /\ g.lo[cs[i]] = IF i = 1 THEN g.lo[n] ELSE ks[i - 1]
                        /\ g.hi[cs[i]] = IF i = N THEN g.hi[n] ELSE ks[i]
  BY <1>0, <1>1, <1>2, <1>3, <1>5, <1>6 DEF KidRange
<1>8. Tiles(g.lo, g.hi, cs, N, g.lo[n], g.hi[n])
  <2>1. 1 \in 1 .. N /\ N \in 1 .. N
    BY <1>4
  <2>2. g.lo[cs[1]] = g.lo[n] /\ g.hi[cs[N]] = g.hi[n]
    BY <1>7, <2>1
  <2>3. ASSUME NEW i \in 1 .. N - 1 PROVE g.hi[cs[i]] = g.lo[cs[i + 1]]
    <3>1. i \in 1 .. N /\ i + 1 \in 1 .. N /\ i # N /\ i + 1 # 1 /\ (i + 1) - 1 = i
      BY <1>4
    <3>2. g.hi[cs[i]] = ks[i] /\ g.lo[cs[i + 1]] = ks[(i + 1) - 1]
      BY <3>1, <1>7
    <3>3. QED BY <3>1, <3>2
  <2>4. QED BY <1>4, <2>2, <2>3 DEF Tiles
<1>9. QED BY <1>1, <1>3, <1>4, <1>5, <1>8 DEF RowAt

\* The sequence of one member.
LEMMA OneSeq ==
    ASSUME NEW S, NEW x \in S
    PROVE  <<x>> \in Seq(S) /\ Len(<<x>>) = 1 /\ <<x>>[1] = x
  OBVIOUS

\* The flattening of sequences of sequences.
LEMMA FlattenIn ==
    ASSUME NEW S, NEW N \in Nat, NEW ss, Len(ss) = N, ss \in [1 .. N -> Seq(S)]
    PROVE  FlattenSeq(ss) \in Seq(S)
<1>1. CASE N = 0
  <2>1. ss = <<>>
    BY <1>1
  <2>2. FlattenSeq(ss) = ss
    BY <1>1 DEF FlattenSeq
  <2>3. <<>> \in Seq(S)
    OBVIOUS
  <2>4. FlattenSeq(ss) = <<>>
    BY ONLY <2>1, <2>2
  <2>5. QED BY ONLY <2>3, <2>4
<1>2. CASE N # 0
  <2>1. PICK G : G = (1 .. N) \X Seq(S) \X Seq(S)
    OBVIOUS
  <2>2. \A i \in 1 .. N : ss[i] \in Seq(S)
    OBVIOUS
  <2>3. 1 \in 1 .. N
    BY <1>2
  <2>4. <<1, ss[1], ss[1]>> \in G
    BY <2>1, <2>2, <2>3
  <2>5. ASSUME NEW i \in 1 .. N - 1, NEW s \in Seq(S), NEW w \in Seq(S), <<i, s, w>> \in G
        PROVE  <<i + 1, s \o ss[i + 1], w \o ss[i + 1]>> \in G
    <3>1. i + 1 \in 1 .. N
      OBVIOUS
    <3>2. ss[i + 1] \in Seq(S)
      BY <3>1, <2>2
    <3>3. s \o ss[i + 1] \in Seq(S) /\ w \o ss[i + 1] \in Seq(S)
      BY <3>2
    <3>4. QED BY ONLY <3>1, <3>3, <2>1
  <2>6. N \in Nat \ {0}
    BY <1>2
  <2>7. Carries(S, S, ss, ss, N, G)
    BY ONLY <2>2, <2>4, <2>5, <2>6, Len(ss) = N DEF Carries
  <2>8. QED BY <2>7, FlattenTwo
<1>3. QED BY <1>1, <1>2

\* The sequence that KidRow flattens.
LEMMA KidSeqs ==
    ASSUME NEW t, NEW g, NEW O, Arena(t), Shape(t, g, O), NEW c \in Seq(DOMAIN t.node), NEW N, N = Len(c),
           NEW ss, ss = [i \in DOMAIN c |-> t.node[c[i]].kids]
    PROVE  /\ N \in Nat /\ Len(ss) = N /\ ss \in [1 .. N -> Seq(DOMAIN t.node)]
           /\ \A i \in 1 .. N : ss[i] = t.node[c[i]].kids /\ c[i] \in DOMAIN t.node
<1>1. N \in Nat /\ DOMAIN c = 1 .. N /\ \A i \in 1 .. N : c[i] \in DOMAIN t.node
  OBVIOUS
<1>2. \A i \in 1 .. N : t.node[c[i]].kids \in Seq(DOMAIN t.node)
  BY <1>1, KidsInside
<1>3. ss \in [1 .. N -> Seq(DOMAIN t.node)] /\ \A i \in 1 .. N : ss[i] = t.node[c[i]].kids
  BY <1>1, <1>2
<1>4. PICK A : A = Seq(DOMAIN t.node)
  OBVIOUS
<1>5. ss \in [1 .. N -> A] => Len(ss) = N
  BY ONLY <1>1
<1>6. QED BY <1>1, <1>3, <1>4, <1>5

\* The kids of nodes are nodes.
LEMMA KidRowIn ==
    ASSUME NEW t, NEW g, NEW O, Arena(t), Shape(t, g, O), NEW c \in Seq(DOMAIN t.node)
    PROVE  KidRow(t, c) \in Seq(DOMAIN t.node)
<1>1. PICK N : N = Len(c)
  OBVIOUS
<1>2. PICK ss : ss = [i \in DOMAIN c |-> t.node[c[i]].kids]
  OBVIOUS
<1>3. N \in Nat /\ Len(ss) = N /\ ss \in [1 .. N -> Seq(DOMAIN t.node)]
  BY <1>1, <1>2, KidSeqs
<1>4. FlattenSeq(ss) \in Seq(DOMAIN t.node)
  BY <1>3, FlattenIn
<1>5. QED BY <1>2, <1>4 DEF KidRow

\* The row below a row.
LEMMA KidRowTiles ==
    ASSUME NEW t, NEW g, SettledG(t, g), NEW c, NEW L \in Nat \ {0}, NEW a, NEW b, RowAt(t, g, c, L, a, b)
    PROVE  RowAt(t, g, KidRow(t, c), L - 1, a, b)
<1>0. Arena(t) /\ Shape(t, g, {t.root}) /\ c \in Seq(DOMAIN t.node)
  BY DEF SettledG, TreeInv, RowAt
<1>1. PICK N : N = Len(c)
  OBVIOUS
<1>2. PICK ss : ss = [i \in DOMAIN c |-> t.node[c[i]].kids]
  OBVIOUS
<1>3. /\ N \in Nat /\ Len(ss) = N /\ ss \in [1 .. N -> Seq(DOMAIN t.node)]
      /\ \A i \in 1 .. N : ss[i] = t.node[c[i]].kids /\ c[i] \in DOMAIN t.node
  BY <1>0, <1>1, <1>2, KidSeqs
<1>4. Tiles(g.lo, g.hi, c, N, a, b) /\ \A i \in 1 .. N : g.lev[c[i]] = L
  BY <1>1 DEF RowAt
<1>5. N \in Nat \ {0}
  BY <1>4 DEF Tiles
<1>6. ASSUME NEW i \in 1 .. N PROVE RowAt(t, g, ss[i], L - 1, g.lo[c[i]], g.hi[c[i]])
  <2>1. c[i] \in DOMAIN t.node /\ g.lev[c[i]] = L /\ ss[i] = t.node[c[i]].kids
    BY <1>3, <1>4
  <2>2. t.node[c[i]].kids # <<>>
    BY <2>1, <1>0 DEF Shape, Hangs, LevelOf
  <2>3. QED BY <2>1, <2>2, KidsRow
<1>7. PICK D : D = DOMAIN t.node
  OBVIOUS
<1>8. PICK G : G = {p \in (1 .. N) \X Seq(D) \X Seq(D) : RowAt(t, g, p[2], L - 1, a, g.hi[c[p[1]]])}
  OBVIOUS
<1>9. \A i \in 1 .. N : \A s \in Seq(D), w \in Seq(D) : <<i, s, w>> \in G <=> RowAt(t, g, s, L - 1, a, g.hi[c[i]])
  BY <1>8
<1>10. 1 \in 1 .. N /\ N \in 1 .. N
  BY <1>5
<1>11. \A i \in 1 .. N : ss[i] \in Seq(D)
  BY <1>3, <1>7
<1>12. <<1, ss[1], ss[1]>> \in G
  <2>1. g.lo[c[1]] = a
    BY <1>4 DEF Tiles
  <2>2. RowAt(t, g, ss[1], L - 1, a, g.hi[c[1]])
    BY <2>1, <1>6, <1>10
  <2>3. QED BY ONLY <2>2, <1>9, <1>10, <1>11
<1>13. ASSUME NEW i \in 1 .. N - 1, NEW s \in Seq(D), NEW w \in Seq(D), <<i, s, w>> \in G
       PROVE  <<i + 1, s \o ss[i + 1], w \o ss[i + 1]>> \in G
  <2>1. i \in 1 .. N /\ i + 1 \in 1 .. N
    BY <1>5
  <2>2. RowAt(t, g, s, L - 1, a, g.hi[c[i]])
    BY <2>1, <1>9, <1>13
  <2>3. g.hi[c[i]] = g.lo[c[i + 1]]
    BY <1>4 DEF Tiles
  <2>4. RowAt(t, g, ss[i + 1], L - 1, g.hi[c[i]], g.hi[c[i + 1]])
    BY <2>1, <2>3, <1>6
  <2>5. RowAt(t, g, s \o ss[i + 1], L - 1, a, g.hi[c[i + 1]])
    BY ONLY <2>2, <2>4, RowJoin
  <2>6. s \o ss[i + 1] \in Seq(D) /\ w \o ss[i + 1] \in Seq(D)
    BY <2>1, <1>11
  <2>7. QED BY ONLY <2>1, <2>5, <2>6, <1>9
<1>14. Carries(D, D, ss, ss, N, G)
  BY ONLY <1>3, <1>5, <1>11, <1>12, <1>13 DEF Carries
<1>15. <<N, FlattenSeq(ss), FlattenSeq(ss)>> \in G /\ FlattenSeq(ss) \in Seq(D)
  BY <1>14, FlattenTwo
<1>16. RowAt(t, g, FlattenSeq(ss), L - 1, a, g.hi[c[N]])
  BY <1>9, <1>10, <1>15
<1>17. g.hi[c[N]] = b
  BY <1>4 DEF Tiles
<1>18. QED BY <1>2, <1>16, <1>17 DEF KidRow

\* The function that Rows defines exists.
LEMMA RowsExist ==
    ASSUME NEW t, NEW g, NEW O, Arena(t), Shape(t, g, O), t.root \in DOMAIN t.node
    PROVE  \E f : f = RowsBody(t, f)
<1>0. PICK N \in Nat : N = t.height
  BY DEF Arena
<1>1. PICK D, V, rk : D = 0 .. N /\ V = Seq(DOMAIN t.node) /\ rk = [i \in D |-> i]
  OBVIOUS
<1>2. ASSUME NEW m \in D, NEW f \in [D -> V] PROVE RowBelow(t, m, f) \in V
  <2>1. CASE m = 0
    <3>1. <<t.root>> \in Seq(DOMAIN t.node)
      BY ONLY t.root \in DOMAIN t.node, OneSeq
    <3>2. QED BY <3>1, <2>1, <1>1 DEF RowBelow
  <2>2. CASE m # 0
    <3>1. m - 1 \in D
      BY <2>2, <1>1
    <3>2. f[m - 1] \in Seq(DOMAIN t.node)
      BY <3>1, <1>1
    <3>3. KidRow(t, f[m - 1]) \in Seq(DOMAIN t.node)
      BY <3>2, KidRowIn
    <3> QED BY <3>3, <2>2, <1>1 DEF RowBelow
  <2> QED BY <2>1, <2>2
<1>3. PICK F : F = [m \in D |-> [f \in [D -> V] |-> RowBelow(t, m, f)]]
  OBVIOUS
<1>4. F \in [D -> [[D -> V] -> V]] /\ \A m \in D : \A f \in [D -> V] : F[m][f] = RowBelow(t, m, f)
  BY <1>2, <1>3
<1>5. rk \in [D -> Nat] /\ (\A m \in D : rk[m] = m /\ m \in Nat) /\ \A m \in D : rk[m] <= N
  BY <1>1
<1>6. Local(D, V, rk, F)
  <2>1. ASSUME NEW m \in D, NEW f \in [D -> V], NEW h \in [D -> V], \A n \in D : rk[n] < rk[m] => f[n] = h[n]
        PROVE  F[m][f] = F[m][h]
    <3>1. RowBelow(t, m, f) = RowBelow(t, m, h)
      <4>1. CASE m = 0
        BY <4>1 DEF RowBelow
      <4>2. CASE m # 0
        <5>1. m - 1 \in D /\ m - 1 < m
          BY <4>2, <1>1
        <5>2. f[m - 1] = h[m - 1]
          BY <5>1, <2>1, <1>5
        <5> QED BY <5>2 DEF RowBelow
      <4> QED BY <4>1, <4>2
    <3> QED BY <3>1, <1>4
  <2> QED BY <2>1, <1>4, <1>5 DEF Local
<1>7. PICK f \in [D -> V] : Obeys(D, F, f)
  <2>1. <<>> \in V
    BY <1>1
  <2> QED BY <2>1, <1>0, <1>5, <1>6, RecursionExists
<1>8. \A m \in D : f[m] = RowBelow(t, m, f)
  BY <1>4, <1>7 DEF Obeys
<1>9. f = RowsBody(t, f)
  BY <1>0, <1>1, <1>7, <1>8 DEF RowsBody
<1> QED BY <1>9

\* Every row tiles the whole range.
LEMMA RowsTile ==
    ASSUME NEW t, NEW g, SettledG(t, g), NEW h \in 0 .. t.height
    PROVE  RowAt(t, g, Rows(t)[h], t.height - h, Least, Greatest)
<1>0. /\ Arena(t) /\ Shape(t, g, {t.root}) /\ t.root \in DOMAIN t.node /\ g.lev[t.root] = t.height /\ t.height \in Nat
      /\ g.lo[t.root] = Least /\ g.hi[t.root] = Greatest
  BY DEF SettledG, TreeInv, RootTop, Arena
<1>1. PICK f : f = Rows(t)
  OBVIOUS
<1>2. f = RowsBody(t, f)
  BY <1>0, <1>1, RowsIs, RowsExist
<1>3. \A i \in 0 .. t.height : f[i] = RowBelow(t, i, f)
  BY <1>2 DEF RowsBody
<1>4. PICK B : B = {i \in 0 .. t.height : ~RowAt(t, g, f[i], t.height - i, Least, Greatest)}
  OBVIOUS
<1>5. B = {}
  <2>1. SUFFICES ASSUME B # {} PROVE FALSE
    OBVIOUS
  <2>2. B \in SUBSET Nat
    BY <1>0, <1>4
  <2>3. PICK m \in B : \A y \in B : m <= y
    BY <2>1, <2>2, MinOfNats
  <2>4. m \in 0 .. t.height /\ ~RowAt(t, g, f[m], t.height - m, Least, Greatest)
    BY <1>4, <2>3
  <2>5. CASE m = 0
    <3>1. PICK c : c = <<t.root>>
      OBVIOUS
    <3>2. f[m] = c
      BY <3>1, <2>4, <2>5, <1>3 DEF RowBelow
    <3>3. c \in Seq(DOMAIN t.node) /\ Len(c) = 1 /\ c[1] = t.root
      BY ONLY <3>1, <1>0, OneSeq
    <3>4. Tiles(g.lo, g.hi, c, 1, Least, Greatest)
      <4>1. \A i \in 1 .. 1 - 1 : g.hi[c[i]] = g.lo[c[i + 1]]
        OBVIOUS
      <4>2. QED BY <4>1, <3>3, <1>0 DEF Tiles
    <3>5. t.height - m = t.height
      BY <2>5, <1>0
    <3>6. \A i \in 1 .. 1 : g.lev[c[i]] = t.height
      BY <3>3, <1>0
    <3>7. RowAt(t, g, c, t.height, Least, Greatest)
      BY <3>3, <3>4, <3>6 DEF RowAt
    <3>8. QED BY <3>2, <3>5, <3>7, <2>4
  <2>6. CASE m # 0
    <3>1. PICK i : i = m - 1
      OBVIOUS
    <3>2. i \in 0 .. t.height /\ ~(m <= i) /\ t.height - i \in Nat \ {0} /\ (t.height - i) - 1 = t.height - m
      BY <3>1, <2>4, <2>6, <1>0
    <3>3. i \notin B
      BY <3>2, <2>3
    <3>4. RowAt(t, g, f[i], t.height - i, Least, Greatest)
      BY <3>2, <3>3, <1>4
    <3>5. RowAt(t, g, KidRow(t, f[i]), (t.height - i) - 1, Least, Greatest)
      BY <3>2, <3>4, KidRowTiles
    <3>6. f[m] = KidRow(t, f[i])
      BY <2>4, <2>6, <3>1, <1>3 DEF RowBelow
    <3>7. QED BY <3>2, <3>5, <3>6, <2>4
  <2>7. QED BY <2>5, <2>6
<1>6. QED BY <1>1, <1>4, <1>5

\* The row of leaves is the chain.
LEMMA LeavesAreChain ==
    ASSUME NEW t, NEW g, SettledG(t, g), Inners(t)
    PROVE  Leaves(t) = Chain(t)
<1>0. t.root # NO_NODE /\ t.height \in Nat /\ TreeInv(t, g, {t.root}) /\ Shape(t, g, {t.root})
  BY SettledRoot DEF SettledG, TreeInv, Arena
<1>1. PICK d : d = Leaves(t)
  OBVIOUS
<1>2. d = Rows(t)[t.height]
  BY <1>0, <1>1 DEF Leaves
<1>3. t.height \in 0 .. t.height /\ t.height - t.height = 0
  BY <1>0
<1>4. RowAt(t, g, d, 0, Least, Greatest)
  BY <1>2, <1>3, RowsTile
<1>5. d \in Seq(DOMAIN t.node) /\ Tiles(g.lo, g.hi, d, Len(d), Least, Greatest)
  BY <1>4 DEF RowAt
<1>6. \A i \in 1 .. Len(d) : d[i] \in LeafSet(t)
  <2>1. SUFFICES ASSUME NEW i \in 1 .. Len(d) PROVE d[i] \in LeafSet(t)
    OBVIOUS
  <2>2. d[i] \in DOMAIN t.node /\ g.lev[d[i]] = 0
    BY <1>4, <1>5 DEF RowAt
  <2>3. t.node[d[i]].kids = <<>>
    BY <2>2, <1>0 DEF Shape, Hangs, LevelOf
  <2>4. QED BY <2>2, <2>3 DEF LeafSet
<1>7. PICK L : L = LeafSet(t)
  OBVIOUS
<1>8. d \in Seq(L)
  BY ONLY <1>5, <1>6, <1>7
<1>9. PICK c : c = Chain(t)
  OBVIOUS
<1>10. c \in Seq(L) /\ Tiles(g.lo, g.hi, c, Len(c), Least, Greatest)
  BY <1>0, <1>7, <1>9, ChainTiles
<1>11. Spread(L, g.lo, g.hi, Least, Greatest)
  BY <1>0, <1>7, LeavesSpread
<1>12. Least \in Int /\ Greatest \in Int
  BY BoundsExist
<1>13. PICK lo, hi : lo = g.lo /\ hi = g.hi
  OBVIOUS
<1>14. Tiles(lo, hi, c, Len(c), Least, Greatest) /\ Tiles(lo, hi, d, Len(d), Least, Greatest) /\ Spread(L, lo, hi, Least, Greatest)
  BY <1>5, <1>10, <1>11, <1>13
<1>15. d = c
  BY ONLY <1>8, <1>10, <1>12, <1>14, TilesUnique
<1>16. QED BY <1>1, <1>9, <1>15

\* A tree is new, or the invariant holds of it.
LEMMA TreeOKInv ==
    ASSUME NEW t, NEW c, NEW j, TreeOK(t, c, j), t # NewTree
    PROVE  /\ Inners(t)
           /\ \E g, O : TreeInv(t, g, O) /\ (t.root # NO_NODE => RootTop(t, g))
           /\ c = "idle" => \E g : SettledG(t, g)
<1>1. CASE Whole(t)
  BY <1>1 DEF Whole, SettledG
<1>2. CASE LeafJob(t, j) \/ InnerJob(t, j)
  BY <1>2 DEF LeafJob, InnerJob, RepairJob, SettledG
<1>3. CASE PathJob(t, j) /\ c # "idle"
  BY <1>3 DEF PathJob, SplittingG
<1>4. CASE LazyJob(t, j) /\ c # "idle"
  BY <1>4 DEF LazyJob, SplittingG
<1>5. CASE BulkJob(t, j) /\ c # "idle"
  BY <1>5 DEF BulkJob, LoadingG
<1>6. QED BY <1>1, <1>2, <1>3, <1>4, <1>5 DEF TreeOK

\* The new tree as the properties see it.
LEMMA NewTreeParts ==
    /\ NewTree.free = <<>> /\ NewTree.hi = 0 /\ Reachable(NewTree) = {} /\ DOMAIN NewTree.node = {}
    /\ Leaves(NewTree) = <<>> /\ Len(KeysOf(NewTree)) = 0 /\ KeysOf(NewTree) = <<>>
<1>1. NewTree.free = <<>> /\ NewTree.hi = 0
  BY DEF NewTree
<1>2. Reachable(NewTree) = {} /\ DOMAIN NewTree.node = {} /\ Leaves(NewTree) = <<>>
  BY NewTreeEmpty DEF Reachable, Leaves
<1>3. PICK c : c = Chain(NewTree)
  OBVIOUS
<1>4. c = <<>>
  BY <1>3, NewTreeChain
<1>5. [i \in DOMAIN c |-> NewTree.node[c[i]].keys] = <<>>
  BY <1>4
<1>6. Len(<<>>) = 0
  OBVIOUS
<1>7. FlattenSeq(<<>>) = <<>>
  BY <1>6 DEF FlattenSeq
<1>8. KeysOf(NewTree) = FlattenSeq([i \in DOMAIN c |-> NewTree.node[c[i]].keys])
  BY <1>3 DEF KeysOf
<1>9. KeysOf(NewTree) = <<>>
  BY <1>5, <1>7, <1>8
<1>10. QED BY <1>1, <1>2, <1>6, <1>9

\* The arena of a tree between two calls.
Accounted(t) ==
    /\ DOMAIN t.node = Reachable(t)
    /\ ToSet(t.free) = (0 .. t.hi - 1) \ Reachable(t)
    /\ IsInjective(t.free)

\* Every slot of the arena is in the tree or free.
LEMMA WholeAccounted ==
    ASSUME NEW t, Whole(t)
    PROVE  Accounted(t)
<1>1. CASE t = NewTree
  <2>1. PICK s : s = t.free
    OBVIOUS
  <2>2. s = <<>> /\ t.hi = 0 /\ Reachable(t) = {} /\ DOMAIN t.node = {}
    BY <2>1, <1>1, NewTreeParts
  <2>3. DOMAIN s = {}
    BY <2>2
  <2>4. ToSet(s) = {} /\ IsInjective(s)
    BY <2>3 DEF ToSet, IsInjective
  <2>5. 0 .. t.hi - 1 = {}
    BY <2>2
  <2>6. QED BY <2>1, <2>2, <2>4, <2>5 DEF Accounted
<1>2. CASE t # NewTree
  <2>1. PICK g : SettledG(t, g)
    BY <1>2 DEF Whole
  <2>2. t.root # NO_NODE
    BY <2>1, SettledRoot
  <2>3. Reachable(t) = DOMAIN t.node
    BY <2>1, <2>2, BelowAll DEF Reachable
  <2>4. Arena(t)
    BY <2>1 DEF SettledG, TreeInv
  <2>5. QED BY <2>3, <2>4 DEF Accounted, Arena
<1>3. QED BY <1>1, <1>2

\* The links of the leaves between two calls.
LEMMA WholeLinked ==
    ASSUME NEW t, Whole(t)
    PROVE  Chain(t) = Leaves(t) /\ BackChain(t) = Reverse(Leaves(t))
<1>1. CASE t = NewTree
  <2>1. PICK s : s = <<>>
    OBVIOUS
  <2>2. s \in Seq({}) /\ Len(s) = 0
    BY <2>1
  <2>3. Reversed({}, s, 0, Reverse(s))
    BY ONLY <2>2, ReverseProps
  <2>4. Reverse(s) = s
    <3>1. Reverse(s) \in Seq({}) /\ Len(Reverse(s)) = 0
      BY <2>3 DEF Reversed
    <3>2. QED BY ONLY <3>1, <2>1
  <2>5. QED BY <2>1, <2>4, <1>1, NewTreeParts, NewTreeChain
<1>2. CASE t # NewTree
  <2>1. PICK g : SettledG(t, g)
    BY <1>2 DEF Whole
  <2>2. Inners(t) /\ TreeInv(t, g, {t.root})
    BY <2>1, <1>2 DEF Whole, SettledG
  <2>3. QED BY <2>1, <2>2, LeavesAreChain, BackIsReverse
<1>3. QED BY <1>1, <1>2

\* The parent indices, at every time.
LEMMA ParentsRight ==
    ASSUME NEW t, NEW c, NEW j, TreeOK(t, c, j), t.root # NO_NODE
    PROVE  /\ t.node[t.root].parent = NO_NODE
           /\ \A n \in Reachable(t) : \A m \in ToSet(t.node[n].kids) : t.node[m].parent = n
<1>1. t # NewTree
  BY NewTreeEmpty
<1>2. PICK g, O : TreeInv(t, g, O) /\ RootTop(t, g)
  BY <1>1, TreeOKInv
<1>3. t.root \in DOMAIN t.node /\ t.node[t.root].parent = NO_NODE /\ Arena(t) /\ Shape(t, g, O)
  BY <1>2 DEF RootTop, TreeInv
<1>4. Reachable(t) \subseteq DOMAIN t.node
  BY <1>3, BelowInside DEF Reachable
<1>5. QED BY <1>3, <1>4, KidSet

\* A search for a stored key finds it.
LEMMA SearchFinds ==
    ASSUME NEW t, Whole(t), NEW l \in ToSet(Chain(t)), NEW i \in DOMAIN t.node[l].keys, NEW k, k = t.node[l].keys[i]
    PROVE  LeafFor(t, k) = l /\ SlotFor(t, l, k) = i
<1>1. t # NewTree
  <2>1. SUFFICES ASSUME t = NewTree PROVE FALSE
    OBVIOUS
  <2>2. PICK s : s = Chain(t)
    OBVIOUS
  <2>3. s = <<>>
    BY <2>1, <2>2, NewTreeChain
  <2>4. ToSet(s) = {}
    BY <2>3 DEF ToSet
  <2>5. QED BY <2>2, <2>4
<1>2. PICK g : SettledG(t, g)
  BY <1>1 DEF Whole
<1>3. TreeInv(t, g, {t.root}) /\ Inners(t)
  BY <1>1, <1>2 DEF Whole, SettledG
<1>4. l \in LeafSet(t)
  BY <1>3, ChainHasLeaves
<1>5. t.node[l].keys \in Seq(Key) /\ t.node[l].keys \in Seq(Int)
  BY <1>3, <1>4, LeafRun
<1>6. i \in 1 .. Len(t.node[l].keys) /\ k \in Key /\ k \in Int
  BY <1>5
<1>7. PICK m, n : m = LeafFor(t, k) /\ n = SlotFor(t, m, k)
  OBVIOUS
<1>8. PutPoint(t, g, m, n, k)
  BY <1>2, <1>6, <1>7, SearchPoint
<1>9. Has(t, k, t.node[l].vals[i])
  BY <1>4, <1>6 DEF Has
<1>10. IsAt(t, m, n, k) /\ n \in 1 .. Len(t.node[m].keys)
  BY <1>3, <1>6, <1>8, <1>9, PutPointDecides
<1>11. m \in LeafSet(t) /\ t.node[m].keys[n] = k
  BY <1>8, <1>10 DEF PutPoint, IsAt
<1>12. m = l /\ n = i
  BY <1>3, <1>4, <1>6, <1>10, <1>11, OwnKeys
<1>13. QED BY <1>7, <1>12

\* The keys in chain order ascend, and len() counts them, at every time.
LEMMA KeysCounted ==
    ASSUME NEW t, NEW c, NEW j, TreeOK(t, c, j)
    PROVE  /\ t.len = Len(KeysOf(t))
           /\ \A a, b \in DOMAIN KeysOf(t) : a < b => KeysOf(t)[a] < KeysOf(t)[b]
<1>1. CASE t = NewTree
  <2>1. PICK s : s = KeysOf(t)
    OBVIOUS
  <2>2. s = <<>> /\ Len(s) = 0 /\ t.len = 0
    BY <2>1, <1>1, NewTreeParts, NewTreeEmpty
  <2>3. DOMAIN s = {}
    BY <2>2
  <2>4. QED BY <2>1, <2>2, <2>3
<1>2. CASE t # NewTree
  <2>1. PICK g, O : TreeInv(t, g, O)
    BY <1>2, TreeOKInv
  <2>2. Inners(t)
    BY <1>2, TreeOKInv
  <2>3. PICK K, M : K = KeysOf(t) /\ M = Len(K)
    OBVIOUS
  <2>4. Listing(t, K, ValsOf(t), M)
    BY <2>1, <2>2, <2>3, KeysOfListing
  <2>5. M = t.len
    BY <2>1, <2>4, ListingLen
  <2>6. K \in Seq(Key) /\ Run(M, K, Least, Greatest)
    BY <2>4 DEF Listing
  <2>7. DOMAIN K = 1 .. M
    BY <2>6, <2>3
  <2>8. \A a, b \in 1 .. M : a < b => K[a] < K[b]
    BY <2>6 DEF Run
  <2>9. QED BY <2>3, <2>5, <2>7, <2>8
<1>3. QED BY <1>1, <1>2

\* clear and retain drop all there is.
LEMMA AllDropped ==
    ASSUME NEW t, Whole(t)
    PROVE  KeySlots(t, DOMAIN t.node) \ Dropped(t) = {}
<1>1. CASE t = NewTree
  <2>1. DOMAIN t.node = {}
    BY <1>1, NewTreeParts
  <2>2. KeySlots(t, DOMAIN t.node) = {}
    BY <2>1 DEF KeySlots
  <2>3. QED BY <2>2
<1>2. CASE t # NewTree
  <2>1. PICK g : SettledG(t, g)
    BY <1>2 DEF Whole
  <2>2. Inners(t) /\ TreeInv(t, g, {t.root}) /\ t.root # NO_NODE
    BY <2>1, <1>2, SettledRoot DEF Whole, SettledG
  <2>3. ToSet(Chain(t)) = LeafSet(t)
    BY <2>2, ChainHasLeaves
  <2>4. Reachable(t) = DOMAIN t.node
    BY <2>1, <2>2, BelowAll DEF Reachable
  <2>5. ToSet(Chain(t)) \cup {n \in Reachable(t) : t.node[n].kids # <<>>} = DOMAIN t.node
    BY <2>3, <2>4 DEF LeafSet
  <2>6. Dropped(t) = KeySlots(t, DOMAIN t.node)
    BY <2>2, <2>5 DEF Dropped
  <2>7. QED BY <2>6
<1>3. QED BY <1>1, <1>2

\* alloc_node and free_node never leak a node or hand out one in use: between
\* two calls the nodes under the root and the free list partition the arena.
THEOREM ArenaIsAccounted == Spec => []ArenaAccounted
<1>1. TreeRight => ArenaAccounted
  <2>1. SUFFICES ASSUME TreeRight, Idling PROVE Accounted(tree)
    BY DEF ArenaAccounted, Accounted
  <2>2. PICK t : t = tree
    OBVIOUS
  <2>3. TreeOK(t, "idle", job)
    BY <2>1, <2>2 DEF TreeRight, Idling
  <2>4. Whole(t)
    BY <2>3 DEF TreeOK
  <2>5. Accounted(t)
    BY <2>4, WholeAccounted
  <2>6. QED BY <2>2, <2>5
<1>2. QED BY <1>1, TreeAlwaysRight, PTL

\* The prev and next links are the row of leaves in both directions, and the
\* parent index that repairs and lazy splits climb by is right for every node,
\* in the middle of a split, a borrow or a merge too.
THEOREM TreeIsLinked == Spec => []WellLinked
<1>1. TreeRight => WellLinked
  <2>1. SUFFICES ASSUME TreeRight PROVE WellLinked
    OBVIOUS
  <2>2. PICK t : t = tree
    OBVIOUS
  <2>3. PICK c : c = pc
    OBVIOUS
  <2>4. PICK j : j = job
    OBVIOUS
  <2>5. TreeOK(t, c, j)
    BY <2>1, <2>2, <2>3, <2>4 DEF TreeRight
  <2>6. Idling => Chain(t) = Leaves(t) /\ BackChain(t) = Reverse(Leaves(t))
    <3>1. c = "idle" => Whole(t)
      BY <2>5, TreeOKParts
    <3>2. QED BY <3>1, <2>3, WholeLinked DEF Idling
  <2>7. t.root # NO_NODE =>
           /\ t.node[t.root].parent = NO_NODE
           /\ \A n \in Reachable(t) : \A m \in ToSet(t.node[n].kids) : t.node[m].parent = n
    BY <2>5, ParentsRight
  <2>8. QED BY <2>2, <2>6, <2>7 DEF WellLinked
<1>2. QED BY <1>1, TreeAlwaysRight, PTL

\* No split, borrow or merge moves a separator past an entry: a search finds
\* every stored key, iteration gives the keys in ascending order, and len()
\* counts them.
THEOREM EntriesAreFound == Spec => []EveryEntryFound
<1>1. TreeRight => EveryEntryFound
  <2>1. SUFFICES ASSUME TreeRight PROVE EveryEntryFound
    OBVIOUS
  <2>2. PICK t : t = tree
    OBVIOUS
  <2>3. PICK c : c = pc
    OBVIOUS
  <2>4. PICK j : j = job
    OBVIOUS
  <2>5. TreeOK(t, c, j)
    BY <2>1, <2>2, <2>3, <2>4 DEF TreeRight
  <2>6. ASSUME Idling, NEW l \in ToSet(Chain(t)), NEW i \in DOMAIN t.node[l].keys
        PROVE  LET k == t.node[l].keys[i] IN LeafFor(t, k) = l /\ SlotFor(t, l, k) = i
    <3>1. Whole(t)
      BY <2>3, <2>5, <2>6, TreeOKParts DEF Idling
    <3>2. QED BY <3>1, <2>6, SearchFinds
  <2>7. /\ t.len = Len(KeysOf(t))
        /\ \A a, b \in DOMAIN KeysOf(t) : a < b => KeysOf(t)[a] < KeysOf(t)[b]
    BY <2>5, KeysCounted
  <2>8. QED BY <2>2, <2>6, <2>7 DEF EveryEntryFound
<1>2. QED BY <1>1, TreeAlwaysRight, PTL

\* clear, and the retain that leaves nothing and clears, drop every key of the
\* nodes they give up: the walk over chain and internal nodes reaches them all.
\* shrink_to_fit does not, so it is not among the calls.
THEOREM NothingUndropped ==
    ASSUME "shrink_to_fit" \notin Calls
    PROVE  Spec => []EverythingDropped
<1>1. Init => EverythingDropped
  BY DEF Init, EverythingDropped
<1>2. TreeRight /\ EverythingDropped /\ [Next]_vars => EverythingDropped'
  <2>1. SUFFICES ASSUME TreeRight, EverythingDropped, [Next]_vars PROVE undropped' = {}
    BY DEF EverythingDropped
  <2>2. PICK t : t = tree
    OBVIOUS
  <2>3. ASSUME Clear \/ RetainEnd PROVE undropped' = {}
    <3>1. pc \in {"idle", "retain"}
      BY <2>3 DEF Clear, RetainEnd, Idle
    <3>2. Whole(t)
      BY <3>1, <2>1, <2>2, TreeOKParts DEF TreeRight
    <3>3. KeySlots(t, DOMAIN t.node) \ Dropped(t) = {}
      BY <3>2, AllDropped
    <3>4. Release(tree) \/ undropped' = {}
      BY <2>3 DEF Clear, RetainEnd
    <3>5. QED BY <3>3, <3>4, <2>2 DEF Release
  <2>4. ~ShrinkToFit
    BY DEF ShrinkToFit, Idle
  <2>5. CASE Next
    <3>1. Clear \/ RetainEnd \/ undropped' = {}
      BY ONLY <2>4, <2>5 DEF Next, Call, Work
    <3>2. QED BY <3>1, <2>3
  <2>6. CASE UNCHANGED vars
    BY <2>1, <2>6 DEF vars, EverythingDropped
  <2>7. QED BY <2>1, <2>5, <2>6
<1>3. QED BY <1>1, <1>2, TreeAlwaysRight, PTL DEF Spec

\* What an entry consists of.
LEMMA HasTypes ==
    ASSUME NEW t, NEW g, NEW O, TreeInv(t, g, O), NEW k, NEW v, Has(t, k, v)
    PROVE  k \in Key /\ v \in Value
<1>0. PICK l \in LeafSet(t) : \E i \in 1 .. Len(t.node[l].keys) : t.node[l].keys[i] = k /\ t.node[l].vals[i] = v
  BY DEF Has
<1>1. PICK i \in 1 .. Len(t.node[l].keys) : t.node[l].keys[i] = k /\ t.node[l].vals[i] = v
  BY <1>0
<1>2. t.node[l].keys \in Seq(Key) /\ t.node[l].vals \in Seq(Value) /\ Len(t.node[l].vals) = Len(t.node[l].keys)
  BY LeafRun
<1>3. i \in 1 .. Len(t.node[l].vals)
  BY <1>2
<1>4. QED BY <1>1, <1>2, <1>3

\* Where Stored looks for k.
Holders(t, k) == {n \in DOMAIN t.node : t.node[n].kids = <<>> /\ k \in ToSet(t.node[n].keys)}
Holder(t, k) == CHOOSE n \in Holders(t, k) : TRUE
HolderSlot(t, l, k) == SelectInSeq(t.node[l].keys, LAMBDA x : x = k)

\* What Stored computes.
LEMMA StoredIs ==
    ASSUME NEW t, NEW k \in Key
    PROVE  Stored(t)[k] = IF Holders(t, k) = {} THEN NONE
                          ELSE t.node[Holder(t, k)].vals[HolderSlot(t, Holder(t, k), k)]
  BY DEF Stored, Holders, Holder, HolderSlot

\* Stored answers as the entries do.
LEMMA StoredAnswers ==
    ASSUME NEW t, NEW c, NEW j, TreeOK(t, c, j), NEW k \in Key
    PROVE  Answer(t, k, Stored(t)[k])
<1>1. CASE t = NewTree
  <2>1. Holders(t, k) = {}
    BY <1>1, NewTreeParts DEF Holders
  <2>2. Stored(t)[k] = NONE
    BY <2>1, StoredIs
  <2>3. QED BY <2>2, <1>1, NewTreeEmpty DEF Answer
<1>2. CASE t # NewTree
  <2>1. PICK g, O : TreeInv(t, g, O)
    BY <1>2, TreeOKInv
  <2>2. \A n : n \in Holders(t, k) <=> n \in LeafSet(t) /\ k \in ToSet(t.node[n].keys)
    BY DEF Holders, LeafSet
  <2>3. ASSUME NEW n \in LeafSet(t)
        PROVE  /\ t.node[n].keys \in Seq(Key)
               /\ k \in ToSet(t.node[n].keys) <=> \E i \in 1 .. Len(t.node[n].keys) : t.node[n].keys[i] = k
    <3>1. PICK ks \in Seq(Key) : ks = t.node[n].keys
      BY <2>1, LeafRun
    <3>2. k \in ToSet(ks) <=> \E i \in 1 .. Len(ks) : ks[i] = k
      BY DEF ToSet
    <3>3. QED BY <3>1, <3>2
  <2>4. CASE Holders(t, k) = {}
    <3>1. ASSUME NEW v, Has(t, k, v) PROVE FALSE
      <4>1. PICK l \in LeafSet(t) : \E i \in 1 .. Len(t.node[l].keys) : t.node[l].keys[i] = k
        BY <3>1 DEF Has
      <4>2. l \in Holders(t, k)
        BY <4>1, <2>2, <2>3
      <4>3. QED BY <4>2, <2>4
    <3>2. Stored(t)[k] = NONE
      BY <2>4, StoredIs
    <3>3. QED BY <3>1, <3>2 DEF Answer
  <2>5. CASE Holders(t, k) # {}
    <3>1. PICK l : l = Holder(t, k)
      OBVIOUS
    <3>2. l \in Holders(t, k)
      BY <3>1, <2>5 DEF Holder
    <3>3. l \in LeafSet(t) /\ k \in ToSet(t.node[l].keys)
      BY <3>2, <2>2
    <3>4. PICK s : s = HolderSlot(t, l, k)
      OBVIOUS
    <3>5. s \in 1 .. Len(t.node[l].keys) /\ t.node[l].keys[s] = k
      <4>1. s = SelectInSeq(t.node[l].keys, LAMBDA x : x = k)
        BY <3>4 DEF HolderSlot
      <4>2. t.node[l].keys \in Seq(Key) /\ \E i \in 1 .. Len(t.node[l].keys) : t.node[l].keys[i] = k
        BY <3>3, <2>3
      <4>3. QED BY <4>1, <4>2, SlotOfElement
    <3>6. Has(t, k, t.node[l].vals[s])
      BY <3>3, <3>5 DEF Has
    <3>7. Stored(t)[k] = t.node[l].vals[s]
      BY <2>5, <3>1, <3>4, StoredIs
    <3>8. QED BY <3>6, <3>7 DEF Answer
  <2>6. QED BY <2>4, <2>5
<1>3. QED BY <1>1, <1>2

\* d is the dictionary of tree t.
DictIs(t, d) == /\ d = [x \in Key |-> d[x]]
                /\ \A k \in Key : \A r : Answer(t, k, r) <=> r = d[k]
                /\ \A k, v : Has(t, k, v) => k \in Key /\ v \in Value

\* Stored is the dictionary of the entries.
LEMMA StoredIsDict ==
    ASSUME NEW t, NEW c, NEW j, TreeOK(t, c, j), NONE \notin Value, NEW d, d = Stored(t)
    PROVE  DictIs(t, d)
<1>1. \A k, v, w : Has(t, k, v) /\ Has(t, k, w) => v = w
  <2>1. CASE t = NewTree
    BY <2>1, NewTreeEmpty
  <2>2. CASE t # NewTree
    <3>1. PICK g, O : TreeInv(t, g, O)
      BY <2>2, TreeOKInv
    <3>2. QED BY <3>1, OneValue
  <2>3. QED BY <2>1, <2>2
<1>2. \A k, v : Has(t, k, v) => k \in Key /\ v \in Value
  <2>1. CASE t = NewTree
    BY <2>1, NewTreeEmpty
  <2>2. CASE t # NewTree
    <3>1. PICK g, O : TreeInv(t, g, O)
      BY <2>2, TreeOKInv
    <3>2. QED BY <3>1, HasTypes
  <2>3. QED BY <2>1, <2>2
<1>3. d = [x \in Key |-> d[x]]
  BY DEF Stored
<1>4. ASSUME NEW k \in Key, NEW r PROVE Answer(t, k, r) <=> r = d[k]
  <2>1. Answer(t, k, d[k])
    BY StoredAnswers
  <2>2. QED BY <2>1, <1>1 DEF Answer
<1>5. QED BY <1>2, <1>3, <1>4 DEF DictIs

\* A dictionary that differs from another one in k.
DictSet(d, e, k, v) == e = [d EXCEPT ![k] = v]

\* How the dictionary follows the entries.
LEMMA DictSame ==
    ASSUME NEW t, NEW u, NEW d, NEW e, DictIs(t, d), DictIs(u, e), SameEntries(t, u)
    PROVE  e = d
<1>1. \A k, r : Answer(t, k, r) <=> Answer(u, k, r)
  BY DEF Answer, SameEntries
<1>2. ASSUME NEW k \in Key PROVE e[k] = d[k]
  BY <1>1 DEF DictIs
<1>3. d = [x \in Key |-> d[x]] /\ e = [x \in Key |-> e[x]]
  BY DEF DictIs
<1>4. QED BY <1>2, <1>3

\* A put changes one value.
LEMMA DictPut ==
    ASSUME NEW t, NEW u, NEW d, NEW e, DictIs(t, d), DictIs(u, e), NEW k \in Key, NEW v, EntryPut(t, u, k, v)
    PROVE  DictSet(d, e, k, v)
<1>1. \A x \in Key : \A r : x # k => (Answer(t, x, r) <=> Answer(u, x, r))
  BY DEF Answer, EntryPut
<1>2. Answer(u, k, v)
  BY DEF Answer, EntryPut
<1>3. \A x \in Key : e[x] = IF x = k THEN v ELSE d[x]
  BY <1>1, <1>2 DEF DictIs
<1>4. d = [x \in Key |-> d[x]] /\ e = [x \in Key |-> e[x]]
  BY DEF DictIs
<1>5. QED BY <1>3, <1>4 DEF DictSet

\* A removal takes one value away.
LEMMA DictGone ==
    ASSUME NEW t, NEW u, NEW d, NEW e, DictIs(t, d), DictIs(u, e), NEW k \in Key, EntryGone(t, u, k)
    PROVE  DictSet(d, e, k, NONE)
<1>1. \A x \in Key : \A r : x # k => (Answer(t, x, r) <=> Answer(u, x, r))
  BY DEF Answer, EntryGone
<1>2. Answer(u, k, NONE)
  BY DEF Answer, EntryGone
<1>3. \A x \in Key : e[x] = IF x = k THEN NONE ELSE d[x]
  BY <1>1, <1>2 DEF DictIs
<1>4. d = [x \in Key |-> d[x]] /\ e = [x \in Key |-> e[x]]
  BY DEF DictIs
<1>5. QED BY <1>3, <1>4 DEF DictSet

\* Without entries the dictionary is empty.
LEMMA DictNone ==
    ASSUME NEW u, NEW e, DictIs(u, e), \A k, v : ~Has(u, k, v)
    PROVE  e = [x \in Key |-> NONE]
<1>1. \A k : Answer(u, k, NONE)
  BY DEF Answer
<1>2. \A x \in Key : e[x] = NONE
  BY <1>1 DEF DictIs
<1>3. e = [x \in Key |-> e[x]]
  BY DEF DictIs
<1>4. QED BY <1>2, <1>3

\* The calls of the abstract map, from dictionary d to e, with answer r before
\* and s after.
MapCall(d, e, r, s) ==
    \/ \E k \in Key : s = d[k] /\ e = d
    \/ \E k \in Key : s = d[k] /\ DictSet(d, e, k, NONE)
    \/ \E k \in Key, v \in Value : s = d[k] /\ DictSet(d, e, k, v)
    \/ \E k \in Key, v \in Value : \/ d[k] = NONE /\ s = NONE /\ DictSet(d, e, k, v)
                                   \/ d[k] # NONE /\ s = v /\ e = d
    \/ e = [k \in Key |-> NONE] /\ s = r
MapStep(d, e, r, s, p, q) ==
    \/ ~p /\ ~q /\ MapCall(d, e, r, s)
    \/ p # q /\ e = d /\ s = r
    \/ p = q /\ e = d /\ s = r
    \/ p /\ q /\ s = r /\ \E k \in Key : DictSet(d, e, k, NONE)

\* A call of the tree is one of the map.
LEMMA ServesMap ==
    ASSUME NEW t, NEW u, NEW d, NEW e, DictIs(t, d), DictIs(u, e), NEW r, NEW s, Serves(t, u, r, s),
           NONE \notin Value, Key # {}, "from_iter" \notin Calls
    PROVE  MapCall(d, e, r, s)
<1>0. u = t => e = d
  <2>1. u = t => SameEntries(t, u)
    BY DEF SameEntries
  <2>2. QED BY <2>1, DictSame
<1>1. CASE Reads(t, u, s)
  <2>1. PICK k \in Key : u = t /\ Answer(t, k, s)
    BY <1>1 DEF Reads
  <2>2. s = d[k] /\ e = d
    BY <2>1, <1>0 DEF DictIs
  <2>3. QED BY <2>2 DEF MapCall
<1>2. CASE Puts(t, u, s)
  <2>1. PICK k \in Key, v \in Value : EntryPut(t, u, k, v) /\ Answer(t, k, s)
    BY <1>2 DEF Puts
  <2>2. s = d[k] /\ DictSet(d, e, k, v)
    BY <2>1, DictPut DEF DictIs
  <2>3. QED BY <2>2 DEF MapCall
<1>3. CASE Tries(t, u, s)
  <2>1. PICK k \in Key, v \in Value : \/ EntryPut(t, u, k, v) /\ s = NONE /\ \A w : ~Has(t, k, w)
                                      \/ u = t /\ s = v /\ \E w : Has(t, k, w)
    BY <1>3 DEF Tries
  <2>2. ASSUME EntryPut(t, u, k, v), s = NONE, \A w : ~Has(t, k, w)
        PROVE  d[k] = NONE /\ s = NONE /\ DictSet(d, e, k, v)
    <3>1. Answer(t, k, NONE)
      BY <2>2 DEF Answer
    <3>2. d[k] = NONE
      BY <3>1 DEF DictIs
    <3>3. QED BY <3>2, <2>2, DictPut
  <2>3. ASSUME u = t, s = v, NEW w, Has(t, k, w)
        PROVE  d[k] # NONE /\ s = v /\ e = d
    <3>1. Answer(t, k, w) /\ w \in Value
      BY <2>3 DEF Answer, DictIs
    <3>2. d[k] = w
      BY <3>1 DEF DictIs
    <3>3. QED BY <3>1, <3>2, <2>3, <1>0
  <2>4. QED BY <2>1, <2>2, <2>3 DEF MapCall
<1>4. ASSUME NEW k \in Key, EntryGone(t, u, k), Has(t, k, s) PROVE MapCall(d, e, r, s)
  <2>1. Answer(t, k, s)
    BY <1>4 DEF Answer
  <2>2. s = d[k] /\ DictSet(d, e, k, NONE)
    BY <2>1, <1>4, DictGone DEF DictIs
  <2>3. QED BY <2>2 DEF MapCall
<1>5. ASSUME NEW k \in Key, u = t, s = NONE, \A v : ~Has(t, k, v) PROVE MapCall(d, e, r, s)
  <2>1. Answer(t, k, NONE)
    BY <1>5 DEF Answer
  <2>2. s = d[k] /\ e = d
    BY <2>1, <1>0, <1>5 DEF DictIs
  <2>3. QED BY <2>2 DEF MapCall
<1>6. CASE Takes(t, u, s)
  BY <1>4, <1>5, <1>6 DEF Takes, Removes
<1>7. CASE Pops(t, u, s)
  BY <1>4, <1>5, <1>7 DEF Pops
<1>8. CASE Empties(t, u, r, s)
  <2>1. (\A k, v : ~Has(u, k, v)) /\ s = r
    BY <1>8 DEF Empties
  <2>2. e = [x \in Key |-> NONE]
    BY <2>1, DictNone
  <2>3. QED BY <2>1, <2>2 DEF MapCall
<1>9. CASE Fills(t, u, r, s)
  BY <1>9 DEF Fills
<1>10. QED BY <1>1, <1>2, <1>3, <1>6, <1>7, <1>8, <1>9 DEF Serves

\* p says whether a call at c is a retain.
RetainBit(p, c) == p = (c = "retain")

\* A step of the tree is a step of the map.
LEMMA ChangeMaps ==
    ASSUME NEW t, NEW u, NEW d, NEW e, DictIs(t, d), DictIs(u, e), NEW c, NEW x, NEW r, NEW s, Change(t, u, c, x, r, s),
           NONE \notin Value, Key # {}, "from_iter" \notin Calls, NEW p, NEW q,
           RetainBit(p, c), RetainBit(q, x)
    PROVE  MapStep(d, e, r, s, p, q)
<1>0. p = (c = "retain") /\ q = (x = "retain")
  BY DEF RetainBit
<1>1. CASE SameEntries(t, u) /\ s = r
  BY <1>0, <1>1, DictSame DEF MapStep
<1>2. CASE c # "retain" /\ x # "retain" /\ Serves(t, u, r, s)
  BY <1>0, <1>2, ServesMap DEF MapStep
<1>3. CASE c = "retain" /\ x = "retain" /\ s = r /\ \E k \in Key : EntryGone(t, u, k)
  BY <1>0, <1>3, DictGone DEF MapStep
<1>4. QED BY <1>1, <1>2, <1>3 DEF Change

\* A FlatBTree answers every call as a dictionary would, by order and by scan,
\* through split cascades, borrows, merges, retain and the reload of
\* shrink_to_fit, and changes only the entry the call is about.  from_iter makes
\* another map, which is no call of MapSpec, so it is not among the calls.
THEOREM RefinesMap ==
    ASSUME NONE \notin Value, Key # {}, "from_iter" \notin Calls
    PROVE  Spec => ImplementsMap
<1>1. Init => Map!Init
  <2>1. SUFFICES ASSUME Init PROVE Map!Init
    OBVIOUS
  <2>2. PICK t : t = tree
    OBVIOUS
  <2>3. t = NewTree /\ TreeOK(t, "idle", job) /\ pc = "idle" /\ ret = NONE
    BY <2>1, <2>2, InitOK DEF Init
  <2>4. PICK d : d = Stored(t)
    OBVIOUS
  <2>5. DictIs(t, d)
    BY <2>3, <2>4, StoredIsDict
  <2>6. d = [x \in Key |-> NONE]
    BY <2>3, <2>5, DictNone, NewTreeEmpty
  <2>7. QED BY <2>2, <2>3, <2>4, <2>6 DEF Map!Init
<1>2. TreeRight /\ TreeRight' /\ [Next]_vars => [Map!Next]_Map!vars
  <2>1. SUFFICES ASSUME TreeRight, TreeRight', [Next]_vars PROVE [Map!Next]_Map!vars
    OBVIOUS
  <2>2. CASE Next
    <3>1. PICK t : t = tree
      OBVIOUS
    <3>2. PICK u : u = tree'
      OBVIOUS
    <3>3. PICK c : c = pc
      OBVIOUS
    <3>4. PICK x : x = pc'
      OBVIOUS
    <3>5. PICK j : j = job
      OBVIOUS
    <3>6. PICK y : y = job'
      OBVIOUS
    <3>7. PICK r : r = ret
      OBVIOUS
    <3>8. PICK s : s = ret'
      OBVIOUS
    <3>9. TreeOK(t, c, j) /\ TreeOK(u, x, y)
      BY <2>1, <3>1, <3>2, <3>3, <3>4, <3>5, <3>6 DEF TreeRight
    <3>10. StepOK(t, u, c, x, y, r, s)
      BY ONLY <2>2, <3>1, <3>2, <3>3, <3>4, <3>5, <3>6, <3>7, <3>8, <3>9, EveryStep
    <3>11. Change(t, u, c, x, r, s)
      BY <3>10 DEF StepOK
    <3>12. PICK d : d = Stored(t)
      OBVIOUS
    <3>13. PICK e : e = Stored(u)
      OBVIOUS
    <3>14. DictIs(t, d) /\ DictIs(u, e)
      BY <3>9, <3>12, <3>13, StoredIsDict
    <3>15. PICK p \in BOOLEAN : p = (c = "retain")
      OBVIOUS
    <3>16. PICK q \in BOOLEAN : q = (x = "retain")
      OBVIOUS
    <3>17. MapStep(d, e, r, s, p, q)
      <4>1. RetainBit(p, c) /\ RetainBit(q, x)
        BY <3>15, <3>16 DEF RetainBit
      <4>2. QED BY <3>11, <3>14, <4>1, ChangeMaps
    <3>18. d = Stored(tree) /\ e = Stored(tree)' /\ p = (pc = "retain") /\ q = (pc = "retain")'
      BY <3>1, <3>2, <3>3, <3>4, <3>12, <3>13, <3>15, <3>16
    <3>19. CASE ~p /\ ~q /\ MapCall(d, e, r, s)
      BY ONLY <3>18, <3>19, <3>7, <3>8 DEF MapCall, DictSet, Map!Next, Map!Call, Map!Get, Map!Remove, Map!Insert, Map!TryInsert, Map!Clear
    <3>20. CASE p # q /\ e = d /\ s = r
      BY ONLY <3>15, <3>16, <3>18, <3>20, <3>7, <3>8 DEF Map!Next, Map!Retain
    <3>21. CASE p = q /\ e = d /\ s = r
      BY ONLY <3>18, <3>21, <3>7, <3>8 DEF Map!vars
    <3>22. CASE p /\ q /\ s = r /\ \E k \in Key : DictSet(d, e, k, NONE)
      BY ONLY <3>18, <3>22, <3>7, <3>8 DEF DictSet, Map!Next, Map!Discard
    <3>23. QED BY <3>17, <3>19, <3>20, <3>21, <3>22 DEF MapStep
  <2>3. CASE UNCHANGED vars
    BY <2>3 DEF vars, Map!vars
  <2>4. QED BY <2>1, <2>2, <2>3
<1>3. QED BY <1>1, <1>2, TreeAlwaysRight, PTL DEF Spec, ImplementsMap, Map!Spec
==============================================================================
