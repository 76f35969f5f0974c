---------------------------- MODULE BTreeSurgery ----------------------------
(***************************************************************************)
(* Operations of FlatBTree on two maps: clone, append and split_off.  Most *)
(* of them move whole subtrees from one arena to another, node by node,    *)
(* and repair the edge along which a tree was cut.                         *)
(*                                                                         *)
(* `tree` of FlatBTree is the map the calls are made on, `other` the       *)
(* second one: the argument of append and the result of split_off.         *)
(***************************************************************************)
EXTENDS FlatBTree

CONSTANTS
    Cutoffs,        \* bound: cutoffs of split_off_with_cutoff, in tenths
    MaxSurgeries    \* bound: the operations on both maps in one behaviour

VARIABLES
    other,
    surgeries   \* how many of them there have been

pairVars == <<vars, other, surgeries>>

-----------------------------------------------------------------------------
(* Copying subtrees.                                                       *)

\* The nodes at and below n: a node before, or behind, the nodes below it.
Preorder(t, n) ==
    LET p[m \in DOMAIN t.node] ==
          <<m>> \o FlattenSeq([i \in DOMAIN t.node[m].kids |-> p[t.node[m].kids[i]]])
    IN  p[n]
Postorder(t, n) ==
    LET p[m \in DOMAIN t.node] ==
          Append(FlattenSeq([i \in DOMAIN t.node[m].kids |-> p[t.node[m].kids[i]]]), m)
    IN  p[n]

LeavesBelow(t, n) == SelectSeq(Preorder(t, n), LAMBDA m : t.node[m].kids = <<>>)

\* What m calls of alloc_node do to arena d, and the indices they return.
AllocMany(d, m) ==
    LET f == IF m < Len(d.free) THEN m ELSE Len(d.free)
    IN  [arena |-> [d EXCEPT !.free = SubSeq(@, f + 1, Len(@)), !.hi = @ + m - f],
         idx   |-> SubSeq(d.free, 1, f) \o [i \in 1 .. m - f |-> d.hi + i - 1]]

\* The copies of the nodes in `from`, the subtree n of t in preorder, under the
\* indices idx.  Their leaves are chained in order behind leaf tail.
Copies(t, n, from, idx, tail) ==
    LET to(m) == idx[SelectInSeq(from, LAMBDA x : x = m)]
        ls    == SelectSeq(from, LAMBDA m : t.node[m].kids = <<>>)
        at(m) == SelectInSeq(ls, LAMBDA x : x = m)
        up(m) == IF m = n THEN NO_NODE ELSE to(t.node[m].parent)
        copy(m) ==
          IF t.node[m].kids = <<>>
          THEN Leaf(t.node[m].keys, t.node[m].vals, up(m),
                    IF at(m) = 1 THEN tail ELSE to(ls[at(m) - 1]),
                    IF at(m) = Len(ls) THEN NO_NODE ELSE to(ls[at(m) + 1]))
          ELSE Internal(t.node[m].keys,
                        [i \in DOMAIN t.node[m].kids |-> to(t.node[m].kids[i])], up(m))
    IN  [i \in ToSet(idx) |-> copy(from[SelectInSeq(idx, LAMBDA x : x = i)])]

\* Arena d with the nodes `new` in it, the first of which has index root, and
\* their leaves in the chain behind leaf tail.
Planted(d, new, root, tail) ==
    LET leaves == {i \in DOMAIN new : new[i].kids = <<>>}
        first == CHOOSE i \in leaves : new[i].prev = tail
        d1 == [d EXCEPT !.node = new @@ @]
    IN  [arena |-> IF tail = NO_NODE THEN d1 ELSE [d1 EXCEPT !.node[tail].next = first],
         root  |-> root, first |-> first,
         last  |-> CHOOSE i \in leaves : new[i].next = NO_NODE]

\* clone_subtree_into: subtree n of t is copied into arena d, a node before
\* its children.
CloneSubtreeInto(t, n, d, tail) ==
    LET from == Preorder(t, n)
        a    == AllocMany(d, Len(from))
    IN  Planted(a.arena, Copies(t, n, from, a.idx, tail), a.idx[1], tail)

\* Mutant: the source nodes are not freed.
MovedNoFree(s, n, c) ==
    [from |-> s.from, to |-> c.arena, last |-> c.last, roots |-> Append(s.roots, c.root),
     first |-> IF s.last = NO_NODE THEN c.first ELSE s.first]

\* What is left to do when c is the copy of subtree n: its nodes are freed,
\* children first, and the chain goes on behind its last leaf.
Moved(s, n, c) ==
    [from  |-> FoldLeft(Free, s.from, Postorder(s.from, n)),
     to    |-> c.arena,
     first |-> IF s.last = NO_NODE THEN c.first ELSE s.first,
     last  |-> c.last,
     roots |-> Append(s.roots, c.root)]

\* deep_copy_subtree: subtree n moves from arena s.from to arena s.to; s.first
\* and s.last are the chain of copied leaves, s.roots the subtrees copied.
DeepCopySubtree(s, n) == Moved(s, n, CloneSubtreeInto(s.from, n, s.to, s.last))

DeepCopyAll(from, to, first, last, ns) ==
    FoldLeft(DeepCopySubtree,
             [from |-> from, to |-> to, first |-> first, last |-> last, roots |-> <<>>], ns)

\* clone: the arena byte for byte, free list included, and every key and value
\* in it cloned; the clone of an empty tree starts with a new arena.
CloneTree(t) == IF t.root = NO_NODE THEN NewTree ELSE t

-----------------------------------------------------------------------------
(* append.                                                                 *)

\* Mutant: of two equal keys the one of a is kept.
MergedSelfWins(a, b) ==
    LET m[i \in 1 .. Len(a) + 1, j \in 1 .. Len(b) + 1] ==
          IF i > Len(a) THEN SubSeq(b, j, Len(b))
          ELSE IF j > Len(b) THEN SubSeq(a, i, Len(a))
          ELSE IF a[i][1] < b[j][1] THEN <<a[i]>> \o m[i + 1, j]
          ELSE IF a[i][1] > b[j][1] THEN <<b[j]>> \o m[i, j + 1]
          ELSE <<a[i]>> \o m[i + 1, j + 1]
    IN  m[1, 1]

\* The merge loop of append_drain: of two equal keys the one of b is kept.
MergedEntries(a, b) ==
    LET m[i \in 1 .. Len(a) + 1, j \in 1 .. Len(b) + 1] ==
          IF i > Len(a) THEN SubSeq(b, j, Len(b))
          ELSE IF j > Len(b) THEN SubSeq(a, i, Len(a))
          ELSE IF a[i][1] < b[j][1] THEN <<a[i]>> \o m[i + 1, j]
          ELSE IF a[i][1] > b[j][1] THEN <<b[j]>> \o m[i, j + 1]
          ELSE <<b[j]>> \o m[i + 1, j + 1]
    IN  m[1, 1]

\* What drain yields.
EntriesOf(t) == LET c == Chain(t) IN FlattenSeq([i \in DOMAIN c |->
    [j \in DOMAIN t.node[c[i]].keys |-> <<t.node[c[i]].keys[j], t.node[c[i]].vals[j]>>]])

\* bulk_load, all phases.
BulkLoad(es) ==
    LET leaves == BulkStart([i \in DOMAIN es |-> es[i][1]], [i \in DOMAIN es |-> es[i][2]])
        raised(b) == IF Len(b.row) = 1 THEN b ELSE BulkRow(b)
        b[h \in 0 .. Len(leaves.row)] ==
          IF h = 0 THEN leaves ELSE LET below == b[h - 1] IN raised(below)
        top == b[Len(leaves.row)]
    IN  [top.tree EXCEPT !.root = top.row[1]]

AppendDrain(s, o) ==
    tree' = BulkLoad(MergedEntries(EntriesOf(s), EntriesOf(o))) /\ other' = NewTree /\ Done

\* The nodes from the root down the right edge.
RightSpine(t) ==
    LET d[h \in 0 .. t.height] ==
          IF h = 0 THEN <<t.root>>
          ELSE LET up == d[h - 1] IN Append(up, Last(t.node[Last(up)].kids))
    IN  d[t.height]

\* graft_combine_roots: subtree r, of height h, becomes the last child of the
\* node one level above it on the right edge of t, or the right half of a new
\* root.  A full node is split, and the split travels upward.
GraftCombineRoots(t, r, sep, h) ==
    LET sp   == RightSpine(t)
        down == t.height - h - 1
        path == [i \in 1 .. down |-> <<sp[i], Len(t.node[sp[i]].kids)>>]
        cur  == sp[down + 1]
        i    == Len(t.node[cur].kids)
    IN  \/ t.height = h /\ tree' = NewRoot(t, t.root, sep, r) /\ Done
        \/ /\ t.height > h /\ Len(t.node[cur].keys) < InternalCap
           /\ tree' = InternalInsertAt(t, cur, i, sep, r) /\ Done
        \/ /\ t.height > h /\ Len(t.node[cur].keys) = InternalCap
           /\ tree' = InternalSplitAndInsert(t, cur, i, sep, r)
           /\ pc' = "propagate_split"
           /\ job' = [path |-> path, key |-> Promoted(t, cur, i, sep), new |-> Fresh(t)]

\* Mutant: the last key of the leaf.
SlotLast(leaf) == {Last(leaf.keys)}

\* The key in slot 0 of a leaf.  In a leaf that retain has emptied it is one
\* that has been dropped: any key may be read.
SlotZero(leaf) == IF leaf.keys = <<>> THEN Key ELSE {Head(leaf.keys)}

\* append_graft_disjoint: o is copied behind the last leaf of s, whose keys are
\* all smaller.
AppendGraftDisjoint(s, o) ==
    LET c == CloneSubtreeInto(o, o.root, s, s.last)
        t == [c.arena EXCEPT !.last = c.last, !.len = @ + o.len]
    IN  /\ \E sep \in SlotZero(t.node[c.first]) : GraftCombineRoots(t, c.root, sep, o.height)
        /\ other' = NewTree

\* append_graft falls back to a rebuild when o is the taller tree.
AppendGraft(s, o) ==
    \/ s.height >= o.height /\ AppendGraftDisjoint(s, o)
    \/ s.height < o.height /\ AppendDrain(s, o)

LastKey(t) == Last(t.node[NonEmptyOf(t, BackChain(t))].keys)
FirstKey(t) == Head(t.node[NonEmptyOf(t, Chain(t))].keys)

\* The early returns of every variant: nothing to append, or nothing to
\* append to.
AppendTrivially ==
    \/ other.len = 0 /\ Done /\ UNCHANGED <<tree, other>>
    \/ other.len > 0 /\ tree.len = 0 /\ tree' = other /\ other' = tree /\ Done

AppendTrees ==
    /\ Idle("append")
    /\ \/ AppendTrivially
       \/ /\ other.len > 0 /\ tree.len > 0
          /\ LET before == LastKey(tree) < FirstKey(other)
                 behind == ~before /\ LastKey(other) < FirstKey(tree)
             IN  \/ before /\ AppendGraft(tree, other)
                 \/ behind /\ AppendGraft(other, tree)
                 \/ ~before /\ ~behind /\ AppendDrain(tree, other)
    /\ UNCHANGED ret

\* append_concat asks for all keys of `other` to be larger.
AppendConcat ==
    /\ Idle("append_concat") /\ other.len > 0 /\ tree.len > 0 /\ LastKey(tree) < FirstKey(other)
    /\ tree' = BulkLoad(EntriesOf(tree) \o EntriesOf(other)) /\ other' = NewTree
    /\ Done /\ UNCHANGED ret

-----------------------------------------------------------------------------
(* split_off.                                                              *)

\* estimate_right_fraction: the entries right of `at`, and all entries, if
\* every child on the way down is full; at the leaf they are counted.  An
\* equal separator ends the descent: the whole child behind it is right.
EstimateRight(t, at) ==
    LET full == InternalCap + 1
        below(left, n, size, i) == [left |-> left, right |-> (Len(t.node[n].kids) - i) * size]
        from[n \in DOMAIN t.node, size \in 0 .. LeafCap * full ^ t.height] ==
          LET ks == t.node[n].keys
              i  == ChildForLeft(ks, at)
              b  == below((i - 1) * size, n, size, i)
              c  == from[t.node[n].kids[i], IF size < full THEN 1 ELSE size \div full]
          IN  IF t.node[n].kids = <<>> THEN [left |-> i - 1, right |-> Len(ks) - i + 1]
              ELSE IF i <= Len(ks) /\ ks[i] = at THEN below(i * size, n, size, i)
              ELSE [left |-> b.left + c.left, right |-> b.right + c.right]
    IN  from[t.root, LeafCap * full ^ (IF t.height = 0 THEN 0 ELSE t.height - 1)]

\* The edge of a tree: the nodes from root n down to the first or last leaf.
Edge(t, n, rightmost) ==
    LET e[m \in DOMAIN t.node] ==
          LET ks == t.node[m].kids
          IN  <<m>> \o IF ks = <<>> THEN <<>> ELSE e[IF rightmost THEN Last(ks) ELSE Head(ks)]
    IN  e[n]

\* collapse_along_edge: every node of the edge that has one child and no key is
\* freed, and its child takes its place; then the first node left is the root.
CollapseAlongEdge(t, root, rightmost) ==
    LET edge == Edge(t, root, rightmost)
        degenerate(n) == t.node[n].kids # <<>> /\ t.node[n].keys = <<>>
        keep == SelectSeq(edge, LAMBDA n : ~degenerate(n))
        slot(n) == IF rightmost THEN Len(t.node[n].kids) ELSE 1
        at(n) == SelectInSeq(keep, LAMBDA m : m = n)
        moved(n) ==
          IF at(n) = 0 THEN t.node[n]
          ELSE [t.node[n] EXCEPT
                  !.parent = IF at(n) = 1 THEN NO_NODE ELSE keep[at(n) - 1],
                  !.kids = IF @ = <<>> THEN @ ELSE [@ EXCEPT ![slot(n)] = keep[at(n) + 1]]]
    IN  [FoldLeft(Free, [t EXCEPT !.node = [n \in DOMAIN @ |-> moved(n)]],
                  SelectSeq(edge, degenerate)) EXCEPT !.root = keep[1]]

\* A tree after the cut: the edge collapses, and the height is that of the left
\* edge.  Neither side is empty: a cut before the first key moves the tree whole.
Finished(t, root, rightmost, first, last, len) ==
    LET t1 == CollapseAlongEdge(t, root, rightmost)
        cut(n) == [t1.node[n] EXCEPT !.prev = IF n = first THEN NO_NODE ELSE @,
                                     !.next = IF n = last THEN NO_NODE ELSE @]
    IN  [t1 EXCEPT !.node = [n \in DOMAIN @ |-> cut(n)],
                   !.first = first, !.last = last, !.len = len,
                   !.height = Len(Edge(t1, t1.root, FALSE)) - 1]

\* The rest of job j, of which one level is done: the new arenas, the chain of
\* copied leaves and the roots of the two sides so far.
Level(j, from, to, first, last, left, right) ==
    [j EXCEPT !.path = Front(@), !.from = from, !.to = to, !.first = first, !.last = last,
              !.left = left, !.right = right]

\* One level of split_off_surgical_right: node p of j.from, cut at its child c.
\* d: what is right of c has been copied.  It joins j.right under a new node; p
\* keeps what is left of c, and j.left if there is one, or is freed.
CutRightAt(j, p, c, n, d) ==
    LET kids == <<j.right>> \o d.roots
        to == Alloc(d.to, Internal(SubSeq(n.keys, c, Len(n.keys)), kids, NO_NODE))
        kept(i, ks) == [d.from EXCEPT !.node[p].keys = SubSeq(n.keys, 1, i), !.node[p].kids = ks]
        from == IF j.left # NO_NODE
                THEN Adopt(kept(c - 1, Append(SubSeq(n.kids, 1, c - 1), j.left)), {j.left}, p)
                ELSE IF c = 1 THEN Free(d.from, p)
                ELSE kept(c - 2, SubSeq(n.kids, 1, c - 1))
    IN  Level(j, from, Adopt(to, ToSet(kids), Fresh(d.to)), d.first, d.last,
              IF j.left = NO_NODE /\ c = 1 THEN NO_NODE ELSE p, Fresh(d.to))
CutRight(j, p, c, n) ==
    CutRightAt(j, p, c, n,
        DeepCopyAll(j.from, j.to, j.first, j.last, SubSeq(n.kids, c + 1, Len(n.kids))))

\* Mutant: the old first leaf is not told its new neighbour.
PrependChainOneWay(d, tail, first) ==
    IF tail = NO_NODE \/ first = NO_NODE THEN d ELSE [d EXCEPT !.node[tail].next = first]

\* The leaves up to `tail` come before the ones from `first` on.
PrependChain(d, tail, first) ==
    IF tail = NO_NODE \/ first = NO_NODE THEN d ELSE LinkNext(d, tail, first)

\* One level of split_off_surgical_left: what is left of child c is copied, its
\* leaves in front of those copied so far; p keeps c and what is right of it.
CutLeftAt(j, p, c, n, d) ==
    LET kids == d.roots \o IF j.left = NO_NODE THEN <<>> ELSE <<j.left>>
        keys == SubSeq(n.keys, 1, IF j.left = NO_NODE THEN c - 2 ELSE c - 1)
        to == IF kids = <<>> THEN d.to
              ELSE Adopt(Alloc(d.to, Internal(keys, kids, NO_NODE)), ToSet(kids), Fresh(d.to))
        from == [d.from EXCEPT !.node[p].keys = SubSeq(n.keys, c, Len(n.keys)),
                               !.node[p].kids = <<j.right>> \o SubSeq(n.kids, c + 1, Len(n.kids))]
    IN  Level(j, Adopt(from, {j.right}, p), PrependChain(to, d.last, j.first),
              IF d.first # NO_NODE THEN d.first ELSE j.first,
              IF j.last # NO_NODE THEN j.last ELSE d.last,
              IF kids = <<>> THEN NO_NODE ELSE Fresh(d.to), p)
CutLeft(j, p, c, n) ==
    CutLeftAt(j, p, c, n,
        DeepCopyAll(j.from, j.to, NO_NODE, NO_NODE, SubSeq(n.kids, 1, c - 1)))

\* The entries of slots from .. to of leaf n, in a leaf of their own.
PartOf(n, from, to) ==
    Leaf(SubSeq(n.keys, from, to), SubSeq(n.vals, from, to), NO_NODE, NO_NODE, NO_NODE)

Keep(t, l, from, to) == [t EXCEPT !.node[l].keys = SubSeq(@, from, to),
                                  !.node[l].vals = SubSeq(@, from, to)]

\* The state of a split at slot i of leaf l when the leaf itself is divided.
\* At its first slot nothing is: the leaf is copied whole, or it stays.
Cut(l, i, from, to, chain, left, right) ==
    [path |-> PathTo(tree, l), leaf |-> l, slot |-> i, before |-> tree.node[l].prev,
     from |-> from, to |-> to, first |-> chain[1], last |-> chain[2],
     left |-> left, right |-> right]

\* split_off_surgical_right, phase 1: the right side will be copied.
BeginRight(l, i) ==
    LET n == tree.node[l] IN
    /\ pc' = "split_right"
    /\ \/ i = 1 /\ job' = Cut(l, i, Free(tree, l),
                              Alloc(NewTree, PartOf(n, 1, Len(n.keys))), <<0, 0>>, NO_NODE, 0)
       \/ i > 1 /\ job' = Cut(l, i, Keep(tree, l, 1, i - 1),
                              Alloc(NewTree, PartOf(n, i, Len(n.keys))), <<0, 0>>, l, 0)

\* split_off_surgical_left, phase 1: the left side will be copied.
BeginLeft(l, i) ==
    LET n == tree.node[l] IN
    /\ pc' = "split_left"
    /\ \/ i = 1 /\ job' = Cut(l, i, tree, NewTree, <<NO_NODE, NO_NODE>>, NO_NODE, l)
       \/ i > 1 /\ job' = Cut(l, i, Keep(tree, l, i, Len(n.keys)),
                              Alloc(NewTree, PartOf(n, 1, i - 1)), <<0, 0>>, 0, l)

\* Phase 2, one level of the spine.
CutLevel ==
    /\ pc \in {"split_right", "split_left"} /\ job.path # <<>>
    /\ LET p == Last(job.path)[1]
           c == Last(job.path)[2]
           n == job.from.node[p]
       IN  \/ pc = "split_right" /\ job' = CutRight(job, p, c, n)
           \/ pc = "split_left" /\ job' = CutLeft(job, p, c, n)
    /\ UNCHANGED <<tree, other, pc, ret>>

\* The entries copied so far.
Copied(t) == FoldSet(LAMBDA n, x : x + Len(t.node[n].vals), 0, DOMAIN t.node)

\* Phases 3 and 4 of split_off_surgical_right: the copied tree is the right one.
CutRightDone ==
    LET last == IF job.slot > 1 THEN job.leaf ELSE job.before IN
    /\ pc = "split_right" /\ job.path = <<>>
    /\ tree' = Finished(job.from, job.left, TRUE, tree.first, last, tree.len - Copied(job.to))
    /\ other' = Finished(job.to, job.right, FALSE, job.first, job.last, Copied(job.to))
    /\ Done /\ UNCHANGED ret

\* Phases 3 and 4 of split_off_surgical_left: the copied tree is the left one,
\* and the trees swap.
CutLeftDone ==
    /\ pc = "split_left" /\ job.path = <<>>
    /\ tree' = Finished(job.to, job.left, TRUE, job.first, job.last, Copied(job.to))
    /\ other' = Finished(job.from, job.right, FALSE, job.leaf, tree.last,
                         tree.len - Copied(job.to))
    /\ Done /\ UNCHANGED ret

\* The cases in which nothing is cut: no key, or no smaller key than `at`.
SplitTrivially(b) ==
    /\ \/ b[1] = NO_NODE /\ other' = NewTree /\ UNCHANGED tree
       \/ b[1] # NO_NODE /\ b = <<tree.first, 1>> /\ other' = tree /\ tree' = NewTree
    /\ Done

\* split_off_with_cutoff; split_off itself has a cutoff of 0.7.
SplitOff(at, cutoff) ==
    LET b == LowerBound(tree, at)
        e == EstimateRight(tree, at)
        toLeft == 10 * e.right > cutoff * (e.left + e.right)
    IN  /\ Idle("split_off") /\ other.len = 0
        /\ \/ SplitTrivially(b)
           \/ /\ b \notin {<<NO_NODE, 1>>, <<tree.first, 1>>}
              /\ \/ toLeft /\ BeginLeft(b[1], b[2])
                 \/ ~toLeft /\ BeginRight(b[1], b[2])
              /\ UNCHANGED <<tree, other>>
        /\ UNCHANGED ret

\* split_off_drain: both halves are built anew.
SplitOffDrain(at) ==
    LET b == LowerBound(tree, at)
        es == EntriesOf(tree)
        i  == FirstSlot(es, LAMBDA e : at <= e[1])
    IN  /\ Idle("split_off_drain") /\ other.len = 0
        /\ \/ SplitTrivially(b)
           \/ /\ b \notin {<<NO_NODE, 1>>, <<tree.first, 1>>}
              /\ tree' = BulkLoad(SubSeq(es, 1, i - 1))
              /\ other' = BulkLoad(SubSeq(es, i, Len(es)))
              /\ Done
        /\ UNCHANGED ret

CloneMap == Idle("clone") /\ other' = CloneTree(tree) /\ UNCHANGED <<tree, ret>> /\ Done

-----------------------------------------------------------------------------
(* Two maps.                                                               *)

PairInit == Init /\ other = NewTree /\ surgeries = 0

\* Descents count `height` steps: every leaf has to be that deep.
EvenDepth(t) == t.root # NO_NODE =>
    \A l \in ToSet(LeavesBelow(t, t.root)) : Len(PathTo(t, l)) = t.height

\* The user turns to the other map.
Switch == Idle("switch") /\ tree' = other /\ other' = tree /\ Done /\ UNCHANGED ret

\* A descent in an uneven tree takes a leaf for an internal node or the
\* reverse: what follows is undefined.
DescendUneven ==
    /\ Idle("search") /\ ~EvenDepth(tree)
    /\ pc' = "undefined" /\ UNCHANGED <<tree, other, job, ret>>

\* The operations that descend or walk down an edge need even trees.
Surgery ==
    /\ surgeries < MaxSurgeries /\ surgeries' = surgeries + 1
    /\ \/ /\ EvenDepth(tree)
          /\ \E at \in Key : SplitOffDrain(at) \/ \E c \in Cutoffs : SplitOff(at, c)
       \/ EvenDepth(tree) /\ EvenDepth(other) /\ (AppendTrees \/ AppendConcat)
       \/ CloneMap

PairCall ==
    \/ tree = NewTree /\ Call /\ UNCHANGED <<other, surgeries>>
    \/ /\ tree # NewTree /\ EvenDepth(tree) /\ Call /\ UNCHANGED other
       /\ surgeries < MaxSurgeries /\ surgeries' = surgeries + 1
    \/ Surgery /\ undropped' = {}
    \/ (Switch \/ DescendUneven) /\ undropped' = {} /\ UNCHANGED surgeries

PairNext ==
    \/ PairCall
    \/ Work /\ UNCHANGED <<other, surgeries>>
    \/ (CutLevel \/ CutRightDone \/ CutLeftDone) /\ undropped' = {} /\ UNCHANGED surgeries

PairSpec == PairInit /\ [][PairNext]_pairVars

-----------------------------------------------------------------------------
(* What must hold of both trees, whatever their depth.                     *)

Sound(t) == t.root # NO_NODE =>
    LET ls == LeavesBelow(t, t.root) IN
    /\ Chain(t) = ls /\ BackChain(t) = Reverse(ls)
    /\ t.node[t.root].parent = NO_NODE
    /\ \A n \in Reachable(t) : \A c \in ToSet(t.node[n].kids) : t.node[c].parent = n

\* After a split_off or an append the chain of each tree is its leaves from
\* left to right, in both directions, and every node knows its parent: leaves
\* are copied in batches, and in a split to the left the batches come last
\* first.
BothLinked == pc = "idle" => Sound(tree) /\ Sound(other)

\* The keys under n.
KeysUnder(t, n) == UNION {ToSet(t.node[l].keys) : l \in ToSet(LeavesBelow(t, n))}

Guided(t) == \A n \in Reachable(t) : t.node[n].kids # <<>> => \A i \in DOMAIN t.node[n].keys :
    /\ \A k \in KeysUnder(t, t.node[n].kids[i]) : k < t.node[n].keys[i]
    /\ \A k \in KeysUnder(t, t.node[n].kids[i + 1]) : t.node[n].keys[i] <= k

\* Every separator divides the keys on its two sides, in both trees: the ones
\* next to the cut and the one that joins two trees are chosen, not searched.
BothGuided == pc = "idle" => Guided(tree) /\ Guided(other)

Accounted(t) ==
    /\ DOMAIN t.node = Reachable(t)
    /\ ToSet(t.free) = (0 .. t.hi - 1) \ Reachable(t) /\ IsInjective(t.free)
    /\ t.len = Len(KeysOf(t))

\* Every node of the two arenas is either free or in its tree, and len counts
\* the entries: nodes are moved by copying and freeing them, entries by
\* counting those copied.
BothAccounted == pc = "idle" => Accounted(tree) /\ Accounted(other)

\* As split_off itself asserts on its next call, the path to every leaf has
\* `height` steps.
SpineIsHeight == pc = "idle" => EvenDepth(tree) /\ EvenDepth(other)

Pair == INSTANCE MapPairSpec WITH first <- Stored(tree), second <- Stored(other)

\* split_off, append and clone divide, unite and copy the two dictionaries:
\* no entry is lost, duplicated or left on the wrong side of the cut.
ImplementsPair == Pair!Spec
=============================================================================
