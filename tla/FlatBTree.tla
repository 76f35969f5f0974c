----------------------------- MODULE FlatBTree ------------------------------
(***************************************************************************)
(* FlatBTree: a B+ tree whose nodes live in an arena and refer to each     *)
(* other by index.  All entries are in the leaves; leaves form a doubly    *)
(* linked chain; every node has a parent index; internal nodes hold        *)
(* separator keys.  A split travels upward one level per step, and so does *)
(* the repair of an underfull node.                                        *)
(*                                                                         *)
(* Slots are counted from 1 here and from 0 in the code.  A node without   *)
(* kids is a leaf.                                                         *)
(***************************************************************************)
EXTENDS Integers, Sequences, SequencesExt, FiniteSets, TLC

CONSTANTS
    Key,          \* a finite set of integers: the key order is <
    Value, NONE,
    LeafCap,      \* LEAF_CAP
    InternalCap,  \* INTERNAL_CAP
    SortedFree,   \* bound: keep the free list sorted instead of LIFO
    Entries,      \* bound: the key-value pairs the users insert
    FromSets,     \* bound: the sets of keys that maps are built from, and their value
    Calls         \* bound: the API calls the users make

ASSUME CapAssumption == LeafCap \in Nat \ {0} /\ InternalCap \in Nat \ {0, 1}
ASSUME KeyAssumption ==
    /\ Key \subseteq Int /\ IsFiniteSet(Key)
    /\ Entries \subseteq Key \X Value /\ FromSets \subseteq (SUBSET Key) \X Value

NO_NODE == -1

VARIABLES
    tree,       \* RawBTree: [node, free, hi, root, first, last, len, height]
    pc,         \* what the call under way does next, or "idle"
    job,        \* the local variables of that call
    ret,        \* answer of the last call
    undropped   \* keys the last step gave up without dropping them

vars == <<tree, pc, job, ret, undropped>>

-----------------------------------------------------------------------------
(* The arena.                                                              *)

Leaf(ks, vs, p, l, r) ==
    [keys |-> ks, vals |-> vs, kids |-> <<>>, parent |-> p, prev |-> l, next |-> r]
Internal(ks, cs, p) ==
    [keys |-> ks, vals |-> <<>>, kids |-> cs, parent |-> p, prev |-> NO_NODE, next |-> NO_NODE]

NewTree == [node |-> <<>>, free |-> <<>>, hi |-> 0, root |-> NO_NODE,
            first |-> NO_NODE, last |-> NO_NODE, len |-> 0, height |-> 0]

\* The index alloc_node returns: the head of the free list, or a fresh one.
Fresh(t) == IF t.free = <<>> THEN t.hi ELSE Head(t.free)

Alloc(t, n) ==
    [t EXCEPT !.node = [m \in DOMAIN @ \cup {Fresh(t)} |-> IF m = Fresh(t) THEN n ELSE @[m]],
              !.free = IF @ = <<>> THEN @ ELSE Tail(@),
              !.hi   = IF t.free = <<>> THEN @ + 1 ELSE @]

\* First slot of s that passes the test, or one past the end.
FirstSlot(s, Test(_)) ==
    LET i == SelectInSeq(s, Test) IN IF i = 0 THEN Len(s) + 1 ELSE i

\* free_node pushes n on the free list.  Indices are only names, so that a
\* list kept sorted behaves the same and has far fewer states.
Pushed(n, list) ==
    InsertAt(list, IF SortedFree THEN FirstSlot(list, LAMBDA m : n < m) ELSE 1, n)

Free(t, n) ==
    [t EXCEPT !.node = [m \in DOMAIN @ \ {n} |-> @[m]], !.free = Pushed(n, @)]

\* The nodes f with new keys, values, kids or parent of node n.
WithKeys(f, n, x) == [f EXCEPT ![n].keys = x]
WithVals(f, n, x) == [f EXCEPT ![n].vals = x]
WithKids(f, n, x) == [f EXCEPT ![n].kids = x]
WithParent(f, n, x) == [f EXCEPT ![n].parent = x]

\* The nodes in ns get parent p.
Adopt(t, ns, p) ==
    [t EXCEPT !.node = [m \in DOMAIN @ |->
        IF m \in ns THEN [@[m] EXCEPT !.parent = p] ELSE @[m]]]

\* Mutant: the next leaf is not told its new neighbour.
LinkNextOneWay(t, n, m) ==
    IF m = NO_NODE THEN [t EXCEPT !.node[n].next = m, !.last = n]
    ELSE [t EXCEPT !.node[n].next = m]

\* n is followed in the chain by m, which may be NO_NODE: n is the last leaf.
LinkNext(t, n, m) ==
    IF m = NO_NODE THEN [t EXCEPT !.node[n].next = m, !.last = n]
    ELSE [t EXCEPT !.node[n].next = m, !.node[m].prev = n]

-----------------------------------------------------------------------------
(* Search.                                                                 *)

\* Slot of the child lower_bound goes to: at an equal separator, the left one.
\* (As a mutant of ChildFor it looks for such a key on the wrong side.)
ChildForLeft(ks, k) == FirstSlot(ks, LAMBDA s : k <= s)

\* Slot of the child whose subtree holds k.
ChildFor(ks, k) == FirstSlot(ks, LAMBDA s : k < s)

\* The nodes from the root to the leaf a search or, with `left`, lower_bound
\* reaches: height steps.
Descent(t, k, left) ==
    LET slot(ks) == IF left THEN ChildForLeft(ks, k) ELSE ChildFor(ks, k)
        d[h \in 0 .. t.height] ==
          IF h = 0 THEN <<t.root>>
          ELSE LET up == d[h - 1]
                   n  == t.node[Last(up)]
               IN  Append(up, n.kids[slot(n.keys)])
    IN  d[t.height]

LeafFor(t, k) == Last(Descent(t, k, FALSE))

\* Slot of leaf l at which k is, or at which it has to be inserted.
SlotFor(t, l, k) == FirstSlot(t.node[l].keys, LAMBDA s : k <= s)

IsAt(t, l, i, k) == i <= Len(t.node[l].keys) /\ t.node[l].keys[i] = k

\* search: does it find k, and which value.
Found(t, k) == t.root # NO_NODE /\ IsAt(t, LeafFor(t, k), SlotFor(t, LeafFor(t, k), k), k)
ValueOf(t, k) ==
    IF Found(t, k) THEN t.node[LeafFor(t, k)].vals[SlotFor(t, LeafFor(t, k), k)] ELSE NONE

\* Mutant: the leaf the descent ends in is the only one looked at.
LowerBoundOneLeaf(t, k) ==
    LET l == Last(Descent(t, k, TRUE))
        i == SlotFor(t, l, k)
    IN  IF t.root = NO_NODE \/ i > Len(t.node[l].keys) THEN <<NO_NODE, 1>> ELSE <<l, i>>

\* lower_bound: the first entry not below k, as seen by a descent that goes
\* left at an equal separator and then looks at one more leaf.
LowerBound(t, k) ==
    LET l == Last(Descent(t, k, TRUE))
        i == SlotFor(t, l, k)
        m == t.node[l].next
    IN  IF t.root = NO_NODE THEN <<NO_NODE, 1>>
        ELSE IF i <= Len(t.node[l].keys) THEN <<l, i>>
        ELSE IF m # NO_NODE /\ t.node[m].keys # <<>> THEN <<m, 1>>
        ELSE <<NO_NODE, 1>>

\* The position behind k, when the lower bound of k is k itself.
AfterKey(t, k) ==
    LET b == LowerBound(t, k) IN
    IF b[1] = NO_NODE \/ ~IsAt(t, b[1], b[2], k) THEN b
    ELSE IF b[2] < Len(t.node[b[1]].keys) THEN <<b[1], b[2] + 1>>
    ELSE <<t.node[b[1]].next, 1>>

Bound == [kind : {"included", "excluded"}, key : Key] \cup {[kind |-> "unbounded"]}

\* resolve_range_bounds.
StartOf(t, b) ==
    CASE b.kind = "included" -> LowerBound(t, b.key)
      [] b.kind = "excluded" -> AfterKey(t, b.key)
      [] OTHER -> <<t.first, 1>>
EndOf(t, b) ==
    CASE b.kind = "included" -> AfterKey(t, b.key)
      [] b.kind = "excluded" -> LowerBound(t, b.key)
      [] OTHER -> <<NO_NODE, 1>>

\* What RangeIter yields from position s, up to position e.
KeysBetween(t, s, e) ==
    LET upto(l, i) == SubSeq(t.node[l].keys, i,
                        IF l = e[1] THEN e[2] - 1 ELSE Len(t.node[l].keys))
        from[l \in DOMAIN t.node \cup {NO_NODE}] ==
            IF l = NO_NODE THEN <<>>
            ELSE upto(l, 1) \o IF l = e[1] THEN <<>> ELSE from[t.node[l].next]
    IN  IF s[1] = NO_NODE THEN <<>>
        ELSE upto(s[1], s[2]) \o IF s[1] = e[1] THEN <<>> ELSE from[t.node[s[1]].next]

RangeKeys(t, lo, hi) == KeysBetween(t, StartOf(t, lo), EndOf(t, hi))

\* The leaves in chain order, from leaf l and from the first one.
ChainFrom(t, l) ==
    LET c[m \in DOMAIN t.node \cup {NO_NODE}] ==
          IF m = NO_NODE THEN <<>> ELSE <<m>> \o c[t.node[m].next]
    IN  c[l]
Chain(t) == ChainFrom(t, t.first)

\* Slot of node n among the kids of its parent.
SlotInParent(t, n) == SelectInSeq(t.node[t.node[n].parent].kids, LAMBDA m : m = n)

-----------------------------------------------------------------------------
(* Insertion.                                                              *)

LeafInsertAt(t, l, i, k, v) ==
    [t EXCEPT !.node[l].keys = InsertAt(@, i, k),
              !.node[l].vals = InsertAt(@, i, v),
              !.len = @ + 1]

LeafMid == (LeafCap + 1) \div 2

\* The new leaf takes what is beyond the middle and enters the chain behind l.
LeafSplitAndInsert(t, l, i, k, v) ==
    LET ks == InsertAt(t.node[l].keys, i, k)
        vs == InsertAt(t.node[l].vals, i, v)
        r  == Fresh(t)
        t1 == Alloc(t, Leaf(SubSeq(ks, LeafMid + 1, LeafCap + 1),
                            SubSeq(vs, LeafMid + 1, LeafCap + 1),
                            t.node[l].parent, l, NO_NODE))
        t2 == [t1 EXCEPT !.node[l].keys = SubSeq(ks, 1, LeafMid),
                         !.node[l].vals = SubSeq(vs, 1, LeafMid),
                         !.len = @ + 1]
    IN  LinkNext(LinkNext(t2, r, t.node[l].next), l, r)

\* Key s and to its right child c enter node p, which has room, at slot i.
InternalInsertAt(t, p, i, s, c) ==
    [t EXCEPT !.node[p].keys = InsertAt(@, i, s),
              !.node[p].kids = InsertAt(@, i + 1, c),
              !.node[c].parent = p]

InternalMid == InternalCap \div 2

\* The key that moves up when full node p takes in s at slot i.
Promoted(t, p, i, s) == InsertAt(t.node[p].keys, i, s)[InternalMid + 1]

InternalSplitAndInsert(t, p, i, s, c) ==
    LET ks == InsertAt(t.node[p].keys, i, s)
        cs == InsertAt(t.node[p].kids, i + 1, c)
        rk == SubSeq(cs, InternalMid + 2, InternalCap + 2)
        t1 == Alloc(t, Internal(SubSeq(ks, InternalMid + 2, InternalCap + 1), rk,
                                t.node[p].parent))
        t2 == [t1 EXCEPT !.node[p].keys = SubSeq(ks, 1, InternalMid),
                         !.node[p].kids = SubSeq(cs, 1, InternalMid + 1)]
    IN  Adopt(t2, ToSet(rk), Fresh(t))

NewRoot(t, l, s, r) ==
    LET t1 == Alloc(t, Internal(<<s>>, <<l, r>>, NO_NODE)) IN
    [Adopt(t1, {l, r}, Fresh(t)) EXCEPT !.root = Fresh(t), !.height = @ + 1]

\* path_to_node: the ancestors of n with the slots that lead to n.
PathTo(t, n) ==
    LET up[m \in DOMAIN t.node] ==
          LET p == t.node[m].parent IN
          IF p = NO_NODE THEN <<>> ELSE Append(up[p], <<p, SlotInParent(t, m)>>)
    IN  up[n]

\* search_for_insert: the path of the descent.
PathFor(t, k) ==
    LET d == Descent(t, k, FALSE)
    IN  [h \in 1 .. t.height |-> <<d[h], ChildFor(t.node[d[h]].keys, k)>>]

\* insert: where k goes.  Behind the last key or before the first one no
\* search is needed, and the path comes from the parent indices.
Point(l, i, path) == [leaf |-> l, slot |-> i, path |-> path]
InsertPoint(t, k) ==
    LET a == t.node[t.last].keys
        b == t.node[t.first].keys
        l == LeafFor(t, k)
    IN  IF a # <<>> /\ k > Last(a) THEN Point(t.last, Len(a) + 1, PathTo(t, t.last))
        ELSE IF b # <<>> /\ k < Head(b) THEN Point(t.first, 1, PathTo(t, t.first))
        ELSE Point(l, SlotFor(t, l, k), PathFor(t, k))

NoJob == [at |-> NO_NODE]
Idle(call) == pc = "idle" /\ call \in Calls
Done == pc' = "idle" /\ job' = NoJob
Return(r) == ret' = r /\ Done

InsertFirst(k, v) ==
    LET n == Fresh(tree) IN
    /\ tree.root = NO_NODE
    /\ tree' = [Alloc(tree, Leaf(<<k>>, <<v>>, NO_NODE, NO_NODE, NO_NODE))
                  EXCEPT !.root = n, !.first = n, !.last = n, !.len = 1]
    /\ Return(NONE)

\* k, which is not in the tree, goes into slot i of leaf l; a full leaf is
\* split, and `then` and `j` say how the split goes on.
PutInLeaf(l, i, k, v, then, j) ==
    /\ ret' = NONE
    /\ \/ /\ Len(tree.node[l].keys) < LeafCap
          /\ tree' = LeafInsertAt(tree, l, i, k, v)
          /\ Done
       \/ /\ Len(tree.node[l].keys) = LeafCap
          /\ tree' = LeafSplitAndInsert(tree, l, i, k, v)
          /\ pc' = then
          /\ job' = [j EXCEPT !.key = Head(tree'.node[Fresh(tree)].keys), !.new = Fresh(tree)]

Insert(k, v) ==
    /\ Idle("insert")
    /\ \/ InsertFirst(k, v)
       \/ /\ tree.root # NO_NODE
          /\ LET p == InsertPoint(tree, k) IN
             \/ /\ IsAt(tree, p.leaf, p.slot, k)
                /\ tree' = [tree EXCEPT !.node[p.leaf].vals[p.slot] = v]
                /\ Return(tree.node[p.leaf].vals[p.slot])
             \/ /\ ~IsAt(tree, p.leaf, p.slot, k)
                /\ PutInLeaf(p.leaf, p.slot, k, v, "propagate_split",
                             [path |-> p.path, key |-> k, new |-> NO_NODE])

\* try_insert and the vacant entries: no path is recorded.
TryInsert(k, v) ==
    /\ Idle("entry")
    /\ \/ InsertFirst(k, v)
       \/ /\ tree.root # NO_NODE
          /\ LET l == LeafFor(tree, k)
                 i == SlotFor(tree, l, k)
             IN  \/ IsAt(tree, l, i, k) /\ Return(v) /\ UNCHANGED tree
                 \/ /\ ~IsAt(tree, l, i, k)
                    /\ PutInLeaf(l, i, k, v, "propagate_split_lazy",
                                 [at |-> l, key |-> k, new |-> NO_NODE])

\* Key and new child of the job enter node p at slot i; when p is full it is
\* split and the job, with `up` as its next level, goes on.
EnterParent(p, i, up) ==
    \/ /\ Len(tree.node[p].keys) < InternalCap
       /\ tree' = InternalInsertAt(tree, p, i, job.key, job.new)
       /\ Done
    \/ /\ Len(tree.node[p].keys) = InternalCap
       /\ tree' = InternalSplitAndInsert(tree, p, i, job.key, job.new)
       /\ job' = [up EXCEPT !.key = Promoted(tree, p, i, job.key), !.new = Fresh(tree)]
       /\ UNCHANGED pc

PropagateSplit ==
    /\ pc = "propagate_split"
    /\ \/ /\ job.path = <<>>
          /\ tree' = NewRoot(tree, tree.root, job.key, job.new)
          /\ Done
       \/ /\ job.path # <<>>
          /\ EnterParent(Last(job.path)[1], Last(job.path)[2], [job EXCEPT !.path = Front(@)])
    /\ UNCHANGED ret

PropagateSplitLazy ==
    LET p == tree.node[job.at].parent IN
    /\ pc = "propagate_split_lazy"
    /\ \/ /\ p = NO_NODE
          /\ tree' = NewRoot(tree, job.at, job.key, job.new)
          /\ Done
       \/ /\ p # NO_NODE
          /\ EnterParent(p, SlotInParent(tree, job.at), [job EXCEPT !.at = p])
    /\ UNCHANGED ret

-----------------------------------------------------------------------------
(* Removal.                                                                *)

LeafMin == LeafCap \div 2
InternalMin == InternalCap \div 2

WithoutEntry(t, l, i) ==
    [t EXCEPT !.node[l].keys = RemoveAt(@, i), !.node[l].vals = RemoveAt(@, i), !.len = @ - 1]

NeedsRepair(t, l) == Len(t.node[l].keys) < LeafMin /\ t.height > 0

LeafRemoveAt(l, i) ==
    /\ ret' = tree.node[l].vals[i]
    /\ tree' = WithoutEntry(tree, l, i)
    /\ \/ NeedsRepair(tree', l) /\ pc' = "rebalance_leaf" /\ job' = [at |-> l]
       \/ ~NeedsRepair(tree', l) /\ Done

RemoveKey(k) ==
    /\ Idle("remove")
    /\ \/ ~Found(tree, k) /\ Return(NONE) /\ UNCHANGED tree
       \/ Found(tree, k) /\ LeafRemoveAt(LeafFor(tree, k), SlotFor(tree, LeafFor(tree, k), k))

\* Where a scan of the leaf chain meets a key equal to k.
ScanFor(t, k) ==
    LET c == Chain(t)
        i == SelectInSeq(c, LAMBDA l : Contains(t.node[l].keys, k))
    IN  IF i = 0 THEN <<NO_NODE, 1>>
        ELSE <<c[i], SelectInSeq(t.node[c[i]].keys, LAMBDA j : j = k)>>

RemoveByEq(k) ==
    LET at == ScanFor(tree, k) IN
    /\ Idle("remove_by_eq")
    /\ \/ at[1] = NO_NODE /\ Return(NONE) /\ UNCHANGED tree
       \/ at[1] # NO_NODE /\ LeafRemoveAt(at[1], at[2])

\* The leaves from last to first, along the prev links.
BackChain(t) ==
    LET c[l \in DOMAIN t.node \cup {NO_NODE}] ==
          IF l = NO_NODE THEN <<>> ELSE <<l>> \o c[t.node[l].prev]
    IN  c[t.last]

\* The first leaf of a sequence of leaves that is not empty.
NonEmptyOf(t, ls) == ls[SelectInSeq(ls, LAMBDA l : t.node[l].keys # <<>>)]

PopFirst ==
    /\ Idle("pop")
    /\ \/ tree.len = 0 /\ Return(NONE) /\ UNCHANGED tree
       \/ tree.len > 0 /\ LeafRemoveAt(NonEmptyOf(tree, Chain(tree)), 1)

PopLast ==
    /\ Idle("pop")
    /\ \/ tree.len = 0 /\ Return(NONE) /\ UNCHANGED tree
       \/ tree.len > 0 /\ LET l == NonEmptyOf(tree, BackChain(tree))
                          IN  LeafRemoveAt(l, Len(tree.node[l].keys))

\* internal_remove_at on a tree value: separator j and the child behind it go.
WithoutChild(t, p, j) ==
    [t EXCEPT !.node[p].keys = RemoveAt(@, j), !.node[p].kids = RemoveAt(@, j + 1)]

\* Mutant: the old root is not freed.
CollapseRootLeaks(t) ==
    LET c == t.node[t.root].kids[1] IN
    [Adopt(t, {c}, NO_NODE) EXCEPT !.root = c, !.height = @ - 1]

\* The root has one child left, which becomes the root.
CollapseRoot(t) ==
    LET c == t.node[t.root].kids[1] IN
    [Free(Adopt(t, {c}, NO_NODE), t.root) EXCEPT !.root = c, !.height = @ - 1]

\* internal_remove_at and the repair it asks for.
InternalRemoveAt(t, p, j) ==
    LET t1 == WithoutChild(t, p, j)
        n  == Len(t1.node[p].keys)
    IN  \/ p = t.root /\ n = 0 /\ tree' = CollapseRoot(t1) /\ Done
        \/ p # t.root /\ n < InternalMin /\ tree' = t1
              /\ pc' = "rebalance_internal" /\ job' = [at |-> p]
        \/ ~(p = t.root /\ n = 0) /\ ~(p # t.root /\ n < InternalMin) /\ tree' = t1 /\ Done

\* Mutant: the separator is the key that has just moved left.
LeafFromRightOldKey(t, p, i) ==
    LET n == t.node[p].kids[i]
        r == t.node[p].kids[i + 1]
        k == t.node[r].keys
        v == t.node[r].vals
        f1 == WithKeys(t.node, n, Append(t.node[n].keys, Head(k)))
        f2 == WithVals(f1, n, Append(t.node[n].vals, Head(v)))
        f3 == WithKeys(f2, r, Tail(k))
        f4 == WithVals(f3, r, Tail(v))
    IN  [t EXCEPT !.node = WithKeys(f4, p, [t.node[p].keys EXCEPT ![i] = Head(k)])]

\* Move the first entry of leaf kid i + 1 of p to kid i, and back.
LeafFromRight(t, p, i) ==
    LET n == t.node[p].kids[i]
        r == t.node[p].kids[i + 1]
        k == t.node[r].keys
        v == t.node[r].vals
        f1 == WithKeys(t.node, n, Append(t.node[n].keys, Head(k)))
        f2 == WithVals(f1, n, Append(t.node[n].vals, Head(v)))
        f3 == WithKeys(f2, r, Tail(k))
        f4 == WithVals(f3, r, Tail(v))
    IN  [t EXCEPT !.node = WithKeys(f4, p, [t.node[p].keys EXCEPT ![i] = k[2]])]

LeafFromLeft(t, p, i) ==
    LET n == t.node[p].kids[i]
        l == t.node[p].kids[i - 1]
        k == t.node[l].keys
        v == t.node[l].vals
        f1 == WithKeys(t.node, n, <<Last(k)>> \o t.node[n].keys)
        f2 == WithVals(f1, n, <<Last(v)>> \o t.node[n].vals)
        f3 == WithKeys(f2, l, Front(k))
        f4 == WithVals(f3, l, Front(v))
    IN  [t EXCEPT !.node = WithKeys(f4, p, [t.node[p].keys EXCEPT ![i - 1] = Last(k)])]

\* Kid j + 1 of p, a leaf, is emptied into kid j and freed.
MergedLeaves(t, p, j) ==
    LET l == t.node[p].kids[j]
        r == t.node[p].kids[j + 1]
    IN  Free(LinkNext([t EXCEPT !.node[l].keys = @ \o t.node[r].keys,
                                !.node[l].vals = @ \o t.node[r].vals],
                      l, t.node[r].next), r)

\* Rotate the first child of internal kid i + 1 of p to kid i, and back.
InternalFromRight(t, p, i) ==
    LET n == t.node[p].kids[i]
        r == t.node[p].kids[i + 1]
        k == t.node[r].keys
        c == t.node[r].kids
        f1 == WithKeys(t.node, n, Append(t.node[n].keys, t.node[p].keys[i]))
        f2 == WithKids(f1, n, Append(t.node[n].kids, Head(c)))
        f3 == WithParent(f2, Head(c), n)
        f4 == WithKeys(f3, p, [t.node[p].keys EXCEPT ![i] = Head(k)])
        f5 == WithKeys(f4, r, Tail(k))
    IN  [t EXCEPT !.node = WithKids(f5, r, Tail(c))]
InternalFromLeft(t, p, i) ==
    LET n == t.node[p].kids[i]
        l == t.node[p].kids[i - 1]
        k == t.node[l].keys
        c == t.node[l].kids
        f1 == WithKeys(t.node, n, <<t.node[p].keys[i - 1]>> \o t.node[n].keys)
        f2 == WithKids(f1, n, <<Last(c)>> \o t.node[n].kids)
        f3 == WithParent(f2, Last(c), n)
        f4 == WithKeys(f3, p, [t.node[p].keys EXCEPT ![i - 1] = Last(k)])
        f5 == WithKeys(f4, l, Front(k))
    IN  [t EXCEPT !.node = WithKids(f5, l, Front(c))]

MergedInternals(t, p, j) ==
    LET l == t.node[p].kids[j]
        r == t.node[p].kids[j + 1]
        t1 == [t EXCEPT !.node[l].keys = @ \o <<t.node[p].keys[j]>> \o t.node[r].keys,
                        !.node[l].kids = @ \o t.node[r].kids]
    IN  Free(Adopt(t1, ToSet(t.node[r].kids), l), r)

\* The repair of underfull node n: take from the right sibling if it can
\* spare something, else from the left one, else merge with the right one,
\* or with the left one when n is the last child.  The only child of its
\* parent has no sibling: child_pos - 1 underflows.
Rebalance(n, min, FromRight(_, _, _), FromLeft(_, _, _), Merged(_, _, _)) ==
    LET p == tree.node[n].parent
        i == SlotInParent(tree, n)
        kids == tree.node[p].kids
        Spares(j) == j \in DOMAIN kids /\ Len(tree.node[kids[j]].keys) > min
        j == IF i < Len(kids) THEN i ELSE i - 1
    IN  \/ Spares(i + 1) /\ tree' = FromRight(tree, p, i) /\ Done
        \/ ~Spares(i + 1) /\ Spares(i - 1) /\ tree' = FromLeft(tree, p, i) /\ Done
        \/ ~Spares(i + 1) /\ ~Spares(i - 1) /\ Len(kids) > 1
              /\ InternalRemoveAt(Merged(tree, p, j), p, j)
        \/ Len(kids) = 1 /\ pc' = "underflow" /\ UNCHANGED <<tree, job>>

RebalanceLeaf ==
    /\ pc = "rebalance_leaf"
    /\ Rebalance(job.at, LeafMin, LeafFromRight, LeafFromLeft, MergedLeaves)
    /\ UNCHANGED ret

RebalanceInternal ==
    /\ pc = "rebalance_internal"
    /\ Rebalance(job.at, InternalMin, InternalFromRight, InternalFromLeft, MergedInternals)
    /\ UNCHANGED ret

-----------------------------------------------------------------------------
(* Whole-tree operations.                                                  *)

\* The nodes at and below n.
Below(t, n) ==
    LET b[m \in DOMAIN t.node] == {m} \cup UNION {b[c] : c \in ToSet(t.node[m].kids)}
    IN  b[n]
Reachable(t) == IF t.root = NO_NODE THEN {} ELSE Below(t, t.root)

KeySlots(t, ns) == UNION {{n} \X DOMAIN t.node[n].keys : n \in ns}

\* Mutant: only the entries are dropped.
DroppedLeaves(t) == IF t.root = NO_NODE THEN {} ELSE KeySlots(t, ToSet(Chain(t)))

\* drop_all_contents: the entries along the chain, and the separators in the
\* internal nodes below the root.
Dropped(t) == IF t.root = NO_NODE THEN {}
    ELSE KeySlots(t, ToSet(Chain(t)) \cup {n \in Reachable(t) : t.node[n].kids # <<>>})

Release(t) == undropped' = KeySlots(t, DOMAIN t.node) \ Dropped(t)

\* What IntoIter leaves of a tree when it is dropped: the entries are moved
\* out, and the tree has no root.
Consumed(t) ==
    [t EXCEPT !.node = [n \in DOMAIN @ |-> IF @[n].kids = <<>>
                          THEN [@[n] EXCEPT !.keys = <<>>, !.vals = <<>>] ELSE @[n]],
              !.first = NO_NODE, !.root = NO_NODE]

\* clear and a dropped drain: the arena starts over.
Clear == Idle("clear") /\ tree' = NewTree /\ Release(tree) /\ Done /\ UNCHANGED ret

\* retain visits the entries in chain order and leaves emptied leaves behind.
RetainBegin ==
    /\ Idle("retain")
    /\ pc' = "retain" /\ job' = [at |-> tree.first, slot |-> 1]
    /\ UNCHANGED <<tree, ret>>

\* Mutant: the end of a leaf leads back to its first slot.
RetainStepRestarts ==
    LET l == job.at
        i == job.slot
    IN  /\ pc = "retain" /\ l # NO_NODE
        /\ job' = [job EXCEPT !.slot = IF i <= Len(tree.node[l].keys) THEN i + 1 ELSE 1]
        /\ UNCHANGED <<tree, pc, ret>>

RetainStep ==
    LET l == job.at
        i == job.slot
    IN  /\ pc = "retain" /\ l # NO_NODE
        /\ \/ /\ i <= Len(tree.node[l].keys)     \* the predicate holds
              /\ job' = [job EXCEPT !.slot = i + 1]
              /\ UNCHANGED tree
           \/ /\ i <= Len(tree.node[l].keys)     \* the predicate fails
              /\ tree' = WithoutEntry(tree, l, i)
              /\ UNCHANGED job
           \/ /\ i > Len(tree.node[l].keys)
              /\ job' = [at |-> tree.node[l].next, slot |-> 1]
              /\ UNCHANGED tree
        /\ UNCHANGED <<pc, ret>>

RetainEnd ==
    /\ pc = "retain" /\ job.at = NO_NODE
    /\ \/ tree.len = 0 /\ tree' = NewTree /\ Release(tree)
       \/ tree.len > 0 /\ undropped' = {} /\ UNCHANGED tree
    /\ Done /\ UNCHANGED ret

CeilDiv(n, d) == (n + d - 1) \div d
Piece(s, i, d) == SubSeq(s, i * d + 1, IF (i + 1) * d < Len(s) THEN (i + 1) * d ELSE Len(s))

\* bulk_load, phases 1 and 2: full leaves from sorted entries, chained; `row`
\* holds the nodes of the topmost level and `mins` the smallest key below each.
BulkStart(ks, vs) ==
    LET m == CeilDiv(Len(ks), LeafCap)
        leaf(i) == Leaf(Piece(ks, i, LeafCap), Piece(vs, i, LeafCap), NO_NODE,
                        IF i > 0 THEN i - 1 ELSE NO_NODE,
                        IF i + 1 < m THEN i + 1 ELSE NO_NODE)
    IN  [tree |-> [NewTree EXCEPT !.node = [i \in 0 .. m - 1 |-> leaf(i)], !.hi = m,
                                  !.first = 0, !.last = m - 1, !.len = Len(ks)],
         row  |-> [i \in 1 .. m |-> i - 1],
         mins |-> [i \in 1 .. m |-> ks[(i - 1) * LeafCap + 1]]]

BulkState(b) == tree' = b.tree /\ job' = [row |-> b.row, mins |-> b.mins]

BulkLeaves(ks, vs) == BulkState(BulkStart(ks, vs)) /\ pc' = "bulk_load"

BulkInner(mins, kids) == Internal(Tail(mins), kids, NO_NODE)

\* bulk_load, phase 3: one internal level per round, InternalCap + 1 children
\* to a node, separated by the smallest keys of the subtrees.
BulkRow(b) ==
    LET t == b.tree
        d == InternalCap + 1
        m == CeilDiv(Len(b.row), d)
        kids(i) == Piece(b.row, i, d)
        inner(i) == BulkInner(Piece(b.mins, i, d), kids(i))
        parentOf(n) == t.hi + CHOOSE i \in 0 .. m - 1 : n \in ToSet(kids(i))
    IN  [tree |-> [t EXCEPT
             !.node = [n \in DOMAIN @ \cup (t.hi .. t.hi + m - 1) |->
                         IF n \notin DOMAIN @ THEN inner(n - t.hi)
                         ELSE IF n \in ToSet(b.row) THEN [@[n] EXCEPT !.parent = parentOf(n)]
                         ELSE @[n]],
             !.hi = @ + m, !.height = @ + 1],
         row  |-> [i \in 1 .. m |-> t.hi + i - 1],
         mins |-> [i \in 1 .. m |-> b.mins[(i - 1) * d + 1]]]

BulkLevel ==
    /\ pc = "bulk_load" /\ Len(job.row) > 1
    /\ BulkState(BulkRow([tree |-> tree, row |-> job.row, mins |-> job.mins]))
    /\ UNCHANGED <<pc, ret>>

BulkDone ==
    /\ pc = "bulk_load" /\ Len(job.row) = 1
    /\ tree' = [tree EXCEPT !.root = job.row[1]]
    /\ Done /\ UNCHANGED ret

\* The keys, and the values, in chain order.
KeysOf(t) == LET c == Chain(t) IN FlattenSeq([i \in DOMAIN c |-> t.node[c[i]].keys])
ValsOf(t) == LET c == Chain(t) IN FlattenSeq([i \in DOMAIN c |-> t.node[c[i]].vals])

\* shrink_to_fit: the entries, in chain order, into a new arena.
ShrinkToFit ==
    /\ Idle("shrink_to_fit")
    /\ \/ tree.len = 0 /\ tree' = NewTree /\ Release(tree) /\ Done
       \/ tree.len > 0 /\ Release(Consumed(tree)) /\ BulkLeaves(KeysOf(tree), ValsOf(tree))
    /\ UNCHANGED ret

Ascending(S) == [i \in 1 .. Cardinality(S) |->
    CHOOSE k \in S : Cardinality({m \in S : m <= k}) = i]

\* from_iter and from_sorted_iter: a new map with the keys in S.
FromSortedIter(S, v) ==
    /\ Idle("from_iter") /\ tree = NewTree /\ S # {}
    /\ BulkLeaves(Ascending(S), [i \in 1 .. Cardinality(S) |-> v])
    /\ UNCHANGED ret

Get(k) == Idle("get") /\ Return(ValueOf(tree, k)) /\ UNCHANGED tree

\* get_mut, entry(k).and_modify, OccupiedEntry::insert: write through the
\* reference that a search has found.
GetMut(k, v) ==
    LET l == LeafFor(tree, k) IN
    /\ Idle("get_mut")
    /\ Found(tree, k)
    /\ Return(ValueOf(tree, k))
    /\ tree' = [tree EXCEPT !.node[l].vals[SlotFor(tree, l, k)] = v]

\* The hashed-map trait has no order to descend by: it scans the leaf chain.
GetByEq(k) ==
    LET at == ScanFor(tree, k) IN
    /\ Idle("get_by_eq")
    /\ Return(IF at[1] = NO_NODE THEN NONE ELSE tree.node[at[1]].vals[at[2]])
    /\ UNCHANGED tree

-----------------------------------------------------------------------------
Init == tree = NewTree /\ pc = "idle" /\ job = NoJob /\ ret = NONE /\ undropped = {}

\* A call of the API, which may leave work to do.
Call ==
    \/ /\ \/ \E k \in Key : Get(k) \/ GetByEq(k) \/ RemoveKey(k) \/ RemoveByEq(k)
          \/ \E e \in Entries : \/ Insert(e[1], e[2]) \/ TryInsert(e[1], e[2])
                                \/ GetMut(e[1], e[2])
          \/ \E f \in FromSets : FromSortedIter(f[1], f[2])
          \/ PopFirst \/ PopLast \/ RetainBegin
       /\ undropped' = {}
    \/ Clear \/ ShrinkToFit

\* The rest of the call under way.
Work ==
    \/ /\ \/ PropagateSplit \/ PropagateSplitLazy
          \/ RebalanceLeaf \/ RebalanceInternal
          \/ RetainStep \/ BulkLevel \/ BulkDone
       /\ undropped' = {}
    \/ RetainEnd

Next == Call \/ Work

Spec == Init /\ [][Next]_vars

-----------------------------------------------------------------------------
(* What must hold.                                                         *)

\* Rows of nodes from the root down; the last one has the leaves.
Rows(t) ==
    LET row[h \in 0 .. t.height] ==
          IF h = 0 THEN <<t.root>>
          ELSE FlattenSeq([i \in DOMAIN row[h - 1] |-> t.node[row[h - 1][i]].kids])
    IN  row
Leaves(t) == IF t.root = NO_NODE THEN <<>> ELSE Rows(t)[t.height]

Idling == pc = "idle"

\* The links agree with the tree.  The chain that iterators follow is, in both
\* directions, the row of leaves that searches end in; and the parent index of
\* every node is the node it hangs from, at every level, also while a split or
\* a merge travels upward.  A split, a borrow, a merge or a bulk load that
\* forgets a link makes iteration, lookup and later repairs disagree.
WellLinked ==
    /\ Idling => Chain(tree) = Leaves(tree) /\ BackChain(tree) = Reverse(Leaves(tree))
    /\ tree.root # NO_NODE =>
         /\ tree.node[tree.root].parent = NO_NODE
         /\ \A n \in Reachable(tree) :
              \A c \in ToSet(tree.node[n].kids) : tree.node[c].parent = n

\* Every entry in the chain is found by a search for its key, the keys ascend
\* (separators are never moved past an entry), and len() counts them, in the
\* middle of a split or a merge too.
EveryEntryFound ==
    /\ Idling =>
         /\ \A l \in ToSet(Chain(tree)) : \A i \in DOMAIN tree.node[l].keys :
              LET k == tree.node[l].keys[i] IN LeafFor(tree, k) = l /\ SlotFor(tree, l, k) = i
         /\ \A i, j \in DOMAIN KeysOf(tree) : i < j => KeysOf(tree)[i] < KeysOf(tree)[j]
    /\ tree.len = Len(KeysOf(tree))

\* No node is leaked and none is both free and in use.
ArenaAccounted == Idling =>
    /\ DOMAIN tree.node = Reachable(tree)
    /\ ToSet(tree.free) = (0 .. tree.hi - 1) \ Reachable(tree)
    /\ IsInjective(tree.free)

\* What the call under way has left to do: levels above it, nodes of the row,
\* or leaves and entries not visited.
WorkLeft ==
    CASE pc = "propagate_split" -> 1 + Len(job.path)
      [] pc = "propagate_split_lazy" -> 1 + Len(PathTo(tree, job.at))
      [] pc \in {"rebalance_leaf", "rebalance_internal"} -> Len(PathTo(tree, job.at))
      [] pc = "bulk_load" -> Len(job.row)
      [] pc = "retain" -> 1 + Len(KeysBetween(tree, <<job.at, job.slot>>, <<NO_NODE, 1>>))
                            + Len(ChainFrom(tree, job.at))
      [] OTHER -> 0

\* Every step of a split, a repair, a retain or a bulk load leaves less to do,
\* so that the call comes back: none of these loops has a bound of its own.
WorkShrinks == [][pc # "idle" => WorkLeft' < WorkLeft]_vars

\* A range yields the stored keys between its bounds, in order.
Within(k, lo, hi) ==
    /\ lo.kind = "included" => k >= lo.key
    /\ lo.kind = "excluded" => k > lo.key
    /\ hi.kind = "included" => k <= hi.key
    /\ hi.kind = "excluded" => k < hi.key
Proper(lo, hi) == lo.kind # "unbounded" /\ hi.kind # "unbounded" =>
    lo.key <= hi.key /\ ~(lo.key = hi.key /\ {lo.kind, hi.kind} = {"excluded"})
RangeIsExact == Idling => \A lo, hi \in Bound : Proper(lo, hi) =>
    RangeKeys(tree, lo, hi) = SelectSeq(KeysOf(tree), LAMBDA k : Within(k, lo, hi))

\* Whatever the bounds, a range yields only keys within them.  An inverted
\* range does not: see the README.
RangeStaysWithin == Idling => \A lo, hi \in Bound :
    \A k \in ToSet(RangeKeys(tree, lo, hi)) : Within(k, lo, hi)

\* The repair of an underfull node always finds a sibling, instead of computing
\* child_pos - 1 from 0.  A bulk-loaded tree refutes it: see the README.
NoUnderflow == pc # "underflow"

\* lower_bound answers None only when all keys are less than the target:
\* entries behind an emptied leaf count as well.
LowerBoundIsExact == Idling => \A k \in Key :
    LowerBound(tree, k) = <<NO_NODE, 1>> => \A s \in ToSet(KeysOf(tree)) : s < k

\* clear, and the retain that leaves nothing and clears, drop every key of the
\* nodes they give up, the separators in internal nodes included.  It is for
\* runs without "shrink_to_fit", which does leave separators: see the README.
EverythingDropped == undropped = {}

\* The entries in the leaves, as a function.
Stored(t) == [k \in Key |->
    LET ls == {n \in DOMAIN t.node : t.node[n].kids = <<>> /\ k \in ToSet(t.node[n].keys)}
        l  == CHOOSE n \in ls : TRUE
    IN  IF ls = {} THEN NONE ELSE t.node[l].vals[SelectInSeq(t.node[l].keys, LAMBDA x : x = k)]]

Map == INSTANCE MapSpec WITH dict <- Stored(tree), retaining <- pc = "retain"

\* insert, try_insert, remove, the pops, retain, clear and shrink_to_fit change
\* and answer as a dictionary does: splits and repairs change no entry.
ImplementsMap == Map!Spec
=============================================================================
