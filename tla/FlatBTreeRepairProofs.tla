------------------------ MODULE FlatBTreeRepairProofs ------------------------
(*****************************************************************************)
(* The repairs and the searches of FlatBTree.tla.  Each case of the repairs  *)
(* (borrow from the right or the left, merge, collapse of the root) is one   *)
(* of the writes of FlatBTreeArenaProofs.  Descent, path and chain are       *)
(* recursive functions in the specification, so that they exist is proved    *)
(* here, by recursion on the level of a node, and that they give the leaf of *)
(* a key, its ancestors and the row of leaves; then the entry and removal of *)
(* a key in its leaf, and the propagation of a split along the path.         *)
(*****************************************************************************)
EXTENDS FlatBTreeArenaProofs

\* The parts of a sequence with an element in the middle.
LEMMA PartsAroundOne ==
    ASSUME NEW S, NEW c \in Seq(S), NEW s \in S, NEW d \in Seq(S), NEW w, w = c \o <<s>> \o d,
           NEW m, m = Len(c), NEW L, L = Len(w)
    PROVE  /\ w \in Seq(S) /\ L \in Nat /\ m \in Nat /\ L = m + 1 + Len(d) /\ Len(d) \in Nat
           /\ SubSeq(w, 1, m) = c /\ SubSeq(w, m + 2, L) = d /\ w[m + 1] = s
<1>1. PICK c1, M : c1 = c \o <<s>> /\ M = Len(c1)
  OBVIOUS
<1>2. c1 \in Seq(S) /\ Chained(m, 1, c, <<s>>, c1)
  <2>1. <<s>> \in Seq(S) /\ Len(<<s>>) = 1
    OBVIOUS
  <2> QED BY <2>1, <1>1, ConcatDoes
<1>3. m \in Nat /\ M = m + 1 /\ (\A i \in 1 .. m : c1[i] = c[i]) /\ c1[m + 1] = s
  BY <1>1, <1>2 DEF Chained
<1>4. w = c1 \o d
  BY <1>1
<1>5. /\ w \in Seq(S) /\ L \in Nat /\ L = M + Len(d) /\ Len(d) \in Nat /\ SubSeq(w, M + 1, L) = d
  BY <1>1, <1>2, <1>4, PartsOfConcat
<1>6. PICK B : B = Len(d)
  OBVIOUS
<1>7. Chained(M, B, c1, d, w)
  BY <1>1, <1>2, <1>4, <1>6, ConcatDoes
<1>8. \A i \in 1 .. M : w[i] = c1[i]
  BY <1>7 DEF Chained
<1>9. \A i \in 1 .. m : i \in 1 .. M
  BY <1>3
<1>10. m + 1 \in 1 .. M /\ M + 1 = m + 2 /\ B \in Nat /\ L = m + 1 + B
  BY <1>3, <1>5, <1>6
<1>11. PICK x : x = SubSeq(w, 1, m)
  OBVIOUS
<1>12. x \in Seq(S) /\ Len(x) = m - 1 + 1 /\ \A j \in 1 .. m - 1 + 1 : x[j] = w[1 + j - 1]
  <2>1. 1 \in 1 .. Len(w) + 1 /\ m \in (1 - 1) .. Len(w)
    BY <1>3, <1>10
  <2> QED BY <1>5, <1>11, <2>1, SubSeqProps
<1>13. Len(x) = m /\ \A j \in 1 .. m : x[j] = c[j]
  <2>1. m - 1 + 1 = m
    BY <1>3
  <2>2. ASSUME NEW j \in 1 .. m PROVE x[j] = c[j]
    <3>1. 1 + j - 1 = j
      OBVIOUS
    <3> QED BY <3>1, <2>1, <1>3, <1>8, <1>9, <1>12
  <2> QED BY <2>1, <2>2, <1>12
<1>14. x = c
  BY <1>12, <1>13, SameSeq
<1> QED BY <1>3, <1>5, <1>6, <1>8, <1>10, <1>11, <1>14

\* Kids move between the neighbours l and r by way of key j of p.
InnerShift(t, u, p, j, l, r) ==
    /\ SameFrame(t, u)
    /\ u.node[l].keys \o <<u.node[p].keys[j]>> \o u.node[r].keys
         = t.node[l].keys \o <<t.node[p].keys[j]>> \o t.node[r].keys
    /\ u.node[l].kids \o u.node[r].kids = t.node[l].kids \o t.node[r].kids
    /\ Len(u.node[l].kids) = Len(u.node[l].keys) + 1
    /\ Replaced(Key, t.node[p].keys, j, u.node[p].keys[j], u.node[p].keys)
    /\ \A n \in DOMAIN t.node :
         /\ n # p /\ n # l /\ n # r => u.node[n].keys = t.node[n].keys
         /\ n # l /\ n # r => u.node[n].kids = t.node[n].kids
         /\ u.node[n].vals = t.node[n].vals
         /\ u.node[n].next = t.node[n].next /\ u.node[n].prev = t.node[n].prev
         /\ u.node[n].parent = IF n \in ToSet(u.node[r].kids) THEN r
                               ELSE IF n \in ToSet(t.node[r].kids) THEN l ELSE t.node[n].parent

\* The neighbours are nobody's grandchildren.
LEMMA NotBelow ==
    ASSUME NEW t, NEW g, SettledG(t, g), NEW p, NEW j, NEW l, NEW r, Sibs(t, g, p, j, l, r),
           NEW cc \in Seq(Int), NEW dd \in Seq(Int), cc \o dd = t.node[l].kids \o t.node[r].kids
    PROVE  /\ l \notin ToSet(t.node[r].kids) /\ r \notin ToSet(t.node[r].kids) /\ r \notin ToSet(dd)
<1>1. Arena(t) /\ Shape(t, g, {t.root})
  BY DEF SettledG, TreeInv
<1>2. /\ l \in DOMAIN t.node /\ r \in DOMAIN t.node /\ p # l /\ p # r
      /\ t.node[l].parent = p /\ t.node[r].parent = p
  BY DEF Sibs
<1>3. PICK a, b : a = t.node[l].kids /\ b = t.node[r].kids
  OBVIOUS
<1>4. a \in Seq(Int) /\ b \in Seq(Int)
  BY <1>1, <1>2, <1>3, ArenaParts
<1>5. \A i \in 1 .. Len(a) : t.node[a[i]].parent = l
  BY <1>1, <1>2, <1>3 DEF Shape, Hangs, KidOf
<1>6. \A i \in 1 .. Len(b) : t.node[b[i]].parent = r
  BY <1>1, <1>2, <1>3 DEF Shape, Hangs, KidOf
<1>7. PICK e : e = a \o b
  OBVIOUS
<1>8. BothOf(a, b, e) /\ BothOf(cc, dd, e)
  <2>1. e = cc \o dd
    BY <1>3, <1>7
  <2> QED BY <2>1, <1>4, <1>7, ConcatSlots
<1>9. \A i \in 1 .. Len(e) : t.node[e[i]].parent # p
  BY <1>2, <1>5, <1>6, <1>8 DEF BothOf
<1>10. \A i \in 1 .. Len(dd) : t.node[dd[i]].parent # p
  BY <1>8, <1>9 DEF BothOf
<1>11. ToSet(b) = {b[i] : i \in 1 .. Len(b)} /\ ToSet(dd) = {dd[i] : i \in 1 .. Len(dd)}
  BY <1>4, ToSetIs
<1> QED BY <1>2, <1>3, <1>6, <1>10, <1>11

\* As if the neighbours were merged and cut at another place.
LEMMA InnerShiftViews ==
    ASSUME NEW t, NEW u, NEW w, NEW x, NEW g, SettledG(t, g), NEW p, NEW j, NEW l, NEW r,
           Sibs(t, g, p, j, l, r), Arena(u), InnerShift(t, u, p, j, l, r),
           MergeView(t, w, p, j, l, r), InnerJoin(t, w, p, j, l, r), Lacks(t, u, x, p, j),
           NEW m, m = Len(u.node[l].keys)
    PROVE  InnerCut(w, x, l, r, m)
<1>0. PICK k2, c2 : k2 = RemoveAt(t.node[p].keys, j) /\ c2 = RemoveAt(t.node[p].kids, j + 1)
  OBVIOUS
<1>01. PairView(u, x, p, k2, c2)
  BY <1>0 DEF Lacks
<1>1. Arena(t) /\ SameFrame(t, u) /\ SameFrame(u, x)
  BY <1>01 DEF SettledG, TreeInv, InnerShift, PairView
<1>2. /\ p \in DOMAIN t.node /\ l \in DOMAIN t.node /\ r \in DOMAIN t.node /\ p # l /\ p # r /\ l # r
      /\ t.node[l].parent = p /\ t.node[r].parent = p /\ j \in 1 .. Len(t.node[p].keys)
  BY DEF Sibs
<1>3. l \in DOMAIN u.node /\ r \in DOMAIN u.node /\ p \in DOMAIN u.node
  BY <1>1, <1>2 DEF SameFrame
<1>4. PICK c, d, cc, dd, s : /\ c = u.node[l].keys /\ d = u.node[r].keys
                             /\ cc = u.node[l].kids /\ dd = u.node[r].kids /\ s = u.node[p].keys[j]
  OBVIOUS
<1>5. c \in Seq(Key) /\ d \in Seq(Key) /\ cc \in Seq(Int) /\ dd \in Seq(Int) /\ s \in Key
  <2>1. c \in Seq(Key) /\ d \in Seq(Key) /\ cc \in Seq(Int) /\ dd \in Seq(Int)
    BY <1>3, <1>4, ArenaParts
  <2>2. u.node[p].keys \in Seq(Key) /\ Len(u.node[p].keys) = Len(t.node[p].keys)
    BY DEF InnerShift, Replaced
  <2>3. s \in Key
    BY <2>2, <1>2, <1>4
  <2> QED BY <2>1, <2>3
<1>6. /\ w.node[l].keys = c \o <<s>> \o d /\ w.node[l].kids = cc \o dd
      /\ Len(cc) = Len(c) + 1 /\ Len(c) = m /\ cc \o dd = t.node[l].kids \o t.node[r].kids
  BY <1>4 DEF InnerShift, InnerJoin, MergeView
<1>7. PICK wk, wc, L, C : wk = w.node[l].keys /\ wc = w.node[l].kids /\ L = Len(wk) /\ C = Len(wc)
  OBVIOUS
<1>8. SubSeq(wk, 1, m) = c /\ SubSeq(wk, m + 2, L) = d /\ wk[m + 1] = s /\ m \in Nat
  <2>1. wk = c \o <<s>> \o d /\ m = Len(c) /\ L = Len(wk)
    BY <1>6, <1>7
  <2> QED BY ONLY <2>1, <1>5, PartsAroundOne
<1>9. PICK m1 : m1 = Len(cc)
  OBVIOUS
<1>10. SubSeq(wc, 1, m1) = cc /\ SubSeq(wc, m1 + 1, C) = dd
  <2>1. wc = cc \o dd /\ C = Len(wc)
    BY <1>6, <1>7
  <2> QED BY ONLY <2>1, <1>5, <1>9, PartsOfConcat
<1>11. m1 = m + 1 /\ m1 + 1 = m + 2
  BY <1>6, <1>8, <1>9
<1>12. l \notin ToSet(t.node[r].kids) /\ r \notin ToSet(t.node[r].kids) /\ r \notin ToSet(dd)
  BY <1>5, <1>6, NotBelow
<1>13. /\ DOMAIN w.node = DOMAIN t.node \ {r}
       /\ w.root = t.root /\ w.first = t.first /\ w.len = t.len /\ w.height = t.height /\ w.last = t.last
       /\ w.node[p].keys = k2 /\ w.node[p].kids = c2
  BY <1>0 DEF MergeView, InnerJoin
<1>14. ASSUME NEW n \in DOMAIN t.node, n # r
       PROVE  /\ n # p /\ n # l => w.node[n].keys = t.node[n].keys /\ w.node[n].kids = t.node[n].kids
              /\ w.node[n].vals = t.node[n].vals
              /\ w.node[n].next = t.node[n].next /\ w.node[n].prev = t.node[n].prev
              /\ w.node[n].parent = IF n \in ToSet(t.node[r].kids) THEN l ELSE t.node[n].parent
  BY <1>14 DEF MergeView, InnerJoin
<1>15. ASSUME NEW n \in DOMAIN t.node
       PROVE  /\ n # p => x.node[n] = u.node[n]
              /\ x.node[n].prev = t.node[n].prev /\ x.node[n].next = t.node[n].next
              /\ n # p /\ n # l /\ n # r => x.node[n].keys = t.node[n].keys /\ x.node[n].kids = t.node[n].kids
              /\ x.node[n].vals = t.node[n].vals
              /\ x.node[n].parent = IF n \in ToSet(dd) THEN r
                                    ELSE IF n \in ToSet(t.node[r].kids) THEN l ELSE t.node[n].parent
  <2>1. n \in DOMAIN u.node
    BY <1>1 DEF SameFrame
  <2>2. /\ n # p => x.node[n] = u.node[n]
        /\ x.node[n].parent = u.node[n].parent /\ x.node[n].vals = u.node[n].vals
        /\ x.node[n].prev = u.node[n].prev /\ x.node[n].next = u.node[n].next
    BY <2>1, <1>01 DEF PairView
  <2>3. /\ n # p /\ n # l /\ n # r => u.node[n].keys = t.node[n].keys
        /\ n # l /\ n # r => u.node[n].kids = t.node[n].kids
        /\ u.node[n].vals = t.node[n].vals
        /\ u.node[n].next = t.node[n].next /\ u.node[n].prev = t.node[n].prev
        /\ u.node[n].parent = IF n \in ToSet(dd) THEN r
                              ELSE IF n \in ToSet(t.node[r].kids) THEN l ELSE t.node[n].parent
    BY <1>4 DEF InnerShift
  <2> QED BY <2>2, <2>3
<1>16. x.node[p].keys = k2 /\ x.node[p].kids = c2
  BY <1>01 DEF PairView
<1>17. /\ DOMAIN x.node = DOMAIN t.node /\ x.root = t.root /\ x.first = t.first /\ x.last = t.last
       /\ x.len = t.len /\ x.height = t.height
  BY <1>1 DEF SameFrame
<1>18. /\ x.node[l].keys = SubSeq(wk, 1, m) /\ x.node[l].kids = SubSeq(wc, 1, m + 1)
       /\ x.node[r].keys = SubSeq(wk, m + 2, L) /\ x.node[r].kids = SubSeq(wc, m + 2, C)
       /\ x.node[r].kids = dd
  BY <1>2, <1>4, <1>8, <1>10, <1>11, <1>15
<1>19. r \in Nat /\ r \notin DOMAIN w.node /\ DOMAIN x.node = DOMAIN w.node \cup {r}
  <2>1. r \in Nat
    BY <1>1, <1>2 DEF Arena
  <2> QED BY <2>1, <1>2, <1>13, <1>17
<1>20. x.node[r].parent = w.node[l].parent
  BY <1>2, <1>12, <1>14, <1>15
<1>21. ASSUME NEW n \in DOMAIN w.node
       PROVE  /\ n # l => x.node[n].keys = w.node[n].keys /\ x.node[n].kids = w.node[n].kids
              /\ x.node[n].vals = w.node[n].vals
              /\ x.node[n].prev = w.node[n].prev /\ x.node[n].next = w.node[n].next
              /\ x.node[n].parent = IF n \in ToSet(dd) THEN r ELSE w.node[n].parent
  <2>1. n \in DOMAIN t.node /\ n # r
    BY <1>13
  <2>2. CASE n = p
    BY <2>1, <2>2, <1>2, <1>13, <1>14, <1>15, <1>16
  <2>3. CASE n # p
    BY <2>1, <2>3, <1>14, <1>15
  <2> QED BY <2>2, <2>3
<1> QED BY <1>7, <1>13, <1>17, <1>18, <1>19, <1>20, <1>21 DEF InnerCut

\* An internal node takes kids from its neighbour.
LEMMA InnerShiftInv ==
    ASSUME NEW t, NEW u, NEW g, SettledG(t, g), NEW p, NEW j, NEW l, NEW r,
           Sibs(t, g, p, j, l, r), t.node[l].kids # <<>>, Arena(u), InnerShift(t, u, p, j, l, r)
    PROVE  (\E h : SettledG(u, h)) /\ SameEntries(t, u)
<1>1. Arena(t)
  BY DEF SettledG, TreeInv
<1>2. /\ p \in DOMAIN t.node /\ l \in DOMAIN t.node /\ r \in DOMAIN t.node /\ p # l /\ p # r /\ l # r
      /\ t.node[r].parent = p /\ j \in 1 .. Len(t.node[p].keys)
  BY DEF Sibs
<1>4. PICK w : w = WithoutChild(MergedInternals(t, p, j), p, j)
  OBVIOUS
<1>5. Arena(w) /\ MergeView(t, w, p, j, l, r) /\ InnerJoin(t, w, p, j, l, r)
  BY <1>4, MergedInternalsEffect
<1>6. PICK g1 : g1 = JoinG(g, l, r)
  OBVIOUS
<1>7. SettledG(w, g1) /\ SameEntries(t, w)
  BY <1>5, <1>6, InnerJoinInv
<1>8. PICK k2, c2 : k2 = RemoveAt(t.node[p].keys, j) /\ c2 = RemoveAt(t.node[p].kids, j + 1)
  OBVIOUS
<1>9. k2 \in Seq(Key) /\ c2 \in Seq(Int)
  <2>1. w.node[p].keys = k2 /\ w.node[p].kids = c2 /\ p \in DOMAIN w.node
    BY <1>2, <1>5, <1>8 DEF MergeView
  <2> QED BY <2>1, <1>5, ArenaParts
<1>10. PICK x : x = Pair(u, p, k2, c2)
  OBVIOUS
<1>11. p \in DOMAIN u.node /\ l \in DOMAIN u.node /\ r \in DOMAIN u.node
  BY <1>2 DEF InnerShift, SameFrame
<1>12. Arena(x) /\ PairView(u, x, p, k2, c2)
  BY <1>9, <1>10, <1>11, PairEffect
<1>121. Lacks(t, u, x, p, j)
  BY <1>8, <1>12 DEF Lacks
<1>13. PICK m : m = Len(u.node[l].keys)
  OBVIOUS
<1>14. InnerCut(w, x, l, r, m)
  BY <1>5, <1>121, <1>13, InnerShiftViews
<1>15. PICK c, d, s : c = u.node[l].keys /\ d = u.node[r].keys /\ s = u.node[p].keys[j]
  OBVIOUS
<1>16. c \in Seq(Key) /\ d \in Seq(Key) /\ m = Len(c) /\ s \in Key
  <2>1. c \in Seq(Key) /\ d \in Seq(Key)
    BY <1>11, <1>15, ArenaParts
  <2>2. u.node[p].keys \in Seq(Key) /\ Len(u.node[p].keys) = Len(t.node[p].keys)
    BY DEF InnerShift, Replaced
  <2>3. s \in Key
    BY <2>2, <1>2, <1>15
  <2> QED BY <2>1, <2>3, <1>13, <1>15
<1>17. PICK wk, L : wk = w.node[l].keys /\ L = Len(wk)
  OBVIOUS
<1>18. wk = c \o <<s>> \o d
  BY <1>5, <1>15, <1>17 DEF InnerJoin, InnerShift
<1>19. wk[m + 1] = s /\ m \in Nat /\ L = m + 1 + Len(d) /\ Len(d) \in Nat
  BY ONLY <1>16, <1>17, <1>18, PartsAroundOne
<1>20. m \in 0 .. Len(w.node[l].keys) - 1 /\ s = w.node[l].keys[m + 1]
  BY <1>17, <1>19
<1>21. l \in DOMAIN w.node /\ w.node[l].kids # <<>>
  <2>1. w.node[l].kids = t.node[l].kids \o t.node[r].kids /\ DOMAIN w.node = DOMAIN t.node \ {r}
    BY <1>5 DEF MergeView
  <2>2. t.node[l].kids \in Seq(Int) /\ t.node[r].kids \in Seq(Int)
    BY <1>1, <1>2, ArenaParts
  <2>3. PICK a, b : a = t.node[l].kids /\ b = t.node[r].kids
    OBVIOUS
  <2>4. a \o b # <<>>
    BY <2>2, <2>3
  <2> QED BY <2>1, <2>3, <2>4, <1>2
<1>26. PICK g2 : g2 = CutG(g1, l, r, s)
  OBVIOUS
<1>27. SplittingG(x, g2, l, s, r) /\ SameEntries(w, x)
  BY <1>7, <1>12, <1>14, <1>20, <1>21, <1>26, InnerCutInv
<1>275. u.node[r].parent = p /\ u.node[p].kids = t.node[p].kids
  <2>1. PICK cc, dd : cc = u.node[l].kids /\ dd = u.node[r].kids
    OBVIOUS
  <2>2. cc \in Seq(Int) /\ dd \in Seq(Int) /\ cc \o dd = t.node[l].kids \o t.node[r].kids
    BY <2>1, <1>11, ArenaParts DEF InnerShift
  <2>3. r \notin ToSet(t.node[r].kids) /\ r \notin ToSet(dd)
    BY <2>2, NotBelow
  <2> QED BY <2>1, <2>3, <1>2 DEF InnerShift
<1>28. Swapped(t, u, p, j, s, r)
  BY <1>15, <1>16, <1>275 DEF InnerShift, Swapped
<1>281. Reenters(x, u, p, j, s, l, r)
  BY <1>28, <1>121, BackIn
<1>29. /\ EnterView(x, u, p, j, s, r) /\ p \in DOMAIN x.node
       /\ j \in 1 .. Len(x.node[p].kids) /\ x.node[p].kids[j] = l
  BY <1>281 DEF Reenters
<1>30. SettledG(u, Calm(g2)) /\ SameEntries(x, u)
  BY <1>27, <1>29, EnterInv
<1> QED BY <1>7, <1>27, <1>30 DEF SameEntries

\* The first element and the rest, the last one and those before it.
LEMMA SeqEnds ==
    ASSUME NEW S, NEW b \in Seq(S), b # <<>>
    PROVE  /\ Head(b) \in S /\ Tail(b) \in Seq(S) /\ <<Head(b)>> \o Tail(b) = b
           /\ Last(b) \in S /\ Front(b) \in Seq(S) /\ Front(b) \o <<Last(b)>> = b
<1>1. Head(b) \in S /\ Tail(b) \in Seq(S) /\ Last(b) \in S /\ Front(b) \in Seq(S)
  BY LastFront
<1>2. <<Head(b)>> \o Tail(b) = b
  OBVIOUS
<1>3. PICK N : N = Len(b)
  OBVIOUS
<1>4. N \in Nat \ {0} /\ Len(Front(b)) = N - 1 /\ Last(b) = b[N] /\ \A j \in 1 .. N - 1 : Front(b)[j] = b[j]
  BY <1>3, LastFront
<1>5. PICK x, y, w : x = Front(b) /\ y = <<Last(b)>> /\ w = x \o y
  OBVIOUS
<1>6. y \in Seq(S) /\ Len(y) = 1 /\ y[1] = b[N] /\ x \in Seq(S) /\ Len(x) = N - 1
  BY <1>1, <1>4, <1>5
<1>7. PICK A : A = N - 1
  OBVIOUS
<1>8. w \in Seq(S) /\ Chained(A, 1, x, y, w)
  BY <1>5, <1>6, <1>7, ConcatDoes
<1>9. Len(w) = A + 1 /\ (\A i \in 1 .. A : w[i] = x[i]) /\ w[A + 1] = y[1]
  BY <1>8 DEF Chained
<1>10. A + 1 = N /\ A \in Nat /\ \A i \in 1 .. N : i = N \/ i \in 1 .. A
  BY <1>4, <1>7
<1>11. \A i \in 1 .. N : w[i] = b[i]
  BY <1>4, <1>5, <1>6, <1>7, <1>9, <1>10
<1>12. w = b
  BY <1>3, <1>8, <1>9, <1>10, <1>11, SameSeq
<1> QED BY <1>1, <1>2, <1>5, <1>12

\* Three sequences may be joined in either order.
Regrouped(a, b, c) == (a \o b) \o c = a \o (b \o c)

LEMMA Regroup ==
    ASSUME NEW S, NEW a \in Seq(S), NEW b \in Seq(S), NEW c \in Seq(S)
    PROVE  Regrouped(a, b, c)
<1>1. (a \o b) \o c = a \o (b \o c)
  BY ConcatAssociative
<1> QED BY <1>1 DEF Regrouped

\* An element moves to the sequence on the left.
LEMMA MoveLeft ==
    ASSUME NEW S, NEW a \in Seq(S), NEW b \in Seq(S), b # <<>>
    PROVE  Append(a, Head(b)) \in Seq(S) /\ Append(a, Head(b)) \o Tail(b) = a \o b
<1>1. PICK x, y : x = <<Head(b)>> /\ y = Tail(b)
  OBVIOUS
<1>2. x \in Seq(S) /\ y \in Seq(S) /\ x \o y = b /\ Head(b) \in S
  <2>1. Head(b) \in S /\ Tail(b) \in Seq(S) /\ <<Head(b)>> \o Tail(b) = b
    BY SeqEnds
  <2>2. <<Head(b)>> \in Seq(S)
    BY <2>1
  <2> QED BY <2>1, <2>2, <1>1
<1>25. x \in Seq(S) /\ y \in Seq(S)
  BY <1>2
<1>3. (a \o x) \o y = a \o (x \o y)
  <2>1. Regrouped(a, x, y)
    BY <1>25, Regroup
  <2> QED BY ONLY <2>1 DEF Regrouped
<1>4. Append(a, Head(b)) = a \o x /\ a \o x \in Seq(S)
  BY <1>1, <1>2, AppendIsConcat
<1> QED BY <1>1, <1>2, <1>3, <1>4

\* An element moves to the sequence on the right.
LEMMA MoveRight ==
    ASSUME NEW S, NEW a \in Seq(S), NEW b \in Seq(S), a # <<>>
    PROVE  <<Last(a)>> \o b \in Seq(S) /\ Front(a) \o (<<Last(a)>> \o b) = a \o b
<1>1. PICK x, y : x = Front(a) /\ y = <<Last(a)>>
  OBVIOUS
<1>2. x \in Seq(S) /\ y \in Seq(S) /\ x \o y = a
  <2>1. Last(a) \in S /\ Front(a) \in Seq(S) /\ Front(a) \o <<Last(a)>> = a
    BY SeqEnds
  <2>2. <<Last(a)>> \in Seq(S)
    BY <2>1
  <2> QED BY <2>1, <2>2, <1>1
<1>25. x \in Seq(S) /\ y \in Seq(S)
  BY <1>2
<1>3. (x \o y) \o b = x \o (y \o b) /\ y \o b \in Seq(S)
  <2>1. (x \o y) \o b = x \o (y \o b)
    <3>1. Regrouped(x, y, b)
      BY <1>25, Regroup
    <3> QED BY ONLY <3>1 DEF Regrouped
  <2>2. y \o b \in Seq(S)
    BY <1>2
  <2> QED BY <2>1, <2>2
<1> QED BY <1>1, <1>2, <1>3

\* The same, by way of an element in the middle.
LEMMA RotateLeft ==
    ASSUME NEW S, NEW a \in Seq(S), NEW b \in Seq(S), b # <<>>, NEW s \in S
    PROVE  Append(a, s) \in Seq(S) /\ Append(a, s) \o <<Head(b)>> \o Tail(b) = a \o <<s>> \o b
<1>1. PICK x, y, e : x = <<Head(b)>> /\ y = Tail(b) /\ e = a \o <<s>>
  OBVIOUS
<1>2. x \in Seq(S) /\ y \in Seq(S) /\ x \o y = b /\ e \in Seq(S)
  <2>1. Head(b) \in S /\ Tail(b) \in Seq(S) /\ <<Head(b)>> \o Tail(b) = b
    BY SeqEnds
  <2>2. <<Head(b)>> \in Seq(S) /\ <<s>> \in Seq(S)
    BY <2>1
  <2>3. a \o <<s>> \in Seq(S)
    BY <2>2
  <2> QED BY <2>1, <2>2, <2>3, <1>1
<1>25. x \in Seq(S) /\ y \in Seq(S) /\ e \in Seq(S)
  BY <1>2
<1>3. (e \o x) \o y = e \o (x \o y)
  <2>1. Regrouped(e, x, y)
    BY <1>25, Regroup
  <2> QED BY ONLY <2>1 DEF Regrouped
<1>4. Append(a, s) = e
  BY <1>1, AppendIsConcat
<1> QED BY <1>1, <1>2, <1>3, <1>4

\* The same, the other way.
LEMMA RotateRight ==
    ASSUME NEW S, NEW a \in Seq(S), NEW b \in Seq(S), a # <<>>, NEW s \in S
    PROVE  <<s>> \o b \in Seq(S) /\ Front(a) \o <<Last(a)>> \o (<<s>> \o b) = a \o <<s>> \o b
<1>1. PICK x, y, e : x = Front(a) /\ y = <<Last(a)>> /\ e = <<s>>
  OBVIOUS
<1>2. x \in Seq(S) /\ y \in Seq(S) /\ x \o y = a /\ e \in Seq(S)
  <2>1. Last(a) \in S /\ Front(a) \in Seq(S) /\ Front(a) \o <<Last(a)>> = a
    BY SeqEnds
  <2>2. <<Last(a)>> \in Seq(S) /\ <<s>> \in Seq(S)
    BY <2>1
  <2> QED BY <2>1, <2>2, <1>1
<1>3. (a \o e) \o b = a \o (e \o b) /\ e \o b \in Seq(S)
  <2>1. (a \o e) \o b = a \o (e \o b)
    <3>1. e \in Seq(S)
      BY <1>2
    <3>2. Regrouped(a, e, b)
      BY <3>1, Regroup
    <3> QED BY ONLY <3>2 DEF Regrouped
  <2>2. e \o b \in Seq(S)
    BY <1>2
  <2> QED BY <2>1, <2>2
<1> QED BY <1>1, <1>2, <1>3

TradeView(t, u, n, r, p, kn, vn, kr, vr, kp) ==
    /\ SameFrame(t, u)
    /\ u.node[n].keys = kn /\ u.node[n].vals = vn /\ u.node[r].keys = kr /\ u.node[r].vals = vr
    /\ u.node[p].keys = kp
    /\ \A m \in DOMAIN t.node :
         /\ m # n /\ m # r /\ m # p => u.node[m].keys = t.node[m].keys
         /\ m # n /\ m # r => u.node[m].vals = t.node[m].vals
         /\ u.node[m].kids = t.node[m].kids /\ u.node[m].parent = t.node[m].parent
         /\ u.node[m].prev = t.node[m].prev /\ u.node[m].next = t.node[m].next

Trade(f, n, r, p, kn, vn, kr, vr, kp) ==
    WithKeys(WithVals(WithKeys(WithVals(WithKeys(f, n, kn), n, vn), r, kr), r, vr), p, kp)

\* Two leaves and their parent get new contents.
LEMMA TradeEffect ==
    ASSUME NEW t, Arena(t), NEW n \in DOMAIN t.node, NEW r \in DOMAIN t.node, NEW p \in DOMAIN t.node,
           n # r, n # p, r # p, NEW kn \in Seq(Key), NEW vn \in Seq(Value), NEW kr \in Seq(Key),
           NEW vr \in Seq(Value), NEW kp \in Seq(Key), NEW f, f = Trade(t.node, n, r, p, kn, vn, kr, vr, kp), NEW u,
           u = TreeOf(f, t.free, t.hi, t.root, t.first, t.last, t.len, t.height)
    PROVE  Arena(u) /\ TradeView(t, u, n, r, p, kn, vn, kr, vr, kp)
<1>1. PICK D, f0 : D = DOMAIN t.node /\ f0 = t.node
  OBVIOUS
<1>2. f0 \in [D -> NodeRec] /\ n \in D /\ r \in D /\ p \in D
  BY <1>1 DEF Arena
<1>3. PICK f1 : f1 = WithKeys(f0, n, kn)
  OBVIOUS
<1>4. f1 \in [D -> NodeRec] /\ KeysSet(f0, f1, n, kn)
  BY <1>2, <1>3, SetKeys
<1>5. PICK f2 : f2 = WithVals(f1, n, vn)
  OBVIOUS
<1>6. f2 \in [D -> NodeRec] /\ ValsSet(f1, f2, n, vn)
  BY <1>2, <1>4, <1>5, SetVals
<1>7. PICK f3 : f3 = WithKeys(f2, r, kr)
  OBVIOUS
<1>8. f3 \in [D -> NodeRec] /\ KeysSet(f2, f3, r, kr)
  BY <1>2, <1>6, <1>7, SetKeys
<1>9. PICK f4 : f4 = WithVals(f3, r, vr)
  OBVIOUS
<1>10. f4 \in [D -> NodeRec] /\ ValsSet(f3, f4, r, vr)
  BY <1>2, <1>8, <1>9, SetVals
<1>11. PICK f5 : f5 = WithKeys(f4, p, kp)
  OBVIOUS
<1>12. f5 \in [D -> NodeRec] /\ KeysSet(f4, f5, p, kp)
  BY <1>2, <1>10, <1>11, SetKeys
<1>13. f = f5
  BY <1>1, <1>3, <1>5, <1>7, <1>9, <1>11 DEF Trade
<1>14. DOMAIN f0 = D /\ DOMAIN f1 = D /\ DOMAIN f2 = D /\ DOMAIN f3 = D /\ DOMAIN f4 = D
  BY <1>2, <1>4, <1>6, <1>8, <1>10
<1>15. f5[n].keys = kn /\ f5[n].vals = vn
  BY <1>2, <1>4, <1>6, <1>8, <1>10, <1>12, <1>14 DEF KeysSet, ValsSet
<1>16. f5[r].keys = kr /\ f5[r].vals = vr
  BY <1>2, <1>8, <1>10, <1>12, <1>14 DEF KeysSet, ValsSet
<1>17. f5[p].keys = kp
  BY <1>12 DEF KeysSet
<1>18. ASSUME NEW m \in D
       PROVE  /\ m # n /\ m # r /\ m # p => f5[m].keys = f0[m].keys
              /\ m # n /\ m # r => f5[m].vals = f0[m].vals
              /\ f5[m].kids = f0[m].kids /\ f5[m].parent = f0[m].parent
              /\ f5[m].prev = f0[m].prev /\ f5[m].next = f0[m].next
  <2>1. /\ m # n => f1[m].keys = f0[m].keys
        /\ f1[m].vals = f0[m].vals /\ f1[m].kids = f0[m].kids /\ f1[m].parent = f0[m].parent
        /\ f1[m].prev = f0[m].prev /\ f1[m].next = f0[m].next
    BY <1>4, <1>14 DEF KeysSet
  <2>2. /\ m # n => f2[m].vals = f1[m].vals
        /\ f2[m].keys = f1[m].keys /\ f2[m].kids = f1[m].kids /\ f2[m].parent = f1[m].parent
        /\ f2[m].prev = f1[m].prev /\ f2[m].next = f1[m].next
    BY <1>6, <1>14 DEF ValsSet
  <2>3. /\ m # r => f3[m].keys = f2[m].keys
        /\ f3[m].vals = f2[m].vals /\ f3[m].kids = f2[m].kids /\ f3[m].parent = f2[m].parent
        /\ f3[m].prev = f2[m].prev /\ f3[m].next = f2[m].next
    BY <1>8, <1>14 DEF KeysSet
  <2>4. /\ m # r => f4[m].vals = f3[m].vals
        /\ f4[m].keys = f3[m].keys /\ f4[m].kids = f3[m].kids /\ f4[m].parent = f3[m].parent
        /\ f4[m].prev = f3[m].prev /\ f4[m].next = f3[m].next
    BY <1>10, <1>14 DEF ValsSet
  <2>5. /\ m # p => f5[m].keys = f4[m].keys
        /\ f5[m].vals = f4[m].vals /\ f5[m].kids = f4[m].kids /\ f5[m].parent = f4[m].parent
        /\ f5[m].prev = f4[m].prev /\ f5[m].next = f4[m].next
    BY <1>12, <1>14 DEF KeysSet
  <2> QED BY <2>1, <2>2, <2>3, <2>4, <2>5
<1>19. f \in [DOMAIN t.node -> NodeRec]
  BY <1>1, <1>12, <1>13
<1>20. Arena(u) /\ RefittedView(t, u, f, t.len)
  BY <1>19, Refitted
<1>21. SameFrame(t, u) /\ u.node = f5
  BY <1>13, <1>20 DEF RefittedView, SameFrame
<1> QED BY <1>1, <1>15, <1>16, <1>17, <1>18, <1>20, <1>21 DEF TradeView

\* One key of a node is replaced.
LEMMA KeyReplaced ==
    ASSUME NEW D, NEW f \in [D -> NodeRec], NEW p \in D, NEW i, NEW e, NEW kp, kp = [f[p].keys EXCEPT ![i] = e]
    PROVE  [f EXCEPT ![p].keys[i] = e] = WithKeys(f, p, kp)
BY DEF WithKeys

\* The keys and values of two neighbouring leaves.
LEMMA LeafPair ==
    ASSUME NEW t, NEW g, SettledG(t, g), NEW p, NEW j, NEW l, NEW r, Sibs(t, g, p, j, l, r), l \in LeafSet(t)
    PROVE  /\ Arena(t) /\ t.node[l].keys \in Seq(Key) /\ t.node[r].keys \in Seq(Key)
           /\ t.node[l].vals \in Seq(Value) /\ t.node[r].vals \in Seq(Value)
           /\ Len(t.node[l].vals) = Len(t.node[l].keys) /\ Len(t.node[r].vals) = Len(t.node[r].keys)
           /\ t.node[p].keys \in Seq(Key) /\ j \in 1 .. Len(t.node[p].keys)
<1>1. Arena(t) /\ Shape(t, g, {t.root}) /\ Order(t, g)
  BY DEF SettledG, TreeInv
<1>2. /\ p \in DOMAIN t.node /\ l \in DOMAIN t.node /\ r \in DOMAIN t.node /\ p # l /\ p # r /\ l # r
      /\ g.lev[l] = g.lev[r] /\ j \in 1 .. Len(t.node[p].keys)
  BY DEF Sibs
<1>3. t.node[l].kids = <<>> /\ t.node[r].kids = <<>>
  <2>1. LevelOf(g, l, t.node[l]) /\ LevelOf(g, r, t.node[r]) /\ t.node[l].kids = <<>>
    BY <1>1, <1>2 DEF Shape, Hangs, LeafSet
  <2> QED BY <2>1, <1>2 DEF LevelOf
<1>4. Guides(g, l, t.node[l]) /\ Guides(g, r, t.node[r])
  BY <1>1, <1>2 DEF Order
<1>5. Len(t.node[l].vals) = Len(t.node[l].keys) /\ Len(t.node[r].vals) = Len(t.node[r].keys)
  BY <1>3, <1>4 DEF Guides, LeafKeys
<1> QED BY <1>1, <1>2, <1>5, ArenaParts

\* One key of a sequence replaced.
LEMMA ExceptReplaced ==
    ASSUME NEW S, NEW s \in Seq(S), NEW i \in 1 .. Len(s), NEW e \in S, NEW w, w = [s EXCEPT ![i] = e]
    PROVE  w \in Seq(S) /\ Replaced(S, s, i, e, w)
BY ExceptSeq DEF Replaced

HeadMoved(S, a, b, an, bn) ==
    an \in Seq(S) /\ bn \in Seq(S) /\ an \o bn = a \o b /\ Len(an) = Len(a) + 1 /\ Len(bn) = Len(b) - 1
    /\ an # <<>>
LastMoved(S, a, b, an, bn) ==
    an \in Seq(S) /\ bn \in Seq(S) /\ an \o bn = a \o b /\ Len(an) = Len(a) - 1 /\ Len(bn) = Len(b) + 1
    /\ bn # <<>>

\* A list loses its first element to the left.
LEMMA HeadMoves ==
    ASSUME NEW S, NEW a \in Seq(S), NEW b \in Seq(S), b # <<>>, NEW an, NEW bn,
           an = Append(a, Head(b)), bn = Tail(b)
    PROVE  HeadMoved(S, a, b, an, bn)
<1>1. an \in Seq(S) /\ an \o bn = a \o b
  BY MoveLeft
<1>2. bn \in Seq(S) /\ Len(bn) = Len(b) - 1
  OBVIOUS
<1>3. Head(b) \in S
  OBVIOUS
<1>4. Len(an) = Len(a) + 1 /\ an # <<>>
  BY <1>3
<1> QED BY <1>1, <1>2, <1>4 DEF HeadMoved

\* A list loses its last element to the right.
LEMMA LastMoves ==
    ASSUME NEW S, NEW a \in Seq(S), NEW b \in Seq(S), a # <<>>, NEW an, NEW bn,
           an = Front(a), bn = <<Last(a)>> \o b
    PROVE  LastMoved(S, a, b, an, bn)
<1>1. bn \in Seq(S) /\ an \o bn = a \o b
  BY MoveRight
<1>2. an \in Seq(S) /\ Len(an) = Len(a) - 1 /\ Last(a) \in S
  BY LastFront
<1>3. <<Last(a)>> \in Seq(S) /\ Len(<<Last(a)>>) = 1
  BY <1>2
<1>4. Len(bn) = 1 + Len(b) /\ bn # <<>>
  BY <1>3
<1> QED BY <1>1, <1>2, <1>4 DEF LastMoved

\* LeafFromRight moves an entry between neighbours.
LEMMA LeafFromRightEffect ==
    ASSUME NEW t, NEW g, SettledG(t, g), NEW p, NEW j, NEW l, NEW r, Sibs(t, g, p, j, l, r), l \in LeafSet(t),
           Len(t.node[r].keys) >= 2, NEW u, u = LeafFromRight(t, p, j)
    PROVE  Arena(u) /\ LeafShift(t, u, p, j, l, r)
<1>1. PICK a, b, av, bv, pk : /\ a = t.node[l].keys /\ b = t.node[r].keys
                              /\ av = t.node[l].vals /\ bv = t.node[r].vals /\ pk = t.node[p].keys
  OBVIOUS
<1>2. /\ Arena(t) /\ a \in Seq(Key) /\ b \in Seq(Key) /\ av \in Seq(Value) /\ bv \in Seq(Value)
      /\ Len(av) = Len(a) /\ Len(bv) = Len(b) /\ Len(b) >= 2 /\ pk \in Seq(Key) /\ j \in 1 .. Len(pk)
  BY <1>1, LeafPair
<1>3. /\ p \in DOMAIN t.node /\ l \in DOMAIN t.node /\ r \in DOMAIN t.node /\ p # l /\ p # r /\ l # r
      /\ t.node[p].kids[j] = l /\ t.node[p].kids[j + 1] = r
  BY DEF Sibs
<1>4. PICK kn, vn, kr, vr : kn = Append(a, Head(b)) /\ vn = Append(av, Head(bv)) /\ kr = Tail(b) /\ vr = Tail(bv)
  OBVIOUS
<1>5. /\ kn \in Seq(Key) /\ vn \in Seq(Value) /\ kr \in Seq(Key) /\ vr \in Seq(Value)
      /\ kn \o kr = a \o b /\ vn \o vr = av \o bv /\ kn # <<>> /\ kr # <<>> /\ kr[1] = b[2] /\ b[2] \in Key
      /\ Len(vn) = Len(kn)
  <2>1. b # <<>> /\ bv # <<>>
    BY <1>2
  <2>2. HeadMoved(Key, a, b, kn, kr)
    BY <2>1, <1>2, <1>4, HeadMoves
  <2>3. HeadMoved(Value, av, bv, vn, vr)
    BY <2>1, <1>2, <1>4, HeadMoves
  <2>4. kr # <<>> /\ kr[1] = b[2] /\ b[2] \in Key
    <3>1. PICK N : N = Len(b)
      OBVIOUS
    <3>2. N \in Nat /\ N >= 2 /\ 1 \in 1 .. N - 1 /\ 2 \in 1 .. N /\ 1 + 1 = 2
      BY <3>1, <1>2
    <3>3. kr \in Seq(Key) /\ Len(kr) = N - 1 /\ \A i \in 1 .. N - 1 : kr[i] = b[i + 1]
      BY <3>1, <2>1, <1>2, <1>4, LastFront
    <3>4. kr[1] = b[2] /\ Len(kr) # 0
      BY <3>2, <3>3
    <3>5. b[2] \in Key
      BY <3>1, <3>2, <1>2
    <3>6. kr \in Seq(Key) /\ Len(kr) # 0
      BY <3>3, <3>4
    <3>7. kr # <<>>
      BY <3>6
    <3> QED BY <3>4, <3>5, <3>7
  <2>5. Len(vn) = Len(kn)
    BY <2>2, <2>3, <1>2 DEF HeadMoved
  <2> QED BY <2>2, <2>3, <2>4, <2>5 DEF HeadMoved
<1>6. PICK kp : kp = [pk EXCEPT ![j] = b[2]]
  OBVIOUS
<1>7. kp \in Seq(Key) /\ Replaced(Key, pk, j, b[2], kp)
  BY <1>2, <1>5, <1>6, ExceptReplaced
<1>8. t = TreeOf(t.node, t.free, t.hi, t.root, t.first, t.last, t.len, t.height)
  BY <1>2, ArenaParts
<1>9. PICK f5 : f5 = Trade(t.node, l, r, p, kn, vn, kr, vr, kp)
  OBVIOUS
<1>27. u = [t EXCEPT !.node = f5]
  BY <1>1, <1>3, <1>4, <1>6, <1>9 DEF LeafFromRight, Trade
<1>28. u = TreeOf(f5, t.free, t.hi, t.root, t.first, t.last, t.len, t.height)
  BY <1>8, <1>27 DEF TreeOf
<1>29. Arena(u) /\ TradeView(t, u, l, r, p, kn, vn, kr, vr, kp)
  BY <1>2, <1>3, <1>5, <1>7, <1>9, <1>28, TradeEffect
<1>30. LeafShift(t, u, p, j, l, r)
  <2>1. /\ SameFrame(t, u) /\ u.node[l].keys = kn /\ u.node[l].vals = vn /\ u.node[r].keys = kr /\ u.node[r].vals = vr
        /\ u.node[p].keys = kp
    BY <1>29 DEF TradeView
  <2>2. \A m \in DOMAIN t.node :
         /\ m # p /\ m # l /\ m # r => u.node[m].keys = t.node[m].keys
         /\ m # l /\ m # r => u.node[m].vals = t.node[m].vals
         /\ u.node[m].kids = t.node[m].kids /\ u.node[m].parent = t.node[m].parent
         /\ u.node[m].next = t.node[m].next /\ u.node[m].prev = t.node[m].prev
    BY <1>29 DEF TradeView
  <2> QED BY <2>1, <2>2, <1>1, <1>5, <1>7 DEF LeafShift
<1> QED BY <1>29, <1>30

\* LeafFromLeft moves an entry between neighbours.
LEMMA LeafFromLeftEffect ==
    ASSUME NEW t, NEW g, SettledG(t, g), NEW p, NEW j, NEW l, NEW r, Sibs(t, g, p, j, l, r), l \in LeafSet(t),
           Len(t.node[l].keys) >= 2, NEW i, j = i - 1, i = j + 1, NEW u, u = LeafFromLeft(t, p, i)
    PROVE  Arena(u) /\ LeafShift(t, u, p, j, l, r)
<1>1. PICK a, b, av, bv, pk : /\ a = t.node[l].keys /\ b = t.node[r].keys
                              /\ av = t.node[l].vals /\ bv = t.node[r].vals /\ pk = t.node[p].keys
  OBVIOUS
<1>2. /\ Arena(t) /\ a \in Seq(Key) /\ b \in Seq(Key) /\ av \in Seq(Value) /\ bv \in Seq(Value)
      /\ Len(av) = Len(a) /\ Len(bv) = Len(b) /\ Len(a) >= 2 /\ pk \in Seq(Key) /\ j \in 1 .. Len(pk)
  BY <1>1, LeafPair
<1>3. /\ p \in DOMAIN t.node /\ l \in DOMAIN t.node /\ r \in DOMAIN t.node /\ p # l /\ p # r /\ l # r
      /\ t.node[p].kids[j] = l /\ t.node[p].kids[j + 1] = r
  BY DEF Sibs
<1>4. PICK kn, vn, kl, vl, s : /\ kl = Front(a) /\ vl = Front(av) /\ kn = <<Last(a)>> \o b
                               /\ vn = <<Last(av)>> \o bv /\ s = Last(a)
  OBVIOUS
<1>5. /\ kn \in Seq(Key) /\ vn \in Seq(Value) /\ kl \in Seq(Key) /\ vl \in Seq(Value)
      /\ kl \o kn = a \o b /\ vl \o vn = av \o bv /\ kl # <<>> /\ kn # <<>> /\ kn[1] = s /\ s \in Key
      /\ Len(vl) = Len(kl)
  <2>1. a # <<>> /\ av # <<>>
    BY <1>2
  <2>2. LastMoved(Key, a, b, kl, kn)
    BY <2>1, <1>2, <1>4, LastMoves
  <2>3. LastMoved(Value, av, bv, vl, vn)
    BY <2>1, <1>2, <1>4, LastMoves
  <2>4. s \in Key
    BY <2>1, <1>2, <1>4, SeqEnds
  <2>5. kn[1] = s
    BY <2>4, <1>2, <1>4
  <2>6. Len(vl) = Len(kl)
    BY <2>2, <2>3, <1>2 DEF LastMoved
  <2>7. Len(kl) = Len(a) - 1 /\ Len(a) \in Nat /\ kl \in Seq(Key)
    BY <2>2, <1>2 DEF LastMoved
  <2>8. kl # <<>>
    BY <2>7, <1>2
  <2> QED BY <2>2, <2>3, <2>4, <2>5, <2>6, <2>8 DEF LastMoved
<1>6. PICK kp : kp = [pk EXCEPT ![j] = s]
  OBVIOUS
<1>7. kp \in Seq(Key) /\ Replaced(Key, pk, j, s, kp)
  BY <1>2, <1>5, <1>6, ExceptReplaced
<1>8. t = TreeOf(t.node, t.free, t.hi, t.root, t.first, t.last, t.len, t.height)
  BY <1>2, ArenaParts
<1>91. PICK f5 : f5 = Trade(t.node, r, l, p, kn, vn, kl, vl, kp)
  OBVIOUS
<1>9. u = [t EXCEPT !.node = f5]
  BY <1>1, <1>3, <1>4, <1>6, <1>91 DEF LeafFromLeft, Trade
<1>92. u = TreeOf(f5, t.free, t.hi, t.root, t.first, t.last, t.len, t.height)
  BY <1>8, <1>9 DEF TreeOf
<1>93. Arena(u) /\ TradeView(t, u, r, l, p, kn, vn, kl, vl, kp)
  <2>1. /\ kn \in Seq(Key) /\ vn \in Seq(Value) /\ kl \in Seq(Key) /\ vl \in Seq(Value) /\ kp \in Seq(Key)
        /\ p \in DOMAIN t.node /\ l \in DOMAIN t.node /\ r \in DOMAIN t.node /\ r # l /\ r # p /\ l # p /\ Arena(t)
    BY <1>2, <1>3, <1>5, <1>7
  <2> QED BY ONLY <2>1, <1>91, <1>92, TradeEffect
<1>94. LeafShift(t, u, p, j, l, r)
  <2>1. /\ SameFrame(t, u) /\ u.node[r].keys = kn /\ u.node[r].vals = vn /\ u.node[l].keys = kl /\ u.node[l].vals = vl
        /\ u.node[p].keys = kp
    BY <1>93 DEF TradeView
  <2>2. \A m \in DOMAIN t.node :
         /\ m # p /\ m # l /\ m # r => u.node[m].keys = t.node[m].keys
         /\ m # l /\ m # r => u.node[m].vals = t.node[m].vals
         /\ u.node[m].kids = t.node[m].kids /\ u.node[m].parent = t.node[m].parent
         /\ u.node[m].next = t.node[m].next /\ u.node[m].prev = t.node[m].prev
    BY <1>93 DEF TradeView
  <2> QED BY <2>1, <2>2, <1>1, <1>5, <1>7 DEF LeafShift
<1> QED BY <1>93, <1>94

InnerTradeView(t, u, n, r, p, c, kn, cn, kp, kr, cr) ==
    /\ SameFrame(t, u)
    /\ u.node[n].keys = kn /\ u.node[n].kids = cn /\ u.node[r].keys = kr /\ u.node[r].kids = cr
    /\ u.node[p].keys = kp
    /\ \A m \in DOMAIN t.node :
         /\ m # n /\ m # r /\ m # p => u.node[m].keys = t.node[m].keys
         /\ m # n /\ m # r => u.node[m].kids = t.node[m].kids
         /\ u.node[m].vals = t.node[m].vals
         /\ u.node[m].parent = IF m = c THEN n ELSE t.node[m].parent
         /\ u.node[m].prev = t.node[m].prev /\ u.node[m].next = t.node[m].next

InnerTrade(f, n, r, p, c, kn, cn, kp, kr, cr) ==
    WithKids(WithKeys(WithKeys(WithParent(WithKids(WithKeys(f, n, kn), n, cn), c, n), p, kp), r, kr), r, cr)

\* Two internal nodes and their parent get new contents.
LEMMA InnerTradeEffect ==
    ASSUME NEW t, Arena(t), NEW n \in DOMAIN t.node, NEW r \in DOMAIN t.node, NEW p \in DOMAIN t.node,
           NEW c \in DOMAIN t.node, n # r, n # p, r # p, NEW kn \in Seq(Key), NEW cn \in Seq(Int), NEW kr \in Seq(Key),
           NEW cr \in Seq(Int), NEW kp \in Seq(Key), NEW f, f = InnerTrade(t.node, n, r, p, c, kn, cn, kp, kr, cr), NEW u,
           u = TreeOf(f, t.free, t.hi, t.root, t.first, t.last, t.len, t.height)
    PROVE  Arena(u) /\ InnerTradeView(t, u, n, r, p, c, kn, cn, kp, kr, cr)
<1>1. PICK D, f0 : D = DOMAIN t.node /\ f0 = t.node
  OBVIOUS
<1>2. f0 \in [D -> NodeRec] /\ n \in D /\ r \in D /\ p \in D /\ c \in D /\ n \in Int
  BY <1>1, ArenaParts DEF Arena
<1>3. PICK f1 : f1 = WithKeys(f0, n, kn)
  OBVIOUS
<1>4. f1 \in [D -> NodeRec] /\ KeysSet(f0, f1, n, kn)
  BY <1>2, <1>3, SetKeys
<1>5. PICK f2 : f2 = WithKids(f1, n, cn)
  OBVIOUS
<1>6. f2 \in [D -> NodeRec] /\ KidsSet(f1, f2, n, cn)
  BY <1>2, <1>5, <1>4, SetKids
<1>7. PICK f3 : f3 = WithParent(f2, c, n)
  OBVIOUS
<1>8. f3 \in [D -> NodeRec] /\ ParentSet(f2, f3, c, n)
  BY <1>2, <1>7, <1>6, SetParent
<1>9. PICK f4 : f4 = WithKeys(f3, p, kp)
  OBVIOUS
<1>10. f4 \in [D -> NodeRec] /\ KeysSet(f3, f4, p, kp)
  BY <1>2, <1>9, <1>8, SetKeys
<1>11. PICK f5 : f5 = WithKeys(f4, r, kr)
  OBVIOUS
<1>12. f5 \in [D -> NodeRec] /\ KeysSet(f4, f5, r, kr)
  BY <1>2, <1>11, <1>10, SetKeys
<1>13. PICK f6 : f6 = WithKids(f5, r, cr)
  OBVIOUS
<1>14. f6 \in [D -> NodeRec] /\ KidsSet(f5, f6, r, cr)
  BY <1>2, <1>13, <1>12, SetKids
<1>15. f = f6
  BY <1>1, <1>3, <1>5, <1>7, <1>9, <1>11, <1>13 DEF InnerTrade
<1>16. DOMAIN f0 = D /\ DOMAIN f1 = D /\ DOMAIN f2 = D /\ DOMAIN f3 = D /\ DOMAIN f4 = D /\ DOMAIN f5 = D
  BY <1>2, <1>4, <1>6, <1>8, <1>10, <1>12, <1>14
<1>17. ASSUME NEW m \in D
       PROVE  /\ m # n /\ m # r /\ m # p => f6[m].keys = f0[m].keys
              /\ m # n /\ m # r => f6[m].kids = f0[m].kids
              /\ f6[m].vals = f0[m].vals
              /\ m = c => f6[m].parent = n
              /\ m # c => f6[m].parent = f0[m].parent
              /\ f6[m].prev = f0[m].prev /\ f6[m].next = f0[m].next
              /\ m = n => f6[m].keys = kn /\ f6[m].kids = cn
              /\ m = r => f6[m].keys = kr /\ f6[m].kids = cr
              /\ m = p => f6[m].keys = kp
  <2>1. (m # n => f1[m].keys = f0[m].keys) /\ f1[m].vals = f0[m].vals /\ f1[m].kids = f0[m].kids /\ f1[m].parent = f0[m].parent /\ f1[m].prev = f0[m].prev /\ f1[m].next = f0[m].next
        /\ (m = n => f1[m].keys = kn)
    BY <1>4, <1>16, <1>2 DEF KeysSet
  <2>2. (m # n => f2[m].kids = f1[m].kids) /\ f2[m].keys = f1[m].keys /\ f2[m].vals = f1[m].vals /\ f2[m].parent = f1[m].parent /\ f2[m].prev = f1[m].prev /\ f2[m].next = f1[m].next
        /\ (m = n => f2[m].kids = cn)
    BY <1>6, <1>16, <1>2 DEF KidsSet
  <2>3. (m # c => f3[m].parent = f2[m].parent) /\ f3[m].keys = f2[m].keys /\ f3[m].vals = f2[m].vals /\ f3[m].kids = f2[m].kids /\ f3[m].prev = f2[m].prev /\ f3[m].next = f2[m].next
        /\ (m = c => f3[m].parent = n)
    BY <1>8, <1>16, <1>2 DEF ParentSet
  <2>4. (m # p => f4[m].keys = f3[m].keys) /\ f4[m].vals = f3[m].vals /\ f4[m].kids = f3[m].kids /\ f4[m].parent = f3[m].parent /\ f4[m].prev = f3[m].prev /\ f4[m].next = f3[m].next
        /\ (m = p => f4[m].keys = kp)
    BY <1>10, <1>16, <1>2 DEF KeysSet
  <2>5. (m # r => f5[m].keys = f4[m].keys) /\ f5[m].vals = f4[m].vals /\ f5[m].kids = f4[m].kids /\ f5[m].parent = f4[m].parent /\ f5[m].prev = f4[m].prev /\ f5[m].next = f4[m].next
        /\ (m = r => f5[m].keys = kr)
    BY <1>12, <1>16, <1>2 DEF KeysSet
  <2>6. (m # r => f6[m].kids = f5[m].kids) /\ f6[m].keys = f5[m].keys /\ f6[m].vals = f5[m].vals /\ f6[m].parent = f5[m].parent /\ f6[m].prev = f5[m].prev /\ f6[m].next = f5[m].next
        /\ (m = r => f6[m].kids = cr)
    BY <1>14, <1>16, <1>2 DEF KidsSet
  <2> QED BY <2>1, <2>2, <2>3, <2>4, <2>5, <2>6
<1>18. f \in [DOMAIN t.node -> NodeRec]
  BY <1>1, <1>14, <1>15
<1>19. Arena(u) /\ RefittedView(t, u, f, t.len)
  BY <1>18, Refitted
<1>20. SameFrame(t, u) /\ u.node = f6
  BY <1>15, <1>19 DEF RefittedView, SameFrame
<1> QED BY <1>1, <1>2, <1>17, <1>19, <1>20 DEF InnerTradeView

\* The keys and kids of two neighbouring internal nodes.
LEMMA InnerPair ==
    ASSUME NEW t, NEW g, SettledG(t, g), NEW p, NEW j, NEW l, NEW r, Sibs(t, g, p, j, l, r), t.node[l].kids # <<>>
    PROVE  /\ Arena(t) /\ t.node[l].keys \in Seq(Key) /\ t.node[r].keys \in Seq(Key)
           /\ t.node[l].kids \in Seq(Int) /\ t.node[r].kids \in Seq(Int) /\ t.node[r].kids # <<>>
           /\ Len(t.node[l].kids) = Len(t.node[l].keys) + 1 /\ Len(t.node[r].kids) = Len(t.node[r].keys) + 1
           /\ t.node[p].keys \in Seq(Key) /\ j \in 1 .. Len(t.node[p].keys) /\ t.node[p].keys[j] \in Key
           /\ \A i \in 1 .. Len(t.node[l].kids) : t.node[l].kids[i] \in DOMAIN t.node /\ t.node[t.node[l].kids[i]].parent = l
           /\ \A i \in 1 .. Len(t.node[r].kids) : t.node[r].kids[i] \in DOMAIN t.node /\ t.node[t.node[r].kids[i]].parent = r
<1>1. Arena(t) /\ Shape(t, g, {t.root}) /\ Order(t, g)
  BY DEF SettledG, TreeInv
<1>2. /\ p \in DOMAIN t.node /\ l \in DOMAIN t.node /\ r \in DOMAIN t.node
      /\ g.lev[l] = g.lev[r] /\ j \in 1 .. Len(t.node[p].keys) /\ t.node[p].keys[j] \in Key
  BY DEF Sibs
<1>3. t.node[r].kids # <<>>
  <2>1. LevelOf(g, l, t.node[l]) /\ LevelOf(g, r, t.node[r])
    BY <1>1, <1>2 DEF Shape, Hangs
  <2> QED BY <2>1, <1>2 DEF LevelOf
<1>4. Guides(g, l, t.node[l]) /\ Guides(g, r, t.node[r])
  BY <1>1, <1>2 DEF Order
<1>5. Len(t.node[l].kids) = Len(t.node[l].keys) + 1 /\ Len(t.node[r].kids) = Len(t.node[r].keys) + 1
  BY <1>3, <1>4 DEF Guides, InnerKeys
<1>6. \A i \in 1 .. Len(t.node[l].kids) : t.node[l].kids[i] \in DOMAIN t.node /\ t.node[t.node[l].kids[i]].parent = l
  BY <1>1, <1>2 DEF Shape, Hangs, KidOf
<1>7. \A i \in 1 .. Len(t.node[r].kids) : t.node[r].kids[i] \in DOMAIN t.node /\ t.node[t.node[r].kids[i]].parent = r
  BY <1>1, <1>2 DEF Shape, Hangs, KidOf
<1>8. /\ t.node[l].keys \in Seq(Key) /\ t.node[r].keys \in Seq(Key)
      /\ t.node[l].kids \in Seq(Int) /\ t.node[r].kids \in Seq(Int) /\ t.node[p].keys \in Seq(Key)
  BY <1>1, <1>2, ArenaParts
<1> QED BY <1>1, <1>2, <1>3, <1>5, <1>6, <1>7, <1>8

\* What a list without its first element, and one with a new first element, holds.
LEMMA EndsOfSet ==
    ASSUME NEW S, NEW b \in Seq(S), b # <<>>, \A i, k \in 1 .. Len(b) : i # k => b[i] # b[k]
    PROVE  ToSet(b) = ToSet(Tail(b)) \cup {Head(b)} /\ Head(b) \notin ToSet(Tail(b))
<1>1. PICK N, d : N = Len(b) /\ d = Tail(b)
  OBVIOUS
<1>2. N \in Nat \ {0} /\ d \in Seq(S) /\ Len(d) = N - 1 /\ Head(b) = b[1] /\ \A i \in 1 .. N - 1 : d[i] = b[i + 1]
  BY <1>1, LastFront
<1>3. ToSet(b) = {b[i] : i \in 1 .. N} /\ ToSet(d) = {d[i] : i \in 1 .. N - 1}
  <2>1. ToSet(b) = {b[i] : i \in 1 .. Len(b)}
    BY ToSetIs
  <2>2. d \in Seq(S)
    BY <1>2
  <2>3. ToSet(d) = {d[i] : i \in 1 .. Len(d)}
    BY <2>2, ToSetIs
  <2>4. Len(d) = N - 1
    BY <1>2
  <2> QED BY <2>1, <2>3, <2>4, <1>1
<1>4. \A i \in 1 .. N - 1 : i + 1 \in 1 .. N /\ i + 1 # 1
  BY <1>2
<1>5. \A i \in 1 .. N : i = 1 \/ (i - 1 \in 1 .. N - 1 /\ (i - 1) + 1 = i)
  BY <1>2
<1>6. 1 \in 1 .. N
  BY <1>2
<1>7. ToSet(d) \subseteq ToSet(b) /\ b[1] \in ToSet(b)
  BY <1>2, <1>3, <1>4, <1>6
<1>8. ASSUME NEW i \in 1 .. N PROVE b[i] \in ToSet(d) \cup {b[1]}
  BY <1>2, <1>3, <1>5
<1>9. b[1] \notin ToSet(d)
  BY <1>1, <1>2, <1>3, <1>4, <1>6
<1> QED BY <1>1, <1>2, <1>3, <1>7, <1>8, <1>9

\* A new first element.
LEMMA FrontOfSet ==
    ASSUME NEW S, NEW b \in Seq(S), NEW c \in S
    PROVE  ToSet(<<c>> \o b) = ToSet(b) \cup {c}
<1>1. PICK N, d : N = Len(b) /\ d = <<c>> \o b
  OBVIOUS
<1>2. <<c>> \in Seq(S) /\ Len(<<c>>) = 1 /\ N \in Nat
  BY <1>1
<1>3. d \in Seq(S) /\ BothOf(<<c>>, b, d)
  BY <1>1, <1>2, ConcatSlots, ConcatProps
<1>4. ToSet(b) = {b[i] : i \in 1 .. Len(b)} /\ ToSet(d) = {d[i] : i \in 1 .. Len(d)}
  <2>1. d \in Seq(S)
    BY <1>3
  <2> QED BY ONLY <2>1, b \in Seq(S), ToSetIs
<1>5. \A i \in 1 .. Len(b) : b[i] \in ToSet(d)
  BY <1>3, <1>4 DEF BothOf
<1>6. c \in ToSet(d)
  <2>1. 1 \in 1 .. Len(<<c>>) /\ <<c>>[1] = c
    BY <1>2
  <2> QED BY <2>1, <1>3, <1>4 DEF BothOf
<1>7. \A a \in 1 .. Len(<<c>>) : <<c>>[a] = c
  BY <1>2
<1>8. \A i \in 1 .. Len(d) : d[i] \in ToSet(b) \cup {c}
  BY <1>3, <1>4, <1>7 DEF BothOf
<1>9. ToSet(d) = ToSet(b) \cup {c}
  BY <1>4, <1>5, <1>6, <1>8
<1> QED BY <1>1, <1>9

\* InternalFromRight moves a kid between neighbours.
LEMMA InternalFromRightEffect ==
    ASSUME NEW t, NEW g, SettledG(t, g), NEW p, NEW j, NEW l, NEW r, Sibs(t, g, p, j, l, r), t.node[l].kids # <<>>,
           t.node[r].keys # <<>>, NEW u, u = InternalFromRight(t, p, j)
    PROVE  Arena(u) /\ InnerShift(t, u, p, j, l, r)
<1>1. PICK a, b, ca, cb, pk, s : /\ a = t.node[l].keys /\ b = t.node[r].keys
                              /\ ca = t.node[l].kids /\ cb = t.node[r].kids /\ pk = t.node[p].keys /\ s = pk[j]
  OBVIOUS
<1>2. /\ Arena(t) /\ a \in Seq(Key) /\ b \in Seq(Key) /\ ca \in Seq(Int) /\ cb \in Seq(Int) /\ ca # <<>> /\ cb # <<>>
      /\ Len(ca) = Len(a) + 1 /\ Len(cb) = Len(b) + 1 /\ pk \in Seq(Key) /\ j \in 1 .. Len(pk) /\ s \in Key
      /\ \A i \in 1 .. Len(ca) : ca[i] \in DOMAIN t.node /\ t.node[ca[i]].parent = l
      /\ \A i \in 1 .. Len(cb) : cb[i] \in DOMAIN t.node /\ t.node[cb[i]].parent = r
  BY <1>1, InnerPair
<1>201. /\ a \in Seq(Key) /\ b \in Seq(Key) /\ ca \in Seq(Int) /\ cb \in Seq(Int) /\ ca # <<>> /\ cb # <<>>
        /\ pk \in Seq(Key) /\ j \in 1 .. Len(pk) /\ s \in Key /\ Arena(t)
  BY <1>2
<1>3. /\ p \in DOMAIN t.node /\ l \in DOMAIN t.node /\ r \in DOMAIN t.node /\ p # l /\ p # r /\ l # r
      /\ t.node[p].kids[j] = l /\ t.node[p].kids[j + 1] = r
  BY DEF Sibs
<1>301. b # <<>>
  BY <1>1
<1>4. PICK kl, cl, kr, cr, e, c : /\ kl = Append(a, s) /\ cl = Append(ca, Head(cb)) /\ kr = Tail(b) /\ cr = Tail(cb)
                                  /\ e = Head(b) /\ c = Head(cb)
  OBVIOUS
<1>5. /\ kl \in Seq(Key) /\ cl \in Seq(Int) /\ kr \in Seq(Key) /\ cr \in Seq(Int)
      /\ kl \o <<e>> \o kr = a \o <<s>> \o b /\ cl \o cr = ca \o cb /\ e \in Key /\ Len(cl) = Len(kl) + 1
  <2>1. HeadMoved(Int, ca, cb, cl, cr)
    BY <1>201, <1>4, HeadMoves
  <2>2. kl \in Seq(Key) /\ kl \o <<e>> \o kr = a \o <<s>> \o b
    BY <1>201, <1>301, <1>4, RotateLeft
  <2>3. kr \in Seq(Key) /\ e \in Key
    BY <1>201, <1>301, <1>4, SeqEnds
  <2>4. Len(kl) = Len(a) + 1
    BY <1>2, <1>4
  <2>5. Len(cl) = Len(kl) + 1
    BY <2>1, <2>4, <1>2 DEF HeadMoved
  <2> QED BY <2>1, <2>2, <2>3, <2>5 DEF HeadMoved
<1>501. /\ kl \in Seq(Key) /\ cl \in Seq(Int) /\ kr \in Seq(Key) /\ cr \in Seq(Int) /\ e \in Key
  BY <1>5
<1>511. c \in DOMAIN t.node /\ c \in Int /\ t.node[c].parent = r
  <2>1. c = cb[1] /\ 1 \in 1 .. Len(cb)
    BY <1>2, <1>4
  <2> QED BY <2>1, <1>2
<1>512. ToSet(cb) = ToSet(cr) \cup {c} /\ c \notin ToSet(cr)
  <2>1. \A i, k \in 1 .. Len(cb) : i # k => cb[i] # cb[k]
    BY <1>1, <1>3, KidsDistinct DEF SettledG, TreeInv
  <2> QED BY <2>1, <1>201, <1>4, EndsOfSet
<1>6. PICK kp : kp = [pk EXCEPT ![j] = e]
  OBVIOUS
<1>7. kp \in Seq(Key) /\ Replaced(Key, pk, j, e, kp)
  BY <1>201, <1>501, <1>6, ExceptReplaced
<1>8. l \in Int /\ r \in Int
  BY <1>201, <1>3, ArenaParts
<1>9. t = TreeOf(t.node, t.free, t.hi, t.root, t.first, t.last, t.len, t.height)
  BY <1>201, ArenaParts
<1>91. PICK f6 : f6 = InnerTrade(t.node, l, r, p, c, kl, cl, kp, kr, cr)
  OBVIOUS
<1>10. u = [t EXCEPT !.node = f6]
  BY <1>1, <1>3, <1>4, <1>6, <1>91 DEF InternalFromRight, InnerTrade
<1>92. u = TreeOf(f6, t.free, t.hi, t.root, t.first, t.last, t.len, t.height)
  BY <1>9, <1>10 DEF TreeOf
<1>93. Arena(u) /\ InnerTradeView(t, u, l, r, p, c, kl, cl, kp, kr, cr)
  <2>1. kl \in Seq(Key) /\ cl \in Seq(Int) /\ kr \in Seq(Key) /\ cr \in Seq(Int)
    BY ONLY <1>501
  <2>2. kp \in Seq(Key)
    BY ONLY <1>7
  <2>3. p \in DOMAIN t.node /\ l \in DOMAIN t.node /\ r \in DOMAIN t.node
    BY ONLY <1>3
  <2>4. r # l /\ r # p /\ l # p /\ l # r
    BY ONLY <1>3
  <2>5. c \in DOMAIN t.node
    BY ONLY <1>511
  <2>6. Arena(t)
    BY ONLY <1>201
  <2> QED BY ONLY <2>1, <2>2, <2>3, <2>4, <2>5, <2>6, <1>91, <1>92, InnerTradeEffect
<1>94. InnerShift(t, u, p, j, l, r)
  <2>1. /\ SameFrame(t, u) /\ u.node[r].keys = kr /\ u.node[r].kids = cr /\ u.node[l].keys = kl /\ u.node[l].kids = cl
        /\ u.node[p].keys = kp
    BY <1>93 DEF InnerTradeView
  <2>2. \A m \in DOMAIN t.node :
         /\ m # p /\ m # l /\ m # r => u.node[m].keys = t.node[m].keys
         /\ m # l /\ m # r => u.node[m].kids = t.node[m].kids
         /\ u.node[m].vals = t.node[m].vals
         /\ u.node[m].parent = IF m = c THEN l ELSE t.node[m].parent
         /\ u.node[m].next = t.node[m].next /\ u.node[m].prev = t.node[m].prev
    BY <1>93 DEF InnerTradeView
  <2>3. ToSet(cb) = {cb[i] : i \in 1 .. Len(cb)}
    BY <1>2, ToSetIs
  <2>4. \A m \in ToSet(cb) : t.node[m].parent = r
    BY <2>3, <1>2
  <2>5. ASSUME NEW m \in DOMAIN t.node
        PROVE  u.node[m].parent = IF m \in ToSet(cr) THEN r ELSE IF m \in ToSet(cb) THEN l ELSE t.node[m].parent
    <3>1. u.node[m].parent = IF m = c THEN l ELSE t.node[m].parent
      BY <2>2
    <3>2. m \in ToSet(cb) => t.node[m].parent = r
      BY <2>4
    <3>3. c \notin ToSet(cr) /\ (m \in ToSet(cb) <=> m \in ToSet(cr) \/ m = c)
      BY <1>512
    <3>4. t.node[c].parent = r
      BY <1>511
    <3>5. m = c => u.node[m].parent = l
      BY <3>1
    <3>6. m # c => u.node[m].parent = t.node[m].parent
      BY <3>1
    <3>7. CASE m = c
      BY ONLY <3>7, <3>3, <3>5
    <3>8. CASE m # c
      BY ONLY <3>8, <3>2, <3>3, <3>6
    <3> QED BY ONLY <3>7, <3>8
  <2>6. kp[j] = e /\ Replaced(Key, pk, j, kp[j], kp)
    BY <1>7 DEF Replaced
  <2> QED BY <2>1, <2>2, <2>5, <2>6, <1>1, <1>5 DEF InnerShift
<1> QED BY <1>93, <1>94

\* InternalFromLeft moves a kid between neighbours.
LEMMA InternalFromLeftEffect ==
    ASSUME NEW t, NEW g, SettledG(t, g), NEW p, NEW j, NEW l, NEW r, Sibs(t, g, p, j, l, r), t.node[l].kids # <<>>,
           t.node[l].keys # <<>>, NEW u, NEW i, j = i - 1, i = j + 1, u = InternalFromLeft(t, p, i)
    PROVE  Arena(u) /\ InnerShift(t, u, p, j, l, r)
<1>1. PICK a, b, ca, cb, pk, s : /\ a = t.node[l].keys /\ b = t.node[r].keys
                              /\ ca = t.node[l].kids /\ cb = t.node[r].kids /\ pk = t.node[p].keys /\ s = pk[j]
  OBVIOUS
<1>2. /\ Arena(t) /\ a \in Seq(Key) /\ b \in Seq(Key) /\ ca \in Seq(Int) /\ cb \in Seq(Int) /\ ca # <<>> /\ cb # <<>>
      /\ Len(ca) = Len(a) + 1 /\ Len(cb) = Len(b) + 1 /\ pk \in Seq(Key) /\ j \in 1 .. Len(pk) /\ s \in Key
      /\ \A x \in 1 .. Len(ca) : ca[x] \in DOMAIN t.node /\ t.node[ca[x]].parent = l
      /\ \A x \in 1 .. Len(cb) : cb[x] \in DOMAIN t.node /\ t.node[cb[x]].parent = r
  BY <1>1, InnerPair
<1>201. /\ a \in Seq(Key) /\ b \in Seq(Key) /\ ca \in Seq(Int) /\ cb \in Seq(Int) /\ ca # <<>> /\ cb # <<>>
        /\ pk \in Seq(Key) /\ j \in 1 .. Len(pk) /\ s \in Key /\ Arena(t)
  BY <1>2
<1>3. /\ p \in DOMAIN t.node /\ l \in DOMAIN t.node /\ r \in DOMAIN t.node /\ p # l /\ p # r /\ l # r
      /\ t.node[p].kids[j] = l /\ t.node[p].kids[j + 1] = r
  BY DEF Sibs
<1>301. a # <<>>
  BY <1>1
<1>4. PICK kr, cr, kl, cl, e, c : /\ kl = Front(a) /\ cl = Front(ca) /\ kr = <<s>> \o b /\ cr = <<Last(ca)>> \o cb
                                  /\ e = Last(a) /\ c = Last(ca)
  OBVIOUS
<1>5. /\ kl \in Seq(Key) /\ cl \in Seq(Int) /\ kr \in Seq(Key) /\ cr \in Seq(Int)
      /\ kl \o <<e>> \o kr = a \o <<s>> \o b /\ cl \o cr = ca \o cb /\ e \in Key /\ Len(cl) = Len(kl) + 1
  <2>1. LastMoved(Int, ca, cb, cl, cr)
    BY <1>201, <1>4, LastMoves
  <2>2. kr \in Seq(Key) /\ kl \o <<e>> \o kr = a \o <<s>> \o b
    <3>1. a \in Seq(Key) /\ b \in Seq(Key) /\ s \in Key /\ a # <<>>
      BY ONLY <1>201, <1>301
    <3>2. <<s>> \o b \in Seq(Key) /\ Front(a) \o <<Last(a)>> \o (<<s>> \o b) = a \o <<s>> \o b
      BY ONLY <3>1, RotateRight
    <3> QED BY ONLY <3>2, <1>4
  <2>3. kl \in Seq(Key) /\ e \in Key
    BY <1>201, <1>301, <1>4, SeqEnds
  <2>4. Len(kl) = Len(a) - 1 /\ Len(a) \in Nat
    BY <1>201, <1>301, <1>4, LastFront
  <2>5. Len(cl) = Len(kl) + 1
    BY <2>1, <2>4, <1>2 DEF LastMoved
  <2> QED BY <2>1, <2>2, <2>3, <2>5 DEF LastMoved
<1>501. /\ kl \in Seq(Key) /\ cl \in Seq(Int) /\ kr \in Seq(Key) /\ cr \in Seq(Int) /\ e \in Key
  BY <1>5
<1>511. c \in DOMAIN t.node /\ c \in Int /\ t.node[c].parent = l
  <2>1. c = ca[Len(ca)] /\ Len(ca) \in 1 .. Len(ca)
    <3>1. Last(ca) = ca[Len(ca)] /\ Len(ca) \in Nat \ {0}
      BY <1>201, LastFront
    <3> QED BY <3>1, <1>4
  <2>2. c \in Int
    BY <1>201, <1>4, SeqEnds
  <2> QED BY <2>1, <2>2, <1>2
<1>512. ToSet(cr) = ToSet(cb) \cup {c}
  <2>1. cr = <<c>> \o cb /\ c \in Int /\ cb \in Seq(Int)
    BY <1>201, <1>4, <1>511
  <2>2. c \in Int /\ cb \in Seq(Int)
    BY ONLY <2>1
  <2>3. ToSet(<<c>> \o cb) = ToSet(cb) \cup {c}
    BY ONLY <2>2, FrontOfSet
  <2> QED BY ONLY <2>1, <2>3
<1>6. PICK kp : kp = [pk EXCEPT ![j] = e]
  OBVIOUS
<1>7. kp \in Seq(Key) /\ Replaced(Key, pk, j, e, kp)
  BY <1>201, <1>501, <1>6, ExceptReplaced
<1>8. l \in Int /\ r \in Int
  BY <1>201, <1>3, ArenaParts
<1>9. t = TreeOf(t.node, t.free, t.hi, t.root, t.first, t.last, t.len, t.height)
  BY <1>201, ArenaParts
<1>91. PICK f6 : f6 = InnerTrade(t.node, r, l, p, c, kr, cr, kp, kl, cl)
  OBVIOUS
<1>10. u = [t EXCEPT !.node = f6]
  BY <1>1, <1>3, <1>4, <1>6, <1>91 DEF InternalFromLeft, InnerTrade
<1>92. u = TreeOf(f6, t.free, t.hi, t.root, t.first, t.last, t.len, t.height)
  BY <1>9, <1>10 DEF TreeOf
<1>93. Arena(u) /\ InnerTradeView(t, u, r, l, p, c, kr, cr, kp, kl, cl)
  <2>1. kl \in Seq(Key) /\ cl \in Seq(Int) /\ kr \in Seq(Key) /\ cr \in Seq(Int)
    BY ONLY <1>501
  <2>2. kp \in Seq(Key)
    BY ONLY <1>7
  <2>3. p \in DOMAIN t.node /\ l \in DOMAIN t.node /\ r \in DOMAIN t.node
    BY ONLY <1>3
  <2>4. r # l /\ r # p /\ l # p /\ l # r
    BY ONLY <1>3
  <2>5. c \in DOMAIN t.node
    BY ONLY <1>511
  <2>6. Arena(t)
    BY ONLY <1>201
  <2> QED BY ONLY <2>1, <2>2, <2>3, <2>4, <2>5, <2>6, <1>91, <1>92, InnerTradeEffect
<1>94. InnerShift(t, u, p, j, l, r)
  <2>1. /\ SameFrame(t, u) /\ u.node[r].keys = kr /\ u.node[r].kids = cr /\ u.node[l].keys = kl /\ u.node[l].kids = cl
        /\ u.node[p].keys = kp
    BY <1>93 DEF InnerTradeView
  <2>2. \A m \in DOMAIN t.node :
         /\ m # p /\ m # l /\ m # r => u.node[m].keys = t.node[m].keys
         /\ m # l /\ m # r => u.node[m].kids = t.node[m].kids
         /\ u.node[m].vals = t.node[m].vals
         /\ u.node[m].parent = IF m = c THEN r ELSE t.node[m].parent
         /\ u.node[m].next = t.node[m].next /\ u.node[m].prev = t.node[m].prev
    BY <1>93 DEF InnerTradeView
  <2>3. ToSet(cb) = {cb[x] : x \in 1 .. Len(cb)}
    BY <1>2, ToSetIs
  <2>4. \A m \in ToSet(cb) : t.node[m].parent = r
    BY <2>3, <1>2
  <2>5. ASSUME NEW m \in DOMAIN t.node
        PROVE  u.node[m].parent = IF m \in ToSet(cr) THEN r ELSE IF m \in ToSet(cb) THEN l ELSE t.node[m].parent
    <3>1. u.node[m].parent = IF m = c THEN r ELSE t.node[m].parent
      BY <2>2
    <3>2. m \in ToSet(cb) => t.node[m].parent = r
      BY <2>4
    <3>3. m \in ToSet(cr) <=> m \in ToSet(cb) \/ m = c
      BY <1>512
    <3>4. t.node[c].parent = l
      BY <1>511
    <3>5. m = c => u.node[m].parent = r
      BY <3>1
    <3>6. m # c => u.node[m].parent = t.node[m].parent
      BY <3>1
    <3>7. CASE m = c
      BY ONLY <3>7, <3>3, <3>5
    <3>8. CASE m # c
      BY ONLY <3>8, <3>2, <3>3, <3>6
    <3> QED BY ONLY <3>7, <3>8
  <2>6. kp[j] = e /\ Replaced(Key, pk, j, kp[j], kp)
    BY <1>7 DEF Replaced
  <2> QED BY <2>1, <2>2, <2>5, <2>6, <1>1, <1>5 DEF InnerShift
<1> QED BY <1>93, <1>94

\* u is t without its root, whose kid c has become the root.
CollapseView(t, u, c) ==
    /\ DOMAIN u.node = DOMAIN t.node \ {t.root}
    /\ u.root = c /\ u.first = t.first /\ u.last = t.last /\ u.len = t.len /\ u.height = t.height - 1
    /\ \A n \in DOMAIN t.node : n # t.root =>
         /\ u.node[n].keys = t.node[n].keys /\ u.node[n].kids = t.node[n].kids
         /\ u.node[n].vals = t.node[n].vals
         /\ u.node[n].prev = t.node[n].prev /\ u.node[n].next = t.node[n].next
         /\ u.node[n].parent = IF n = c THEN NO_NODE ELSE t.node[n].parent

\* CollapseRoot frees the root and makes its first kid the root.
LEMMA CollapseEffect ==
    ASSUME NEW t, Arena(t), t.root \in DOMAIN t.node, NEW c, c = t.node[t.root].kids[1], c \in DOMAIN t.node,
           t.height \in Nat \ {0}, NEW u, u = CollapseRoot(t)
    PROVE  Arena(u) /\ CollapseView(t, u, c)
<1>1. PICK v, w : v = Adopt(t, {c}, NO_NODE) /\ w = Free(v, t.root)
  OBVIOUS
<1>2. NO_NODE \in Int
  BY DEF NO_NODE
<1>3. Arena(v) /\ AdoptView(t, v, {c}, NO_NODE)
  BY <1>1, <1>2, AdoptEffect
<1>4. t.root \in DOMAIN v.node
  BY <1>3 DEF AdoptView, SameFrame
<1>5. Arena(w) /\ FreeView(v, w, t.root)
  BY <1>1, <1>3, <1>4, FreeEffect
<1>6. u = [w EXCEPT !.root = c, !.height = @ - 1]
  BY <1>1 DEF CollapseRoot
<1>7. w = TreeOf(w.node, w.free, w.hi, w.root, w.first, w.last, w.len, w.height)
  BY <1>5, ArenaParts
<1>8. u = TreeOf(w.node, w.free, w.hi, c, w.first, w.last, w.len, w.height - 1)
  <2>1. PICK w1 : w1 = [w EXCEPT !.root = c]
    OBVIOUS
  <2>2. w1 = TreeOf(w.node, w.free, w.hi, c, w.first, w.last, w.len, w.height) /\ w1.height = w.height
    BY <1>7, <2>1 DEF TreeOf
  <2>3. u = [w1 EXCEPT !.height = w1.height - 1]
    BY <1>6, <2>1, <1>7 DEF TreeOf
  <2> QED BY <2>2, <2>3 DEF TreeOf
<1>9. /\ u.node = w.node /\ u.free = w.free /\ u.hi = w.hi /\ u.root = c /\ u.first = w.first
      /\ u.last = w.last /\ u.len = w.len /\ u.height = w.height - 1
  BY <1>8 DEF TreeOf
<1>10. w.height = t.height /\ c \in Int
  BY <1>3, <1>5, ArenaParts DEF FreeView, AdoptView, SameFrame
<1>11. Arena(u)
  <2>1. u = [node |-> u.node, free |-> u.free, hi |-> u.hi, root |-> u.root,
            first |-> u.first, last |-> u.last, len |-> u.len, height |-> u.height]
    BY <1>8, <1>9 DEF TreeOf
  <2>2. u.height \in Nat
    BY <1>9, <1>10
  <2>3. /\ w.node \in [DOMAIN w.node -> NodeRec] /\ w.hi \in Nat /\ w.first \in Int /\ w.last \in Int
        /\ DOMAIN w.node \subseteq 0 .. w.hi - 1 /\ w.free \in Seq(Int) /\ IsInjective(w.free)
        /\ ToSet(w.free) = (0 .. w.hi - 1) \ DOMAIN w.node
    BY <1>5 DEF Arena
  <2> QED BY <2>1, <2>2, <2>3, <1>9, <1>10 DEF Arena
<1>12. ASSUME NEW n \in DOMAIN t.node, n # t.root
       PROVE  /\ u.node[n].keys = t.node[n].keys /\ u.node[n].kids = t.node[n].kids
              /\ u.node[n].vals = t.node[n].vals
              /\ u.node[n].prev = t.node[n].prev /\ u.node[n].next = t.node[n].next
              /\ u.node[n].parent = IF n = c THEN NO_NODE ELSE t.node[n].parent
  <2>1. n \in DOMAIN v.node
    BY <1>3 DEF AdoptView, SameFrame
  <2>2. u.node[n] = v.node[n]
    BY <2>1, <1>5, <1>9, <1>12 DEF FreeView
  <2> QED BY <2>2, <1>3 DEF AdoptView
<1>13. DOMAIN u.node = DOMAIN t.node \ {t.root}
  BY <1>3, <1>5, <1>9 DEF FreeView, AdoptView, SameFrame
<1>14. u.root = c /\ u.first = t.first /\ u.last = t.last /\ u.len = t.len /\ u.height = t.height - 1
  BY <1>3, <1>5, <1>9 DEF FreeView, AdoptView, SameFrame
<1> QED BY <1>11, <1>12, <1>13, <1>14 DEF CollapseView

\* A root without keys has one kid, and the tree has a level below it.
LEMMA LoneKid ==
    ASSUME NEW t, NEW g, SettledG(t, g), Len(t.node[t.root].keys) = 0, t.node[t.root].kids # <<>>, NEW c,
           c = t.node[t.root].kids[1]
    PROVE  /\ t.root \in DOMAIN t.node /\ c \in DOMAIN t.node /\ c # t.root /\ t.height \in Nat \ {0}
           /\ Len(t.node[t.root].kids) = 1 /\ g.lev[c] = t.height - 1
           /\ g.lo[c] = Least /\ g.out[c] = Greatest /\ t.node[c].parent = t.root
<1>1. Arena(t) /\ Shape(t, g, {t.root}) /\ Order(t, g) /\ RootTop(t, g) /\ \A n \in DOMAIN t.node : g.out[n] = g.hi[n]
  BY DEF SettledG, TreeInv
<1>2. t.root \in DOMAIN t.node /\ g.lev[t.root] = t.height /\ g.lo[t.root] = Least /\ g.hi[t.root] = Greatest
  BY <1>1 DEF RootTop
<1>3. Guides(g, t.root, t.node[t.root])
  BY <1>1, <1>2 DEF Order
<1>4. InnerKeys(g, t.root, t.node[t.root])
  BY <1>3 DEF Guides
<1>5. Len(t.node[t.root].kids) = 1
  BY <1>4 DEF InnerKeys
<1>6. 1 \in 1 .. Len(t.node[t.root].kids)
  BY <1>5
<1>7. /\ c \in DOMAIN t.node /\ c \notin {t.root} /\ t.node[c].parent = t.root
      /\ g.lev[c] = g.lev[t.root] - 1 /\ g.lev[t.root] \in Nat /\ g.lev[t.root] > 0
  BY <1>1, <1>2, <1>6, KidParts
<1>8. KidRange(g, t.root, t.node[t.root], 1)
  BY <1>4, <1>6 DEF InnerKeys
<1>9. g.lo[c] = Least /\ g.out[c] = Greatest
  BY <1>2, <1>5, <1>8 DEF KidRange
<1> QED BY <1>2, <1>5, <1>7, <1>9

\* The shape of a tree that has lost its root.
LEMMA CollapseShape ==
    ASSUME NEW t, NEW u, NEW g, SettledG(t, g), Len(t.node[t.root].keys) = 0, t.node[t.root].kids # <<>>, NEW c,
           c = t.node[t.root].kids[1], CollapseView(t, u, c)
    PROVE  Shape(u, g, {c}) /\ LeavesStay(t, u)
<1>1. Arena(t) /\ Shape(t, g, {t.root})
  BY DEF SettledG, TreeInv
<1>2. /\ t.root \in DOMAIN t.node /\ c \in DOMAIN t.node /\ c # t.root
      /\ Len(t.node[t.root].kids) = 1 /\ t.node[c].parent = t.root
  BY LoneKid
<1>3. /\ DOMAIN u.node = DOMAIN t.node \ {t.root} /\ u.first = t.first /\ u.last = t.last
      /\ \A n \in DOMAIN t.node : n # t.root =>
         /\ u.node[n].keys = t.node[n].keys /\ u.node[n].kids = t.node[n].kids
         /\ u.node[n].vals = t.node[n].vals
         /\ u.node[n].prev = t.node[n].prev /\ u.node[n].next = t.node[n].next
         /\ u.node[n].parent = IF n = c THEN NO_NODE ELSE t.node[n].parent
  BY DEF CollapseView
<1>4. ASSUME NEW n \in DOMAIN u.node PROVE Hangs(u, g, {c}, n)
  <2>1. n \in DOMAIN t.node /\ n # t.root
    BY <1>3
  <2>2. Hangs(t, g, {t.root}, n)
    BY <2>1, <1>1 DEF Shape
  <2>3. ASSUME NEW i \in 1 .. Len(t.node[n].kids)
        PROVE  LET k == t.node[n].kids[i] IN
              /\ k \in DOMAIN u.node /\ k \notin {c}
              /\ u.node[k].parent = n /\ g.lev[k] = g.lev[k]
    <3>1. PICK k : k = t.node[n].kids[i]
      OBVIOUS
    <3>2. k \in DOMAIN t.node /\ k \notin {t.root} /\ t.node[k].parent = n
      BY <3>1, <2>1, <1>1, KidParts
    <3>3. k # c
      BY <3>2, <2>1, <1>2
    <3> QED BY <3>1, <3>2, <3>3, <1>3
  <2>4. n \in {c} \/ Placed(u, n)
    <3>1. CASE n = c
      BY <3>1
    <3>2. CASE n # c
      <4>1. Placed(t, n)
        BY <2>1, <2>2 DEF Hangs
      <4>2. PICK p, i : p = t.node[n].parent /\ p \in DOMAIN t.node /\ i \in 1 .. Len(t.node[p].kids) /\ t.node[p].kids[i] = n
        BY <4>1 DEF Placed
      <4>3. p # t.root
        <5>1. SUFFICES ASSUME p = t.root PROVE FALSE
          OBVIOUS
        <5>2. i = 1
          BY <5>1, <4>2, <1>2
        <5> QED BY <5>1, <5>2, <4>2, <3>2
      <4>4. p \in DOMAIN u.node /\ u.node[p].kids = t.node[p].kids /\ u.node[n].parent = p
        BY <4>2, <4>3, <3>2, <2>1, <1>3
      <4> QED BY <4>2, <4>4 DEF Placed
    <3> QED BY <3>1, <3>2
  <2>5. u.node[n].kids = t.node[n].kids
    BY <2>1, <1>3
  <2> QED BY <2>2, <2>3, <2>4, <2>5, HangsMove
<1>5. LeafSet(u) = LeafSet(t)
  BY <1>3 DEF LeafSet
<1>6. \A l \in LeafSet(t) : l \in DOMAIN t.node /\ l # t.root
  BY DEF LeafSet
<1>7. LeavesStay(t, u)
  BY <1>3, <1>5, <1>6 DEF LeavesStay
<1>8. c \in DOMAIN u.node
  BY <1>2, <1>3
<1> QED BY <1>4, <1>7, <1>8 DEF Shape

\* A tree that has lost a root with one kid.
LEMMA CollapseInv ==
    ASSUME NEW t, NEW u, NEW g, SettledG(t, g), Len(t.node[t.root].keys) = 0, t.node[t.root].kids # <<>>,
           u = CollapseRoot(t)
    PROVE  SettledG(u, g) /\ SameEntries(t, u)
<1>0. PICK c : c = t.node[t.root].kids[1]
  OBVIOUS
<1>1. Arena(t) /\ Shape(t, g, {t.root}) /\ Order(t, g) /\ Links(t, g) /\ t.len = Cardinality(KeySet(t))
      /\ \A n \in DOMAIN t.node : g.out[n] = g.hi[n]
  BY DEF SettledG, TreeInv
<1>2. /\ t.root \in DOMAIN t.node /\ c \in DOMAIN t.node /\ c # t.root /\ t.height \in Nat \ {0}
      /\ g.lev[c] = t.height - 1 /\ g.lo[c] = Least /\ g.out[c] = Greatest
  BY <1>0, LoneKid
<1>3. Arena(u) /\ CollapseView(t, u, c)
  BY <1>0, <1>1, <1>2, CollapseEffect
<1>4. Shape(u, g, {c}) /\ LeavesStay(t, u)
  BY <1>0, <1>3, CollapseShape
<1>5. /\ DOMAIN u.node = DOMAIN t.node \ {t.root} /\ u.root = c /\ u.len = t.len /\ u.height = t.height - 1
      /\ u.node[c].parent = NO_NODE
      /\ \A n \in DOMAIN t.node : n # t.root =>
         /\ u.node[n].keys = t.node[n].keys /\ u.node[n].kids = t.node[n].kids
         /\ u.node[n].vals = t.node[n].vals
  BY <1>2, <1>3 DEF CollapseView
<1>6. ASSUME NEW n \in DOMAIN u.node PROVE Guides(g, n, u.node[n])
  <2>1. n \in DOMAIN t.node /\ n # t.root
    BY <1>5
  <2>2. Guides(g, n, t.node[n])
    BY <2>1, <1>1 DEF Order
  <2>3. g.out[n] \in Int
    BY <2>2 DEF Guides, RangeOf
  <2> QED BY <2>1, <2>2, <2>3, <1>5, GuidesMove
<1>7. Order(u, g)
  BY <1>1, <1>5, <1>6 DEF Order
<1>8. Links(u, g)
  BY <1>1, <1>4, LinksStay
<1>9. SameEntries(t, u) /\ KeySet(t) = KeySet(u)
  BY <1>1, <1>3, <1>4, LeavesStaySame, SameKeySet
<1>10. RootTop(u, g)
  BY <1>2, <1>5 DEF RootTop
<1>11. \A n \in DOMAIN u.node : g.out[n] = g.hi[n]
  BY <1>1, <1>5
<1> QED BY <1>1, <1>3, <1>4, <1>5, <1>7, <1>8, <1>9, <1>10, <1>11 DEF SettledG, TreeInv

\* Step function F, which gives the value at m from a whole function f, looks
\* only at smaller arguments.
Local(D, V, rk, F) ==
    /\ rk \in [D -> Nat] /\ F \in [D -> [[D -> V] -> V]]
    /\ \A m \in D : \A f, h \in [D -> V] :
         (\A n \in D : rk[n] < rk[m] => f[n] = h[n]) => F[m][f] = F[m][h]

\* f obeys F below rank j.
ObeysTo(D, rk, F, f, j) == \A m \in D : rk[m] < j => f[m] = F[m][f]

\* One rank more.
LEMMA RecursionStep ==
    ASSUME NEW D, NEW V, NEW rk, NEW F, Local(D, V, rk, F), NEW j \in Nat, NEW f \in [D -> V],
           ObeysTo(D, rk, F, f, j)
    PROVE  \E h \in [D -> V] : ObeysTo(D, rk, F, h, j + 1)
<1>1. PICK h : h = [m \in D |-> IF rk[m] = j THEN F[m][f] ELSE f[m]]
  OBVIOUS
<1>2. rk \in [D -> Nat] /\ F \in [D -> [[D -> V] -> V]]
  BY DEF Local
<1>3. ASSUME NEW m \in D PROVE F[m][f] \in V
  BY <1>2
<1>4. h \in [D -> V]
  BY <1>1, <1>3
<1>5. ASSUME NEW m \in D, rk[m] < j + 1 PROVE h[m] = F[m][h]
  <2>1. rk[m] \in Nat
    BY <1>2
  <2>2. ASSUME NEW n \in D, rk[n] < rk[m] PROVE h[n] = f[n]
    <3>1. rk[n] \in Nat
      BY <1>2
    <3>2. rk[n] # j
      BY <3>1, <2>1, <2>2, <1>5
    <3> QED BY <3>2, <1>1
  <2>3. F[m][h] = F[m][f]
    BY <2>2, <1>4 DEF Local
  <2>4. CASE rk[m] = j
    BY <2>3, <2>4, <1>1
  <2>5. CASE rk[m] # j
    <3>1. rk[m] < j
      BY <2>1, <2>5, <1>5
    <3>2. f[m] = F[m][f]
      BY <3>1 DEF ObeysTo
    <3> QED BY <3>2, <2>3, <2>5, <1>1
  <2> QED BY <2>4, <2>5
<1> QED BY <1>4, <1>5 DEF ObeysTo

\* Obeys is what a recursive function definition asks for.
Obeys(D, F, f) == \A m \in D : f[m] = F[m][f]

\* There is a function that obeys F.
LEMMA RecursionExists ==
    ASSUME NEW D, NEW V, V # {}, NEW rk, NEW F, Local(D, V, rk, F), NEW b \in Nat, \A m \in D : rk[m] <= b
    PROVE  \E f \in [D -> V] : Obeys(D, F, f)
<1>0. rk \in [D -> Nat]
  BY DEF Local
<1>1. PICK S : S = {j \in Nat : ~ \E f \in [D -> V] : ObeysTo(D, rk, F, f, j)}
  OBVIOUS
<1>2. CASE S = {}
  <2>1. b + 1 \in Nat /\ b + 1 \notin S
    BY <1>2
  <2>2. PICK f \in [D -> V] : ObeysTo(D, rk, F, f, b + 1)
    BY <2>1, <1>1
  <2>3. ASSUME NEW m \in D PROVE rk[m] < b + 1
    BY <1>0
  <2> QED BY <2>2, <2>3 DEF ObeysTo, Obeys
<1>3. CASE S # {}
  <2>1. PICK j \in S : \A y \in S : j <= y
    BY <1>1, <1>3, MinOfNats
  <2>2. j \in Nat /\ ~ \E f \in [D -> V] : ObeysTo(D, rk, F, f, j)
    BY <2>1, <1>1
  <2>3. j # 0
    <3>1. SUFFICES ASSUME j = 0 PROVE FALSE
      OBVIOUS
    <3>2. PICK v \in V : TRUE
      OBVIOUS
    <3>3. PICK f : f = [m \in D |-> v]
      OBVIOUS
    <3>4. f \in [D -> V]
      BY <3>3
    <3>5. ASSUME NEW m \in D PROVE ~(rk[m] < j)
      BY <3>1, <1>0
    <3> QED BY <3>4, <3>5, <2>2 DEF ObeysTo
  <2>4. j - 1 \in Nat /\ (j - 1) + 1 = j /\ j - 1 \notin S
    <3>1. j - 1 \in Nat /\ ~(j <= j - 1) /\ (j - 1) + 1 = j
      BY <2>2, <2>3
    <3> QED BY <3>1, <2>1
  <2>5. PICK i : i = j - 1
    OBVIOUS
  <2>6. i \in Nat /\ i + 1 = j /\ i \notin S
    BY <2>4, <2>5
  <2>7. PICK f \in [D -> V] : ObeysTo(D, rk, F, f, i)
    BY <2>6, <1>1
  <2>8. \E h \in [D -> V] : ObeysTo(D, rk, F, h, i + 1)
    BY <2>6, <2>7, RecursionStep
  <2> QED BY <2>2, <2>6, <2>8
<1> QED BY <1>2, <1>3

\* Key k is in the range of node n.
Covers(g, n, k) == g.lo[n] <= k /\ k < g.hi[n]

\* The kid of n a search for k goes to.
KidFor(t, n, k) == t.node[n].kids[ChildFor(t.node[n].keys, k)]

\* A search goes down to the kid whose range holds the key.
LEMMA StepDown ==
    ASSUME NEW t, NEW g, SettledG(t, g), NEW n \in DOMAIN t.node, t.node[n].kids # <<>>, NEW k \in Int, Covers(g, n, k)
    PROVE  /\ ChildFor(t.node[n].keys, k) \in 1 .. Len(t.node[n].kids)
           /\ KidFor(t, n, k) \in DOMAIN t.node /\ Covers(g, KidFor(t, n, k), k)
           /\ g.lev[KidFor(t, n, k)] = g.lev[n] - 1 /\ g.lev[n] \in Nat /\ g.lev[n] > 0
           /\ t.node[KidFor(t, n, k)].parent = n
<1>1. Arena(t) /\ Shape(t, g, {t.root}) /\ Order(t, g) /\ \A m \in DOMAIN t.node : g.out[m] = g.hi[m]
  BY DEF SettledG, TreeInv
<1>2. PICK ks, cs, i, L : ks = t.node[n].keys /\ cs = t.node[n].kids /\ i = ChildFor(ks, k) /\ L = Len(ks)
  OBVIOUS
<1>3. ks \in Seq(Int)
  BY <1>1, <1>2, KeysAreInts
<1>4. Guides(g, n, t.node[n])
  BY <1>1 DEF Order
<1>5. L \in Nat /\ Len(cs) = L + 1 /\ Ruled(L, ks, cs, g.lo, g.out, g.lo[n], g.hi[n])
  BY <1>2, <1>3, <1>4, GuidesRuled
<1>6. /\ i \in 1 .. L + 1
      /\ \A j \in 1 .. L : j < i => ks[j] <= k
      /\ i <= L => k < ks[i]
  BY <1>2, <1>3, ChildForProps
<1>7. i \in 1 .. Len(t.node[n].kids)
  BY <1>2, <1>5, <1>6
<1>8. PICK c : c = cs[i]
  OBVIOUS
<1>9. /\ c \in DOMAIN t.node /\ t.node[c].parent = n /\ g.lev[c] = g.lev[n] - 1 /\ g.lev[n] \in Nat /\ g.lev[n] > 0
  BY <1>1, <1>2, <1>7, <1>8, KidParts
<1>10. g.lo[c] = (IF i = 1 THEN g.lo[n] ELSE ks[i - 1]) /\ g.out[c] = (IF i = L + 1 THEN g.hi[n] ELSE ks[i])
  BY <1>5, <1>6, <1>8 DEF Ruled
<1>11. g.lo[c] <= k
  <2>1. CASE i = 1
    BY <2>1, <1>10 DEF Covers
  <2>2. CASE i # 1
    <3>1. i - 1 \in 1 .. L /\ i - 1 < i
      BY <2>2, <1>5, <1>6
    <3>2. ks[i - 1] <= k
      BY <3>1, <1>6
    <3> QED BY <3>2, <2>2, <1>10
  <2> QED BY <2>1, <2>2
<1>12. k < g.hi[c]
  <2>1. g.out[c] = g.hi[c]
    BY <1>1, <1>9
  <2>2. CASE i = L + 1
    BY <2>1, <2>2, <1>10 DEF Covers
  <2>3. CASE i # L + 1
    <3>1. i <= L
      BY <2>3, <1>5, <1>6
    <3> QED BY <3>1, <2>1, <2>3, <1>6, <1>10
  <2> QED BY <2>2, <2>3
<1>13. KidFor(t, n, k) = c
  BY <1>2, <1>8 DEF KidFor
<1> QED BY <1>2, <1>7, <1>9, <1>11, <1>12, <1>13 DEF Covers

\* The way a search for k takes from the root, as far as s.
Walk(t, g, k, s, N) ==
    /\ s \in Seq(Int) /\ Len(s) = N /\ s[1] = t.root
    /\ \A i \in 1 .. N : s[i] \in DOMAIN t.node /\ g.lev[s[i]] = t.height - i + 1 /\ Covers(g, s[i], k)
    /\ \A i \in 1 .. N - 1 : /\ ChildFor(t.node[s[i]].keys, k) \in 1 .. Len(t.node[s[i]].kids)
                             /\ KidFor(t, s[i], k) = s[i + 1]

\* One node more.
Onward(t, k, s) == Append(s, KidFor(t, Last(s), k))

\* The way starts at the root.
LEMMA WalkStart ==
    ASSUME NEW t, NEW g, SettledG(t, g), NEW k \in Int, Least <= k, k < Greatest
    PROVE  Walk(t, g, k, <<t.root>>, 1)
<1>1. t.root \in DOMAIN t.node /\ g.lev[t.root] = t.height /\ g.lo[t.root] = Least /\ g.hi[t.root] = Greatest
      /\ Arena(t)
  BY DEF SettledG, TreeInv, RootTop
<1>2. t.root \in Int /\ t.height \in Nat
  BY <1>1 DEF Arena
<1>3. Covers(g, t.root, k)
  BY <1>1 DEF Covers
<1>4. PICK s : s = <<t.root>>
  OBVIOUS
<1>5. s \in Seq(Int) /\ Len(s) = 1 /\ s[1] = t.root
  BY <1>2, <1>4
<1>6. \A i \in 1 .. 1 : i = 1
  OBVIOUS
<1>7. g.lev[t.root] = t.height - 1 + 1
  BY <1>1, <1>2
<1>8. \A i \in 1 .. 1 : s[i] \in DOMAIN t.node /\ g.lev[s[i]] = t.height - i + 1 /\ Covers(g, s[i], k)
  BY <1>1, <1>3, <1>5, <1>6, <1>7
<1>9. \A i \in 1 .. 1 - 1 : FALSE
  OBVIOUS
<1>10. Walk(t, g, k, s, 1)
  BY <1>5, <1>8, <1>9 DEF Walk
<1> QED BY <1>4, <1>10

\* The way goes on until the leaves.
LEMMA WalkOn ==
    ASSUME NEW t, NEW g, SettledG(t, g), NEW k \in Int, NEW s, NEW N \in Nat \ {0}, Walk(t, g, k, s, N), N <= t.height
    PROVE  Walk(t, g, k, Onward(t, k, s), N + 1)
<1>1. /\ s \in Seq(Int) /\ Len(s) = N /\ s[1] = t.root
      /\ \A i \in 1 .. N : s[i] \in DOMAIN t.node /\ g.lev[s[i]] = t.height - i + 1 /\ Covers(g, s[i], k)
      /\ \A i \in 1 .. N - 1 : /\ ChildFor(t.node[s[i]].keys, k) \in 1 .. Len(t.node[s[i]].kids)
                             /\ KidFor(t, s[i], k) = s[i + 1]
  BY DEF Walk
<1>2. Arena(t) /\ Shape(t, g, {t.root}) /\ t.height \in Nat
  BY DEF SettledG, TreeInv, Arena
<1>3. PICK n : n = s[N]
  OBVIOUS
<1>4. Last(s) = n
  <2>1. s # <<>>
    BY <1>1
  <2> QED BY <2>1, <1>1, <1>3, LastFront
<1>5. N \in 1 .. N
  OBVIOUS
<1>6. n \in DOMAIN t.node /\ g.lev[n] = t.height - N + 1 /\ Covers(g, n, k)
  BY <1>1, <1>3, <1>5
<1>7. t.node[n].kids # <<>>
  <2>1. LevelOf(g, n, t.node[n])
    BY <1>2, <1>6 DEF Shape, Hangs
  <2>2. g.lev[n] # 0
    BY <1>2, <1>6
  <2> QED BY <2>1, <2>2 DEF LevelOf
<1>8. PICK c : c = KidFor(t, n, k)
  OBVIOUS
<1>9. /\ ChildFor(t.node[n].keys, k) \in 1 .. Len(t.node[n].kids)
      /\ c \in DOMAIN t.node /\ Covers(g, c, k) /\ g.lev[c] = g.lev[n] - 1
  BY <1>6, <1>7, <1>8, StepDown
<1>10. c \in Int
  BY <1>2, <1>9, ArenaParts
<1>11. PICK w : w = Append(s, c)
  OBVIOUS
<1>12. w \in Seq(Int) /\ Len(w) = N + 1 /\ w[N + 1] = c /\ \A i \in 1 .. N : w[i] = s[i]
  BY <1>1, <1>10, <1>11
<1>13. 1 \in 1 .. N
  OBVIOUS
<1>14. w[1] = t.root
  BY <1>1, <1>12, <1>13
<1>15. ASSUME NEW i \in 1 .. N + 1 PROVE w[i] \in DOMAIN t.node /\ g.lev[w[i]] = t.height - i + 1 /\ Covers(g, w[i], k)
  <2>1. CASE i = N + 1
    <3>1. g.lev[c] = t.height - (N + 1) + 1
      BY <1>2, <1>6, <1>9
    <3> QED BY <3>1, <2>1, <1>9, <1>12
  <2>2. CASE i # N + 1
    <3>1. i \in 1 .. N
      BY <2>2
    <3> QED BY <3>1, <1>1, <1>12
  <2> QED BY <2>1, <2>2
<1>16. ASSUME NEW i \in 1 .. (N + 1) - 1
       PROVE  /\ ChildFor(t.node[w[i]].keys, k) \in 1 .. Len(t.node[w[i]].kids)
              /\ KidFor(t, w[i], k) = w[i + 1]
  <2>1. i \in 1 .. N
    OBVIOUS
  <2>2. CASE i = N
    BY <2>1, <2>2, <1>3, <1>8, <1>9, <1>12
  <2>3. CASE i # N
    <3>1. i \in 1 .. N - 1 /\ i + 1 \in 1 .. N
      BY <2>1, <2>3
    <3> QED BY <3>1, <2>1, <1>1, <1>12
  <2> QED BY <2>2, <2>3
<1>17. Walk(t, g, k, w, N + 1)
  BY <1>12, <1>14, <1>15, <1>16 DEF Walk
<1>18. w = Onward(t, k, s)
  BY <1>4, <1>8, <1>11 DEF Onward
<1> QED BY <1>17, <1>18

\* What the recursive function in Descent has to be.
DescentBody(t, k, d) == [h \in 0 .. t.height |-> IF h = 0 THEN <<t.root>> ELSE Onward(t, k, d[h - 1])]

\* Descent is the last value of that function.
LEMMA DescentIs ==
    ASSUME NEW t, NEW k
    PROVE  Descent(t, k, FALSE) = (CHOOSE d : d = DescentBody(t, k, d))[t.height]
BY DEF Descent, DescentBody, Onward, KidFor

\* Whatever obeys the definition of Descent follows the way of the search.
LEMMA DescentWalks ==
    ASSUME NEW t, NEW g, SettledG(t, g), NEW k \in Int, Least <= k, k < Greatest, NEW d,
           NEW H, H = t.height, NEW G, G \in SUBSET Nat,
           \A h \in 0 .. H : h \in G => (h = 0 => d[h] = <<t.root>>) /\ (h # 0 /\ h - 1 \in G => d[h] = Onward(t, k, d[h - 1])),
           \A h \in 0 .. H : (\A i \in 0 .. h - 1 : i \in G /\ Walk(t, g, k, d[i], i + 1)) => h \in G
    PROVE  \A h \in 0 .. H : h \in G /\ Walk(t, g, k, d[h], h + 1)
<1>1. PICK S : S = {h \in 0 .. H : ~(h \in G /\ Walk(t, g, k, d[h], h + 1))}
  OBVIOUS
<1>2. H \in Nat
  BY DEF SettledG, TreeInv, Arena
<1>3. SUFFICES ASSUME S # {} PROVE FALSE
  BY <1>1
<1>4. S \in SUBSET Nat
  BY <1>1, <1>2
<1>5. PICK h \in S : \A y \in S : h <= y
  BY <1>3, <1>4, MinOfNats
<1>6. h \in 0 .. H /\ ~(h \in G /\ Walk(t, g, k, d[h], h + 1)) /\ h \in Nat
  BY <1>1, <1>5, <1>2
<1>7. ASSUME NEW i \in 0 .. h - 1 PROVE i \in G /\ Walk(t, g, k, d[i], i + 1)
  <2>1. i \in 0 .. H /\ ~(h <= i)
    BY <1>2, <1>6
  <2>2. i \notin S
    BY <2>1, <1>5
  <2> QED BY <2>1, <2>2, <1>1
<1>8. h \in G
  BY <1>6, <1>7
<1>9. CASE h = 0
  <2>1. d[h] = <<t.root>>
    BY <1>6, <1>8, <1>9
  <2>2. Walk(t, g, k, <<t.root>>, 1)
    BY WalkStart
  <2>3. 1 = h + 1
    BY <1>9
  <2> QED BY <2>1, <2>2, <2>3, <1>6, <1>8
<1>10. CASE h # 0
  <2>1. PICK i, N : i = h - 1 /\ N = h
    OBVIOUS
  <2>2. i \in 0 .. h - 1 /\ i + 1 = N /\ N \in Nat \ {0} /\ N <= t.height
    BY <2>1, <1>2, <1>6, <1>10
  <2>3. i \in G /\ Walk(t, g, k, d[i], N)
    BY <2>2, <1>7
  <2>4. d[h] = Onward(t, k, d[i])
    BY <2>1, <2>3, <1>6, <1>8, <1>10
  <2>5. Walk(t, g, k, Onward(t, k, d[i]), N + 1)
    BY <2>2, <2>3, WalkOn
  <2>6. Walk(t, g, k, d[h], h + 1)
    BY <2>1, <2>4, <2>5
  <2> QED BY <2>6, <1>6, <1>8
<1> QED BY <1>9, <1>10

\* The function exists.
LEMMA DescentExists ==
    ASSUME NEW t, NEW g, SettledG(t, g), NEW k \in Int, Least <= k, k < Greatest
    PROVE  \E d : d = DescentBody(t, k, d)
<1>1. PICK H, D, V, rk : H = t.height /\ D = 0 .. H /\ V = Seq(Int) /\ rk = [h \in D |-> h]
  OBVIOUS
<1>2. H \in Nat /\ t.root \in Int
  BY <1>1 DEF SettledG, TreeInv, Arena
<1>3. PICK F : F = [h \in D |-> [f \in [D -> V] |-> IF h = 0 THEN <<t.root>>
                     ELSE IF Onward(t, k, f[h - 1]) \in V THEN Onward(t, k, f[h - 1]) ELSE <<>>]]
  OBVIOUS
<1>4. <<t.root>> \in V /\ <<>> \in V
  BY <1>1, <1>2
<1>5. ASSUME NEW h \in D, NEW f \in [D -> V]
      PROVE  /\ F[h][f] = IF h = 0 THEN <<t.root>>
                          ELSE IF Onward(t, k, f[h - 1]) \in V THEN Onward(t, k, f[h - 1]) ELSE <<>>
             /\ F[h][f] \in V
  BY <1>3, <1>4
<1>6. F \in [D -> [[D -> V] -> V]]
  <2>1. ASSUME NEW h \in D PROVE F[h] \in [[D -> V] -> V]
    <3>1. F[h] = [f \in [D -> V] |-> F[h][f]]
      BY <1>3
    <3> QED BY <3>1, <1>5
  <2>2. F = [h \in D |-> F[h]]
    BY <1>3
  <2> QED BY <2>1, <2>2
<1>7. rk \in [D -> Nat] /\ \A h \in D : rk[h] = h /\ rk[h] <= H
  BY <1>1, <1>2
<1>8. Local(D, V, rk, F)
  <2>1. ASSUME NEW m \in D, NEW f \in [D -> V], NEW h \in [D -> V], \A n \in D : rk[n] < rk[m] => f[n] = h[n]
        PROVE  F[m][f] = F[m][h]
    <3>1. CASE m = 0
      BY <3>1, <1>5
    <3>2. CASE m # 0
      <4>1. m - 1 \in D /\ m - 1 < m
        BY <3>2, <1>1, <1>2
      <4>2. f[m - 1] = h[m - 1]
        BY <4>1, <2>1, <1>7
      <4> QED BY <4>2, <1>5
    <3> QED BY <3>1, <3>2
  <2> QED BY <2>1, <1>6, <1>7 DEF Local
<1>9. PICK d \in [D -> V] : Obeys(D, F, d)
  <2>1. V # {}
    BY <1>4
  <2> QED BY <2>1, <1>2, <1>7, <1>8, RecursionExists
<1>10. ASSUME NEW h \in D
       PROVE  d[h] = IF h = 0 THEN <<t.root>>
                     ELSE IF Onward(t, k, d[h - 1]) \in V THEN Onward(t, k, d[h - 1]) ELSE <<>>
  BY <1>5, <1>9 DEF Obeys
<1>11. PICK G : G = {h \in D : h = 0 \/ Onward(t, k, d[h - 1]) \in V}
  OBVIOUS
<1>12. G \in SUBSET Nat
  BY <1>1, <1>2, <1>11
<1>13. \A h \in 0 .. H : h \in G => (h = 0 => d[h] = <<t.root>>) /\ (h # 0 /\ h - 1 \in G => d[h] = Onward(t, k, d[h - 1]))
  BY <1>1, <1>10, <1>11
<1>14. ASSUME NEW h \in 0 .. H, \A i \in 0 .. h - 1 : i \in G /\ Walk(t, g, k, d[i], i + 1)
       PROVE  h \in G
  <2>1. CASE h = 0
    BY <2>1, <1>1, <1>11
  <2>2. CASE h # 0
    <3>1. PICK i, N : i = h - 1 /\ N = h
      OBVIOUS
    <3>2. i \in 0 .. h - 1 /\ i + 1 = N /\ N \in Nat \ {0} /\ N <= t.height
      BY <3>1, <2>2, <1>1, <1>2
    <3>3. Walk(t, g, k, d[i], N)
      BY <3>2, <1>14
    <3>4. Walk(t, g, k, Onward(t, k, d[i]), N + 1)
      BY <3>2, <3>3, WalkOn
    <3> QED BY <3>1, <3>4, <1>1, <1>11 DEF Walk
  <2> QED BY <2>1, <2>2
<1>15. \A h \in 0 .. H : h \in G /\ Walk(t, g, k, d[h], h + 1)
  BY <1>1, <1>12, <1>13, <1>14, DescentWalks
<1>16. d = [h \in D |-> IF h = 0 THEN <<t.root>> ELSE Onward(t, k, d[h - 1])]
  <2>1. \A h \in D : d[h] = IF h = 0 THEN <<t.root>> ELSE Onward(t, k, d[h - 1])
    BY <1>1, <1>10, <1>11, <1>15
  <2> QED BY <2>1, <1>9
<1> QED BY <1>1, <1>16 DEF DescentBody

\* Descent follows the way of the search down to the leaves.
LEMMA DescentIsWalk ==
    ASSUME NEW t, NEW g, SettledG(t, g), NEW k \in Int, Least <= k, k < Greatest
    PROVE  Walk(t, g, k, Descent(t, k, FALSE), t.height + 1)
<1>1. PICK d : d = (CHOOSE e : e = DescentBody(t, k, e))
  OBVIOUS
<1>2. d = DescentBody(t, k, d)
  <2>1. \E e : e = DescentBody(t, k, e)
    BY DescentExists
  <2> QED BY <2>1, <1>1
<1>3. PICK H, G : H = t.height /\ G = Nat
  OBVIOUS
<1>4. H \in Nat
  BY <1>3 DEF SettledG, TreeInv, Arena
<1>5. \A h \in 0 .. H : d[h] = IF h = 0 THEN <<t.root>> ELSE Onward(t, k, d[h - 1])
  BY <1>2, <1>3 DEF DescentBody
<1>6. G \in SUBSET Nat /\ \A h \in 0 .. H : h \in G
  BY <1>3, <1>4
<1>7. \A h \in 0 .. H : h \in G => (h = 0 => d[h] = <<t.root>>) /\ (h # 0 /\ h - 1 \in G => d[h] = Onward(t, k, d[h - 1]))
  BY <1>5
<1>8. \A h \in 0 .. H : (\A i \in 0 .. h - 1 : i \in G /\ Walk(t, g, k, d[i], i + 1)) => h \in G
  BY <1>6
<1>9. \A h \in 0 .. H : h \in G /\ Walk(t, g, k, d[h], h + 1)
  BY <1>3, <1>6, <1>7, <1>8, DescentWalks
<1>10. H \in 0 .. H
  BY <1>4
<1>11. Descent(t, k, FALSE) = d[H]
  BY <1>1, <1>3, DescentIs
<1> QED BY <1>3, <1>9, <1>10, <1>11

\* The leaf a search ends in is the one whose range holds the key.
LEMMA LeafForKey ==
    ASSUME NEW t, NEW g, SettledG(t, g), NEW k \in Int, Least <= k, k < Greatest
    PROVE  LeafFor(t, k) \in LeafSet(t) /\ Covers(g, LeafFor(t, k), k)
<1>1. PICK s, N : s = Descent(t, k, FALSE) /\ N = t.height + 1
  OBVIOUS
<1>2. Arena(t) /\ Shape(t, g, {t.root}) /\ t.height \in Nat
  BY DEF SettledG, TreeInv, Arena
<1>3. Walk(t, g, k, s, N)
  BY <1>1, DescentIsWalk
<1>4. N \in 1 .. N /\ t.height - N + 1 = 0
  BY <1>1, <1>2
<1>5. s \in Seq(Int) /\ Len(s) = N /\ s[N] \in DOMAIN t.node /\ g.lev[s[N]] = 0 /\ Covers(g, s[N], k)
  BY <1>3, <1>4 DEF Walk
<1>6. Last(s) = s[N]
  <2>1. s # <<>>
    BY <1>4, <1>5
  <2> QED BY <2>1, <1>5, LastFront
<1>7. t.node[s[N]].kids = <<>>
  <2>1. LevelOf(g, s[N], t.node[s[N]])
    BY <1>2, <1>5 DEF Shape, Hangs
  <2> QED BY <2>1, <1>5 DEF LevelOf
<1> QED BY <1>1, <1>5, <1>6, <1>7 DEF LeafFor, LeafSet

\* Slot by slot, a path of N steps to x.
PathView(t, path, x, N) ==
    /\ path \in Seq(Int \X Int) /\ Len(path) = N
    /\ \A i \in 1 .. N : /\ path[i][1] \in DOMAIN t.node /\ path[i][2] \in 1 .. Len(t.node[path[i][1]].kids)
                         /\ (i = N => t.node[path[i][1]].kids[path[i][2]] = x)
                         /\ (i # N => t.node[path[i][1]].kids[path[i][2]] = path[i + 1][1])
    /\ N = 0 => x = t.root
    /\ N # 0 => path[1][1] = t.root

\* The two forms agree.
LEMMA PathViewIs ==
    ASSUME NEW t, NEW path, NEW x, NEW N \in Nat
    PROVE  PathView(t, path, x, N) <=> PathIs(t, path, x) /\ Len(path) = N
<1>1. ASSUME path \in Seq(Int \X Int), Len(path) = N PROVE path = <<>> <=> N = 0
  BY <1>1
<1>2. ASSUME PathView(t, path, x, N) PROVE PathIs(t, path, x) /\ Len(path) = N
  <2>1. path \in Seq(Int \X Int) /\ Len(path) = N
    BY <1>2 DEF PathView
  <2>2. path = <<>> <=> N = 0
    BY <2>1, <1>1
  <2>3. IF path = <<>> THEN x = t.root ELSE path[1][1] = t.root
    BY <2>2, <1>2 DEF PathView
  <2>4. \A i \in 1 .. Len(path) :
        /\ path[i][1] \in DOMAIN t.node /\ path[i][2] \in 1 .. Len(t.node[path[i][1]].kids)
        /\ t.node[path[i][1]].kids[path[i][2]] = IF i = Len(path) THEN x ELSE path[i + 1][1]
    BY <2>1, <1>2 DEF PathView
  <2> QED BY <2>1, <2>3, <2>4 DEF PathIs
<1>3. ASSUME PathIs(t, path, x), Len(path) = N PROVE PathView(t, path, x, N)
  <2>1. path \in Seq(Int \X Int)
    BY <1>3 DEF PathIs
  <2>2. path = <<>> <=> N = 0
    BY <2>1, <1>1, <1>3
  <2>3. (N = 0 => x = t.root) /\ (N # 0 => path[1][1] = t.root)
    BY <2>2, <1>3 DEF PathIs
  <2>4. ASSUME NEW i \in 1 .. N
        PROVE  /\ path[i][1] \in DOMAIN t.node /\ path[i][2] \in 1 .. Len(t.node[path[i][1]].kids)
               /\ (i = N => t.node[path[i][1]].kids[path[i][2]] = x)
               /\ (i # N => t.node[path[i][1]].kids[path[i][2]] = path[i + 1][1])
    BY <1>3 DEF PathIs
  <2> QED BY <2>1, <2>3, <2>4, <1>3 DEF PathView
<1> QED BY <1>2, <1>3

\* search_for_insert records a path to the leaf it finds.
LEMMA PathForIsPath ==
    ASSUME NEW t, NEW g, SettledG(t, g), NEW k \in Int, Least <= k, k < Greatest
    PROVE  PathIs(t, PathFor(t, k), LeafFor(t, k))
<1>1. PICK d, H, path : d = Descent(t, k, FALSE) /\ H = t.height
         /\ path = [h \in 1 .. H |-> <<d[h], ChildFor(t.node[d[h]].keys, k)>>]
  OBVIOUS
<1>2. H \in Nat /\ Arena(t)
  BY <1>1 DEF SettledG, TreeInv, Arena
<1>3. Walk(t, g, k, d, H + 1)
  BY <1>1, DescentIsWalk
<1>4. /\ d \in Seq(Int) /\ Len(d) = H + 1 /\ d[1] = t.root
      /\ \A i \in 1 .. H + 1 : d[i] \in DOMAIN t.node
      /\ \A i \in 1 .. (H + 1) - 1 : /\ ChildFor(t.node[d[i]].keys, k) \in 1 .. Len(t.node[d[i]].kids)
                             /\ KidFor(t, d[i], k) = d[i + 1]
  BY <1>3 DEF Walk
<1>5. LeafFor(t, k) = d[H + 1]
  <2>1. d # <<>>
    BY <1>2, <1>4
  <2> QED BY <2>1, <1>1, <1>4, LastFront DEF LeafFor
<1>6. ASSUME NEW i \in 1 .. H
      PROVE  /\ path[i] \in Int \X Int /\ path[i][1] = d[i] /\ path[i][2] = ChildFor(t.node[d[i]].keys, k)
             /\ d[i] \in DOMAIN t.node /\ path[i][2] \in 1 .. Len(t.node[d[i]].kids)
             /\ t.node[d[i]].kids[path[i][2]] = d[i + 1]
  <2>1. path[i] = <<d[i], ChildFor(t.node[d[i]].keys, k)>>
    BY <1>1
  <2>2. i \in 1 .. H + 1 /\ i \in 1 .. (H + 1) - 1
    BY <1>2
  <2>3. d[i] \in DOMAIN t.node /\ ChildFor(t.node[d[i]].keys, k) \in 1 .. Len(t.node[d[i]].kids)
        /\ KidFor(t, d[i], k) = d[i + 1]
    BY <2>2, <1>4
  <2>4. d[i] \in Int /\ t.node[d[i]].kids \in Seq(Int)
    BY <2>3, <1>2, ArenaParts
  <2>5. ChildFor(t.node[d[i]].keys, k) \in Int
    BY <2>3, <2>4
  <2> QED BY <2>1, <2>3, <2>4, <2>5 DEF KidFor
<1>7. path \in Seq(Int \X Int) /\ Len(path) = H
  <2>1. path \in [1 .. H -> Int \X Int]
    BY <1>1, <1>6
  <2> QED BY <2>1, <1>2
<1>8. PathView(t, path, d[H + 1], H)
  <2>1. ASSUME NEW i \in 1 .. H
        PROVE  /\ path[i][1] \in DOMAIN t.node /\ path[i][2] \in 1 .. Len(t.node[path[i][1]].kids)
               /\ (i = H => t.node[path[i][1]].kids[path[i][2]] = d[H + 1])
               /\ (i # H => t.node[path[i][1]].kids[path[i][2]] = path[i + 1][1])
    <3>1. i # H => path[i + 1][1] = d[i + 1]
      <4>1. i # H => i + 1 \in 1 .. H
        BY <1>2
      <4> QED BY <4>1, <1>6
    <3> QED BY <3>1, <1>6
  <2>2. H = 0 => d[H + 1] = t.root
    BY <1>4
  <2>3. H # 0 => path[1][1] = t.root
    <3>1. H # 0 => 1 \in 1 .. H
      BY <1>2
    <3> QED BY <3>1, <1>4, <1>6
  <2> QED BY <2>1, <2>2, <2>3, <1>7 DEF PathView
<1>9. PathIs(t, path, d[H + 1])
  BY <1>2, <1>8, PathViewIs
<1>10. path = PathFor(t, k)
  BY <1>1 DEF PathFor
<1> QED BY <1>5, <1>9, <1>10

\* A path to a node goes on to the kids of that node.
LEMMA PathStep ==
    ASSUME NEW t, NEW path, NEW p \in DOMAIN t.node, p \in Int, PathIs(t, path, p), NEW i \in 1 .. Len(t.node[p].kids), i \in Int
    PROVE  PathIs(t, Append(path, <<p, i>>), t.node[p].kids[i])
<1>1. PICK N, w, e, x : N = Len(path) /\ e = <<p, i>> /\ w = Append(path, e) /\ x = t.node[p].kids[i]
  OBVIOUS
<1>2. path \in Seq(Int \X Int) /\ N \in Nat
  BY <1>1 DEF PathIs
<1>3. PathView(t, path, p, N)
  BY <1>1, <1>2, PathViewIs
<1>4. /\ \A j \in 1 .. N : /\ path[j][1] \in DOMAIN t.node /\ path[j][2] \in 1 .. Len(t.node[path[j][1]].kids)
                         /\ (j = N => t.node[path[j][1]].kids[path[j][2]] = p)
                         /\ (j # N => t.node[path[j][1]].kids[path[j][2]] = path[j + 1][1])
      /\ N = 0 => p = t.root
      /\ N # 0 => path[1][1] = t.root
  BY <1>3 DEF PathView
<1>5. e \in Int \X Int /\ e[1] = p /\ e[2] = i
  BY <1>1
<1>6. w \in Seq(Int \X Int) /\ Len(w) = N + 1 /\ w[N + 1] = e /\ \A j \in 1 .. N : w[j] = path[j]
  BY <1>1, <1>2, <1>5
<1>7. ASSUME NEW j \in 1 .. N + 1
      PROVE  /\ w[j][1] \in DOMAIN t.node /\ w[j][2] \in 1 .. Len(t.node[w[j][1]].kids)
             /\ (j = N + 1 => t.node[w[j][1]].kids[w[j][2]] = x)
             /\ (j # N + 1 => t.node[w[j][1]].kids[w[j][2]] = w[j + 1][1])
  <2>1. CASE j = N + 1
    BY <2>1, <1>1, <1>5, <1>6
  <2>2. CASE j # N + 1
    <3>1. j \in 1 .. N /\ w[j] = path[j]
      BY <2>2, <1>2, <1>6
    <3>2. CASE j = N
      <4>1. t.node[path[j][1]].kids[path[j][2]] = p
        BY <3>1, <3>2, <1>4
      <4>2. w[j + 1] = e
        BY <3>2, <1>6
      <4> QED BY <4>1, <4>2, <3>1, <2>2, <1>4, <1>5
    <3>3. CASE j # N
      <4>1. j + 1 \in 1 .. N
        BY <3>1, <3>3, <1>2
      <4>2. w[j + 1] = path[j + 1]
        BY <4>1, <1>6
      <4> QED BY <4>2, <3>1, <3>3, <2>2, <1>4
    <3> QED BY <3>2, <3>3
  <2> QED BY <2>1, <2>2
<1>8. w[1][1] = t.root
  <2>1. CASE N = 0
    <3>1. w[1] = e
      BY <2>1, <1>6
    <3> QED BY <3>1, <2>1, <1>4, <1>5
  <2>2. CASE N # 0
    <3>1. 1 \in 1 .. N
      BY <2>2, <1>2
    <3> QED BY <3>1, <2>2, <1>4, <1>6
  <2> QED BY <2>1, <2>2
<1>9. N + 1 \in Nat /\ N + 1 # 0
  BY <1>2
<1>10. PathView(t, w, x, N + 1)
  BY <1>6, <1>7, <1>8, <1>9 DEF PathView
<1>11. PathIs(t, w, x)
  BY <1>9, <1>10, PathViewIs
<1> QED BY <1>1, <1>11

\* Every node but the root has a slot in its parent.
LEMMA ParentSlot ==
    ASSUME NEW t, NEW g, SettledG(t, g), NEW n \in DOMAIN t.node, n # t.root
    PROVE  LET p == t.node[n].parent
               i == SlotInParent(t, n)
           IN  /\ p \in DOMAIN t.node /\ p # NO_NODE /\ i \in 1 .. Len(t.node[p].kids) /\ i \in Int
               /\ t.node[p].kids[i] = n /\ g.lev[n] = g.lev[p] - 1 /\ g.lev[p] \in Nat
<1>1. Arena(t) /\ Shape(t, g, {t.root})
  BY DEF SettledG, TreeInv
<1>2. PICK p : p = t.node[n].parent
  OBVIOUS
<1>3. Placed(t, n)
  BY <1>1 DEF Shape, Hangs
<1>4. p \in DOMAIN t.node /\ \E i \in 1 .. Len(t.node[p].kids) : t.node[p].kids[i] = n
  BY <1>2, <1>3 DEF Placed
<1>5. p # NO_NODE /\ t.node[p].kids \in Seq(Int)
  BY <1>1, <1>4, ArenaParts
<1>6. PICK i : i = SlotInParent(t, n)
  OBVIOUS
<1>7. i \in 1 .. Len(t.node[p].kids) /\ t.node[p].kids[i] = n
  BY <1>2, <1>4, <1>5, <1>6, SlotOfElement DEF SlotInParent
<1>8. i \in Int
  BY <1>5, <1>7
<1>9. g.lev[n] = g.lev[p] - 1 /\ g.lev[p] \in Nat
  BY <1>1, <1>4, <1>7, KidParts
<1> QED BY <1>2, <1>4, <1>5, <1>6, <1>7, <1>8, <1>9

\* What the recursive function in PathTo has to be.
UpFrom(t, m, f) ==
    IF t.node[m].parent = NO_NODE THEN <<>>
    ELSE Append(f[t.node[m].parent], <<t.node[m].parent, SlotInParent(t, m)>>)
UpBody(t, f) == [m \in DOMAIN t.node |-> UpFrom(t, m, f)]

\* PathTo is a value of that function.
LEMMA PathToIs ==
    ASSUME NEW t, NEW n
    PROVE  PathTo(t, n) = (CHOOSE f : f = UpBody(t, f))[n]
BY DEF PathTo, UpBody, UpFrom

\* Above every node the levels go up to the height.
LEMMA DepthRank ==
    ASSUME NEW t, NEW g, SettledG(t, g), NEW rk, rk = [m \in DOMAIN t.node |-> t.height - g.lev[m]]
    PROVE  /\ rk \in [DOMAIN t.node -> Nat] /\ t.height \in Nat /\ \A m \in DOMAIN t.node : rk[m] <= t.height
           /\ \A m \in DOMAIN t.node : m # t.root => rk[t.node[m].parent] < rk[m]
<1>1. Arena(t) /\ Shape(t, g, {t.root}) /\ g.lev[t.root] = t.height /\ t.height \in Nat
  BY DEF SettledG, TreeInv, RootTop, Arena
<1>2. PICK O, H : O = {t.root} /\ H = t.height
  OBVIOUS
<1>3. \A n \in DOMAIN t.node : g.lev[n] <= H
  <2>1. \A o \in O : g.lev[o] <= H
    BY <1>1, <1>2
  <2>2. Arena(t) /\ Shape(t, g, O) /\ H \in Nat
    BY <1>1, <1>2
  <2> QED BY ONLY <2>1, <2>2, TopLevel
<1>4. \A n \in DOMAIN t.node : g.lev[n] \in Nat
  BY <1>1 DEF Shape, Hangs, LevelOf
<1>5. ASSUME NEW m \in DOMAIN t.node PROVE rk[m] \in Nat /\ rk[m] <= t.height /\ rk[m] = t.height - g.lev[m]
  <2>1. rk[m] = t.height - g.lev[m] /\ g.lev[m] \in Nat /\ g.lev[m] <= t.height
    BY <1>2, <1>3, <1>4
  <2> QED BY <2>1, <1>1
<1>6. ASSUME NEW m \in DOMAIN t.node, m # t.root PROVE rk[t.node[m].parent] < rk[m]
  <2>1. PICK p : p = t.node[m].parent
    OBVIOUS
  <2>2. p \in DOMAIN t.node /\ g.lev[m] = g.lev[p] - 1
    BY <2>1, <1>6, ParentSlot
  <2>3. rk[p] = t.height - g.lev[p] /\ rk[m] = t.height - g.lev[m] /\ g.lev[p] \in Nat
    BY <2>2, <1>4, <1>5
  <2> QED BY <2>1, <2>2, <2>3, <1>1
<1> QED BY <1>1, <1>5, <1>6

\* The function exists.
LEMMA UpExists ==
    ASSUME NEW t, NEW g, SettledG(t, g)
    PROVE  \E f : f = UpBody(t, f)
<1>1. PICK D, V, rk : D = DOMAIN t.node /\ V = Seq(Int \X Int) /\ rk = [m \in DOMAIN t.node |-> t.height - g.lev[m]]
  OBVIOUS
<1>2. /\ rk \in [D -> Nat] /\ t.height \in Nat /\ \A m \in D : rk[m] <= t.height
      /\ \A m \in D : m # t.root => rk[t.node[m].parent] < rk[m]
  BY <1>1, DepthRank
<1>3. t.node[t.root].parent = NO_NODE /\ Arena(t)
  BY DEF SettledG, TreeInv, RootTop
<1>4. ASSUME NEW m \in D, m # t.root
      PROVE  /\ t.node[m].parent \in D /\ t.node[m].parent # NO_NODE
             /\ <<t.node[m].parent, SlotInParent(t, m)>> \in Int \X Int
  <2>1. t.node[m].parent \in D /\ t.node[m].parent # NO_NODE /\ SlotInParent(t, m) \in Int
    BY <1>1, <1>4, ParentSlot
  <2>2. t.node[m].parent \in Int
    BY <2>1, <1>1, <1>3, ArenaParts
  <2> QED BY <2>1, <2>2
<1>5. ASSUME NEW m \in D, NEW f \in [D -> V] PROVE UpFrom(t, m, f) \in V
  <2>1. CASE m = t.root
    <3>1. UpFrom(t, m, f) = <<>>
      BY <2>1, <1>3 DEF UpFrom
    <3> QED BY <3>1, <1>1
  <2>2. CASE m # t.root
    <3>1. PICK p, e : p = t.node[m].parent /\ e = <<t.node[m].parent, SlotInParent(t, m)>>
      OBVIOUS
    <3>2. p \in D /\ p # NO_NODE /\ e \in Int \X Int
      BY <2>2, <3>1, <1>4
    <3>3. UpFrom(t, m, f) = Append(f[p], e)
      BY <3>1, <3>2 DEF UpFrom
    <3>4. f[p] \in Seq(Int \X Int)
      BY <3>2, <1>1
    <3>5. Append(f[p], e) \in Seq(Int \X Int)
      BY <3>2, <3>4
    <3> QED BY <3>3, <3>5, <1>1
  <2> QED BY <2>1, <2>2
<1>6. PICK F : F = [m \in D |-> [f \in [D -> V] |-> UpFrom(t, m, f)]]
  OBVIOUS
<1>7. F \in [D -> [[D -> V] -> V]] /\ \A m \in D : \A f \in [D -> V] : F[m][f] = UpFrom(t, m, f)
  BY <1>5, <1>6
<1>8. Local(D, V, rk, F)
  <2>1. ASSUME NEW m \in D, NEW f \in [D -> V], NEW h \in [D -> V], \A n \in D : rk[n] < rk[m] => f[n] = h[n]
        PROVE  F[m][f] = F[m][h]
    <3>1. UpFrom(t, m, f) = UpFrom(t, m, h)
      <4>1. CASE m = t.root
        BY <4>1, <1>3 DEF UpFrom
      <4>2. CASE m # t.root
        <5>1. f[t.node[m].parent] = h[t.node[m].parent]
          BY <4>2, <2>1, <1>2, <1>4
        <5> QED BY <5>1 DEF UpFrom
      <4> QED BY <4>1, <4>2
    <3> QED BY <3>1, <1>7
  <2> QED BY <2>1, <1>2, <1>7 DEF Local
<1>9. PICK f \in [D -> V] : Obeys(D, F, f)
  <2>1. <<>> \in V
    BY <1>1
  <2> QED BY <2>1, <1>2, <1>8, RecursionExists
<1>10. f = [m \in D |-> UpFrom(t, m, f)]
  <2>1. \A m \in D : f[m] = UpFrom(t, m, f)
    BY <1>7, <1>9 DEF Obeys
  <2> QED BY <2>1, <1>9
<1> QED BY <1>1, <1>10 DEF UpBody

\* path_to_node records a path to the node.
LEMMA PathToIsPath ==
    ASSUME NEW t, NEW g, SettledG(t, g), NEW n \in DOMAIN t.node
    PROVE  PathIs(t, PathTo(t, n), n)
<1>1. PICK f : f = (CHOOSE e : e = UpBody(t, e))
  OBVIOUS
<1>2. f = UpBody(t, f)
  <2>1. \E e : e = UpBody(t, e)
    BY UpExists
  <2> QED BY <2>1, <1>1
<1>3. \A m \in DOMAIN t.node : f[m] = UpFrom(t, m, f)
  BY <1>2 DEF UpBody
<1>4. PICK D, rk : D = DOMAIN t.node /\ rk = [m \in DOMAIN t.node |-> t.height - g.lev[m]]
  OBVIOUS
<1>5. rk \in [D -> Nat] /\ \A m \in D : m # t.root => rk[t.node[m].parent] < rk[m]
  BY <1>4, DepthRank
<1>6. PICK S : S = {j \in Nat : \E m \in D : rk[m] = j /\ ~PathIs(t, f[m], m)}
  OBVIOUS
<1>7. S = {}
  <2>1. SUFFICES ASSUME S # {} PROVE FALSE
    OBVIOUS
  <2>2. PICK j \in S : \A y \in S : j <= y
    BY <2>1, <1>6, MinOfNats
  <2>3. PICK m \in D : rk[m] = j /\ ~PathIs(t, f[m], m) /\ j \in Nat
    BY <2>2, <1>6
  <2>4. CASE m = t.root
    <3>1. f[m] = <<>>
      BY <2>3, <2>4, <1>3, <1>4 DEF UpFrom, SettledG, RootTop
    <3>2. PathIs(t, <<>>, t.root)
      BY DEF PathIs
    <3> QED BY <3>1, <3>2, <2>3, <2>4
  <2>5. CASE m # t.root
    <3>1. PICK p, i : p = t.node[m].parent /\ i = SlotInParent(t, m)
      OBVIOUS
    <3>2. p \in D /\ p # NO_NODE /\ i \in 1 .. Len(t.node[p].kids) /\ i \in Int /\ t.node[p].kids[i] = m
      BY <2>3, <2>5, <3>1, <1>4, ParentSlot
    <3>3. rk[p] < j /\ rk[p] \in Nat
      BY <2>3, <2>5, <3>1, <3>2, <1>5
    <3>4. PathIs(t, f[p], p)
      <4>1. ~(j <= rk[p])
        BY <3>3, <2>3
      <4>2. rk[p] \notin S
        BY <4>1, <2>2
      <4> QED BY <4>2, <3>2, <3>3, <1>6
    <3>5. p \in Int
      BY <3>2, <1>4, ArenaParts DEF SettledG, TreeInv
    <3>6. PathIs(t, Append(f[p], <<p, i>>), m)
      BY <3>2, <3>4, <3>5, <1>4, PathStep
    <3>7. f[m] = Append(f[p], <<p, i>>)
      BY <2>3, <3>1, <3>2, <1>3, <1>4 DEF UpFrom
    <3> QED BY <3>6, <3>7, <2>3
  <2> QED BY <2>4, <2>5
<1>8. PathIs(t, f[n], n)
  <2>1. rk[n] \in Nat /\ n \in D
    BY <1>4, <1>5
  <2> QED BY <2>1, <1>6, <1>7
<1> QED BY <1>1, <1>8, PathToIs

\* Links lk between the members of D lead to ever smaller ranks, up to b.
Falling(D, lk, rk, b) ==
    /\ D \subseteq Nat /\ b \in Nat
    /\ rk \in [D \cup {NO_NODE} -> Nat] /\ \A m \in D \cup {NO_NODE} : rk[m] <= b
    /\ \A m \in D : lk[m] \in D \cup {NO_NODE} /\ rk[lk[m]] < rk[m]

\* The members met when the links are followed.
StringFrom(lk, m, f) == IF m = NO_NODE THEN <<>> ELSE <<m>> \o f[lk[m]]
StringBody(D, lk, f) == [m \in D \cup {NO_NODE} |-> StringFrom(lk, m, f)]

\* There is a function that follows the links.
LEMMA StringExists ==
    ASSUME NEW D, NEW lk, NEW rk, NEW b, Falling(D, lk, rk, b)
    PROVE  \E f : f = StringBody(D, lk, f)
<1>1. PICK E, V : E = D \cup {NO_NODE} /\ V = Seq(Int)
  OBVIOUS
<1>2. /\ D \subseteq Nat /\ b \in Nat /\ rk \in [E -> Nat] /\ \A m \in E : rk[m] <= b
      /\ \A m \in D : lk[m] \in E /\ rk[lk[m]] < rk[m]
  BY <1>1 DEF Falling
<1>3. \A m \in E : m # NO_NODE => m \in D /\ m \in Int
  BY <1>1, <1>2
<1>4. ASSUME NEW m \in E, NEW f \in [E -> V] PROVE StringFrom(lk, m, f) \in V
  <2>1. CASE m = NO_NODE
    BY <2>1, <1>1 DEF StringFrom
  <2>2. CASE m # NO_NODE
    <3>1. f[lk[m]] \in Seq(Int) /\ <<m>> \in Seq(Int)
      BY <2>2, <1>1, <1>2, <1>3
    <3>2. <<m>> \o f[lk[m]] \in Seq(Int)
      BY <3>1
    <3> QED BY <3>2, <2>2, <1>1 DEF StringFrom
  <2> QED BY <2>1, <2>2
<1>5. PICK F : F = [m \in E |-> [f \in [E -> V] |-> StringFrom(lk, m, f)]]
  OBVIOUS
<1>6. F \in [E -> [[E -> V] -> V]] /\ \A m \in E : \A f \in [E -> V] : F[m][f] = StringFrom(lk, m, f)
  BY <1>4, <1>5
<1>7. Local(E, V, rk, F)
  <2>1. ASSUME NEW m \in E, NEW f \in [E -> V], NEW h \in [E -> V], \A n \in E : rk[n] < rk[m] => f[n] = h[n]
        PROVE  F[m][f] = F[m][h]
    <3>1. StringFrom(lk, m, f) = StringFrom(lk, m, h)
      <4>1. CASE m = NO_NODE
        BY <4>1 DEF StringFrom
      <4>2. CASE m # NO_NODE
        <5>1. f[lk[m]] = h[lk[m]]
          BY <4>2, <2>1, <1>2, <1>3
        <5> QED BY <5>1 DEF StringFrom
      <4> QED BY <4>1, <4>2
    <3> QED BY <3>1, <1>6
  <2> QED BY <2>1, <1>2, <1>6 DEF Local
<1>8. PICK f \in [E -> V] : Obeys(E, F, f)
  <2>1. <<>> \in V
    BY <1>1
  <2> QED BY <2>1, <1>2, <1>7, RecursionExists
<1>9. f = [m \in E |-> StringFrom(lk, m, f)]
  <2>1. \A m \in E : f[m] = StringFrom(lk, m, f)
    BY <1>6, <1>8 DEF Obeys
  <2> QED BY <2>1, <1>8
<1> QED BY <1>1, <1>9 DEF StringBody

\* c are the N members of L met from m on.
Strand(L, lk, c, m, N) ==
    /\ c \in Seq(L) /\ Len(c) = N /\ N # 0 /\ c[1] = m
    /\ \A i \in 1 .. N : (i = N => lk[c[i]] = NO_NODE) /\ (i # N => lk[c[i]] = c[i + 1])

\* A strand with one member more in front.
LEMMA StrandMore ==
    ASSUME NEW L, NEW lk, NEW c, NEW m \in L, NEW n, NEW N \in Nat, Strand(L, lk, c, n, N), lk[m] = n
    PROVE  Strand(L, lk, <<m>> \o c, m, N + 1)
<1>1. /\ c \in Seq(L) /\ Len(c) = N /\ N # 0 /\ c[1] = n
      /\ \A i \in 1 .. N : (i = N => lk[c[i]] = NO_NODE) /\ (i # N => lk[c[i]] = c[i + 1])
  BY DEF Strand
<1>2. PICK w, s : s = <<m>> /\ w = s \o c
  OBVIOUS
<1>3. s \in Seq(L) /\ Len(s) = 1 /\ s[1] = m
  BY <1>2
<1>4. w \in Seq(L) /\ Len(w) = 1 + N /\ w[1] = m /\ \A i \in 1 .. N : w[1 + i] = c[i]
  <2>1. w \in Seq(L) /\ Len(w) = Len(s) + Len(c)
        /\ (\A i \in 1 .. Len(s) : w[i] = s[i]) /\ (\A i \in 1 .. Len(c) : w[Len(s) + i] = c[i])
    BY <1>1, <1>2, <1>3, ConcatProps
  <2> QED BY <2>1, <1>1, <1>3
<1>5. ASSUME NEW i \in 1 .. N + 1
      PROVE  (i = N + 1 => lk[w[i]] = NO_NODE) /\ (i # N + 1 => lk[w[i]] = w[i + 1])
  <2>1. CASE i = 1
    <3>1. 1 \in 1 .. N /\ w[1 + 1] = c[1] /\ i # N + 1
      BY <2>1, <1>1, <1>4
    <3> QED BY <3>1, <2>1, <1>1, <1>4
  <2>2. CASE i # 1
    <3>1. PICK j : j = i - 1
      OBVIOUS
    <3>2. j \in 1 .. N /\ 1 + j = i
      BY <2>2, <3>1
    <3>3. w[i] = c[j]
      BY <3>2, <1>4
    <3>4. CASE j = N
      <4>1. i = N + 1
        BY <3>2, <3>4
      <4> QED BY <4>1, <3>2, <3>3, <3>4, <1>1
    <3>5. CASE j # N
      <4>1. j + 1 \in 1 .. N /\ 1 + (j + 1) = i + 1 /\ i # N + 1
        BY <3>2, <3>5
      <4>2. w[i + 1] = c[j + 1]
        BY <4>1, <1>4
      <4> QED BY <4>1, <4>2, <3>2, <3>3, <3>5, <1>1
    <3> QED BY <3>4, <3>5
  <2> QED BY <2>1, <2>2
<1>6. Len(w) = N + 1 /\ N + 1 # 0
  BY <1>4
<1>7. Strand(L, lk, w, m, N + 1)
  BY <1>4, <1>5, <1>6 DEF Strand
<1> QED BY <1>2, <1>7

\* Whoever follows the links from a member of L, which they do not leave, gets
\* a strand.
LEMMA StringIsStrand ==
    ASSUME NEW D, NEW lk, NEW rk, NEW b, Falling(D, lk, rk, b), NEW f, f = StringBody(D, lk, f),
           NEW L \in SUBSET D, \A m \in L : lk[m] \in L \cup {NO_NODE}, NEW x \in L
    PROVE  Strand(L, lk, f[x], x, Len(f[x])) /\ Len(f[x]) \in Nat
<1>1. /\ D \subseteq Nat /\ rk \in [D \cup {NO_NODE} -> Nat]
      /\ \A m \in D : lk[m] \in D \cup {NO_NODE} /\ rk[lk[m]] < rk[m]
  BY DEF Falling
<1>2. \A m \in D \cup {NO_NODE} : f[m] = StringFrom(lk, m, f)
  BY DEF StringBody
<1>3. f[NO_NODE] = <<>>
  BY <1>2 DEF StringFrom
<1>4. \A m \in D : m # NO_NODE
  BY <1>1 DEF NO_NODE
<1>5. \A m \in L : f[m] = <<m>> \o f[lk[m]]
  BY <1>2, <1>4 DEF StringFrom
<1>6. PICK S : S = {j \in Nat : \E m \in L : rk[m] = j /\ ~(\E N \in Nat : Strand(L, lk, f[m], m, N))}
  OBVIOUS
<1>7. S = {}
  <2>1. SUFFICES ASSUME S # {} PROVE FALSE
    OBVIOUS
  <2>2. PICK j \in S : \A y \in S : j <= y
    BY <2>1, <1>6, MinOfNats
  <2>3. PICK m \in L : rk[m] = j /\ ~(\E N \in Nat : Strand(L, lk, f[m], m, N)) /\ j \in Nat
    BY <2>2, <1>6
  <2>4. CASE lk[m] = NO_NODE
    <3>1. f[m] = <<m>>
      <4>1. f[m] = <<m>> \o <<>>
        BY <2>4, <1>3, <1>5
      <4> QED BY <4>1
    <3>2. PICK c : c = <<m>>
      OBVIOUS
    <3>3. c \in Seq(L) /\ Len(c) = 1 /\ c[1] = m
      BY <3>2
    <3>4. \A i \in 1 .. 1 : i = 1
      OBVIOUS
    <3>5. Strand(L, lk, c, m, 1)
      BY <3>3, <3>4, <2>4 DEF Strand
    <3> QED BY <3>1, <3>2, <3>5, <2>3
  <2>5. CASE lk[m] # NO_NODE
    <3>1. PICK n : n = lk[m]
      OBVIOUS
    <3>2. n \in L /\ n \in D /\ rk[n] < j /\ rk[n] \in Nat
      BY <3>1, <2>3, <2>5, <1>1
    <3>3. ~(j <= rk[n])
      BY <3>2, <2>3
    <3>4. rk[n] \notin S
      BY <3>3, <2>2
    <3>5. PICK N \in Nat : Strand(L, lk, f[n], n, N)
      BY <3>2, <3>4, <1>6
    <3>6. Strand(L, lk, <<m>> \o f[n], m, N + 1)
      BY <3>1, <3>5, StrandMore
    <3>7. f[m] = <<m>> \o f[n] /\ N + 1 \in Nat
      BY <3>1, <1>5
    <3> QED BY <3>6, <3>7, <2>3
  <2> QED BY <2>4, <2>5
<1>8. rk[x] \in Nat
  BY <1>1
<1>9. PICK N \in Nat : Strand(L, lk, f[x], x, N)
  BY <1>6, <1>7, <1>8
<1>10. Len(f[x]) = N
  BY <1>9 DEF Strand
<1> QED BY <1>9, <1>10

\* Internal nodes are not in the chain.
Inners(t) == \A n \in DOMAIN t.node : t.node[n].kids # <<>> =>
    t.node[n].prev = NO_NODE /\ t.node[n].next = NO_NODE

\* The links of the nodes.
NextOf(t) == [m \in DOMAIN t.node |-> t.node[m].next]
PrevOf(t) == [m \in DOMAIN t.node |-> t.node[m].prev]

\* How far a leaf is from the end, and from the start, of the chain.
NextRank(t, g) == [m \in DOMAIN t.node \cup {NO_NODE} |->
    IF m = NO_NODE THEN 0 ELSE IF t.node[m].kids = <<>> THEN Greatest - g.lo[m] ELSE 1]
PrevRank(t, g) == [m \in DOMAIN t.node \cup {NO_NODE} |->
    IF m = NO_NODE THEN 0 ELSE IF t.node[m].kids = <<>> THEN 1 + (g.lo[m] - Least) ELSE 1]

\* The range of a leaf and of its neighbours.
LEMMA LeafNeighbours ==
    ASSUME NEW t, NEW g, NEW O, TreeInv(t, g, O), NEW l \in LeafSet(t)
    PROVE  /\ l \in DOMAIN t.node /\ t.node[l].kids = <<>>
           /\ g.lo[l] \in Int /\ g.hi[l] \in Int /\ Least <= g.lo[l] /\ g.lo[l] < g.hi[l] /\ g.hi[l] <= Greatest
           /\ t.node[l].next \in LeafSet(t) \cup {NO_NODE}
           /\ t.node[l].prev \in LeafSet(t) \cup {NO_NODE}
           /\ t.node[l].next = NO_NODE => g.hi[l] = Greatest /\ l = t.last
           /\ t.node[l].prev = NO_NODE => g.lo[l] = Least /\ l = t.first
           /\ t.node[l].next # NO_NODE => g.lo[t.node[l].next] = g.hi[l] /\ t.node[t.node[l].next].prev = l
           /\ t.node[l].prev # NO_NODE => g.hi[t.node[l].prev] = g.lo[l] /\ t.node[t.node[l].prev].next = l
<1>1. Shape(t, g, O) /\ Order(t, g) /\ Links(t, g)
  BY DEF TreeInv
<1>2. l \in DOMAIN t.node /\ t.node[l].kids = <<>>
  BY DEF LeafSet
<1>3. RangeOf(g, l)
  BY <1>1, <1>2 DEF Order, Guides
<1>4. /\ g.lo[l] \in Int /\ g.hi[l] \in Int /\ Least <= g.lo[l] /\ g.lo[l] < g.hi[l] /\ g.hi[l] <= Greatest
  BY <1>3 DEF RangeOf
<1>5. \A k \in LeafSet(t) : LinksOf(t, g, k)
  BY <1>1 DEF Links
<1>6. /\ t.node[l].next = NO_NODE => l = t.last /\ g.hi[l] = Greatest
      /\ t.node[l].next # NO_NODE => /\ t.node[l].next \in LeafSet(t) /\ t.node[t.node[l].next].prev = l
                           /\ g.lo[t.node[l].next] = g.hi[l]
      /\ t.node[l].prev = NO_NODE => l = t.first /\ g.lo[l] = Least
      /\ t.node[l].prev # NO_NODE => t.node[l].prev \in LeafSet(t) /\ t.node[t.node[l].prev].next = l
  BY <1>5 DEF LinksOf
<1>7. ASSUME t.node[l].prev # NO_NODE PROVE g.hi[t.node[l].prev] = g.lo[l]
  <2>1. PICK p : p = t.node[l].prev
    OBVIOUS
  <2>2. p \in LeafSet(t) /\ t.node[p].next = l
    BY <2>1, <1>6, <1>7
  <2>3. l # NO_NODE
    BY <1>2, ArenaParts DEF TreeInv
  <2>4. g.lo[l] = g.hi[p]
    BY <2>2, <2>3, <1>5 DEF LinksOf
  <2> QED BY <2>1, <2>4
<1> QED BY <1>2, <1>4, <1>6, <1>7

\* The links of the leaves lead to the end of the chain.
LEMMA NextFalls ==
    ASSUME NEW t, NEW g, NEW O, TreeInv(t, g, O), Inners(t)
    PROVE  Falling(DOMAIN t.node, NextOf(t), NextRank(t, g), 1 + (Greatest - Least))
<1>1. PICK D, lk, rk, b : D = DOMAIN t.node /\ lk = NextOf(t) /\ rk = NextRank(t, g) /\ b = 1 + (Greatest - Least)
  OBVIOUS
<1>2. Arena(t) /\ Least \in Int /\ Greatest \in Int /\ Least < Greatest
  BY BoundsExist DEF TreeInv
<1>3. D \subseteq Nat /\ b \in Nat /\ b >= 1 /\ \A m \in D : m # NO_NODE
  BY <1>1, <1>2, ArenaParts
<1>4. \A m \in D \cup {NO_NODE} : rk[m] = IF m = NO_NODE THEN 0 ELSE IF t.node[m].kids = <<>> THEN Greatest - g.lo[m] ELSE 1
  BY <1>1 DEF NextRank
<1>5. rk[NO_NODE] = 0
  BY <1>4
<1>6. \A m \in D : (t.node[m].kids = <<>> => rk[m] = Greatest - g.lo[m]) /\ (t.node[m].kids # <<>> => rk[m] = 1)
  BY <1>3, <1>4
<1>7. ASSUME NEW m \in D PROVE rk[m] \in Nat /\ rk[m] <= b /\ rk[m] > 0
  <2>1. CASE t.node[m].kids = <<>>
    <3>1. m \in LeafSet(t)
      BY <2>1, <1>1 DEF LeafSet
    <3>2. g.lo[m] \in Int /\ g.hi[m] \in Int /\ Least <= g.lo[m] /\ g.lo[m] < g.hi[m] /\ g.hi[m] <= Greatest
      BY <3>1, LeafNeighbours
    <3> QED BY <3>2, <2>1, <1>1, <1>2, <1>6
  <2>2. CASE t.node[m].kids # <<>>
    BY <2>2, <1>3, <1>6
  <2> QED BY <2>1, <2>2
<1>8. ASSUME NEW m \in D PROVE lk[m] \in D \cup {NO_NODE} /\ rk[lk[m]] < rk[m]
  <2>1. PICK n : n = t.node[m].next
    OBVIOUS
  <2>2. lk[m] = n
    BY <2>1, <1>1 DEF NextOf
  <2>3. CASE n = NO_NODE
    BY <2>2, <2>3, <1>5, <1>7
  <2>4. CASE n # NO_NODE
    <3>1. t.node[m].kids = <<>>
      BY <2>1, <2>4, <1>1 DEF Inners
    <3>2. m \in LeafSet(t)
      BY <3>1, <1>1 DEF LeafSet
    <3>3. n \in LeafSet(t) /\ g.lo[n] = g.hi[m]
      BY <3>2, <2>1, <2>4, LeafNeighbours
    <3>4. n \in D /\ t.node[n].kids = <<>> /\ g.lo[n] \in Int
      BY <3>3, <1>1, LeafNeighbours
    <3>5. g.lo[m] \in Int /\ g.lo[m] < g.hi[m]
      BY <3>2, LeafNeighbours
    <3>6. rk[n] = Greatest - g.lo[n] /\ rk[m] = Greatest - g.lo[m]
      BY <3>1, <3>4, <1>6
    <3>7. rk[n] < rk[m]
      BY <3>3, <3>4, <3>5, <3>6, <1>2
    <3> QED BY <3>4, <3>7, <2>2
  <2> QED BY <2>3, <2>4
<1>9. rk \in [D \cup {NO_NODE} -> Nat] /\ \A m \in D \cup {NO_NODE} : rk[m] <= b
  <2>1. \A m \in D \cup {NO_NODE} : rk[m] \in Nat /\ rk[m] <= b
    BY <1>3, <1>5, <1>7
  <2>2. rk = [m \in D \cup {NO_NODE} |-> rk[m]]
    BY <1>1 DEF NextRank
  <2> QED BY <2>1, <2>2
<1>10. Falling(D, lk, rk, b)
  BY <1>3, <1>8, <1>9 DEF Falling
<1> QED BY <1>1, <1>10

\* And back to its start.
LEMMA PrevFalls ==
    ASSUME NEW t, NEW g, NEW O, TreeInv(t, g, O), Inners(t)
    PROVE  Falling(DOMAIN t.node, PrevOf(t), PrevRank(t, g), 1 + (Greatest - Least))
<1>1. PICK D, lk, rk, b : D = DOMAIN t.node /\ lk = PrevOf(t) /\ rk = PrevRank(t, g) /\ b = 1 + (Greatest - Least)
  OBVIOUS
<1>2. Arena(t) /\ Least \in Int /\ Greatest \in Int /\ Least < Greatest
  BY BoundsExist DEF TreeInv
<1>3. D \subseteq Nat /\ b \in Nat /\ b >= 1 /\ \A m \in D : m # NO_NODE
  BY <1>1, <1>2, ArenaParts
<1>4. \A m \in D \cup {NO_NODE} : rk[m] = IF m = NO_NODE THEN 0 ELSE IF t.node[m].kids = <<>> THEN 1 + (g.lo[m] - Least) ELSE 1
  BY <1>1 DEF PrevRank
<1>5. rk[NO_NODE] = 0
  BY <1>4
<1>6. \A m \in D : (t.node[m].kids = <<>> => rk[m] = 1 + (g.lo[m] - Least)) /\ (t.node[m].kids # <<>> => rk[m] = 1)
  BY <1>3, <1>4
<1>7. ASSUME NEW m \in D PROVE rk[m] \in Nat /\ rk[m] <= b /\ rk[m] > 0
  <2>1. CASE t.node[m].kids = <<>>
    <3>1. m \in LeafSet(t)
      BY <2>1, <1>1 DEF LeafSet
    <3>2. g.lo[m] \in Int /\ g.hi[m] \in Int /\ Least <= g.lo[m] /\ g.lo[m] < g.hi[m] /\ g.hi[m] <= Greatest
      BY <3>1, LeafNeighbours
    <3> QED BY <3>2, <2>1, <1>1, <1>2, <1>6
  <2>2. CASE t.node[m].kids # <<>>
    BY <2>2, <1>3, <1>6
  <2> QED BY <2>1, <2>2
<1>8. ASSUME NEW m \in D PROVE lk[m] \in D \cup {NO_NODE} /\ rk[lk[m]] < rk[m]
  <2>1. PICK n : n = t.node[m].prev
    OBVIOUS
  <2>2. lk[m] = n
    BY <2>1, <1>1 DEF PrevOf
  <2>3. CASE n = NO_NODE
    BY <2>2, <2>3, <1>5, <1>7
  <2>4. CASE n # NO_NODE
    <3>1. t.node[m].kids = <<>>
      BY <2>1, <2>4, <1>1 DEF Inners
    <3>2. m \in LeafSet(t)
      BY <3>1, <1>1 DEF LeafSet
    <3>3. n \in LeafSet(t) /\ g.hi[n] = g.lo[m]
      BY <3>2, <2>1, <2>4, LeafNeighbours
    <3>4. n \in D /\ t.node[n].kids = <<>> /\ g.lo[n] \in Int /\ g.lo[n] < g.hi[n]
      BY <3>3, <1>1, LeafNeighbours
    <3>5. g.lo[m] \in Int
      BY <3>2, LeafNeighbours
    <3>6. rk[n] = 1 + (g.lo[n] - Least) /\ rk[m] = 1 + (g.lo[m] - Least)
      BY <3>1, <3>4, <1>6
    <3>7. rk[n] < rk[m]
      BY <3>3, <3>4, <3>5, <3>6, <1>2
    <3> QED BY <3>4, <3>7, <2>2
  <2> QED BY <2>3, <2>4
<1>9. rk \in [D \cup {NO_NODE} -> Nat] /\ \A m \in D \cup {NO_NODE} : rk[m] <= b
  <2>1. \A m \in D \cup {NO_NODE} : rk[m] \in Nat /\ rk[m] <= b
    BY <1>3, <1>5, <1>7
  <2>2. rk = [m \in D \cup {NO_NODE} |-> rk[m]]
    BY <1>1 DEF PrevRank
  <2> QED BY <2>1, <2>2
<1>10. Falling(D, lk, rk, b)
  BY <1>3, <1>8, <1>9 DEF Falling
<1> QED BY <1>1, <1>10

\* What the recursive functions in ChainFrom and BackChain have to be.
ChainBody(t, f) == [m \in DOMAIN t.node \cup {NO_NODE} |-> IF m = NO_NODE THEN <<>> ELSE <<m>> \o f[t.node[m].next]]
BackBody(t, f) == [m \in DOMAIN t.node \cup {NO_NODE} |-> IF m = NO_NODE THEN <<>> ELSE <<m>> \o f[t.node[m].prev]]

\* ChainFrom and BackChain are values of these functions.
LEMMA ChainIs ==
    ASSUME NEW t, NEW l
    PROVE  /\ ChainFrom(t, l) = (CHOOSE f : f = ChainBody(t, f))[l]
           /\ BackChain(t) = (CHOOSE f : f = BackBody(t, f))[t.last]
BY DEF ChainFrom, ChainBody, BackChain, BackBody

\* The chain follows the next links.
LEMMA ChainBodyIs ==
    ASSUME NEW t, Arena(t), NEW f
    PROVE  ChainBody(t, f) = StringBody(DOMAIN t.node, NextOf(t), f) /\ BackBody(t, f) = StringBody(DOMAIN t.node, PrevOf(t), f)
<1>1. \A m \in DOMAIN t.node : m # NO_NODE
  BY ArenaParts
<1>2. ASSUME NEW m \in DOMAIN t.node \cup {NO_NODE}
      PROVE  /\ (IF m = NO_NODE THEN <<>> ELSE <<m>> \o f[t.node[m].next]) = StringFrom(NextOf(t), m, f)
             /\ (IF m = NO_NODE THEN <<>> ELSE <<m>> \o f[t.node[m].prev]) = StringFrom(PrevOf(t), m, f)
  <2>1. m # NO_NODE => NextOf(t)[m] = t.node[m].next /\ PrevOf(t)[m] = t.node[m].prev
    BY DEF NextOf, PrevOf
  <2> QED BY <2>1 DEF StringFrom
<1> QED BY <1>2 DEF ChainBody, BackBody, StringBody

\* The chain from a leaf on is a strand of leaves, and so is the whole chain in
\* both directions.
LEMMA ChainIsStrand ==
    ASSUME NEW t, NEW g, NEW O, TreeInv(t, g, O), Inners(t), NEW l \in LeafSet(t)
    PROVE  LET c == ChainFrom(t, l) IN Strand(LeafSet(t), NextOf(t), c, l, Len(c)) /\ Len(c) \in Nat
<1>1. PICK D, lk, rk, b, L : D = DOMAIN t.node /\ lk = NextOf(t) /\ rk = NextRank(t, g) /\ b = 1 + (Greatest - Least)
         /\ L = LeafSet(t)
  OBVIOUS
<1>2. Falling(D, lk, rk, b) /\ Arena(t)
  BY <1>1, NextFalls DEF TreeInv
<1>3. PICK f : f = (CHOOSE e : e = ChainBody(t, e))
  OBVIOUS
<1>4. f = ChainBody(t, f)
  <2>1. PICK e : e = StringBody(D, lk, e)
    BY <1>2, StringExists
  <2>2. e = ChainBody(t, e)
    BY <2>1, <1>1, <1>2, ChainBodyIs
  <2> QED BY <2>2, <1>3
<1>5. f = StringBody(D, lk, f)
  BY <1>1, <1>2, <1>4, ChainBodyIs
<1>6. L \in SUBSET D /\ l \in L
  BY <1>1 DEF LeafSet
<1>7. \A m \in L : lk[m] \in L \cup {NO_NODE}
  <2>1. ASSUME NEW m \in L PROVE lk[m] = t.node[m].next
    BY <1>1, <1>6 DEF NextOf
  <2> QED BY <2>1, <1>1, LeafNeighbours
<1>8. Strand(L, lk, f[l], l, Len(f[l])) /\ Len(f[l]) \in Nat
  BY <1>2, <1>5, <1>6, <1>7, StringIsStrand
<1>9. ChainFrom(t, l) = f[l]
  BY <1>3, ChainIs
<1> QED BY <1>1, <1>8, <1>9

\* Behind the last leaf there is nothing.
LEMMA ChainEnds ==
    ASSUME NEW t, NEW g, NEW O, TreeInv(t, g, O), Inners(t)
    PROVE  ChainFrom(t, NO_NODE) = <<>>
<1>1. PICK D, lk, rk, b : D = DOMAIN t.node /\ lk = NextOf(t) /\ rk = NextRank(t, g) /\ b = 1 + (Greatest - Least)
  OBVIOUS
<1>2. Falling(D, lk, rk, b) /\ Arena(t)
  BY <1>1, NextFalls DEF TreeInv
<1>3. PICK f : f = (CHOOSE e : e = ChainBody(t, e))
  OBVIOUS
<1>4. f = ChainBody(t, f)
  <2>1. PICK e : e = StringBody(D, lk, e)
    BY <1>2, StringExists
  <2>2. e = ChainBody(t, e)
    BY <2>1, <1>1, <1>2, ChainBodyIs
  <2> QED BY <2>2, <1>3
<1>5. f[NO_NODE] = <<>>
  BY <1>4 DEF ChainBody
<1> QED BY <1>3, <1>5, ChainIs

\* The chain backwards.
LEMMA BackIsStrand ==
    ASSUME NEW t, NEW g, NEW O, TreeInv(t, g, O), Inners(t)
    PROVE  LET c == BackChain(t) IN Strand(LeafSet(t), PrevOf(t), c, t.last, Len(c)) /\ Len(c) \in Nat
<1>1. PICK D, lk, rk, b, L : D = DOMAIN t.node /\ lk = PrevOf(t) /\ rk = PrevRank(t, g) /\ b = 1 + (Greatest - Least)
         /\ L = LeafSet(t)
  OBVIOUS
<1>2. Falling(D, lk, rk, b) /\ Arena(t)
  BY <1>1, PrevFalls DEF TreeInv
<1>3. PICK f : f = (CHOOSE e : e = BackBody(t, e))
  OBVIOUS
<1>4. f = BackBody(t, f)
  <2>1. PICK e : e = StringBody(D, lk, e)
    BY <1>2, StringExists
  <2>2. e = BackBody(t, e)
    BY <2>1, <1>1, <1>2, ChainBodyIs
  <2> QED BY <2>2, <1>3
<1>5. f = StringBody(D, lk, f)
  BY <1>1, <1>2, <1>4, ChainBodyIs
<1>6. L \in SUBSET D /\ t.last \in L
  BY <1>1 DEF LeafSet, TreeInv, Links
<1>7. \A m \in L : lk[m] \in L \cup {NO_NODE}
  <2>1. ASSUME NEW m \in L PROVE lk[m] = t.node[m].prev
    BY <1>1, <1>6 DEF PrevOf
  <2> QED BY <2>1, <1>1, LeafNeighbours
<1>8. Strand(L, lk, f[t.last], t.last, Len(f[t.last])) /\ Len(f[t.last]) \in Nat
  BY <1>2, <1>5, <1>6, <1>7, StringIsStrand
<1>9. BackChain(t) = f[t.last]
  BY <1>3, ChainIs
<1> QED BY <1>1, <1>8, <1>9

\* The ranges of the N members of c follow each other from a to b.
Tiles(lo, hi, c, N, a, b) ==
    /\ N \in Nat \ {0} /\ lo[c[1]] = a /\ hi[c[N]] = b
    /\ \A i \in 1 .. N - 1 : hi[c[i]] = lo[c[i + 1]]

\* The members of L have ranges between a and b, no two with the same start.
Spread(L, lo, hi, a, b) ==
    /\ \A l \in L : lo[l] \in Int /\ hi[l] \in Int /\ a <= lo[l] /\ lo[l] < hi[l] /\ hi[l] <= b
    /\ \A l, m \in L : lo[l] = lo[m] => l = m

\* Ranges that follow each other leave no gap.
LEMMA TilesCover ==
    ASSUME NEW lo, NEW hi, NEW L, NEW c, NEW N, NEW a \in Int, NEW b \in Int, Spread(L, lo, hi, a, b),
           Tiles(lo, hi, c, N, a, b), \A i \in 1 .. N : c[i] \in L, NEW x \in Int, a <= x, x < b
    PROVE  \E i \in 1 .. N : lo[c[i]] <= x /\ x < hi[c[i]]
<1>1. N \in Nat \ {0} /\ lo[c[1]] = a /\ hi[c[N]] = b /\ \A i \in 1 .. N - 1 : hi[c[i]] = lo[c[i + 1]]
  BY DEF Tiles
<1>2. PICK S : S = {i \in 1 .. N : x < hi[c[i]]}
  OBVIOUS
<1>3. N \in S /\ S \in SUBSET Nat
  BY <1>1, <1>2
<1>4. PICK i \in S : \A y \in S : i <= y
  BY <1>3, MinOfNats
<1>5. i \in 1 .. N /\ x < hi[c[i]]
  BY <1>2, <1>4
<1>6. lo[c[i]] <= x
  <2>1. CASE i = 1
    BY <2>1, <1>1
  <2>2. CASE i # 1
    <3>1. PICK j : j = i - 1
      OBVIOUS
    <3>2. j \in 1 .. N - 1 /\ j \in 1 .. N /\ j + 1 = i /\ ~(i <= j)
      BY <3>1, <2>2, <1>1, <1>5
    <3>3. j \notin S
      BY <3>2, <1>4
    <3>4. ~(x < hi[c[j]]) /\ hi[c[j]] \in Int
      BY <3>2, <3>3, <1>2 DEF Spread
    <3>5. hi[c[j]] = lo[c[i]]
      BY <3>2, <1>1
    <3> QED BY <3>4, <3>5
  <2> QED BY <2>1, <2>2
<1> QED BY <1>5, <1>6

\* There is only one way to arrange them.
LEMMA TilesUnique ==
    ASSUME NEW lo, NEW hi, NEW L, NEW a \in Int, NEW b \in Int, Spread(L, lo, hi, a, b),
           NEW c \in Seq(L), NEW N, Len(c) = N, Tiles(lo, hi, c, N, a, b),
           NEW d \in Seq(L), NEW M, Len(d) = M, Tiles(lo, hi, d, M, a, b)
    PROVE  c = d
<1>1. N \in Nat \ {0} /\ lo[c[1]] = a /\ hi[c[N]] = b /\ \A i \in 1 .. N - 1 : hi[c[i]] = lo[c[i + 1]]
  BY DEF Tiles
<1>2. M \in Nat \ {0} /\ lo[d[1]] = a /\ hi[d[M]] = b /\ \A i \in 1 .. M - 1 : hi[d[i]] = lo[d[i + 1]]
  BY DEF Tiles
<1>3. (\A i \in 1 .. N : c[i] \in L) /\ (\A i \in 1 .. M : d[i] \in L)
  OBVIOUS
<1>4. PICK S : S = {i \in Nat \ {0} : i <= N /\ i <= M /\ c[i] # d[i]}
  OBVIOUS
<1>5. S = {}
  <2>1. SUFFICES ASSUME S # {} PROVE FALSE
    OBVIOUS
  <2>2. PICK i \in S : \A y \in S : i <= y
    BY <2>1, <1>4, MinOfNats
  <2>3. i \in 1 .. N /\ i \in 1 .. M /\ c[i] # d[i]
    BY <2>2, <1>1, <1>2, <1>4
  <2>4. lo[c[i]] = lo[d[i]]
    <3>1. CASE i = 1
      BY <3>1, <1>1, <1>2
    <3>2. CASE i # 1
      <4>1. PICK j : j = i - 1
        OBVIOUS
      <4>2. j \in 1 .. N - 1 /\ j \in 1 .. M - 1 /\ j + 1 = i /\ ~(i <= j) /\ j \in Nat \ {0} /\ j <= N /\ j <= M
        BY <4>1, <3>2, <2>3, <1>1, <1>2
      <4>3. c[j] = d[j]
        BY <4>2, <2>2, <1>4
      <4>4. hi[c[j]] = lo[c[i]] /\ hi[d[j]] = lo[d[i]]
        BY <4>2, <1>1, <1>2
      <4> QED BY <4>3, <4>4
    <3> QED BY <3>1, <3>2
  <2> QED BY <2>3, <2>4, <1>3 DEF Spread
<1>6. \A i \in Nat \ {0} : i <= N /\ i <= M => c[i] = d[i]
  BY <1>4, <1>5
<1>7. ~(N < M)
  <2>1. SUFFICES ASSUME N < M PROVE FALSE
    OBVIOUS
  <2>2. N \in 1 .. M - 1 /\ N + 1 \in 1 .. M /\ N <= N /\ N <= M
    BY <2>1, <1>1, <1>2
  <2>3. c[N] = d[N] /\ hi[d[N]] = lo[d[N + 1]]
    BY <2>2, <1>1, <1>2, <1>6
  <2>4. lo[d[N + 1]] \in Int /\ hi[d[N + 1]] \in Int /\ lo[d[N + 1]] < hi[d[N + 1]] /\ hi[d[N + 1]] <= b
    BY <2>2, <1>3 DEF Spread
  <2> QED BY <2>3, <2>4, <1>1
<1>8. ~(M < N)
  <2>1. SUFFICES ASSUME M < N PROVE FALSE
    OBVIOUS
  <2>2. M \in 1 .. N - 1 /\ M + 1 \in 1 .. N /\ M <= N /\ M <= M
    BY <2>1, <1>1, <1>2
  <2>3. c[M] = d[M] /\ hi[c[M]] = lo[c[M + 1]]
    BY <2>2, <1>1, <1>2, <1>6
  <2>4. lo[c[M + 1]] \in Int /\ hi[c[M + 1]] \in Int /\ lo[c[M + 1]] < hi[c[M + 1]] /\ hi[c[M + 1]] <= b
    BY <2>2, <1>3 DEF Spread
  <2> QED BY <2>3, <2>4, <1>2
<1>9. N = M
  BY <1>1, <1>2, <1>7, <1>8
<1>10. \A i \in 1 .. Len(c) : c[i] = d[i]
  <2>1. \A i \in 1 .. N : i \in Nat \ {0} /\ i <= N /\ i <= M
    BY <1>1, <1>9
  <2> QED BY <2>1, <1>6
<1> QED BY <1>9, <1>10, SameSeq

\* The leaves have ranges of their own.
LEMMA LeavesSpread ==
    ASSUME NEW t, NEW g, NEW O, TreeInv(t, g, O)
    PROVE  Spread(LeafSet(t), g.lo, g.hi, Least, Greatest)
<1>1. Shape(t, g, O) /\ Order(t, g)
  BY DEF TreeInv
<1>2. \A l \in LeafSet(t) : g.lo[l] \in Int /\ g.hi[l] \in Int /\ Least <= g.lo[l] /\ g.lo[l] < g.hi[l] /\ g.hi[l] <= Greatest
  BY LeafNeighbours
<1>3. ASSUME NEW l \in LeafSet(t), NEW m \in LeafSet(t), g.lo[l] = g.lo[m] PROVE l = m
  <2>1. PICK k : k = g.lo[l]
    OBVIOUS
  <2>2. k \in Int /\ g.lo[l] <= k /\ k < g.hi[l] /\ g.lo[m] <= k /\ k < g.hi[m]
    BY <2>1, <1>2, <1>3
  <2> QED BY <2>2, <1>1, OneLeaf
<1> QED BY <1>2, <1>3 DEF Spread

\* The ranges in the chain follow each other.
LEMMA ChainTiles ==
    ASSUME NEW t, NEW g, NEW O, TreeInv(t, g, O), Inners(t)
    PROVE  LET c == Chain(t) IN c \in Seq(LeafSet(t)) /\ Tiles(g.lo, g.hi, c, Len(c), Least, Greatest)
<1>1. PICK c, N, L, lk : c = Chain(t) /\ N = Len(c) /\ L = LeafSet(t) /\ lk = NextOf(t)
  OBVIOUS
<1>2. t.first \in L /\ t.node[t.first].prev = NO_NODE
  BY <1>1 DEF TreeInv, Links
<1>3. Strand(L, lk, c, t.first, N) /\ N \in Nat
  BY <1>1, <1>2, ChainIsStrand DEF Chain
<1>4. /\ c \in Seq(L) /\ Len(c) = N /\ N # 0 /\ c[1] = t.first
      /\ \A i \in 1 .. N : (i = N => lk[c[i]] = NO_NODE) /\ (i # N => lk[c[i]] = c[i + 1])
  BY <1>3 DEF Strand
<1>5. ASSUME NEW i \in 1 .. N PROVE c[i] \in LeafSet(t) /\ lk[c[i]] = t.node[c[i]].next
  <2>1. c[i] \in LeafSet(t)
    BY <1>1, <1>4
  <2>2. c[i] \in DOMAIN t.node
    BY <2>1 DEF LeafSet
  <2> QED BY <2>1, <2>2, <1>1 DEF NextOf
<1>6. g.lo[c[1]] = Least
  BY <1>1, <1>2, <1>4, LeafNeighbours
<1>7. g.hi[c[N]] = Greatest
  <2>1. N \in 1 .. N
    BY <1>3, <1>4
  <2>2. t.node[c[N]].next = NO_NODE
    BY <2>1, <1>4, <1>5
  <2> QED BY <2>1, <2>2, <1>5, LeafNeighbours
<1>8. ASSUME NEW i \in 1 .. N - 1 PROVE g.hi[c[i]] = g.lo[c[i + 1]]
  <2>1. i \in 1 .. N /\ i # N /\ i + 1 \in 1 .. N
    BY <1>3
  <2>2. t.node[c[i]].next = c[i + 1] /\ c[i + 1] \in LeafSet(t)
    BY <2>1, <1>4, <1>5
  <2>3. c[i + 1] # NO_NODE
    BY <2>2, ArenaParts DEF LeafSet, TreeInv
  <2> QED BY <2>1, <2>2, <2>3, <1>5, LeafNeighbours
<1>9. Tiles(g.lo, g.hi, c, N, Least, Greatest)
  BY <1>3, <1>4, <1>6, <1>7, <1>8 DEF Tiles
<1> QED BY <1>1, <1>4, <1>9

\* All leaves are in the chain.
LEMMA ChainHasLeaves ==
    ASSUME NEW t, NEW g, NEW O, TreeInv(t, g, O), Inners(t)
    PROVE  ToSet(Chain(t)) = LeafSet(t) /\ \A l \in LeafSet(t) : \E i \in 1 .. Len(Chain(t)) : Chain(t)[i] = l
<1>1. PICK c, N, L : c = Chain(t) /\ N = Len(c) /\ L = LeafSet(t)
  OBVIOUS
<1>2. c \in Seq(L) /\ Tiles(g.lo, g.hi, c, N, Least, Greatest)
  BY <1>1, ChainTiles
<1>3. Spread(L, g.lo, g.hi, Least, Greatest) /\ Least \in Int /\ Greatest \in Int
  BY <1>1, LeavesSpread, BoundsExist
<1>4. \A i \in 1 .. N : c[i] \in L
  BY <1>1, <1>2
<1>5. ASSUME NEW l \in L PROVE \E i \in 1 .. N : c[i] = l
  <2>1. PICK x : x = g.lo[l]
    OBVIOUS
  <2>2. x \in Int /\ Least <= x /\ x < Greatest /\ g.lo[l] <= x /\ x < g.hi[l]
    <3>1. g.lo[l] \in Int /\ g.hi[l] \in Int /\ Least <= g.lo[l] /\ g.lo[l] < g.hi[l] /\ g.hi[l] <= Greatest
      BY <1>3 DEF Spread
    <3> QED BY <3>1, <2>1, <1>3
  <2>3. PICK i \in 1 .. N : g.lo[c[i]] <= x /\ x < g.hi[c[i]]
    BY <2>2, <1>2, <1>3, <1>4, TilesCover
  <2>4. c[i] = l
    BY <2>2, <2>3, <1>1, <1>4, OneLeaf DEF TreeInv
  <2> QED BY <2>4
<1>6. ToSet(c) = {c[i] : i \in 1 .. N}
  BY <1>1, <1>2, ToSetIs
<1>7. ToSet(c) = L
  BY <1>4, <1>5, <1>6
<1> QED BY <1>1, <1>5, <1>7

\* The entries of u are those of t with value v for k.
EntryPut(t, u, k, v) == \A x, y : Has(u, x, y) <=> (x = k /\ y = v) \/ (x # k /\ Has(t, x, y))

\* The entries of u are those of t without k.
EntryGone(t, u, k) == \A x, y : Has(u, x, y) <=> x # k /\ Has(t, x, y)

\* Leaf l has entry x, y.
Holds(t, l, x, y) == \E i \in 1 .. Len(t.node[l].keys) : t.node[l].keys[i] = x /\ t.node[l].vals[i] = y
Pairs(ks, vs, x, y) == \E i \in 1 .. Len(ks) : ks[i] = x /\ vs[i] = y

\* The contents of one leaf.
LEMMA HoldsIs ==
    ASSUME NEW t, NEW l, NEW x, NEW y
    PROVE  /\ Holds(t, l, x, y) <=> Pairs(t.node[l].keys, t.node[l].vals, x, y)
           /\ Has(t, x, y) <=> \E m \in LeafSet(t) : Holds(t, m, x, y)
BY DEF Holds, Pairs, Has

\* A key is in one leaf only, once.
LEMMA OwnKeys ==
    ASSUME NEW t, NEW g, NEW O, TreeInv(t, g, O), NEW l \in LeafSet(t), NEW m \in LeafSet(t),
           NEW i \in 1 .. Len(t.node[l].keys), NEW j \in 1 .. Len(t.node[m].keys),
           t.node[l].keys[i] = t.node[m].keys[j]
    PROVE  l = m /\ i = j
<1>1. Arena(t) /\ Shape(t, g, O) /\ Order(t, g)
  BY DEF TreeInv
<1>2. \A n \in LeafSet(t) : n \in DOMAIN t.node /\ t.node[n].kids = <<>>
  BY DEF LeafSet
<1>3. \A n \in LeafSet(t) : Guides(g, n, t.node[n]) /\ t.node[n].keys \in Seq(Int)
  BY <1>1, <1>2, GuidesParts, KeysAreInts
<1>4. \A n \in LeafSet(t) : Run(Len(t.node[n].keys), t.node[n].keys, g.lo[n], g.hi[n]) /\ Len(t.node[n].keys) \in Nat
  BY <1>2, <1>3, GuidesRun
<1>5. PICK k : k = t.node[l].keys[i]
  OBVIOUS
<1>6. k \in Int /\ g.lo[l] <= k /\ k < g.hi[l] /\ g.lo[m] <= k /\ k < g.hi[m]
  BY <1>4, <1>5 DEF Run
<1>7. l = m
  BY <1>1, <1>6, OneLeaf
<1>8. i = j
  <2>1. i \in 1 .. Len(t.node[l].keys) /\ j \in 1 .. Len(t.node[l].keys) /\ t.node[l].keys[i] = t.node[l].keys[j]
    BY <1>7
  <2>2. t.node[l].keys[i] \in Int /\ t.node[l].keys[j] \in Int
    BY <2>1, <1>4 DEF Run
  <2>3. ~(i < j)
    BY <2>1, <2>2, <1>4 DEF Run
  <2>4. ~(j < i)
    BY <2>1, <2>2, <1>4 DEF Run
  <2>5. i \in Int /\ j \in Int
    BY <2>1, <1>4
  <2> QED BY <2>3, <2>4, <2>5
<1> QED BY <1>7, <1>8

\* A key has one value.
LEMMA OneValue ==
    ASSUME NEW t, NEW g, NEW O, TreeInv(t, g, O), NEW k, NEW v, NEW w, Has(t, k, v), Has(t, k, w)
    PROVE  v = w
<1>1. PICK l \in LeafSet(t) : \E i \in 1 .. Len(t.node[l].keys) : t.node[l].keys[i] = k /\ t.node[l].vals[i] = v
  BY DEF Has
<1>2. PICK i \in 1 .. Len(t.node[l].keys) : t.node[l].keys[i] = k /\ t.node[l].vals[i] = v
  BY <1>1
<1>3. PICK m \in LeafSet(t) : \E j \in 1 .. Len(t.node[m].keys) : t.node[m].keys[j] = k /\ t.node[m].vals[j] = w
  BY DEF Has
<1>4. PICK j \in 1 .. Len(t.node[m].keys) : t.node[m].keys[j] = k /\ t.node[m].vals[j] = w
  BY <1>3
<1>5. l = m /\ i = j
  BY <1>2, <1>4, OwnKeys
<1> QED BY <1>2, <1>4, <1>5

\* Key k goes into slot i of leaf l, or is there.
PutPoint(t, g, l, i, k) ==
    /\ l \in LeafSet(t) /\ Covers(g, l, k) /\ i \in 1 .. Len(t.node[l].keys) + 1
    /\ \A j \in 1 .. Len(t.node[l].keys) : j < i => t.node[l].keys[j] < k
    /\ i <= Len(t.node[l].keys) => k <= t.node[l].keys[i]

\* The entries after one leaf has got new contents.
LEMMA RewriteHas ==
    ASSUME NEW t, NEW u, NEW g, NEW O, TreeInv(t, g, O), NEW l \in LeafSet(t), NEW ks, NEW vs,
           RewrittenView(t, u, l, ks, vs), LeafSet(u) = LeafSet(t), NEW x, NEW y
    PROVE  Has(u, x, y) <=> Pairs(ks, vs, x, y) \/ \E m \in LeafSet(t) : m # l /\ Holds(t, m, x, y)
<1>1. \A m \in LeafSet(t) : m \in DOMAIN t.node
  BY DEF LeafSet
<1>2. u.node[l].keys = ks /\ u.node[l].vals = vs /\ \A m \in LeafSet(t) : m # l => u.node[m] = t.node[m]
  BY <1>1 DEF RewrittenView
<1>3. Holds(u, l, x, y) <=> Pairs(ks, vs, x, y)
  BY <1>2, HoldsIs
<1>4. \A m \in LeafSet(t) : m # l => (Holds(u, m, x, y) <=> Holds(t, m, x, y))
  BY <1>2 DEF Holds
<1>5. Has(u, x, y) <=> \E m \in LeafSet(t) : Holds(u, m, x, y)
  BY HoldsIs
<1> QED BY <1>3, <1>4, <1>5

\* The links of internal nodes when one leaf gets new contents.
LEMMA RewriteInners ==
    ASSUME NEW t, NEW u, NEW l, NEW ks, NEW vs, RewrittenView(t, u, l, ks, vs), Inners(t)
    PROVE  Inners(u)
<1>1. DOMAIN u.node = DOMAIN t.node
  BY DEF RewrittenView
<1>2. \A n \in DOMAIN t.node : u.node[n].kids = t.node[n].kids
         /\ u.node[n].prev = t.node[n].prev /\ u.node[n].next = t.node[n].next
  BY DEF RewrittenView
<1> QED BY <1>1, <1>2 DEF Inners

\* Keys of leaf l, in its range.
LEMMA LeafRun ==
    ASSUME NEW t, NEW g, NEW O, TreeInv(t, g, O), NEW l \in LeafSet(t)
    PROVE  /\ l \in DOMAIN t.node /\ t.node[l].kids = <<>>
           /\ t.node[l].keys \in Seq(Key) /\ t.node[l].keys \in Seq(Int) /\ t.node[l].vals \in Seq(Value)
           /\ Len(t.node[l].keys) \in Nat /\ Len(t.node[l].vals) = Len(t.node[l].keys)
           /\ Run(Len(t.node[l].keys), t.node[l].keys, g.lo[l], g.hi[l])
           /\ g.lo[l] \in Int /\ g.hi[l] \in Int
<1>1. l \in DOMAIN t.node /\ t.node[l].kids = <<>> /\ Arena(t)
  BY DEF LeafSet, TreeInv
<1>2. /\ t.node[l].keys \in Seq(Key) /\ t.node[l].keys \in Seq(Int) /\ t.node[l].vals \in Seq(Value)
  BY <1>1, KeysAreInts
<1>3. Guides(g, l, t.node[l])
  BY <1>1, GuidesParts DEF TreeInv
<1>4. /\ Len(t.node[l].keys) \in Nat /\ Len(t.node[l].vals) = Len(t.node[l].keys) /\ RangeOf(g, l)
      /\ Run(Len(t.node[l].keys), t.node[l].keys, g.lo[l], g.hi[l])
  BY <1>1, <1>2, <1>3, GuidesRun
<1> QED BY <1>1, <1>2, <1>4 DEF RangeOf

\* A run takes in a key at its place.
LEMMA RunPut ==
    ASSUME NEW L \in Nat, NEW ks, NEW a \in Int, NEW b \in Int, Run(L, ks, a, b), NEW k \in Int, a <= k, k < b,
           NEW i \in 1 .. L + 1, \A j \in 1 .. L : j < i => ks[j] < k, i <= L => k < ks[i], NEW w,
           \A j \in 1 .. L + 1 : w[j] = IF j < i THEN ks[j] ELSE IF j = i THEN k ELSE ks[j - 1]
    PROVE  Run(L + 1, w, a, b)
<1>1. ASSUME NEW j \in 1 .. L + 1 PROVE w[j] \in Int /\ a <= w[j] /\ w[j] < b
  BY DEF Run
<1>2. ASSUME NEW j \in 1 .. L, j >= i PROVE k < ks[j]
  <2>1. i \in 1 .. L
    BY <1>2
  <2>2. CASE i = j
    BY <2>1, <2>2
  <2>3. CASE i # j
    <3>1. i < j
      BY <2>3, <1>2
    <3>2. ks[i] < ks[j] /\ ks[i] \in Int /\ ks[j] \in Int
      BY <3>1, <2>1 DEF Run
    <3> QED BY <3>2, <2>1
  <2> QED BY <2>2, <2>3
<1>3. ASSUME NEW m \in 1 .. L + 1, NEW j \in 1 .. L + 1, m < j PROVE w[m] < w[j]
  <2>1. CASE j < i
    BY <2>1, <1>3 DEF Run
  <2>2. CASE j = i
    BY <2>2, <1>3
  <2>3. CASE j > i
    <3>1. w[j] = ks[j - 1] /\ j - 1 \in 1 .. L /\ j - 1 >= i
      BY <2>3
    <3>2. CASE m < i
      <4>1. w[m] = ks[m] /\ m \in 1 .. L /\ m < j - 1
        BY <3>1, <3>2
      <4> QED BY <3>1, <4>1 DEF Run
    <3>3. CASE m = i
      BY <3>1, <3>3, <1>2
    <3>4. CASE m > i
      <4>1. w[m] = ks[m - 1] /\ m - 1 \in 1 .. L /\ m - 1 < j - 1
        BY <3>1, <3>4, <1>3
      <4> QED BY <3>1, <4>1 DEF Run
    <3> QED BY <3>2, <3>3, <3>4
  <2> QED BY <2>1, <2>2, <2>3
<1> QED BY <1>1, <1>3 DEF Run

\* A run without one of its keys.
LEMMA RunCut ==
    ASSUME NEW L \in Nat, NEW ks, NEW a \in Int, NEW b \in Int, Run(L, ks, a, b), NEW i \in 1 .. L, NEW w,
           \A j \in 1 .. L - 1 : w[j] = IF j < i THEN ks[j] ELSE ks[j + 1]
    PROVE  Run(L - 1, w, a, b)
<1>1. ASSUME NEW j \in 1 .. L - 1 PROVE w[j] \in Int /\ a <= w[j] /\ w[j] < b
  <2>1. j \in 1 .. L /\ j + 1 \in 1 .. L
    OBVIOUS
  <2> QED BY <2>1 DEF Run
<1>2. ASSUME NEW m \in 1 .. L - 1, NEW j \in 1 .. L - 1, m < j PROVE w[m] < w[j]
  <2>1. j \in 1 .. L /\ j + 1 \in 1 .. L /\ m \in 1 .. L /\ m + 1 \in 1 .. L /\ m < j + 1 /\ m + 1 < j + 1
    BY <1>2
  <2>2. ks[m] < ks[j] /\ ks[m] < ks[j + 1] /\ ks[m + 1] < ks[j + 1]
    BY <2>1, <1>2 DEF Run
  <2>3. CASE j < i
    BY <2>2, <2>3, <1>2
  <2>4. CASE ~(j < i)
    BY <2>2, <2>4, <1>2
  <2> QED BY <2>3, <2>4
<1> QED BY <1>1, <1>2 DEF Run

\* A run as the contents of a leaf.
LEMMA RunFits ==
    ASSUME NEW g, NEW l, NEW ks \in Seq(Key), NEW vs \in Seq(Value), NEW L, Len(ks) = L, Len(vs) = L,
           Run(L, ks, g.lo[l], g.hi[l])
    PROVE  Fits(g, l, ks, vs)
BY DEF Run, Fits, Sorted

\* The keys are finitely many.
LEMMA KeySetFinite ==
    ASSUME NEW t, Arena(t)
    PROVE  KeySet(t) \subseteq Key /\ IsFiniteSet(KeySet(t)) /\ Cardinality(KeySet(t)) \in Nat
<1>1. ASSUME NEW l \in LeafSet(t) PROVE ToSet(t.node[l].keys) \subseteq Key
  <2>1. t.node[l].keys \in Seq(Key)
    BY ArenaParts DEF LeafSet
  <2> QED BY <2>1, ToSetIs
<1>2. KeySet(t) \subseteq Key
  BY <1>1 DEF KeySet
<1> QED BY <1>2, KeyAssumption, FS_Subset, FS_CardinalityType

\* The number of keys after an insertion.
LEMMA PutCount ==
    ASSUME NEW t, NEW u, Arena(t), Arena(u), NEW k, NEW v, EntryPut(t, u, k, v), k \notin KeySet(t)
    PROVE  Cardinality(KeySet(u)) = Cardinality(KeySet(t)) + 1
<1>1. KeySet(u) = KeySet(t) \cup {k}
  <2>1. ASSUME NEW x PROVE x \in KeySet(u) <=> x \in KeySet(t) \/ x = k
    BY KeySetHas DEF EntryPut
  <2> QED BY <2>1
<1> QED BY <1>1, KeySetFinite, FS_AddElement

\* The number of keys after a removal.
LEMMA GoneCount ==
    ASSUME NEW t, NEW u, Arena(t), Arena(u), NEW k, EntryGone(t, u, k), k \in KeySet(t)
    PROVE  Cardinality(KeySet(u)) = Cardinality(KeySet(t)) - 1
<1>1. KeySet(u) = KeySet(t) \ {k}
  <2>1. ASSUME NEW x PROVE x \in KeySet(u) <=> x \in KeySet(t) /\ x # k
    BY KeySetHas DEF EntryGone
  <2> QED BY <2>1
<1> QED BY <1>1, KeySetFinite, FS_RemoveElement

\* A new leaf content settles the tree when the count is right.
LEMMA RewriteSettled ==
    ASSUME NEW t, NEW u, NEW g, SettledG(t, g), NEW l \in LeafSet(t), NEW ks, NEW vs, Fits(g, l, ks, vs),
           Rewritten(t, u, l, ks, vs), u.len = Cardinality(KeySet(u))
    PROVE  SettledG(u, g)
<1>1. TreeInv(t, g, {t.root}) /\ RootTop(t, g) /\ \A n \in DOMAIN t.node : g.out[n] = g.hi[n]
  BY DEF SettledG
<1>2. Arena(t) /\ Shape(t, g, {t.root}) /\ Order(t, g) /\ Links(t, g)
  BY <1>1 DEF TreeInv
<1>3. Arena(u) /\ Shape(u, g, {t.root}) /\ Order(u, g) /\ Links(u, g)
  BY <1>2, RewrittenInv
<1>4. l \in DOMAIN t.node
  BY DEF LeafSet
<1>5. RewrittenView(t, u, l, ks, vs)
  BY <1>4, RewrittenParts
<1>6. u.root = t.root /\ u.height = t.height /\ DOMAIN u.node = DOMAIN t.node
      /\ \A n \in DOMAIN t.node : u.node[n].parent = t.node[n].parent
  BY <1>5 DEF RewrittenView
<1>7. RootTop(u, g)
  BY <1>1, <1>6 DEF RootTop
<1>8. TreeInv(u, g, {u.root})
  BY <1>3, <1>6 DEF TreeInv
<1> QED BY <1>1, <1>6, <1>7, <1>8 DEF SettledG

\* Which entries a leaf has when k and v enter it.
LEMMA PairsPut ==
    ASSUME NEW ks \in Seq(Key), NEW vs \in Seq(Value), NEW L, Len(ks) = L, Len(vs) = L,
           NEW i \in 1 .. L + 1, NEW k, NEW v, NEW k2, NEW v2, InsertedAt(Key, ks, i, k, k2), InsertedAt(Value, vs, i, v, v2),
           NEW x, NEW y
    PROVE  Pairs(k2, v2, x, y) <=> (x = k /\ y = v) \/ Pairs(ks, vs, x, y)
<1>1. L \in Nat
  OBVIOUS
<1>2. Len(k2) = L + 1 /\ \A j \in 1 .. L + 1 : k2[j] = IF j < i THEN ks[j] ELSE IF j = i THEN k ELSE ks[j - 1]
  BY DEF InsertedAt
<1>3. \A j \in 1 .. L + 1 : v2[j] = IF j < i THEN vs[j] ELSE IF j = i THEN v ELSE vs[j - 1]
  BY DEF InsertedAt
<1>4. ASSUME Pairs(k2, v2, x, y) PROVE (x = k /\ y = v) \/ Pairs(ks, vs, x, y)
  <2>1. PICK j \in 1 .. L + 1 : k2[j] = x /\ v2[j] = y
    BY <1>2, <1>4 DEF Pairs
  <2>2. CASE j < i
    <3>1. j \in 1 .. L /\ ks[j] = x /\ vs[j] = y
      BY <2>1, <2>2, <1>1, <1>2, <1>3
    <3> QED BY <3>1 DEF Pairs
  <2>3. CASE j = i
    BY <2>1, <2>3, <1>2, <1>3
  <2>4. CASE j > i
    <3>1. j - 1 \in 1 .. L /\ ks[j - 1] = x /\ vs[j - 1] = y
      BY <2>1, <2>4, <1>1, <1>2, <1>3
    <3> QED BY <3>1 DEF Pairs
  <2> QED BY <2>2, <2>3, <2>4, <1>1
<1>5. ASSUME x = k, y = v PROVE Pairs(k2, v2, x, y)
  <2>1. k2[i] = x /\ v2[i] = y
    BY <1>5, <1>2, <1>3
  <2> QED BY <2>1, <1>2 DEF Pairs
<1>6. ASSUME Pairs(ks, vs, x, y) PROVE Pairs(k2, v2, x, y)
  <2>1. PICK j \in 1 .. L : ks[j] = x /\ vs[j] = y
    BY <1>6 DEF Pairs
  <2>2. CASE j < i
    <3>1. j \in 1 .. L + 1 /\ k2[j] = x /\ v2[j] = y
      BY <2>1, <2>2, <1>1, <1>2, <1>3
    <3> QED BY <3>1, <1>2 DEF Pairs
  <2>3. CASE j >= i
    <3>1. j + 1 \in 1 .. L + 1 /\ (j + 1) - 1 = j /\ ~(j + 1 < i) /\ j + 1 # i
      BY <2>3, <1>1
    <3>2. k2[j + 1] = x /\ v2[j + 1] = y
      BY <3>1, <2>1, <1>2, <1>3
    <3> QED BY <3>1, <3>2, <1>2 DEF Pairs
  <2> QED BY <2>2, <2>3, <1>1
<1> QED BY <1>4, <1>5, <1>6

\* Which entries a leaf has when the one in slot i leaves it.
LEMMA PairsCut ==
    ASSUME NEW ks \in Seq(Key), NEW vs \in Seq(Value), NEW L, Len(ks) = L, Len(vs) = L,
           \A a, b \in 1 .. L : ks[a] = ks[b] => a = b,
           NEW i \in 1 .. L, NEW k2, NEW v2, RemovedAt(Key, ks, i, k2), RemovedAt(Value, vs, i, v2),
           NEW x, NEW y
    PROVE  Pairs(k2, v2, x, y) <=> x # ks[i] /\ Pairs(ks, vs, x, y)
<1>1. L \in Nat
  OBVIOUS
<1>2. Len(k2) = L - 1 /\ \A j \in 1 .. L - 1 : k2[j] = IF j < i THEN ks[j] ELSE ks[j + 1]
  BY DEF RemovedAt
<1>3. \A j \in 1 .. L - 1 : v2[j] = IF j < i THEN vs[j] ELSE vs[j + 1]
  BY DEF RemovedAt
<1>4. ASSUME Pairs(k2, v2, x, y) PROVE x # ks[i] /\ Pairs(ks, vs, x, y)
  <2>1. PICK j \in 1 .. L - 1 : k2[j] = x /\ v2[j] = y
    BY <1>2, <1>4 DEF Pairs
  <2>2. CASE j < i
    <3>1. j \in 1 .. L /\ ks[j] = x /\ vs[j] = y /\ j # i
      BY <2>1, <2>2, <1>1, <1>2, <1>3
    <3> QED BY <3>1 DEF Pairs
  <2>3. CASE ~(j < i)
    <3>1. j + 1 \in 1 .. L /\ ks[j + 1] = x /\ vs[j + 1] = y /\ j + 1 # i
      BY <2>1, <2>3, <1>1, <1>2, <1>3
    <3> QED BY <3>1 DEF Pairs
  <2> QED BY <2>2, <2>3
<1>5. ASSUME x # ks[i], Pairs(ks, vs, x, y) PROVE Pairs(k2, v2, x, y)
  <2>1. PICK j \in 1 .. L : ks[j] = x /\ vs[j] = y
    BY <1>5 DEF Pairs
  <2>2. CASE j < i
    <3>1. j \in 1 .. L - 1 /\ k2[j] = x /\ v2[j] = y
      BY <2>1, <2>2, <1>1, <1>2, <1>3
    <3> QED BY <3>1, <1>2 DEF Pairs
  <2>3. CASE j > i
    <3>1. j - 1 \in 1 .. L - 1 /\ (j - 1) + 1 = j /\ ~(j - 1 < i)
      BY <2>3, <1>1
    <3>2. k2[j - 1] = x /\ v2[j - 1] = y
      BY <3>1, <2>1, <1>2, <1>3
    <3> QED BY <3>1, <3>2, <1>2 DEF Pairs
  <2>4. j # i
    BY <2>1, <1>5
  <2> QED BY <2>2, <2>3, <2>4, <1>1
<1> QED BY <1>4, <1>5

\* The keys a leaf has when k enters it at its place.
LEMMA PutFits ==
    ASSUME NEW t, NEW g, NEW O, TreeInv(t, g, O), NEW l, NEW i, NEW k \in Key, NEW v \in Value, PutPoint(t, g, l, i, k),
           ~IsAt(t, l, i, k), NEW k2, NEW v2, k2 = InsertAt(t.node[l].keys, i, k), v2 = InsertAt(t.node[l].vals, i, v)
    PROVE  /\ Fits(g, l, k2, v2)
           /\ InsertedAt(Key, t.node[l].keys, i, k, k2) /\ InsertedAt(Value, t.node[l].vals, i, v, v2)
<1>1. PICK ks, vs, L : ks = t.node[l].keys /\ vs = t.node[l].vals /\ L = Len(ks)
  OBVIOUS
<1>2. l \in LeafSet(t) /\ Covers(g, l, k) /\ i \in 1 .. L + 1
      /\ (\A j \in 1 .. L : j < i => ks[j] < k) /\ (i <= L => k <= ks[i])
  BY <1>1 DEF PutPoint
<1>3. /\ ks \in Seq(Key) /\ ks \in Seq(Int) /\ vs \in Seq(Value) /\ L \in Nat /\ Len(vs) = L
      /\ Run(L, ks, g.lo[l], g.hi[l]) /\ g.lo[l] \in Int /\ g.hi[l] \in Int
  BY <1>1, <1>2, LeafRun
<1>4. k \in Int
  BY BoundsExist
<1>5. i <= L => k < ks[i]
  <2>1. i <= L => ks[i] # k
    BY <1>1 DEF IsAt
  <2>2. i <= L => ks[i] \in Int
    <3>1. i <= L => i \in 1 .. L
      BY <1>2, <1>3
    <3>2. \A j \in 1 .. L : ks[j] \in Int
      BY <1>3 DEF Run
    <3> QED BY <3>1, <3>2
  <2> QED BY <2>1, <2>2, <1>2, <1>4
<1>6. InsertedAt(Key, ks, i, k, k2)
  BY <1>1, <1>2, <1>3, InsertAtDoes
<1>7. InsertedAt(Value, vs, i, v, v2)
  BY <1>1, <1>2, <1>3, InsertAtDoes
<1>8. k2 \in Seq(Key) /\ Len(k2) = L + 1 /\ \A j \in 1 .. L + 1 : k2[j] = IF j < i THEN ks[j] ELSE IF j = i THEN k ELSE ks[j - 1]
  BY <1>1, <1>6 DEF InsertedAt
<1>9. v2 \in Seq(Value) /\ Len(v2) = L + 1
  BY <1>3, <1>7 DEF InsertedAt
<1>10. g.lo[l] <= k /\ k < g.hi[l]
  BY <1>2 DEF Covers
<1>11. Run(L + 1, k2, g.lo[l], g.hi[l])
  <2>1. PICK a, b : a = g.lo[l] /\ b = g.hi[l]
    OBVIOUS
  <2>2. /\ L \in Nat /\ a \in Int /\ b \in Int /\ Run(L, ks, a, b) /\ k \in Int /\ a <= k /\ k < b
        /\ i \in 1 .. L + 1 /\ (\A j \in 1 .. L : j < i => ks[j] < k) /\ (i <= L => k < ks[i])
        /\ \A j \in 1 .. L + 1 : k2[j] = IF j < i THEN ks[j] ELSE IF j = i THEN k ELSE ks[j - 1]
    BY <2>1, <1>2, <1>3, <1>4, <1>5, <1>8, <1>10
  <2>3. Run(L + 1, k2, a, b)
    BY ONLY <2>2, RunPut
  <2> QED BY <2>1, <2>3
<1>12. Fits(g, l, k2, v2)
  BY <1>8, <1>9, <1>11, RunFits
<1> QED BY <1>1, <1>6, <1>7, <1>12

\* A key that is not at its place is nowhere.
LEMMA PutPointDecides ==
    ASSUME NEW t, NEW g, NEW O, TreeInv(t, g, O), NEW l, NEW i, NEW k \in Int, PutPoint(t, g, l, i, k)
    PROVE  /\ IsAt(t, l, i, k) => Has(t, k, t.node[l].vals[i]) /\ i \in 1 .. Len(t.node[l].keys)
           /\ ~IsAt(t, l, i, k) => \A v : ~Has(t, k, v)
<1>1. PICK ks, L : ks = t.node[l].keys /\ L = Len(ks)
  OBVIOUS
<1>2. l \in LeafSet(t) /\ Covers(g, l, k) /\ i \in 1 .. L + 1
      /\ (\A j \in 1 .. L : j < i => ks[j] < k) /\ (i <= L => k <= ks[i])
  BY <1>1 DEF PutPoint
<1>3. ks \in Seq(Int) /\ L \in Nat /\ Run(L, ks, g.lo[l], g.hi[l])
  BY <1>1, <1>2, LeafRun
<1>4. ASSUME IsAt(t, l, i, k) PROVE Has(t, k, t.node[l].vals[i]) /\ i \in 1 .. Len(t.node[l].keys)
  <2>1. i \in 1 .. L /\ ks[i] = k
    BY <1>1, <1>2, <1>3, <1>4 DEF IsAt
  <2> QED BY <2>1, <1>1, <1>2 DEF Has
<1>5. ASSUME ~IsAt(t, l, i, k), NEW v, Has(t, k, v) PROVE FALSE
  <2>1. PICK m \in LeafSet(t) : \E j \in 1 .. Len(t.node[m].keys) : t.node[m].keys[j] = k
    BY <1>5 DEF Has
  <2>2. PICK j \in 1 .. Len(t.node[m].keys) : t.node[m].keys[j] = k
    BY <2>1
  <2>3. Run(Len(t.node[m].keys), t.node[m].keys, g.lo[m], g.hi[m])
    BY LeafRun
  <2>4. g.lo[m] <= k /\ k < g.hi[m]
    BY <2>2, <2>3 DEF Run
  <2>5. m = l
    BY <2>4, <1>2, OneLeaf DEF Covers, TreeInv
  <2>6. j \in 1 .. L /\ ks[j] = k
    BY <2>2, <2>5, <1>1
  <2>7. ~(j < i)
    BY <2>6, <1>2
  <2>8. i \in 1 .. L /\ ks[i] # k /\ k <= ks[i] /\ ks[i] \in Int
    BY <2>6, <2>7, <1>1, <1>2, <1>3, <1>5 DEF IsAt
  <2>9. i # j
    BY <2>6, <2>8
  <2>10. i < j
    BY <2>6, <2>7, <2>8, <2>9
  <2>11. ks[i] < ks[j]
    BY <2>6, <2>8, <2>10, <1>3 DEF Run
  <2> QED BY <2>6, <2>8, <2>11
<1> QED BY <1>4, <1>5

\* LeafInsertAt at the place of a key that is not there.
LEMMA LeafPut ==
    ASSUME NEW t, NEW u, NEW g, SettledG(t, g), NEW l, NEW i, NEW k \in Key, NEW v \in Value, PutPoint(t, g, l, i, k),
           ~IsAt(t, l, i, k), u = LeafInsertAt(t, l, i, k, v)
    PROVE  /\ SettledG(u, g) /\ EntryPut(t, u, k, v) /\ (Inners(t) => Inners(u)) /\ LeafSet(u) = LeafSet(t)
           /\ RewrittenView(t, u, l, InsertAt(t.node[l].keys, i, k), InsertAt(t.node[l].vals, i, v))
<1>1. TreeInv(t, g, {t.root}) /\ Arena(t) /\ Shape(t, g, {t.root}) /\ Order(t, g) /\ Links(t, g) /\ t.len = Cardinality(KeySet(t))
  BY DEF SettledG, TreeInv
<1>2. l \in LeafSet(t) /\ l \in DOMAIN t.node
  BY DEF PutPoint, LeafSet
<1>3. PICK k2, v2 : k2 = InsertAt(t.node[l].keys, i, k) /\ v2 = InsertAt(t.node[l].vals, i, v)
  OBVIOUS
<1>4. /\ Fits(g, l, k2, v2)
      /\ InsertedAt(Key, t.node[l].keys, i, k, k2) /\ InsertedAt(Value, t.node[l].vals, i, v, v2)
  BY <1>1, <1>3, PutFits
<1>5. u = TreeOf(u.node, t.free, t.hi, t.root, t.first, t.last, t.len + 1, t.height)
  <2>1. t = TreeOf(t.node, t.free, t.hi, t.root, t.first, t.last, t.len, t.height)
    BY <1>1, ArenaParts
  <2> QED BY <2>1 DEF LeafInsertAt, TreeOf
<1>6. u.node = [n \in DOMAIN t.node |-> IF n = l THEN
                    Rec(k2, v2, t.node[l].kids, t.node[l].parent, t.node[l].prev, t.node[l].next)
                    ELSE t.node[n]]
  BY <1>1, <1>2, <1>3, LeafInsertAtEffect
<1>7. u.len = t.len + 1
  BY <1>5 DEF TreeOf
<1>8. Rewritten(t, u, l, k2, v2)
  BY <1>5, <1>6, <1>7 DEF Rewritten
<1>9. RewrittenView(t, u, l, k2, v2)
  BY <1>2, <1>8, RewrittenParts
<1>10. LeafSet(u) = LeafSet(t) /\ Arena(u)
  BY <1>1, <1>2, <1>4, <1>8, RewrittenInv
<1>11. k \in Int
  BY BoundsExist
<1>12. \A y : ~Has(t, k, y)
  BY <1>1, <1>11, PutPointDecides
<1>13. EntryPut(t, u, k, v)
  <2>1. ASSUME NEW x, NEW y PROVE Has(u, x, y) <=> (x = k /\ y = v) \/ (x # k /\ Has(t, x, y))
    <3>1. Has(u, x, y) <=> Pairs(k2, v2, x, y) \/ \E m \in LeafSet(t) : m # l /\ Holds(t, m, x, y)
      BY <1>1, <1>2, <1>9, <1>10, RewriteHas
    <3>2. PICK ks, vs, L : ks = t.node[l].keys /\ vs = t.node[l].vals /\ L = Len(ks)
      OBVIOUS
    <3>3. ks \in Seq(Key) /\ vs \in Seq(Value) /\ Len(vs) = L /\ i \in 1 .. L + 1
      BY <1>1, <1>2, <3>2, LeafRun DEF PutPoint
    <3>4. Pairs(k2, v2, x, y) <=> (x = k /\ y = v) \/ Pairs(ks, vs, x, y)
      BY <3>2, <3>3, <1>4, PairsPut
    <3>5. Pairs(ks, vs, x, y) <=> Holds(t, l, x, y)
      BY <3>2, HoldsIs
    <3>6. Has(t, x, y) <=> \E m \in LeafSet(t) : Holds(t, m, x, y)
      BY HoldsIs
    <3> QED BY <3>1, <3>4, <3>5, <3>6, <1>2, <1>12
  <2> QED BY <2>1 DEF EntryPut
<1>14. k \notin KeySet(t)
  BY <1>1, <1>12, KeySetHas
<1>15. u.len = Cardinality(KeySet(u))
  BY <1>1, <1>7, <1>10, <1>13, <1>14, PutCount
<1>16. SettledG(u, g)
  BY <1>2, <1>4, <1>8, <1>15, RewriteSettled
<1> QED BY <1>3, <1>9, <1>10, <1>13, <1>16, RewriteInners

\* WithoutEntry, as a rewritten leaf.
LEMMA WithoutEntryEffect ==
    ASSUME NEW t, Arena(t), NEW l \in DOMAIN t.node, NEW i \in 1 .. Len(t.node[l].keys), i \in 1 .. Len(t.node[l].vals),
           NEW u, u = WithoutEntry(t, l, i), NEW k2, NEW v2, k2 = RemoveAt(t.node[l].keys, i), v2 = RemoveAt(t.node[l].vals, i)
    PROVE  /\ RemovedAt(Key, t.node[l].keys, i, k2) /\ RemovedAt(Value, t.node[l].vals, i, v2)
           /\ Rewritten(t, u, l, k2, v2) /\ u.len = t.len - 1
<1>1. t.node[l].keys \in Seq(Key) /\ t.node[l].vals \in Seq(Value)
  BY ArenaParts
<1>2. RemovedAt(Key, t.node[l].keys, i, k2) /\ RemovedAt(Value, t.node[l].vals, i, v2)
  BY <1>1, RemoveAtDoes
<1>3. k2 \in Seq(Key) /\ v2 \in Seq(Value)
  BY <1>2 DEF RemovedAt
<1>4. PICK len : len = t.len - 1
  OBVIOUS
<1>5. t = TreeOf(t.node, t.free, t.hi, t.root, t.first, t.last, t.len, t.height)
  BY ArenaParts
<1>6. PICK r : r = t.node[l]
  OBVIOUS
<1>7. r = Rec(r.keys, r.vals, r.kids, r.parent, r.prev, r.next)
  BY <1>6, ArenaParts
<1>8. u = TreeOf(u.node, t.free, t.hi, t.root, t.first, t.last, len, t.height)
  BY <1>4, <1>5 DEF WithoutEntry, TreeOf
<1>9. u.node = [[t.node EXCEPT ![l].keys = RemoveAt(@, i)] EXCEPT ![l].vals = RemoveAt(@, i)]
  BY <1>5 DEF WithoutEntry, TreeOf
<1>10. u.len = len
  BY <1>8 DEF TreeOf
<1>11. u.node = [n \in DOMAIN t.node |-> IF n = l THEN
                    Rec(k2, v2, r.kids, r.parent, r.prev, r.next) ELSE t.node[n]]
  <2>1. PICK a, b : a = RemoveAt(r.keys, i) /\ b = RemoveAt(r.vals, i)
    OBVIOUS
  <2>2. k2 = a /\ v2 = b
    BY <2>1, <1>6
  <2>3. u.node = [[t.node EXCEPT ![l].keys = a] EXCEPT ![l].vals = b]
    BY <2>1, <1>6, <1>7, <1>9 DEF Rec
  <2> QED BY <2>2, <2>3, <1>6, <1>7 DEF Rec
<1> QED BY <1>2, <1>4, <1>6, <1>8, <1>10, <1>11 DEF Rewritten

\* An entry leaves its leaf.
LEMMA LeafDrop ==
    ASSUME NEW t, NEW u, NEW g, SettledG(t, g), NEW l \in LeafSet(t), NEW i \in 1 .. Len(t.node[l].keys),
           u = WithoutEntry(t, l, i), NEW k, k = t.node[l].keys[i]
    PROVE  /\ SettledG(u, g) /\ EntryGone(t, u, k) /\ (Inners(t) => Inners(u)) /\ LeafSet(u) = LeafSet(t)
           /\ Has(t, k, t.node[l].vals[i]) /\ k \in KeySet(t)
           /\ RewrittenView(t, u, l, RemoveAt(t.node[l].keys, i), RemoveAt(t.node[l].vals, i))
           /\ Len(u.node[l].keys) = Len(t.node[l].keys) - 1
<1>1. TreeInv(t, g, {t.root}) /\ Arena(t) /\ Shape(t, g, {t.root}) /\ Order(t, g) /\ Links(t, g) /\ t.len = Cardinality(KeySet(t))
  BY DEF SettledG, TreeInv
<1>2. PICK ks, vs, L : ks = t.node[l].keys /\ vs = t.node[l].vals /\ L = Len(ks)
  OBVIOUS
<1>3. /\ l \in DOMAIN t.node /\ ks \in Seq(Key) /\ vs \in Seq(Value) /\ Len(vs) = L /\ L \in Nat
      /\ Run(L, ks, g.lo[l], g.hi[l]) /\ g.lo[l] \in Int /\ g.hi[l] \in Int
  BY <1>1, <1>2, LeafRun
<1>4. PICK k2, v2 : k2 = RemoveAt(t.node[l].keys, i) /\ v2 = RemoveAt(t.node[l].vals, i)
  OBVIOUS
<1>5. /\ RemovedAt(Key, ks, i, k2) /\ RemovedAt(Value, vs, i, v2)
      /\ Rewritten(t, u, l, k2, v2) /\ u.len = t.len - 1
  BY <1>1, <1>2, <1>3, <1>4, WithoutEntryEffect
<1>6. k2 \in Seq(Key) /\ Len(k2) = L - 1 /\ \A j \in 1 .. L - 1 : k2[j] = IF j < i THEN ks[j] ELSE ks[j + 1]
  BY <1>2, <1>5 DEF RemovedAt
<1>7. v2 \in Seq(Value) /\ Len(v2) = L - 1
  BY <1>3, <1>5 DEF RemovedAt
<1>8. Run(L - 1, k2, g.lo[l], g.hi[l])
  <2>1. PICK a, b : a = g.lo[l] /\ b = g.hi[l]
    OBVIOUS
  <2>2. /\ L \in Nat /\ a \in Int /\ b \in Int /\ Run(L, ks, a, b) /\ i \in 1 .. L
        /\ \A j \in 1 .. L - 1 : k2[j] = IF j < i THEN ks[j] ELSE ks[j + 1]
    BY <2>1, <1>2, <1>3, <1>6
  <2>3. Run(L - 1, k2, a, b)
    BY ONLY <2>2, RunCut
  <2> QED BY <2>1, <2>3
<1>9. Fits(g, l, k2, v2)
  BY <1>6, <1>7, <1>8, RunFits
<1>10. LeafSet(u) = LeafSet(t) /\ Arena(u)
  BY <1>1, <1>5, <1>9, RewrittenInv
<1>11. RewrittenView(t, u, l, k2, v2)
  BY <1>3, <1>5, RewrittenParts
<1>12. Has(t, k, t.node[l].vals[i])
  BY DEF Has
<1>13. k \in KeySet(t)
  BY <1>1, <1>12, KeySetHas
<1>14. EntryGone(t, u, k)
  <2>1. \A a, b \in 1 .. L : ks[a] = ks[b] => a = b
    BY <1>1, <1>2, OwnKeys
  <2>2. ASSUME NEW x, NEW y PROVE Has(u, x, y) <=> x # k /\ Has(t, x, y)
    <3>1. Has(u, x, y) <=> Pairs(k2, v2, x, y) \/ \E m \in LeafSet(t) : m # l /\ Holds(t, m, x, y)
      BY <1>1, <1>10, <1>11, RewriteHas
    <3>2. Pairs(k2, v2, x, y) <=> x # k /\ Pairs(ks, vs, x, y)
      BY <2>1, <1>2, <1>3, <1>5, PairsCut
    <3>3. Pairs(ks, vs, x, y) <=> Holds(t, l, x, y)
      BY <1>2, HoldsIs
    <3>4. Has(t, x, y) <=> \E m \in LeafSet(t) : Holds(t, m, x, y)
      BY HoldsIs
    <3>5. \A m \in LeafSet(t) : m # l => ~Holds(t, m, k, y)
      <4>1. ASSUME NEW m \in LeafSet(t), m # l, Holds(t, m, k, y) PROVE FALSE
        <5>1. PICK j \in 1 .. Len(t.node[m].keys) : t.node[m].keys[j] = k
          BY <4>1 DEF Holds
        <5> QED BY <5>1, <4>1, <1>1, OwnKeys
      <4> QED BY <4>1
    <3> QED BY <3>1, <3>2, <3>3, <3>4, <3>5
  <2> QED BY <2>2 DEF EntryGone
<1>15. u.len = Cardinality(KeySet(u))
  BY <1>1, <1>5, <1>10, <1>13, <1>14, GoneCount
<1>16. SettledG(u, g)
  BY <1>5, <1>9, <1>15, RewriteSettled
<1>17. u.node[l].keys = k2
  BY <1>11 DEF RewrittenView
<1> QED BY <1>2, <1>4, <1>6, <1>10, <1>11, <1>12, <1>13, <1>14, <1>16, <1>17, RewriteInners

\* A value is overwritten.
Written(t, l, i, v) == [t EXCEPT !.node[l].vals[i] = v]

\* What a write through a reference changes.
LEMMA WrittenEffect ==
    ASSUME NEW t, Arena(t), NEW l \in DOMAIN t.node, NEW i, NEW v, NEW u, u = Written(t, l, i, v), NEW v2,
           v2 = [t.node[l].vals EXCEPT ![i] = v]
    PROVE  Rewritten(t, u, l, t.node[l].keys, v2) /\ u.len = t.len
<1>1. t = TreeOf(t.node, t.free, t.hi, t.root, t.first, t.last, t.len, t.height)
  BY ArenaParts
<1>2. PICK r : r = t.node[l]
  OBVIOUS
<1>3. r = Rec(r.keys, r.vals, r.kids, r.parent, r.prev, r.next)
  BY <1>2, ArenaParts
<1>4. u = TreeOf(u.node, t.free, t.hi, t.root, t.first, t.last, t.len, t.height)
  BY <1>1 DEF Written, TreeOf
<1>5. u.node = [t.node EXCEPT ![l].vals[i] = v]
  BY <1>1 DEF Written, TreeOf
<1>6. u.len = t.len
  BY <1>4 DEF TreeOf
<1>7. u.node = [t.node EXCEPT ![l].vals = v2]
  BY <1>5
<1>8. t.node = [n \in DOMAIN t.node |-> t.node[n]]
  BY DEF Arena
<1>9. u.node = [n \in DOMAIN t.node |-> IF n = l THEN [r EXCEPT !.vals = v2] ELSE t.node[n]]
  BY <1>2, <1>7, <1>8
<1>10. [r EXCEPT !.vals = v2] = Rec(r.keys, v2, r.kids, r.parent, r.prev, r.next)
  BY <1>3 DEF Rec
<1> QED BY <1>2, <1>4, <1>6, <1>9, <1>10 DEF Rewritten

\* Which entries a leaf has when the value in slot i is overwritten.
LEMMA PairsWrite ==
    ASSUME NEW ks \in Seq(Key), NEW vs \in Seq(Value), NEW L, Len(ks) = L, Len(vs) = L,
           \A a, b \in 1 .. L : ks[a] = ks[b] => a = b, NEW v,
           NEW i \in 1 .. L, NEW v2, Replaced(Value, vs, i, v, v2), NEW x, NEW y
    PROVE  Pairs(ks, v2, x, y) <=> (x = ks[i] /\ y = v) \/ (x # ks[i] /\ Pairs(ks, vs, x, y))
<1>1. v2[i] = v /\ \A j \in 1 .. L : j # i => v2[j] = vs[j]
  BY DEF Replaced
<1>2. ASSUME Pairs(ks, v2, x, y) PROVE (x = ks[i] /\ y = v) \/ (x # ks[i] /\ Pairs(ks, vs, x, y))
  <2>1. PICK j \in 1 .. L : ks[j] = x /\ v2[j] = y
    BY <1>2 DEF Pairs
  <2>2. CASE j = i
    BY <2>1, <2>2, <1>1
  <2>3. CASE j # i
    <3>1. x # ks[i] /\ vs[j] = y
      BY <2>1, <2>3, <1>1
    <3> QED BY <3>1, <2>1 DEF Pairs
  <2> QED BY <2>2, <2>3
<1>3. ASSUME x = ks[i], y = v PROVE Pairs(ks, v2, x, y)
  BY <1>1, <1>3 DEF Pairs
<1>4. ASSUME x # ks[i], Pairs(ks, vs, x, y) PROVE Pairs(ks, v2, x, y)
  <2>1. PICK j \in 1 .. L : ks[j] = x /\ vs[j] = y
    BY <1>4 DEF Pairs
  <2>2. v2[j] = y
    BY <2>1, <1>1, <1>4
  <2> QED BY <2>1, <2>2 DEF Pairs
<1> QED BY <1>2, <1>3, <1>4

\* A value is overwritten where its key is.
LEMMA LeafWrite ==
    ASSUME NEW t, NEW u, NEW g, SettledG(t, g), NEW l \in LeafSet(t), NEW i \in 1 .. Len(t.node[l].keys), NEW v \in Value,
           u = Written(t, l, i, v), NEW k, k = t.node[l].keys[i]
    PROVE  SettledG(u, g) /\ EntryPut(t, u, k, v) /\ (Inners(t) => Inners(u))
<1>1. TreeInv(t, g, {t.root}) /\ Arena(t) /\ Shape(t, g, {t.root}) /\ Order(t, g) /\ Links(t, g) /\ t.len = Cardinality(KeySet(t))
  BY DEF SettledG, TreeInv
<1>2. PICK ks, vs, L : ks = t.node[l].keys /\ vs = t.node[l].vals /\ L = Len(ks)
  OBVIOUS
<1>3. /\ l \in DOMAIN t.node /\ ks \in Seq(Key) /\ vs \in Seq(Value) /\ Len(vs) = L /\ L \in Nat
      /\ Run(L, ks, g.lo[l], g.hi[l])
  BY <1>1, <1>2, LeafRun
<1>4. PICK v2 : v2 = [vs EXCEPT ![i] = v]
  OBVIOUS
<1>5. v2 \in Seq(Value) /\ Replaced(Value, vs, i, v, v2)
  BY <1>2, <1>3, <1>4, ExceptReplaced
<1>6. Len(v2) = L
  BY <1>3, <1>5 DEF Replaced
<1>7. Rewritten(t, u, l, ks, v2) /\ u.len = t.len
  BY <1>1, <1>2, <1>3, <1>4, WrittenEffect
<1>8. Fits(g, l, ks, v2)
  BY <1>2, <1>3, <1>5, <1>6, RunFits
<1>9. LeafSet(u) = LeafSet(t) /\ Arena(u)
  BY <1>1, <1>7, <1>8, RewrittenInv
<1>10. RewrittenView(t, u, l, ks, v2)
  BY <1>3, <1>7, RewrittenParts
<1>11. Has(t, k, t.node[l].vals[i])
  BY DEF Has
<1>12. k \in KeySet(t)
  BY <1>1, <1>11, KeySetHas
<1>13. EntryPut(t, u, k, v)
  <2>1. \A a, b \in 1 .. L : ks[a] = ks[b] => a = b
    BY <1>1, <1>2, OwnKeys
  <2>2. ASSUME NEW x, NEW y PROVE Has(u, x, y) <=> (x = k /\ y = v) \/ (x # k /\ Has(t, x, y))
    <3>1. Has(u, x, y) <=> Pairs(ks, v2, x, y) \/ \E m \in LeafSet(t) : m # l /\ Holds(t, m, x, y)
      BY <1>1, <1>9, <1>10, RewriteHas
    <3>2. Pairs(ks, v2, x, y) <=> (x = k /\ y = v) \/ (x # k /\ Pairs(ks, vs, x, y))
      <4>1. ks \in Seq(Key) /\ vs \in Seq(Value) /\ Len(ks) = L /\ Len(vs) = L /\ i \in 1 .. L /\ Replaced(Value, vs, i, v, v2)
        BY <1>2, <1>3, <1>5
      <4>2. Pairs(ks, v2, x, y) <=> (x = ks[i] /\ y = v) \/ (x # ks[i] /\ Pairs(ks, vs, x, y))
        BY ONLY <2>1, <4>1, PairsWrite
      <4> QED BY <4>2, <1>2
    <3>3. Pairs(ks, vs, x, y) <=> Holds(t, l, x, y)
      BY <1>2, HoldsIs
    <3>4. Has(t, x, y) <=> \E m \in LeafSet(t) : Holds(t, m, x, y)
      BY HoldsIs
    <3>5. \A m \in LeafSet(t) : m # l => ~Holds(t, m, k, y)
      <4>1. ASSUME NEW m \in LeafSet(t), m # l, Holds(t, m, k, y) PROVE FALSE
        <5>1. PICK j \in 1 .. Len(t.node[m].keys) : t.node[m].keys[j] = k
          BY <4>1 DEF Holds
        <5> QED BY <5>1, <4>1, <1>1, OwnKeys
      <4> QED BY <4>1
    <3> QED BY <3>1, <3>2, <3>3, <3>4, <3>5
  <2> QED BY <2>2 DEF EntryPut
<1>14. KeySet(u) = KeySet(t)
  <2>1. ASSUME NEW x PROVE x \in KeySet(u) <=> x \in KeySet(t)
    BY <1>1, <1>9, <1>12, <1>13, KeySetHas DEF EntryPut
  <2> QED BY <2>1
<1>15. SettledG(u, g)
  BY <1>1, <1>7, <1>8, <1>14, RewriteSettled
<1> QED BY <1>10, <1>13, <1>15, RewriteInners

\* A search ends at the place of its key.
LEMMA SearchPoint ==
    ASSUME NEW t, NEW g, SettledG(t, g), NEW k \in Key, NEW l, NEW i, l = LeafFor(t, k), i = SlotFor(t, l, k)
    PROVE  PutPoint(t, g, l, i, k)
<1>1. k \in Int /\ Least <= k /\ k < Greatest
  BY BoundsExist
<1>2. l \in LeafSet(t) /\ Covers(g, l, k)
  BY <1>1, LeafForKey
<1>3. PICK ks : ks = t.node[l].keys
  OBVIOUS
<1>4. ks \in Seq(Int)
  BY <1>2, <1>3, LeafRun DEF SettledG
<1>5. /\ i \in 1 .. Len(ks) + 1
      /\ \A j \in 1 .. Len(ks) : j < i => ks[j] < k
      /\ i <= Len(ks) => k <= ks[i]
  BY <1>1, <1>3, <1>4, SlotForProps
<1> QED BY <1>2, <1>3, <1>5 DEF PutPoint

\* insert puts a key at its place, also when it has not searched for it.
LEMMA InsertPointRight ==
    ASSUME NEW t, NEW g, SettledG(t, g), NEW k \in Key, NEW p, p = InsertPoint(t, k)
    PROVE  PutPoint(t, g, p.leaf, p.slot, k) /\ PathIs(t, p.path, p.leaf)
<1>1. k \in Int /\ Least <= k /\ k < Greatest
  BY BoundsExist
<1>2. TreeInv(t, g, {t.root}) /\ Links(t, g)
  BY DEF SettledG, TreeInv
<1>3. t.last \in LeafSet(t) /\ t.node[t.last].next = NO_NODE /\ t.first \in LeafSet(t) /\ t.node[t.first].prev = NO_NODE
  BY <1>2 DEF Links
<1>4. g.hi[t.last] = Greatest /\ g.lo[t.first] = Least
  BY <1>2, <1>3, LeafNeighbours
<1>5. t.last \in DOMAIN t.node /\ t.first \in DOMAIN t.node
  BY <1>3 DEF LeafSet
<1>6. PICK a, b : a = t.node[t.last].keys /\ b = t.node[t.first].keys
  OBVIOUS
<1>7. /\ a \in Seq(Int) /\ Len(a) \in Nat /\ Run(Len(a), a, g.lo[t.last], g.hi[t.last])
      /\ b \in Seq(Int) /\ Len(b) \in Nat /\ Run(Len(b), b, g.lo[t.first], g.hi[t.first])
      /\ g.lo[t.last] \in Int /\ g.hi[t.first] \in Int
  BY <1>2, <1>3, <1>6, LeafRun
<1>8. CASE a # <<>> /\ k > Last(a)
  <2>1. p = Point(t.last, Len(a) + 1, PathTo(t, t.last))
    BY <1>6, <1>8 DEF InsertPoint
  <2>2. p.leaf = t.last /\ p.slot = Len(a) + 1 /\ p.path = PathTo(t, t.last)
    BY <2>1 DEF Point
  <2>3. Last(a) = a[Len(a)] /\ Len(a) \in Nat \ {0}
    BY <1>7, <1>8, LastFront
  <2>4. Len(a) \in 1 .. Len(a)
    BY <2>3
  <2>5. a[Len(a)] \in Int /\ g.lo[t.last] <= a[Len(a)] /\ a[Len(a)] < k
    BY <2>3, <2>4, <1>7, <1>8 DEF Run
  <2>6. Covers(g, t.last, k)
    BY <2>5, <1>1, <1>4, <1>7 DEF Covers
  <2>7. ASSUME NEW j \in 1 .. Len(a) PROVE a[j] < k
    <3>1. a[j] \in Int /\ (j < Len(a) => a[j] < a[Len(a)])
      BY <2>4, <1>7 DEF Run
    <3>2. j = Len(a) \/ j < Len(a)
      BY <2>3
    <3> QED BY <3>1, <3>2, <2>5, <1>1
  <2>8. Len(a) + 1 \in 1 .. Len(a) + 1 /\ ~(Len(a) + 1 <= Len(a))
    BY <2>3
  <2>9. PutPoint(t, g, t.last, Len(a) + 1, k)
    BY <2>6, <2>7, <2>8, <1>3, <1>6 DEF PutPoint
  <2> QED BY <2>2, <2>9, <1>5, PathToIsPath
<1>9. CASE ~(a # <<>> /\ k > Last(a)) /\ b # <<>> /\ k < Head(b)
  <2>1. p = Point(t.first, 1, PathTo(t, t.first))
    BY <1>6, <1>9 DEF InsertPoint
  <2>2. p.leaf = t.first /\ p.slot = 1 /\ p.path = PathTo(t, t.first)
    BY <2>1 DEF Point
  <2>3. Head(b) = b[1] /\ Len(b) \in Nat \ {0}
    BY <1>7, <1>9, LastFront
  <2>4. 1 \in 1 .. Len(b) /\ 1 \in 1 .. Len(b) + 1
    BY <2>3
  <2>5. b[1] \in Int /\ b[1] < g.hi[t.first] /\ k < b[1]
    BY <2>3, <2>4, <1>7, <1>9 DEF Run
  <2>6. Covers(g, t.first, k)
    BY <2>5, <1>1, <1>4, <1>7 DEF Covers
  <2>7. \A j \in 1 .. Len(b) : ~(j < 1)
    BY <2>3
  <2>8. k <= b[1]
    BY <2>5, <1>1
  <2>9. PutPoint(t, g, t.first, 1, k)
    BY <2>4, <2>6, <2>7, <2>8, <1>3, <1>6 DEF PutPoint
  <2> QED BY <2>2, <2>9, <1>5, PathToIsPath
<1>10. CASE ~(a # <<>> /\ k > Last(a)) /\ ~(b # <<>> /\ k < Head(b))
  <2>1. PICK l, i, q : l = LeafFor(t, k) /\ i = SlotFor(t, l, k) /\ q = PathFor(t, k)
    OBVIOUS
  <2>2. p = Point(l, i, q)
    BY <2>1, <1>6, <1>10 DEF InsertPoint
  <2>3. p.leaf = l /\ p.slot = i /\ p.path = q
    BY <2>2 DEF Point
  <2> QED BY <2>1, <2>3, <1>1, SearchPoint, PathForIsPath
<1> QED BY <1>8, <1>9, <1>10

\* Entries do not change.
LEMMA SamePut ==
    ASSUME NEW t, NEW w, NEW u, NEW k, NEW v, EntryPut(t, w, k, v), SameEntries(w, u)
    PROVE  EntryPut(t, u, k, v)
BY DEF EntryPut, SameEntries

\* Two steps that keep the entries.
LEMMA SameSame ==
    ASSUME NEW t, NEW w, NEW u, SameEntries(t, w), SameEntries(w, u)
    PROVE  SameEntries(t, u)
BY DEF SameEntries

\* A way down stays one when the nodes on it keep their kids.
LEMMA PathMove ==
    ASSUME NEW t, NEW u, NEW path, NEW x, PathIs(t, path, x), u.root = t.root,
           \A i \in 1 .. Len(path) : path[i][1] \in DOMAIN u.node /\ u.node[path[i][1]].kids = t.node[path[i][1]].kids
    PROVE  PathIs(u, path, x)
BY DEF PathIs

\* The leaf an entry is put into is full and is split.
LEMMA PutSplit ==
    ASSUME NEW t, NEW u, NEW g, SettledG(t, g), Inners(t), NEW l, NEW i, NEW k \in Key, NEW v \in Value,
           PutPoint(t, g, l, i, k), ~IsAt(t, l, i, k), Len(t.node[l].keys) = LeafCap, u = LeafSplitAndInsert(t, l, i, k, v),
           NEW f, f = Fresh(t), NEW s, s = Head(u.node[f].keys)
    PROVE  /\ SplittingG(u, CutG(g, l, f, s), l, s, f) /\ EntryPut(t, u, k, v) /\ Inners(u)
           /\ \A path : PathIs(t, path, l) => PathIs(u, path, l)
<1>1. TreeInv(t, g, {t.root}) /\ Arena(t)
  BY DEF SettledG, TreeInv
<1>2. l \in LeafSet(t) /\ i \in 1 .. Len(t.node[l].keys) + 1
  BY DEF PutPoint
<1>3. l \in DOMAIN t.node /\ Len(t.node[l].vals) = LeafCap /\ t.node[l].keys \in Seq(Key)
  BY <1>1, <1>2, LeafRun
<1>4. t.node[l].next \in DOMAIN t.node \cup {NO_NODE} /\ t.node[l].next # l
  <2>1. /\ t.node[l].next \in LeafSet(t) \cup {NO_NODE} /\ g.lo[l] \in Int /\ g.hi[l] \in Int /\ g.lo[l] < g.hi[l]
        /\ (t.node[l].next # NO_NODE => g.lo[t.node[l].next] = g.hi[l])
    BY <1>1, <1>2, LeafNeighbours
  <2>2. l # NO_NODE
    BY <1>1, <1>3, ArenaParts
  <2> QED BY <2>1, <2>2 DEF LeafSet
<1>5. PICK w : w = LeafInsertAt(t, l, i, k, v)
  OBVIOUS
<1>6. Arena(u) /\ LeafCut(w, u, l, f, LeafMid)
  BY <1>1, <1>2, <1>3, <1>4, <1>5, LeafSplitEffect
<1>7. PICK k2, v2 : k2 = InsertAt(t.node[l].keys, i, k) /\ v2 = InsertAt(t.node[l].vals, i, v)
  OBVIOUS
<1>8. /\ SettledG(w, g) /\ EntryPut(t, w, k, v) /\ Inners(w) /\ LeafSet(w) = LeafSet(t)
      /\ RewrittenView(t, w, l, k2, v2)
  BY <1>5, <1>7, LeafPut
<1>9. w.node[l].keys = k2 /\ k2 \in Seq(Key) /\ Len(k2) = LeafCap + 1
  <2>1. w.node[l].keys = k2
    BY <1>8 DEF RewrittenView
  <2>2. InsertedAt(Key, t.node[l].keys, i, k, k2)
    BY <1>2, <1>3, <1>7, InsertAtDoes
  <2> QED BY <2>1, <2>2 DEF InsertedAt
<1>10. LeafCap \in Nat \ {0} /\ LeafMid \in 1 .. LeafCap
  BY CapAssumption DEF LeafMid
<1>11. PICK m : m = LeafMid
  OBVIOUS
<1>12. m \in 1 .. Len(w.node[l].keys) - 1 /\ LeafCut(w, u, l, f, m)
  BY <1>6, <1>9, <1>10, <1>11
<1>13. s = w.node[l].keys[m + 1]
  <2>1. u.node[f].keys = SubSeq(k2, m + 1, LeafCap + 1)
    BY <1>9, <1>12 DEF LeafCut
  <2>2. PICK a, b : a = m + 1 /\ b = LeafCap + 1
    OBVIOUS
  <2>3. a \in 1 .. Len(k2) + 1 /\ b \in (a - 1) .. Len(k2) /\ 1 \in 1 .. b - a + 1 /\ a + 1 - 1 = a
    BY <2>2, <1>9, <1>10, <1>11
  <2>4. PICK z : z = SubSeq(k2, a, b)
    OBVIOUS
  <2>5. z \in Seq(Key) /\ Len(z) = b - a + 1 /\ \A j \in 1 .. b - a + 1 : z[j] = k2[a + j - 1]
    BY <2>3, <2>4, <1>9, SubSeqProps
  <2>6. z # <<>>
    BY <2>3, <2>5
  <2>7. Head(z) = z[1] /\ z[1] = k2[a]
    BY <2>3, <2>5, <2>6
  <2> QED BY <2>1, <2>2, <2>4, <2>7, <1>9
<1>14. SplittingG(u, CutG(g, l, f, s), l, s, f) /\ SameEntries(w, u)
  BY <1>2, <1>6, <1>8, <1>12, <1>13, LeafCutInv
<1>15. EntryPut(t, u, k, v)
  BY <1>8, <1>14, SamePut
<1>16. /\ DOMAIN u.node = DOMAIN w.node \cup {f} /\ u.node[f].kids = <<>> /\ u.root = w.root
       /\ \A n \in DOMAIN w.node :
         /\ u.node[n].kids = w.node[n].kids
         /\ n # l => u.node[n].next = w.node[n].next
         /\ n # w.node[l].next => u.node[n].prev = w.node[n].prev
  BY <1>6 DEF LeafCut
<1>17. Inners(u)
  <2>1. ASSUME NEW n \in DOMAIN u.node, u.node[n].kids # <<>> PROVE u.node[n].prev = NO_NODE /\ u.node[n].next = NO_NODE
    <3>1. n \in DOMAIN w.node /\ w.node[n].kids # <<>>
      BY <2>1, <1>16
    <3>2. n \notin LeafSet(w)
      BY <3>1 DEF LeafSet
    <3>3. n # l
      BY <3>2, <1>2, <1>8
    <3>4. n # w.node[l].next
      <4>1. w.node[l].next \in LeafSet(w) \cup {NO_NODE}
        BY <1>2, <1>8, LeafNeighbours DEF SettledG
      <4>2. n # NO_NODE
        BY <3>1, <1>8, ArenaParts DEF SettledG, TreeInv
      <4> QED BY <3>2, <4>1, <4>2
    <3> QED BY <3>1, <3>3, <3>4, <1>8, <1>16 DEF Inners
  <2> QED BY <2>1 DEF Inners
<1>18. ASSUME NEW path, PathIs(t, path, l) PROVE PathIs(u, path, l)
  <2>1. /\ w.root = t.root /\ DOMAIN w.node = DOMAIN t.node /\ \A n \in DOMAIN t.node : w.node[n].kids = t.node[n].kids
    BY <1>8 DEF RewrittenView
  <2>2. \A j \in 1 .. Len(path) : path[j][1] \in DOMAIN t.node
    BY <1>18 DEF PathIs
  <2>3. \A j \in 1 .. Len(path) : path[j][1] \in DOMAIN u.node /\ u.node[path[j][1]].kids = t.node[path[j][1]].kids
    BY <2>1, <2>2, <1>16
  <2> QED BY <2>1, <2>3, <1>16, <1>18, PathMove
<1> QED BY <1>14, <1>15, <1>17, <1>18

\* The levels of the nodes on a way down.
LEMMA PathLevels ==
    ASSUME NEW t, NEW g, NEW O, Shape(t, g, O), g.lev[t.root] = t.height, t.height \in Nat, NEW path, NEW x, PathIs(t, path, x)
    PROVE  Len(path) \in Nat /\ \A i \in 1 .. Len(path) : g.lev[path[i][1]] = t.height - i + 1
<1>1. PICK N, H : N = Len(path) /\ H = t.height
  OBVIOUS
<1>2. path \in Seq(Int \X Int) /\ N \in Nat
  BY <1>1 DEF PathIs
<1>3. N # 0 => path[1][1] = t.root
  BY <1>1, <1>2 DEF PathIs
<1>4. \A i \in 1 .. N - 1 : /\ path[i][1] \in DOMAIN t.node /\ path[i][2] \in 1 .. Len(t.node[path[i][1]].kids)
                            /\ t.node[path[i][1]].kids[path[i][2]] = path[i + 1][1]
  <2>1. ASSUME NEW i \in 1 .. N - 1 PROVE i \in 1 .. N /\ i # N
    BY <1>2
  <2> QED BY <2>1, <1>1 DEF PathIs
<1>5. PICK S : S = {i \in 1 .. N : g.lev[path[i][1]] # H - i + 1}
  OBVIOUS
<1>6. SUFFICES ASSUME S # {} PROVE FALSE
  BY <1>1, <1>2, <1>5
<1>7. PICK i \in S : \A y \in S : i <= y
  BY <1>5, <1>6, MinOfNats
<1>8. i \in 1 .. N /\ g.lev[path[i][1]] # H - i + 1
  BY <1>5, <1>7
<1>9. CASE i = 1
  BY <1>1, <1>3, <1>8, <1>9
<1>10. CASE i # 1
  <2>1. PICK j : j = i - 1
    OBVIOUS
  <2>2. j \in 1 .. N - 1 /\ j \in 1 .. N /\ j + 1 = i /\ ~(i <= j)
    BY <2>1, <1>2, <1>8, <1>10
  <2>3. g.lev[path[j][1]] = H - j + 1
    BY <2>2, <1>5, <1>7
  <2>4. path[j][1] \in DOMAIN t.node /\ path[j][2] \in 1 .. Len(t.node[path[j][1]].kids)
        /\ t.node[path[j][1]].kids[path[j][2]] = path[i][1]
    BY <2>2, <1>4
  <2>5. PICK n, s, c : n = path[j][1] /\ s = path[j][2] /\ c = path[i][1]
    OBVIOUS
  <2>6. n \in DOMAIN t.node /\ s \in 1 .. Len(t.node[n].kids) /\ t.node[n].kids[s] = c
    BY <2>4, <2>5
  <2>7. g.lev[c] = g.lev[n] - 1
    BY <2>6, KidParts
  <2>8. PICK a, b : a = g.lev[n] /\ b = g.lev[c]
    OBVIOUS
  <2>9. a = H - j + 1 /\ b = a - 1 /\ b # H - i + 1
    BY <2>3, <2>5, <2>7, <2>8, <1>8
  <2>10. H \in Int /\ i \in Int /\ j = i - 1
    BY <2>1, <1>1, <1>8
  <2> QED BY ONLY <2>9, <2>10
<1> QED BY <1>9, <1>10

\* What a split that has reached node x knows of the parent p of x.
EnterPoint(t, g, x, p, i, k, r) ==
    /\ p \in DOMAIN t.node /\ r \in DOMAIN t.node /\ p # r /\ t.node[r].parent = p /\ k \in Key
    /\ i \in 1 .. Len(t.node[p].kids) /\ t.node[p].kids[i] = x
    /\ t.node[p].kids # <<>> /\ t.node[p].kids \in Seq(Int) /\ t.node[p].keys \in Seq(Key)
    /\ Len(t.node[p].keys) \in Nat /\ Len(t.node[p].kids) = Len(t.node[p].keys) + 1
    /\ ToSet(t.node[p].kids) \subseteq DOMAIN t.node /\ g.lev[p] \in Nat

\* Where the kid of a split enters.
LEMMA EnterPointIs ==
    ASSUME NEW t, NEW g, NEW x, NEW k, NEW r, SplittingG(t, g, x, k, r), NEW p \in DOMAIN t.node,
           NEW i \in 1 .. Len(t.node[p].kids), t.node[p].kids[i] = x
    PROVE  EnterPoint(t, g, x, p, i, k, r)
<1>1. Arena(t) /\ Shape(t, g, {t.root, r}) /\ Order(t, g)
  BY DEF SplittingG, TreeInv
<1>2. r \in DOMAIN t.node /\ k \in Key /\ g.lev[x] = g.lev[r] /\ t.node[r].parent = t.node[x].parent
  BY DEF SplittingG
<1>3. /\ t.node[x].parent = p /\ g.lev[x] = g.lev[p] - 1 /\ g.lev[p] \in Nat /\ g.lev[x] \in Nat /\ t.node[p].kids # <<>>
  BY <1>1, KidParts
<1>4. p # r
  <2>1. PICK a, b : a = g.lev[p] /\ b = g.lev[r]
    OBVIOUS
  <2>2. a \in Nat /\ b = a - 1
    BY <2>1, <1>2, <1>3
  <2>3. a # b
    BY ONLY <2>2
  <2> QED BY <2>1, <2>3
<1>5. t.node[p].kids \in Seq(Int) /\ t.node[p].keys \in Seq(Key) /\ Len(t.node[p].keys) \in Nat
      /\ Len(t.node[p].kids) = Len(t.node[p].keys) + 1
  BY <1>1, KidBounds
<1>6. ToSet(t.node[p].kids) \subseteq DOMAIN t.node
  <2>1. \A j \in 1 .. Len(t.node[p].kids) : t.node[p].kids[j] \in DOMAIN t.node
    BY <1>1, KidParts
  <2> QED BY <2>1, <1>5, ToSetIs
<1> QED BY <1>2, <1>3, <1>4, <1>5, <1>6 DEF EnterPoint

\* The parent has room.
LEMMA EnterRoom ==
    ASSUME NEW t, NEW u, NEW g, NEW x, NEW k, NEW r, SplittingG(t, g, x, k, r), NEW p, NEW i,
           EnterPoint(t, g, x, p, i, k, r), u = InternalInsertAt(t, p, i, k, r)
    PROVE  SettledG(u, Calm(g)) /\ SameEntries(t, u) /\ (Inners(t) => Inners(u)) /\ EnterView(t, u, p, i, k, r)
<1>1. Arena(t)
  BY DEF SplittingG, TreeInv
<1>2. /\ p \in DOMAIN t.node /\ r \in DOMAIN t.node /\ p # r /\ k \in Key
      /\ i \in 1 .. Len(t.node[p].kids) /\ t.node[p].kids[i] = x
      /\ Len(t.node[p].keys) \in Nat /\ Len(t.node[p].kids) = Len(t.node[p].keys) + 1 /\ t.node[p].kids # <<>>
  BY DEF EnterPoint
<1>3. i \in 1 .. Len(t.node[p].keys) + 1 /\ i + 1 \in 1 .. Len(t.node[p].kids) + 1
  BY <1>2
<1>4. Arena(u) /\ EnterView(t, u, p, i, k, r)
  BY <1>1, <1>2, <1>3, EnterEffect
<1>5. SettledG(u, Calm(g)) /\ SameEntries(t, u)
  BY <1>2, <1>4, EnterInv
<1>6. ASSUME Inners(t) PROVE Inners(u)
  <2>1. /\ DOMAIN u.node = DOMAIN t.node
        /\ \A n \in DOMAIN t.node : /\ n # p => u.node[n].kids = t.node[n].kids
                                    /\ u.node[n].prev = t.node[n].prev /\ u.node[n].next = t.node[n].next
    BY <1>4 DEF EnterView, SameFrame
  <2> QED BY <2>1, <1>2, <1>6 DEF Inners
<1> QED BY <1>4, <1>5, <1>6

\* The parent is full and is split in its turn.
LEMMA EnterSplit ==
    ASSUME NEW t, NEW u, NEW g, NEW x, NEW k, NEW r, SplittingG(t, g, x, k, r), Inners(t), NEW p, NEW i,
           EnterPoint(t, g, x, p, i, k, r), Len(t.node[p].keys) = InternalCap,
           u = InternalSplitAndInsert(t, p, i, k, r), NEW f, f = Fresh(t), NEW s, s = Promoted(t, p, i, k)
    PROVE  /\ SplittingG(u, CutG(Calm(g), p, f, s), p, s, f) /\ SameEntries(t, u) /\ Inners(u)
           /\ u.root = t.root /\ \A n \in DOMAIN t.node : n \in DOMAIN u.node /\ (n # p => u.node[n].kids = t.node[n].kids)
<1>1. Arena(t)
  BY DEF SplittingG, TreeInv
<1>2. /\ p \in DOMAIN t.node /\ r \in DOMAIN t.node /\ p # r /\ t.node[r].parent = p /\ k \in Key
      /\ i \in 1 .. Len(t.node[p].kids) /\ t.node[p].kids[i] = x
      /\ ToSet(t.node[p].kids) \subseteq DOMAIN t.node /\ Len(t.node[p].kids) = InternalCap + 1
      /\ t.node[p].keys \in Seq(Key) /\ InternalCap \in Nat
  BY DEF EnterPoint
<1>3. PICK w : w = InternalInsertAt(t, p, i, k, r)
  OBVIOUS
<1>4. SettledG(w, Calm(g)) /\ SameEntries(t, w) /\ Inners(w) /\ EnterView(t, w, p, i, k, r)
  BY <1>3, EnterRoom
<1>5. Arena(u) /\ InnerCut(w, u, p, f, InternalMid) /\ Unlinked(u, f)
  BY <1>1, <1>2, <1>4, InternalSplitEffect
<1>6. PICK m : m = InternalMid
  OBVIOUS
<1>7. w.node[p].keys = InsertAt(t.node[p].keys, i, k) /\ Len(w.node[p].keys) = InternalCap + 1
  <2>1. w.node[p].keys = InsertAt(t.node[p].keys, i, k)
    BY <1>4 DEF EnterView
  <2>2. i \in 1 .. Len(t.node[p].keys) + 1
    BY <1>2
  <2>3. InsertedAt(Key, t.node[p].keys, i, k, w.node[p].keys)
    BY <2>1, <2>2, <1>2, InsertAtDoes
  <2> QED BY <2>1, <2>3 DEF InsertedAt
<1>8. m \in 0 .. Len(w.node[p].keys) - 1
  <2>1. InternalCap \in Nat \ {0, 1} /\ m \in 0 .. InternalCap
    BY <1>6, CapAssumption DEF InternalMid
  <2> QED BY <2>1, <1>7
<1>9. s = w.node[p].keys[m + 1]
  BY <1>6, <1>7 DEF Promoted
<1>10. p \in DOMAIN w.node /\ w.node[p].kids # <<>>
  <2>1. p \in DOMAIN w.node /\ w.node[p].kids = InsertAt(t.node[p].kids, i + 1, r)
    BY <1>2, <1>4 DEF EnterView, SameFrame
  <2>2. t.node[p].kids \in Seq(Int) /\ r \in Int /\ i + 1 \in 1 .. Len(t.node[p].kids) + 1
    BY <1>1, <1>2, ArenaParts
  <2>3. InsertedAt(Int, t.node[p].kids, i + 1, r, w.node[p].kids)
    BY <2>1, <2>2, InsertAtDoes
  <2>4. Len(w.node[p].kids) = Len(t.node[p].kids) + 1 /\ Len(t.node[p].kids) \in Nat
    BY <2>2, <2>3 DEF InsertedAt
  <2> QED BY <2>1, <2>4
<1>11. SplittingG(u, CutG(Calm(g), p, f, s), p, s, f) /\ SameEntries(w, u)
  BY <1>4, <1>5, <1>6, <1>8, <1>9, <1>10, InnerCutInv
<1>12. SameEntries(t, u)
  BY <1>4, <1>11, SameSame
<1>13. /\ DOMAIN u.node = DOMAIN w.node \cup {f} /\ u.root = w.root
       /\ \A n \in DOMAIN w.node :
         /\ n # p => u.node[n].kids = w.node[n].kids
         /\ u.node[n].prev = w.node[n].prev /\ u.node[n].next = w.node[n].next
  BY <1>5 DEF InnerCut
<1>14. Inners(u)
  <2>1. ASSUME NEW n \in DOMAIN u.node, u.node[n].kids # <<>> PROVE u.node[n].prev = NO_NODE /\ u.node[n].next = NO_NODE
    <3>1. CASE n = f
      BY <3>1, <1>5 DEF Unlinked
    <3>2. CASE n # f
      <4>1. n \in DOMAIN w.node /\ w.node[n].kids # <<>>
        BY <3>2, <2>1, <1>10, <1>13
      <4> QED BY <4>1, <1>4, <1>13 DEF Inners
    <3> QED BY <3>1, <3>2
  <2> QED BY <2>1 DEF Inners
<1>15. w.root = t.root /\ DOMAIN w.node = DOMAIN t.node /\ \A n \in DOMAIN t.node : n # p => w.node[n].kids = t.node[n].kids
  BY <1>4 DEF EnterView, SameFrame
<1> QED BY <1>11, <1>12, <1>13, <1>14, <1>15

\* A new root for the two halves of the old one.
LEMMA RootGrows ==
    ASSUME NEW t, NEW u, NEW g, NEW x, NEW k, NEW r, SplittingG(t, g, x, k, r), Inners(t), x = t.root,
           u = NewRoot(t, x, k, r), NEW f, f = Fresh(t)
    PROVE  SettledG(u, RootG(g, x, f)) /\ SameEntries(t, u) /\ Inners(u)
<1>1. Arena(t) /\ x \in DOMAIN t.node /\ r \in DOMAIN t.node /\ k \in Key
  BY DEF SplittingG, TreeInv
<1>2. Arena(u) /\ RootView(t, u, f, x, k, r) /\ Unlinked(u, f)
  BY <1>1, NewRootEffect
<1>3. SettledG(u, RootG(g, x, f)) /\ SameEntries(t, u)
  BY <1>2, NewRootInv
<1>4. /\ DOMAIN u.node = DOMAIN t.node \cup {f}
      /\ \A n \in DOMAIN t.node : /\ u.node[n].kids = t.node[n].kids
            /\ u.node[n].prev = t.node[n].prev /\ u.node[n].next = t.node[n].next
  BY <1>2 DEF RootView
<1>5. Inners(u)
  BY <1>2, <1>4 DEF Inners, Unlinked
<1> QED BY <1>3, <1>5

\* The node a split has reached, seen from its parent index.
LEMMA SplitSlot ==
    ASSUME NEW t, NEW g, NEW x, NEW k, NEW r, SplittingG(t, g, x, k, r)
    PROVE  LET p == t.node[x].parent
               i == SlotInParent(t, x)
           IN  /\ p = NO_NODE <=> x = t.root
               /\ p # NO_NODE => p \in DOMAIN t.node /\ i \in 1 .. Len(t.node[p].kids) /\ t.node[p].kids[i] = x
<1>1. Arena(t) /\ Shape(t, g, {t.root, r}) /\ x \in DOMAIN t.node /\ x # r /\ t.node[t.root].parent = NO_NODE
  BY DEF SplittingG, TreeInv, RootTop
<1>2. PICK p : p = t.node[x].parent
  OBVIOUS
<1>3. CASE x = t.root
  BY <1>1, <1>3
<1>4. CASE x # t.root
  <2>1. Placed(t, x)
    BY <1>1, <1>4 DEF Shape, Hangs
  <2>2. p \in DOMAIN t.node /\ \E j \in 1 .. Len(t.node[p].kids) : t.node[p].kids[j] = x
    BY <2>1, <1>2 DEF Placed
  <2>3. p # NO_NODE /\ t.node[p].kids \in Seq(Int)
    BY <2>2, <1>1, ArenaParts
  <2>4. PICK i : i = SelectInSeq(t.node[p].kids, LAMBDA m : m = x)
    OBVIOUS
  <2>5. i \in 1 .. Len(t.node[p].kids) /\ t.node[p].kids[i] = x
    BY <2>2, <2>3, <2>4, SlotOfElement
  <2>6. SlotInParent(t, x) = i
    BY <2>4, <1>2 DEF SlotInParent
  <2> QED BY <2>2, <2>3, <2>5, <2>6, <1>2, <1>4
<1> QED BY <1>3, <1>4

\* The way down to the parent of x.
LEMMA PathUp ==
    ASSUME NEW t, NEW path, NEW x, PathIs(t, path, x), path # <<>>, NEW p, NEW i, p = Last(path)[1], i = Last(path)[2]
    PROVE  /\ p \in DOMAIN t.node /\ i \in 1 .. Len(t.node[p].kids) /\ t.node[p].kids[i] = x
           /\ PathIs(t, Front(path), p) /\ Len(Front(path)) = Len(path) - 1 /\ Len(path) \in Nat \ {0}
           /\ \A j \in 1 .. Len(path) - 1 : Front(path)[j] = path[j]
<1>1. PICK N, q : N = Len(path) /\ q = Front(path)
  OBVIOUS
<1>2. path \in Seq(Int \X Int)
  BY DEF PathIs
<1>3. /\ Last(path) = path[N] /\ N \in Nat \ {0} /\ q \in Seq(Int \X Int) /\ Len(q) = N - 1
      /\ \A j \in 1 .. N - 1 : q[j] = path[j]
  BY <1>1, <1>2, LastFront
<1>4. PathView(t, path, x, N)
  BY <1>1, <1>3, PathViewIs
<1>5. /\ \A j \in 1 .. N : /\ path[j][1] \in DOMAIN t.node /\ path[j][2] \in 1 .. Len(t.node[path[j][1]].kids)
                           /\ (j = N => t.node[path[j][1]].kids[path[j][2]] = x)
                           /\ (j # N => t.node[path[j][1]].kids[path[j][2]] = path[j + 1][1])
      /\ path[1][1] = t.root
  BY <1>3, <1>4 DEF PathView
<1>6. N \in 1 .. N
  BY <1>3
<1>7. p = path[N][1] /\ i = path[N][2]
  BY <1>3
<1>8. p \in DOMAIN t.node /\ i \in 1 .. Len(t.node[p].kids) /\ t.node[p].kids[i] = x
  BY <1>5, <1>6, <1>7
<1>9. PICK M : M = N - 1
  OBVIOUS
<1>10. M \in Nat /\ M + 1 = N
  BY <1>3, <1>9
<1>11. ASSUME NEW j \in 1 .. M
       PROVE  /\ q[j][1] \in DOMAIN t.node /\ q[j][2] \in 1 .. Len(t.node[q[j][1]].kids)
              /\ (j = M => t.node[q[j][1]].kids[q[j][2]] = p)
              /\ (j # M => t.node[q[j][1]].kids[q[j][2]] = q[j + 1][1])
  <2>1. j \in 1 .. N /\ j # N /\ j \in 1 .. N - 1 /\ (j = M => j + 1 = N) /\ (j # M => j + 1 \in 1 .. N - 1)
    BY <1>3, <1>9, <1>10
  <2>2. q[j] = path[j]
    BY <2>1, <1>3
  <2>3. t.node[q[j][1]].kids[q[j][2]] = path[j + 1][1]
    BY <2>1, <2>2, <1>5
  <2>4. j = M => path[j + 1][1] = p
    BY <2>1, <1>7
  <2>5. j # M => path[j + 1] = q[j + 1]
    BY <2>1, <1>3
  <2> QED BY <2>1, <2>2, <2>3, <2>4, <2>5, <1>5
<1>12. M = 0 => p = t.root
  BY <1>5, <1>7, <1>10
<1>13. M # 0 => q[1][1] = t.root
  <2>1. M # 0 => 1 \in 1 .. N - 1
    BY <1>9, <1>10
  <2> QED BY <2>1, <1>3, <1>5
<1>14. PathView(t, q, p, M)
  BY <1>3, <1>9, <1>11, <1>12, <1>13 DEF PathView
<1>15. PathIs(t, q, p)
  BY <1>10, <1>14, PathViewIs
<1> QED BY <1>1, <1>3, <1>8, <1>15

\* The way down to a full parent, after its split.
LEMMA PathUpSplit ==
    ASSUME NEW t, NEW u, NEW g, NEW O, Shape(t, g, O), g.lev[t.root] = t.height, t.height \in Nat,
           NEW path, NEW x, PathIs(t, path, x), path # <<>>, NEW p, p = Last(path)[1], u.root = t.root,
           \A n \in DOMAIN t.node : n \in DOMAIN u.node /\ (n # p => u.node[n].kids = t.node[n].kids)
    PROVE  PathIs(u, Front(path), p)
<1>1. PICK N, q : N = Len(path) /\ q = Front(path)
  OBVIOUS
<1>2. PathIs(t, q, p) /\ Len(q) = N - 1 /\ N \in Nat \ {0} /\ \A j \in 1 .. N - 1 : q[j] = path[j]
  BY <1>1, PathUp
<1>3. \A i \in 1 .. N : g.lev[path[i][1]] = t.height - i + 1
  <2>1. \A i \in 1 .. Len(path) : g.lev[path[i][1]] = t.height - i + 1
    BY PathLevels
  <2> QED BY <2>1, <1>1
<1>4. p = path[N][1]
  <2>1. path \in Seq(Int \X Int)
    BY DEF PathIs
  <2> QED BY <2>1, <1>1, LastFront
<1>5. ASSUME NEW j \in 1 .. Len(q) PROVE q[j][1] \in DOMAIN u.node /\ u.node[q[j][1]].kids = t.node[q[j][1]].kids
  <2>1. j \in 1 .. N - 1 /\ j \in 1 .. N /\ N \in 1 .. N
    BY <1>2
  <2>2. q[j][1] \in DOMAIN t.node
    BY <1>2 DEF PathIs
  <2>3. g.lev[q[j][1]] = t.height - j + 1 /\ g.lev[p] = t.height - N + 1
    BY <2>1, <1>2, <1>3, <1>4
  <2>4. t.height - j + 1 # t.height - N + 1
    BY <2>1, <1>2
  <2>5. q[j][1] # p
    BY <2>3, <2>4
  <2> QED BY <2>2, <2>5
<1>6. PathIs(u, q, p)
  BY <1>2, <1>5, PathMove
<1> QED BY <1>1, <1>6

\* The tree is a good one again, with the same entries.
Mended(t, u) == (\E h : SettledG(u, h)) /\ SameEntries(t, u) /\ Inners(u)

\* Internal nodes get no neighbours.
LEMMA InnersMove ==
    ASSUME NEW t, NEW u, Inners(t),
           \A n \in DOMAIN u.node : u.node[n].kids # <<>> =>
             /\ n \in DOMAIN t.node /\ t.node[n].kids # <<>>
             /\ u.node[n].prev = t.node[n].prev /\ u.node[n].next = t.node[n].next
    PROVE  Inners(u)
BY DEF Inners

\* Siblings of leaves are leaves, siblings of internal nodes are internal nodes.
LEMMA SibsAlike ==
    ASSUME NEW t, NEW g, SettledG(t, g), NEW p, NEW j, NEW l, NEW r, Sibs(t, g, p, j, l, r)
    PROVE  /\ l \in LeafSet(t) <=> r \in LeafSet(t)
           /\ l \in LeafSet(t) <=> t.node[l].kids = <<>>
           /\ r \in LeafSet(t) <=> t.node[r].kids = <<>>
<1>1. l \in DOMAIN t.node /\ r \in DOMAIN t.node /\ g.lev[l] = g.lev[r]
  BY DEF Sibs
<1>2. Shape(t, g, {t.root})
  BY DEF SettledG, TreeInv
<1>3. LevelOf(g, l, t.node[l]) /\ LevelOf(g, r, t.node[r])
  BY <1>1, <1>2 DEF Shape, Hangs
<1> QED BY <1>1, <1>3 DEF LevelOf, LeafSet

\* An entry moves between two leaves.
LEMMA LeafShiftMends ==
    ASSUME NEW t, NEW u, NEW g, SettledG(t, g), Inners(t), NEW p, NEW j, NEW l, NEW r,
           Sibs(t, g, p, j, l, r), l \in LeafSet(t), Arena(u), LeafShift(t, u, p, j, l, r)
    PROVE  Mended(t, u)
<1>1. (\E h : SettledG(u, h)) /\ SameEntries(t, u)
  BY LeafShiftInv
<1>2. /\ DOMAIN u.node = DOMAIN t.node
      /\ \A n \in DOMAIN t.node : /\ u.node[n].kids = t.node[n].kids
            /\ u.node[n].next = t.node[n].next /\ u.node[n].prev = t.node[n].prev
  BY DEF LeafShift, SameFrame
<1>3. Inners(u)
  BY <1>2, InnersMove
<1> QED BY <1>1, <1>3 DEF Mended

\* A kid moves between two internal nodes.
LEMMA InnerShiftMends ==
    ASSUME NEW t, NEW u, NEW g, SettledG(t, g), Inners(t), NEW p, NEW j, NEW l, NEW r,
           Sibs(t, g, p, j, l, r), t.node[l].kids # <<>>, Arena(u), InnerShift(t, u, p, j, l, r)
    PROVE  Mended(t, u)
<1>1. (\E h : SettledG(u, h)) /\ SameEntries(t, u)
  BY InnerShiftInv
<1>2. t.node[r].kids # <<>>
  BY SibsAlike
<1>3. /\ DOMAIN u.node = DOMAIN t.node
      /\ \A n \in DOMAIN t.node : /\ n # l /\ n # r => u.node[n].kids = t.node[n].kids
            /\ u.node[n].next = t.node[n].next /\ u.node[n].prev = t.node[n].prev
  BY DEF InnerShift, SameFrame
<1>4. Inners(u)
  BY <1>2, <1>3, InnersMove
<1> QED BY <1>1, <1>4 DEF Mended

\* Two leaves are merged.
LEMMA LeafJoinMends ==
    ASSUME NEW t, NEW u, NEW g, SettledG(t, g), Inners(t), NEW p, NEW j, NEW l, NEW r,
           Sibs(t, g, p, j, l, r), l \in LeafSet(t), Arena(u), MergeView(t, u, p, j, l, r), LeafJoin(t, u, l, r)
    PROVE  Mended(t, u)
<1>1. SettledG(u, JoinG(g, l, r)) /\ SameEntries(t, u)
  BY LeafJoinInv
<1>2. r \in LeafSet(t) /\ LeafSet(u) = LeafSet(t) \ {r}
  BY LeafJoinLeaves
<1>3. /\ DOMAIN u.node = DOMAIN t.node \ {r}
      /\ \A n \in DOMAIN t.node : n # r =>
         /\ n # l => u.node[n].next = t.node[n].next
         /\ n # t.node[r].next => u.node[n].prev = t.node[n].prev
  BY DEF MergeView, LeafJoin
<1>4. t.node[r].next \in LeafSet(t) \cup {NO_NODE}
  BY <1>2, LeafNeighbours DEF SettledG
<1>5. \A n \in DOMAIN t.node : n # NO_NODE
  BY ArenaParts DEF SettledG, TreeInv
<1>6. ASSUME NEW n \in DOMAIN u.node, u.node[n].kids # <<>>
      PROVE  /\ n \in DOMAIN t.node /\ t.node[n].kids # <<>>
             /\ u.node[n].prev = t.node[n].prev /\ u.node[n].next = t.node[n].next
  <2>1. n \notin LeafSet(u) /\ n \in DOMAIN t.node /\ n # r
    BY <1>3, <1>6 DEF LeafSet
  <2>2. n \notin LeafSet(t)
    BY <2>1, <1>2
  <2>3. t.node[n].kids # <<>>
    BY <2>1, <2>2 DEF LeafSet
  <2>4. n # l /\ n # t.node[r].next
    BY <2>1, <2>2, <1>4, <1>5
  <2> QED BY <2>1, <2>3, <2>4, <1>3
<1>7. Inners(u)
  BY <1>6, InnersMove
<1> QED BY <1>1, <1>7 DEF Mended

\* Two internal nodes are merged.
LEMMA InnerJoinMends ==
    ASSUME NEW t, NEW u, NEW g, SettledG(t, g), Inners(t), NEW p, NEW j, NEW l, NEW r,
           Sibs(t, g, p, j, l, r), t.node[l].kids # <<>>, Arena(u), MergeView(t, u, p, j, l, r), InnerJoin(t, u, p, j, l, r)
    PROVE  Mended(t, u)
<1>1. SettledG(u, JoinG(g, l, r)) /\ SameEntries(t, u)
  BY InnerJoinInv
<1>2. p \in DOMAIN t.node /\ t.node[p].kids # <<>>
  <2>1. p \in DOMAIN t.node /\ t.node[p].kids \in Seq(Int) /\ Len(t.node[p].kids) = Len(t.node[p].keys) + 1 /\ Len(t.node[p].keys) \in Nat
    BY DEF Sibs
  <2> QED BY <2>1
<1>3. /\ DOMAIN u.node = DOMAIN t.node \ {r}
      /\ \A n \in DOMAIN t.node : n # r =>
         /\ n # p /\ n # l => u.node[n].kids = t.node[n].kids
         /\ u.node[n].next = t.node[n].next /\ u.node[n].prev = t.node[n].prev
  BY DEF MergeView, InnerJoin
<1>4. Inners(u)
  BY <1>2, <1>3, InnersMove
<1> QED BY <1>1, <1>4 DEF Mended

\* A root without keys gives way to its kid.
LEMMA CollapseMends ==
    ASSUME NEW t, NEW u, NEW g, SettledG(t, g), Inners(t), Len(t.node[t.root].keys) = 0, t.node[t.root].kids # <<>>,
           u = CollapseRoot(t)
    PROVE  Mended(t, u)
<1>1. SettledG(u, g) /\ SameEntries(t, u)
  BY CollapseInv
<1>2. PICK c : c = t.node[t.root].kids[1]
  OBVIOUS
<1>3. t.root \in DOMAIN t.node /\ c \in DOMAIN t.node /\ t.height \in Nat \ {0}
  BY <1>2, LoneKid
<1>4. CollapseView(t, u, c)
  BY <1>2, <1>3, CollapseEffect DEF SettledG, TreeInv
<1>5. Inners(u)
  BY <1>4, InnersMove DEF CollapseView
<1> QED BY <1>1, <1>5 DEF Mended

\* Merging changes no root.
LEMMA MergeRoots ==
    ASSUME NEW t, Arena(t), NEW p, NEW j
    PROVE  MergedLeaves(t, p, j).root = t.root /\ MergedInternals(t, p, j).root = t.root
<1>1. PICK a, b, c, d, e, f, h, k : t = TreeOf(a, b, c, d, e, f, h, k)
  BY ArenaParts
<1>2. t.root = d
  BY <1>1 DEF TreeOf
<1>3. MergedLeaves(t, p, j).root = d
  <2>1. PICK l, r, x : l = t.node[p].kids[j] /\ r = t.node[p].kids[j + 1]
           /\ x = [t EXCEPT !.node[l].keys = @ \o t.node[r].keys, !.node[l].vals = @ \o t.node[r].vals]
    OBVIOUS
  <2>2. x = TreeOf(x.node, b, c, d, e, f, h, k)
    BY <2>1, <1>1 DEF TreeOf
  <2>3. PICK y : y = LinkNext(x, l, t.node[r].next)
    OBVIOUS
  <2>4. y = TreeOf(y.node, b, c, d, e, y.last, h, k)
    <3>0. PICK nd, m : nd = x.node /\ m = t.node[r].next
      OBVIOUS
    <3>3. x = TreeOf(nd, b, c, d, e, f, h, k) /\ y = LinkNext(x, l, m)
      BY <3>0, <2>2, <2>3
    <3>1. CASE m = NO_NODE
      <4>1. y = [x EXCEPT !.node[l].next = m, !.last = l]
        BY <3>1, <3>3 DEF LinkNext
      <4>2. y = [[x EXCEPT !.node = [nd EXCEPT ![l].next = m]] EXCEPT !.last = l]
        BY <4>1, <3>3 DEF TreeOf
      <4> QED BY ONLY <4>2, <3>3 DEF TreeOf
    <3>2. CASE m # NO_NODE
      <4>1. y = [x EXCEPT !.node[l].next = m, !.node[m].prev = l]
        BY <3>2, <3>3 DEF LinkNext
      <4>2. PICK n2 : n2 = [[nd EXCEPT ![l].next = m] EXCEPT ![m].prev = l]
        OBVIOUS
      <4>3. y = [x EXCEPT !.node = n2]
        BY <4>1, <4>2, <3>3 DEF TreeOf
      <4> QED BY ONLY <4>3, <3>3 DEF TreeOf
    <3> QED BY <3>1, <3>2
  <2>5. MergedLeaves(t, p, j) = Free(y, r)
    BY <2>1, <2>3 DEF MergedLeaves
  <2>6. Free(y, r).root = d
    BY <2>4 DEF Free, TreeOf
  <2> QED BY <2>5, <2>6
<1>4. MergedInternals(t, p, j).root = d
  <2>1. PICK l, r, x : l = t.node[p].kids[j] /\ r = t.node[p].kids[j + 1]
           /\ x = [t EXCEPT !.node[l].keys = @ \o <<t.node[p].keys[j]>> \o t.node[r].keys, !.node[l].kids = @ \o t.node[r].kids]
    OBVIOUS
  <2>2. x = TreeOf(x.node, b, c, d, e, f, h, k)
    BY <2>1, <1>1 DEF TreeOf
  <2>3. PICK y : y = Adopt(x, ToSet(t.node[r].kids), l)
    OBVIOUS
  <2>4. y = TreeOf(y.node, b, c, d, e, f, h, k)
    BY <2>2, <2>3 DEF TreeOf, Adopt
  <2>5. MergedInternals(t, p, j) = Free(y, r)
    BY <2>1, <2>3 DEF MergedInternals
  <2>6. Free(y, r).root = d
    BY <2>4 DEF Free, TreeOf
  <2> QED BY <2>5, <2>6
<1> QED BY <1>2, <1>3, <1>4

\* Tree w is t with two neighbours merged, and p still has to lose a separator.
MergeMends(t, w, p, j) ==
    /\ w.root = t.root
    /\ Mended(t, WithoutChild(w, p, j)) /\ WithoutChild(w, p, j).root = t.root
    /\ p \in DOMAIN WithoutChild(w, p, j).node /\ WithoutChild(w, p, j).node[p].kids # <<>>

\* The node a merge has taken a separator from.
LEMMA MergeLeavesParent ==
    ASSUME NEW t, NEW u, NEW g, NEW p, NEW j, NEW l, NEW r, Sibs(t, g, p, j, l, r), MergeView(t, u, p, j, l, r)
    PROVE  u.root = t.root /\ p \in DOMAIN u.node /\ u.node[p].kids # <<>>
<1>1. u.root = t.root /\ DOMAIN u.node = DOMAIN t.node \ {r}
  BY DEF MergeView
<1>2. /\ p \in DOMAIN t.node /\ p # r /\ Len(t.node[p].keys) \in Nat /\ j \in 1 .. Len(t.node[p].keys)
      /\ Len(t.node[p].kids) = Len(t.node[p].keys) + 1
  BY DEF Sibs
<1>3. Len(u.node[p].kids) = Len(t.node[p].kids) - 1 /\ u.node[p].kids \in Seq(Int)
  BY MergeKids
<1> QED BY <1>1, <1>2, <1>3

\* A merge of two leaves, with the separator gone, keeps the invariant and the entries.
LEMMA MergedLeavesMends ==
    ASSUME NEW t, NEW g, SettledG(t, g), Inners(t), NEW p, NEW j, NEW l, NEW r, Sibs(t, g, p, j, l, r), l \in LeafSet(t)
    PROVE  MergeMends(t, MergedLeaves(t, p, j), p, j)
<1>1. PICK w, u : w = MergedLeaves(t, p, j) /\ u = WithoutChild(w, p, j)
  OBVIOUS
<1>2. Arena(u) /\ MergeView(t, u, p, j, l, r) /\ LeafJoin(t, u, l, r)
  BY <1>1, MergedLeavesEffect
<1>3. Mended(t, u)
  BY <1>2, LeafJoinMends
<1>4. u.root = t.root /\ p \in DOMAIN u.node /\ u.node[p].kids # <<>>
  BY <1>2, MergeLeavesParent
<1>5. w.root = t.root
  BY <1>1, MergeRoots DEF SettledG, TreeInv
<1> QED BY <1>1, <1>3, <1>4, <1>5 DEF MergeMends

\* A merge of two internal nodes, likewise.
LEMMA MergedInternalsMends ==
    ASSUME NEW t, NEW g, SettledG(t, g), Inners(t), NEW p, NEW j, NEW l, NEW r, Sibs(t, g, p, j, l, r), t.node[l].kids # <<>>
    PROVE  MergeMends(t, MergedInternals(t, p, j), p, j)
<1>1. PICK w, u : w = MergedInternals(t, p, j) /\ u = WithoutChild(w, p, j)
  OBVIOUS
<1>2. Arena(u) /\ MergeView(t, u, p, j, l, r) /\ InnerJoin(t, u, p, j, l, r)
  BY <1>1, MergedInternalsEffect
<1>3. Mended(t, u)
  BY <1>2, InnerJoinMends
<1>4. u.root = t.root /\ p \in DOMAIN u.node /\ u.node[p].kids # <<>>
  BY <1>2, MergeLeavesParent
<1>5. w.root = t.root
  BY <1>1, MergeRoots DEF SettledG, TreeInv
<1> QED BY <1>1, <1>3, <1>4, <1>5 DEF MergeMends

\* A merge that has emptied the root.
LEMMA MergeCollapses ==
    ASSUME NEW t, NEW w, NEW p, NEW j, MergeMends(t, w, p, j), p = w.root, Len(WithoutChild(w, p, j).node[p].keys) = 0
    PROVE  Mended(t, CollapseRoot(WithoutChild(w, p, j)))
<1>1. PICK u : u = WithoutChild(w, p, j)
  OBVIOUS
<1>2. Mended(t, u) /\ u.root = p /\ u.node[p].kids # <<>> /\ Len(u.node[p].keys) = 0
  BY <1>1 DEF MergeMends
<1>3. PICK h : SettledG(u, h)
  BY <1>2 DEF Mended
<1>4. SameEntries(t, u) /\ Inners(u)
  BY <1>2 DEF Mended
<1>5. Mended(u, CollapseRoot(u))
  BY <1>2, <1>3, <1>4, CollapseMends
<1>6. SameEntries(t, CollapseRoot(u))
  BY <1>4, <1>5, SameSame DEF Mended
<1> QED BY <1>1, <1>5, <1>6 DEF Mended

\* Neighbours of slot i.
LEMMA SlotNumbers ==
    ASSUME NEW C \in Nat, NEW i \in 1 .. C
    PROVE  /\ i + 1 \in 1 .. C => i \in Nat \ {0}
           /\ i - 1 \in 1 .. C => i - 1 \in Nat \ {0} /\ (i - 1) + 1 = i /\ (i - 1) + 1 \in 1 .. C
           /\ C > 1 => LET j == IF i < C THEN i ELSE i - 1
                       IN  j \in Nat \ {0} /\ j + 1 \in 1 .. C /\ j \in 1 .. C
OBVIOUS

\* What the repair of leaf n does to the tree.
LeafRepairs(t, p, i, kids) ==
    /\ i + 1 \in 1 .. Len(kids) /\ Len(t.node[kids[i + 1]].keys) > LeafMin => Mended(t, LeafFromRight(t, p, i))
    /\ i - 1 \in 1 .. Len(kids) /\ Len(t.node[kids[i - 1]].keys) > LeafMin => Mended(t, LeafFromLeft(t, p, i))
    /\ Len(kids) > 1 => LET j == IF i < Len(kids) THEN i ELSE i - 1 IN MergeMends(t, MergedLeaves(t, p, j), p, j)

\* Every repair of an underfull leaf keeps the invariant and the entries.
LEMMA LeafRepaired ==
    ASSUME NEW t, NEW g, SettledG(t, g), Inners(t), NEW n \in LeafSet(t), n # t.root, Len(t.node[n].keys) < LeafMin,
           NEW p, NEW i, p = t.node[n].parent, i = SlotInParent(t, n), NEW kids, kids = t.node[p].kids
    PROVE  LeafRepairs(t, p, i, kids) /\ DOMAIN kids = 1 .. Len(kids)
<1>1. n \in DOMAIN t.node
  BY DEF LeafSet
<1>2. p \in DOMAIN t.node /\ i \in 1 .. Len(kids) /\ kids[i] = n
  BY <1>1, ParentSlot
<1>3. kids \in Seq(Int)
  BY <1>2, ArenaParts DEF SettledG, TreeInv
<1>4. PICK C : C = Len(kids)
  OBVIOUS
<1>5. C \in Nat /\ i \in 1 .. C
  BY <1>2, <1>3, <1>4
<1>6. Len(t.node[n].keys) \in Nat /\ LeafMin \in Nat
  <2>1. Len(t.node[n].keys) \in Nat
    BY LeafRun DEF SettledG
  <2> QED BY <2>1, CapAssumption DEF LeafMin
<1>7. ASSUME i + 1 \in 1 .. C, Len(t.node[kids[i + 1]].keys) > LeafMin PROVE Mended(t, LeafFromRight(t, p, i))
  <2>1. PICK r : r = kids[i + 1]
    OBVIOUS
  <2>2. i \in Nat \ {0} /\ i + 1 \in 1 .. Len(t.node[p].kids) /\ n = t.node[p].kids[i] /\ r = t.node[p].kids[i + 1]
    BY <2>1, <1>2, <1>4, <1>5, <1>7
  <2>3. Sibs(t, g, p, i, n, r)
    BY <2>2, <1>2, SibsAre
  <2>4. r \in LeafSet(t)
    BY <2>3, SibsAlike
  <2>5. Len(t.node[r].keys) \in Nat
    BY <2>4, LeafRun DEF SettledG
  <2>6. Len(t.node[r].keys) >= 2
    BY <2>1, <2>5, <1>6, <1>7
  <2>7. PICK u : u = LeafFromRight(t, p, i)
    OBVIOUS
  <2>8. Arena(u) /\ LeafShift(t, u, p, i, n, r)
    BY <2>3, <2>6, <2>7, LeafFromRightEffect
  <2> QED BY <2>3, <2>7, <2>8, LeafShiftMends
<1>8. ASSUME i - 1 \in 1 .. C, Len(t.node[kids[i - 1]].keys) > LeafMin PROVE Mended(t, LeafFromLeft(t, p, i))
  <2>1. PICK l, j : j = i - 1 /\ l = kids[j]
    OBVIOUS
  <2>2. /\ j \in Nat \ {0} /\ j + 1 \in 1 .. Len(t.node[p].kids) /\ l = t.node[p].kids[j] /\ n = t.node[p].kids[j + 1]
        /\ i = j + 1
    BY <2>1, <1>2, <1>4, <1>5, <1>8
  <2>3. Sibs(t, g, p, j, l, n)
    BY <2>2, <1>2, SibsAre
  <2>4. l \in LeafSet(t)
    BY <2>3, SibsAlike
  <2>5. Len(t.node[l].keys) \in Nat
    BY <2>4, LeafRun DEF SettledG
  <2>6. Len(t.node[l].keys) >= 2
    BY <2>1, <2>5, <1>6, <1>8
  <2>7. PICK u : u = LeafFromLeft(t, p, i)
    OBVIOUS
  <2>8. Arena(u) /\ LeafShift(t, u, p, j, l, n)
    BY <2>1, <2>2, <2>3, <2>4, <2>6, <2>7, LeafFromLeftEffect
  <2> QED BY <2>3, <2>4, <2>7, <2>8, LeafShiftMends
<1>9. ASSUME C > 1, NEW j, j = IF i < C THEN i ELSE i - 1 PROVE MergeMends(t, MergedLeaves(t, p, j), p, j)
  <2>1. j \in Nat \ {0} /\ j + 1 \in 1 .. C
    BY <1>5, <1>9
  <2>2. PICK l, r : l = t.node[p].kids[j] /\ r = t.node[p].kids[j + 1]
    OBVIOUS
  <2>3. Sibs(t, g, p, j, l, r)
    BY <2>1, <2>2, <1>2, <1>4, SibsAre
  <2>4. l = n \/ r = n
    <3>1. CASE i < C
      BY <3>1, <2>2, <1>2, <1>9
    <3>2. CASE ~(i < C)
      <4>1. j + 1 = i
        BY <3>2, <1>5, <1>9
      <4> QED BY <4>1, <2>2, <1>2
    <3> QED BY <3>1, <3>2
  <2>5. l \in LeafSet(t)
    BY <2>3, <2>4, SibsAlike
  <2> QED BY <2>3, <2>5, MergedLeavesMends
<1> QED BY <1>3, <1>4, <1>7, <1>8, <1>9 DEF LeafRepairs

InnerRepairs(t, p, i, kids) ==
    /\ i + 1 \in 1 .. Len(kids) /\ Len(t.node[kids[i + 1]].keys) > InternalMin => Mended(t, InternalFromRight(t, p, i))
    /\ i - 1 \in 1 .. Len(kids) /\ Len(t.node[kids[i - 1]].keys) > InternalMin => Mended(t, InternalFromLeft(t, p, i))
    /\ Len(kids) > 1 => LET j == IF i < Len(kids) THEN i ELSE i - 1 IN MergeMends(t, MergedInternals(t, p, j), p, j)

\* A node with more keys than the minimum has keys.
LEMMA SparesKeys ==
    ASSUME NEW t, Arena(t), NEW r \in DOMAIN t.node, Len(t.node[r].keys) > InternalMin
    PROVE  t.node[r].keys # <<>>
<1>1. PICK ks, L : ks = t.node[r].keys /\ L = Len(ks)
  OBVIOUS
<1>2. ks \in Seq(Key)
  BY <1>1, ArenaParts
<1>3. InternalMin \in Nat
  BY CapAssumption DEF InternalMin
<1>4. ks = <<>> => L = 0
  BY <1>1
<1> QED BY <1>1, <1>3, <1>4

\* Every repair of an internal node, likewise.
LEMMA InnerRepaired ==
    ASSUME NEW t, NEW g, SettledG(t, g), Inners(t), NEW n \in DOMAIN t.node, t.node[n].kids # <<>>, n # t.root,
           NEW p, NEW i, p = t.node[n].parent, i = SlotInParent(t, n), NEW kids, kids = t.node[p].kids
    PROVE  InnerRepairs(t, p, i, kids) /\ DOMAIN kids = 1 .. Len(kids)
<1>1. n \in DOMAIN t.node /\ n \notin LeafSet(t) /\ Arena(t)
  BY DEF LeafSet, SettledG, TreeInv
<1>2. p \in DOMAIN t.node /\ i \in 1 .. Len(kids) /\ kids[i] = n
  BY <1>1, ParentSlot
<1>3. kids \in Seq(Int)
  BY <1>2, ArenaParts DEF SettledG, TreeInv
<1>4. PICK C : C = Len(kids)
  OBVIOUS
<1>5. C \in Nat /\ i \in 1 .. C
  BY <1>2, <1>3, <1>4
<1>7. ASSUME i + 1 \in 1 .. C, Len(t.node[kids[i + 1]].keys) > InternalMin PROVE Mended(t, InternalFromRight(t, p, i))
  <2>1. PICK r : r = kids[i + 1]
    OBVIOUS
  <2>2. i \in Nat \ {0} /\ i + 1 \in 1 .. Len(t.node[p].kids) /\ n = t.node[p].kids[i] /\ r = t.node[p].kids[i + 1]
    BY <2>1, <1>2, <1>4, <1>5, <1>7
  <2>3. Sibs(t, g, p, i, n, r)
    BY <2>2, <1>2, SibsAre
  <2>4. r \in DOMAIN t.node
    BY <2>3, <1>1 DEF Sibs
  <2>6. t.node[r].keys # <<>>
    BY <2>1, <2>4, <1>1, <1>7, SparesKeys
  <2>7. PICK u : u = InternalFromRight(t, p, i)
    OBVIOUS
  <2>8. Arena(u) /\ InnerShift(t, u, p, i, n, r)
    BY <2>3, <2>6, <2>7, InternalFromRightEffect
  <2> QED BY <2>3, <2>7, <2>8, InnerShiftMends
<1>8. ASSUME i - 1 \in 1 .. C, Len(t.node[kids[i - 1]].keys) > InternalMin PROVE Mended(t, InternalFromLeft(t, p, i))
  <2>1. PICK l, j : j = i - 1 /\ l = kids[j]
    OBVIOUS
  <2>2. /\ j \in Nat \ {0} /\ j + 1 \in 1 .. Len(t.node[p].kids) /\ l = t.node[p].kids[j] /\ n = t.node[p].kids[j + 1]
        /\ i = j + 1
    BY <2>1, <1>2, <1>4, <1>5, <1>8
  <2>3. Sibs(t, g, p, j, l, n)
    BY <2>2, <1>2, SibsAre
  <2>301. l \in DOMAIN t.node
    BY <2>3 DEF Sibs
  <2>302. l \notin LeafSet(t) /\ (l \in LeafSet(t) <=> t.node[l].kids = <<>>)
    BY <2>3, <1>1, SibsAlike
  <2>4. l \in DOMAIN t.node /\ t.node[l].kids # <<>>
    BY <2>301, <2>302
  <2>6. t.node[l].keys # <<>>
    BY <2>1, <2>4, <1>1, <1>8, SparesKeys
  <2>7. PICK u : u = InternalFromLeft(t, p, i)
    OBVIOUS
  <2>8. Arena(u) /\ InnerShift(t, u, p, j, l, n)
    BY <2>1, <2>2, <2>3, <2>4, <2>6, <2>7, InternalFromLeftEffect
  <2> QED BY <2>3, <2>4, <2>7, <2>8, InnerShiftMends
<1>9. ASSUME C > 1, NEW j, j = IF i < C THEN i ELSE i - 1 PROVE MergeMends(t, MergedInternals(t, p, j), p, j)
  <2>1. j \in Nat \ {0} /\ j + 1 \in 1 .. C
    BY <1>5, <1>9
  <2>2. PICK l, r : l = t.node[p].kids[j] /\ r = t.node[p].kids[j + 1]
    OBVIOUS
  <2>3. Sibs(t, g, p, j, l, r)
    BY <2>1, <2>2, <1>2, <1>4, SibsAre
  <2>4. l = n \/ r = n
    <3>1. CASE i < C
      BY <3>1, <2>2, <1>2, <1>9
    <3>2. CASE ~(i < C)
      <4>1. j + 1 = i
        BY <3>2, <1>5, <1>9
      <4> QED BY <4>1, <2>2, <1>2
    <3> QED BY <3>1, <3>2
  <2>5. t.node[l].kids # <<>>
    BY <2>3, <2>4, <1>1, SibsAlike
  <2> QED BY <2>3, <2>5, MergedInternalsMends
<1> QED BY <1>3, <1>4, <1>7, <1>8, <1>9 DEF InnerRepairs

\* d is s backwards.
Reversed(S, s, N, d) ==
    /\ d \in Seq(S) /\ Len(d) = N /\ N \in Nat
    /\ \A i \in 1 .. N : d[i] = s[(N - i) + 1] /\ (N - i) + 1 \in 1 .. N

\* A sequence backwards.
LEMMA ReverseProps ==
    ASSUME NEW S, NEW s \in Seq(S), NEW N, N = Len(s), NEW d, d = Reverse(s)
    PROVE  Reversed(S, s, N, d)
<1>1. N \in Nat
  OBVIOUS
<1>2. d = [i \in 1 .. N |-> s[(N - i) + 1]]
  BY DEF Reverse
<1>3. \A i \in 1 .. N : (N - i) + 1 \in 1 .. N
  BY <1>1
<1>4. \A i \in 1 .. N : s[(N - i) + 1] \in S
  BY <1>3
<1>5. d \in Seq(S) /\ Len(d) = N
  BY <1>1, <1>2, <1>4
<1> QED BY <1>1, <1>2, <1>3, <1>5 DEF Reversed

\* Backwards twice.
LEMMA ReverseTwice ==
    ASSUME NEW S, NEW s \in Seq(S)
    PROVE  Reverse(Reverse(s)) = s
<1>1. PICK N, d, e : N = Len(s) /\ d = Reverse(s) /\ e = Reverse(d)
  OBVIOUS
<1>2. /\ d \in Seq(S) /\ Len(d) = N /\ N \in Nat
      /\ \A i \in 1 .. N : d[i] = s[(N - i) + 1] /\ (N - i) + 1 \in 1 .. N
  BY <1>1, ReverseProps DEF Reversed
<1>201. N = Len(d)
  BY <1>2
<1>202. Reversed(S, d, N, e)
  BY ONLY <1>1, <1>2, <1>201, ReverseProps
<1>3. /\ e \in Seq(S) /\ Len(e) = N
      /\ \A i \in 1 .. N : e[i] = d[(N - i) + 1] /\ (N - i) + 1 \in 1 .. N
  BY <1>202 DEF Reversed
<1>4. ASSUME NEW i \in 1 .. N PROVE e[i] = s[i]
  <2>1. PICK j : j = (N - i) + 1
    OBVIOUS
  <2>2. j \in 1 .. N /\ (N - j) + 1 = i
    BY <2>1, <1>2
  <2> QED BY <2>1, <2>2, <1>2, <1>3
<1>5. e = s
  BY <1>1, <1>2, <1>3, <1>4
<1> QED BY <1>1, <1>5

\* The chain backwards is the chain in the reverse order.
LEMMA BackIsReverse ==
    ASSUME NEW t, NEW g, NEW O, TreeInv(t, g, O), Inners(t)
    PROVE  BackChain(t) = Reverse(Chain(t))
<1>1. PICK b, N, L, lk, d : b = BackChain(t) /\ N = Len(b) /\ L = LeafSet(t) /\ lk = PrevOf(t) /\ d = Reverse(b)
  OBVIOUS
<1>2. t.last \in L /\ t.node[t.last].next = NO_NODE /\ Arena(t)
  BY <1>1 DEF TreeInv, Links
<1>3. Strand(L, lk, b, t.last, N) /\ N \in Nat
  BY <1>1, BackIsStrand
<1>4. /\ b \in Seq(L) /\ Len(b) = N /\ N # 0 /\ b[1] = t.last
      /\ \A i \in 1 .. N : (i = N => lk[b[i]] = NO_NODE) /\ (i # N => lk[b[i]] = b[i + 1])
  BY <1>3 DEF Strand
<1>5. ASSUME NEW i \in 1 .. N PROVE b[i] \in LeafSet(t) /\ lk[b[i]] = t.node[b[i]].prev
  <2>1. b[i] \in LeafSet(t)
    BY <1>1, <1>4
  <2>2. b[i] \in DOMAIN t.node
    BY <2>1 DEF LeafSet
  <2> QED BY <2>1, <2>2, <1>1 DEF PrevOf
<1>6. g.hi[b[1]] = Greatest
  BY <1>1, <1>2, <1>4, LeafNeighbours
<1>7. g.lo[b[N]] = Least
  <2>1. N \in 1 .. N
    BY <1>3, <1>4
  <2>2. t.node[b[N]].prev = NO_NODE
    BY <2>1, <1>4, <1>5
  <2> QED BY <2>1, <2>2, <1>5, LeafNeighbours
<1>8. ASSUME NEW i \in 1 .. N - 1 PROVE g.lo[b[i]] = g.hi[b[i + 1]]
  <2>1. i \in 1 .. N /\ i # N /\ i + 1 \in 1 .. N
    BY <1>3
  <2>2. t.node[b[i]].prev = b[i + 1] /\ b[i + 1] \in LeafSet(t)
    BY <2>1, <1>4, <1>5
  <2>3. b[i + 1] # NO_NODE
    BY <2>2, ArenaParts DEF LeafSet, TreeInv
  <2> QED BY <2>1, <2>2, <2>3, <1>5, LeafNeighbours
<1>9. /\ d \in Seq(L) /\ Len(d) = N
      /\ \A i \in 1 .. N : d[i] = b[(N - i) + 1] /\ (N - i) + 1 \in 1 .. N
  BY <1>1, <1>4, ReverseProps DEF Reversed
<1>10. Tiles(g.lo, g.hi, d, N, Least, Greatest)
  <2>1. 1 \in 1 .. N /\ N \in 1 .. N /\ (N - 1) + 1 = N /\ (N - N) + 1 = 1
    BY <1>3, <1>4
  <2>2. g.lo[d[1]] = Least /\ g.hi[d[N]] = Greatest
    BY <2>1, <1>6, <1>7, <1>9
  <2>3. ASSUME NEW i \in 1 .. N - 1 PROVE g.hi[d[i]] = g.lo[d[i + 1]]
    <3>1. PICK j : j = N - i
      OBVIOUS
    <3>2. j \in 1 .. N - 1 /\ i \in 1 .. N /\ i + 1 \in 1 .. N /\ (N - i) + 1 = j + 1 /\ (N - (i + 1)) + 1 = j
      BY <3>1, <1>3
    <3>3. d[i] = b[(N - i) + 1] /\ d[i + 1] = b[(N - (i + 1)) + 1]
      BY ONLY <3>2, <1>9
    <3>4. d[i] = b[j + 1] /\ d[i + 1] = b[j]
      BY ONLY <3>2, <3>3
    <3>5. g.lo[b[j]] = g.hi[b[j + 1]]
      BY <3>2, <1>8
    <3> QED BY ONLY <3>4, <3>5
  <2> QED BY <2>2, <2>3, <1>3, <1>4 DEF Tiles
<1>11. PICK c, M : c = Chain(t) /\ M = Len(c)
  OBVIOUS
<1>12. c \in Seq(L) /\ Tiles(g.lo, g.hi, c, M, Least, Greatest)
  BY <1>1, <1>11, ChainTiles
<1>13. Spread(L, g.lo, g.hi, Least, Greatest) /\ Least \in Int /\ Greatest \in Int
  BY <1>1, LeavesSpread, BoundsExist
<1>14. d = c
  BY <1>9, <1>10, <1>11, <1>12, <1>13, TilesUnique
<1> QED BY <1>1, <1>4, <1>11, <1>14, ReverseTwice

\* The smallest of some slots.
LEMMA MinSlot ==
    ASSUME NEW N \in Nat, NEW I, I \subseteq 1 .. N, I # {}
    PROVE  Min(I) \in I /\ Min(I) \in 1 .. N
<1>1. I \in SUBSET Nat
  OBVIOUS
<1>2. PICK z \in I : \A y \in I : z <= y
  BY <1>1, MinOfNats
<1>3. Min(I) \in I
  BY <1>2 DEF Min
<1> QED BY <1>3

\* The scan for a key meets it when it is there.
LEMMA ScanRight ==
    ASSUME NEW t, NEW g, SettledG(t, g), Inners(t), NEW k, NEW at, at = ScanFor(t, k)
    PROVE  /\ at[1] = NO_NODE => \A v : ~Has(t, k, v)
           /\ at[1] # NO_NODE => /\ at[1] \in LeafSet(t) /\ at[2] \in 1 .. Len(t.node[at[1]].keys)
                                 /\ t.node[at[1]].keys[at[2]] = k
<1>1. PICK c, N, I, i : c = Chain(t) /\ N = Len(c) /\ I = {j \in 1 .. N : Contains(t.node[c[j]].keys, k)}
                        /\ i = SelectInSeq(c, LAMBDA l : Contains(t.node[l].keys, k))
  OBVIOUS
<1>2. TreeInv(t, g, {t.root}) /\ Arena(t)
  BY DEF SettledG, TreeInv
<1>3. c \in Seq(LeafSet(t)) /\ N \in Nat /\ \A l \in LeafSet(t) : \E j \in 1 .. N : c[j] = l
  BY <1>1, <1>2, ChainTiles, ChainHasLeaves
<1>4. i = IF I # {} THEN Min(I) ELSE 0
  BY <1>1 DEF SelectInSeq
<1>5. I \subseteq 1 .. N
  BY <1>1
<1>6. CASE I = {}
  <2>1. at = <<NO_NODE, 1>>
    BY <1>1, <1>4, <1>6 DEF ScanFor
  <2>2. ASSUME NEW v, Has(t, k, v) PROVE FALSE
    <3>1. PICK l \in LeafSet(t) : \E j \in 1 .. Len(t.node[l].keys) : t.node[l].keys[j] = k
      BY <2>2 DEF Has
    <3>2. PICK j \in 1 .. N : c[j] = l
      BY <3>1, <1>3
    <3>3. j \in I
      BY <3>1, <3>2, <1>1 DEF Contains
    <3> QED BY <3>3, <1>6
  <2> QED BY <2>1, <2>2
<1>7. CASE I # {}
  <2>1. i \in I /\ i \in 1 .. N
    BY <1>3, <1>4, <1>5, <1>7, MinSlot
  <2>2. PICK l : l = c[i]
    OBVIOUS
  <2>3. l \in LeafSet(t) /\ \E j \in 1 .. Len(t.node[l].keys) : t.node[l].keys[j] = k
    <3>1. l \in LeafSet(t)
      BY <2>1, <2>2, <1>1, <1>3
    <3>2. Contains(t.node[l].keys, k)
      BY <2>1, <2>2, <1>1
    <3> QED BY <3>1, <3>2 DEF Contains
  <2>4. i # 0
    BY <2>1
  <2>5. PICK s : s = SelectInSeq(t.node[l].keys, LAMBDA j : j = k)
    OBVIOUS
  <2>6. at = <<l, s>>
    BY <2>2, <2>4, <2>5, <1>1 DEF ScanFor
  <2>7. t.node[l].keys \in Seq(Key)
    BY <2>3, <1>2, LeafRun
  <2>8. s \in 1 .. Len(t.node[l].keys) /\ t.node[l].keys[s] = k
    BY <2>3, <2>5, <2>7, SlotOfElement
  <2>9. l # NO_NODE
    BY <2>3, <1>2, ArenaParts DEF LeafSet
  <2> QED BY <2>3, <2>6, <2>8, <2>9
<1> QED BY <1>6, <1>7

\* A tree with entries has a leaf that is not empty, and a walk along all
\* leaves meets one.
LEMMA NonEmptyRight ==
    ASSUME NEW t, NEW g, SettledG(t, g), t.len > 0, NEW c, c \in Seq(LeafSet(t)),
           \A l \in LeafSet(t) : \E j \in 1 .. Len(c) : c[j] = l, NEW l, l = NonEmptyOf(t, c)
    PROVE  l \in LeafSet(t) /\ 1 \in 1 .. Len(t.node[l].keys) /\ Len(t.node[l].keys) \in 1 .. Len(t.node[l].keys)
<1>1. PICK N, I, i : N = Len(c) /\ I = {j \in 1 .. N : t.node[c[j]].keys # <<>>}
                     /\ i = SelectInSeq(c, LAMBDA m : t.node[m].keys # <<>>)
  OBVIOUS
<1>2. TreeInv(t, g, {t.root}) /\ Arena(t) /\ t.len = Cardinality(KeySet(t))
  BY DEF SettledG, TreeInv
<1>3. KeySet(t) # {}
  <2>1. KeySet(t) = {} => Cardinality(KeySet(t)) = 0
    BY FS_EmptySet
  <2>2. ~(0 > 0)
    OBVIOUS
  <2> QED BY <2>1, <2>2, <1>2
<1>4. PICK m \in LeafSet(t) : t.node[m].keys # <<>>
  <2>101. PICK k : k \in KeySet(t)
    BY <1>3
  <2>102. k \in UNION {ToSet(t.node[m].keys) : m \in LeafSet(t)}
    BY <2>101 DEF KeySet
  <2>1. PICK m : m \in LeafSet(t) /\ k \in ToSet(t.node[m].keys)
    BY <2>102
  <2>2. PICK j : j \in DOMAIN t.node[m].keys
    BY <2>1 DEF ToSet
  <2>3. t.node[m].keys # <<>>
    BY <2>2
  <2> QED BY <2>1, <2>3
<1>5. PICK j \in 1 .. N : c[j] = m
  BY <1>1, <1>4
<1>6. j \in I /\ I \subseteq 1 .. N /\ N \in Nat
  BY <1>1, <1>4, <1>5
<1>7. i = Min(I)
  BY <1>1, <1>6 DEF SelectInSeq
<1>8. i \in I /\ i \in 1 .. N
  BY <1>6, <1>7, MinSlot
<1>9. l = c[i]
  BY <1>1 DEF NonEmptyOf
<1>10. l \in LeafSet(t) /\ t.node[l].keys # <<>>
  BY <1>1, <1>8, <1>9
<1>11. PICK ks, L : ks = t.node[l].keys /\ L = Len(ks)
  OBVIOUS
<1>12. ks \in Seq(Key) /\ ks # <<>>
  BY <1>2, <1>10, <1>11, LeafRun
<1>13. L \in Nat \ {0}
  BY <1>11, <1>12, LastFront
<1>14. 1 \in 1 .. L /\ L \in 1 .. L
  BY ONLY <1>13
<1> QED BY <1>10, <1>11, <1>14

\* The two walks.
LEMMA EndsRight ==
    ASSUME NEW t, NEW g, SettledG(t, g), Inners(t), t.len > 0, NEW c, c = Chain(t) \/ c = BackChain(t), NEW l, l = NonEmptyOf(t, c)
    PROVE  l \in LeafSet(t) /\ 1 \in 1 .. Len(t.node[l].keys) /\ Len(t.node[l].keys) \in 1 .. Len(t.node[l].keys)
<1>1. TreeInv(t, g, {t.root})
  BY DEF SettledG
<1>2. PICK b, N, L, d : b = Chain(t) /\ N = Len(b) /\ L = LeafSet(t) /\ d = Reverse(b)
  OBVIOUS
<1>3. b \in Seq(L) /\ N \in Nat /\ \A m \in L : \E j \in 1 .. N : b[j] = m
  BY <1>1, <1>2, ChainTiles, ChainHasLeaves
<1>4. CASE c = b
  BY <1>2, <1>3, <1>4, NonEmptyRight
<1>5. CASE c = d
  <2>1. d \in Seq(L) /\ Len(d) = N /\ \A i \in 1 .. N : d[i] = b[(N - i) + 1] /\ (N - i) + 1 \in 1 .. N
    <3>1. Reversed(L, b, N, d)
      BY ONLY <1>2, <1>3, ReverseProps
    <3> QED BY <3>1 DEF Reversed
  <2>2. ASSUME NEW m \in L PROVE \E j \in 1 .. N : d[j] = m
    <3>1. PICK j \in 1 .. N : b[j] = m
      BY <1>3, <2>2
    <3>2. PICK i : i = (N - j) + 1
      OBVIOUS
    <3>3. i \in 1 .. N /\ (N - i) + 1 = j
      BY <3>1, <3>2, <1>3
    <3> QED BY <3>1, <3>3, <2>1
  <2>3. /\ c \in Seq(LeafSet(t)) /\ \A m \in LeafSet(t) : \E j \in 1 .. Len(c) : c[j] = m
    BY <2>1, <2>2, <1>2, <1>5
  <2> QED BY <2>3, NonEmptyRight
<1> QED BY <1>1, <1>2, <1>4, <1>5, BackIsReverse
==============================================================================
