------------------------- MODULE PerfectMapsProofs --------------------------
(***************************************************************************)
(* Theorems about the perfect-hash containers, for every set of keys,      *)
(* every hash function and mixer, every number of seeds, displacements,    *)
(* threads and slots per bucket.                                           *)
(*                                                                         *)
(* First the CHD construction: every step of it, in any interleaving of    *)
(* the parallel workers, preserves ChdInv, and ChdInv implies that a       *)
(* finished function is perfect.  Then the two bucketed constructions,     *)
(* whose loops preserve OneOf and TwoOf.  Last the containers and the      *)
(* theorems about the specification.                                       *)
(***************************************************************************)
EXTENDS PerfectMaps, FiniteSetTheorems, SequenceTheorems, TLAPS

(***************************************************************************)
(* The CHD construction.                                                   *)
(***************************************************************************)

\* There is at least one bucket.
LEMMA BucketCount ==
    ASSUME NEW n \in Nat, NEW lambda \in Nat \ {0}
    PROVE  Buckets(n, lambda) \in Nat \ {0}
<1> DEFINE x == (10 * n + lambda - 1) \div lambda
<1>1. x \in Int
  OBVIOUS
<1>2. \E y \in {1, x} : \A z \in {1, x} : y >= z
  BY <1>1
<1>3. Max({1, x}) \in {1, x} /\ \A z \in {1, x} : Max({1, x}) >= z
  BY <1>2 DEF Max
<1>4. Max({1, x}) >= 1 /\ Max({1, x}) \in Int
  BY <1>1, <1>3
<1> QED BY <1>4 DEF Buckets

\* The buckets of the build.
LEMMA BucketsOfBuild ==
    ASSUME hashes \in Seq(Hashes)
    PROVE  r \in Nat \ {0}
<1>1. Len(hashes) \in Nat /\ 10 * Lambda \in Nat \ {0}
  BY ChdAssumption
<1> QED BY <1>1, BucketCount DEF r

\* A hash goes to one of the buckets.
LEMMA BucketRangeAny ==
    ASSUME NEW h \in Hashes, NEW s \in 0..MaxSeeds, NEW n \in Nat \ {0}
    PROVE  bucket_of(h, s, n) \in 0..n - 1
<1>1. Mix[<<h, s>>] \in Nat
  BY MixAssumption
<1> QED BY <1>1 DEF bucket_of

\* The same for the seeds that are retried.
LEMMA BucketRange ==
    ASSUME NEW h \in Hashes, NEW s \in Seeds, NEW n \in Nat \ {0}
    PROVE  bucket_of(h, s, n) \in 0..n - 1
<1>1. s \in 0..MaxSeeds
  BY MixAssumption DEF Seeds
<1> QED BY <1>1, BucketRangeAny

\* A displaced hash goes to one of the slots.
LEMMA SlotRange ==
    ASSUME NEW h \in Hashes, NEW s \in Seeds, NEW d \in 0..MaxDisp, NEW n \in Nat \ {0}
    PROVE  slot_of(h, s, d, n) \in 0..n - 1
<1>1. s \in 0..MaxSeeds
  BY MixAssumption DEF Seeds
<1>2. SlotMix[<<h, s, d>>] \in Nat
  BY <1>1, ChdAssumption
<1> QED BY <1>2 DEF slot_of

\* The hashes of the build.
LEMMA HashRange ==
    ASSUME hashes \in Seq(Hashes)
    PROVE  Range(hashes) \subseteq Hashes /\ IsFiniteSet(Range(hashes))
<1>1. Range(hashes) \subseteq Hashes
  BY DEF Range
<1>2. hashes \in [1..Len(hashes) -> Range(hashes)]
  BY DEF Range
<1>3. hashes \in Surjection(1..Len(hashes), Range(hashes))
  BY <1>2 DEF Surjection, Range
<1>4. IsFiniteSet(1..Len(hashes))
  BY FS_Interval
<1> QED BY <1>1, <1>3, <1>4, FS_Surjection

\* A listing of a finite set has every element, once.
LEMMA Listing ==
    ASSUME NEW S, IsFiniteSet(S), NEW o \in SetToSeqs(S)
    PROVE  /\ o \in Seq(S)
           /\ Range(o) = S
           /\ \A i, j \in DOMAIN o : o[i] = o[j] => i = j
<1>1. Cardinality(S) \in Nat
  BY FS_CardinalityType
<1>2. o \in [1..Cardinality(S) -> S] /\ \A i, j \in 1..Cardinality(S) : i # j => o[i] # o[j]
  BY DEF SetToSeqs
<1>3. IsFiniteSet(1..Cardinality(S)) /\ Cardinality(1..Cardinality(S)) = Cardinality(S)
  BY <1>1, FS_Interval
<1>4. o \in Injection(1..Cardinality(S), S)
  BY <1>2 DEF Injection, IsInjective
<1>5. o \in Surjection(1..Cardinality(S), S)
  BY <1>3, <1>4, FS_Injection
<1>6. Range(o) = S
  BY <1>2, <1>5 DEF Surjection, Range
<1>7. o \in Seq(S)
  BY <1>1, <1>2
<1> QED BY <1>2, <1>6, <1>7

\* The buckets that hold a hash, whatever the order they are taken in.
LEMMA OrderListsAll ==
    ASSUME hashes \in Seq(Hashes), NEW s \in Seeds, NEW o \in Orders(s)
    PROVE  /\ o \in Seq(0..r - 1)
           /\ \A i, j \in DOMAIN o : o[i] = o[j] => i = j
           /\ \A h \in Range(hashes) : bucket_of(h, s, r) \in Range(o)
<1> DEFINE used == {b \in 0..r - 1 : KeysOf(s, b) # {}}
<1>1. r \in Nat \ {0}
  BY BucketsOfBuild
<1>2. IsFiniteSet(0..r - 1) /\ used \in SUBSET (0..r - 1)
  BY <1>1, FS_Interval
<1>3. IsFiniteSet(used)
  BY <1>2, FS_Subset
<1>4. o \in SetToSeqs(used)
  BY DEF Orders
<1>5. /\ o \in Seq(used)
      /\ Range(o) = used
      /\ \A i, j \in DOMAIN o : o[i] = o[j] => i = j
  BY <1>3, <1>4, Listing
<1>6. \A h \in Range(hashes) : bucket_of(h, s, r) \in 0..r - 1
  BY <1>1, HashRange, BucketRange
<1>7. \A h \in Range(hashes) : h \in KeysOf(s, bucket_of(h, s, r))
  BY DEF KeysOf
<1>8. \A h \in Range(hashes) : bucket_of(h, s, r) \in used
  BY <1>6, <1>7
<1>9. o \in Seq(0..r - 1)
  BY <1>2, <1>5, SeqMonotonic
<1> QED BY <1>5, <1>8, <1>9

\* What is left of a listing without its head.
LEMMA TailOfListing ==
    ASSUME NEW S, NEW o \in Seq(S), o # <<>>, \A i, j \in DOMAIN o : o[i] = o[j] => i = j
    PROVE  /\ Head(o) \in S
           /\ Tail(o) \in Seq(S)
           /\ \A i, j \in DOMAIN Tail(o) : Tail(o)[i] = Tail(o)[j] => i = j
           /\ Range(o) = Range(Tail(o)) \cup {Head(o)}
           /\ Head(o) \notin Range(Tail(o))
<1>1. /\ Head(o) \in S /\ Tail(o) \in Seq(S) /\ Len(Tail(o)) = Len(o) - 1
      /\ \A i \in 1..Len(Tail(o)) : Tail(o)[i] = o[i + 1]
  BY HeadTailProperties
<1>2. PICK t \in Seq(S) : t = Tail(o)
  BY <1>1
<1>3. PICK n \in Nat \ {0} : n = Len(o)
  BY EmptySeq
<1>4. /\ DOMAIN o = 1..n /\ Head(o) = o[1] /\ DOMAIN t = 1..n - 1
      /\ \A i \in 1..n - 1 : t[i] = o[i + 1]
  BY <1>1, <1>2, <1>3
<1>5. \A i, j \in 1..n - 1 : t[i] = t[j] => i = j
  <2> SUFFICES ASSUME NEW i \in 1..n - 1, NEW j \in 1..n - 1, t[i] = t[j] PROVE i = j
    OBVIOUS
  <2>1. o[i + 1] = o[j + 1] /\ i + 1 \in DOMAIN o /\ j + 1 \in DOMAIN o
    BY <1>4
  <2>2. i + 1 = j + 1
    BY <2>1
  <2> QED BY <2>2
<1>6. \A x \in Range(t) : x \in Range(o) /\ x # o[1]
  <2> SUFFICES ASSUME NEW i \in 1..n - 1 PROVE o[i + 1] \in Range(o) /\ o[i + 1] # o[1]
    BY <1>4 DEF Range
  <2>1. i + 1 \in 1..n /\ 1 \in 1..n /\ i + 1 # 1
    OBVIOUS
  <2> QED BY <2>1, <1>4 DEF Range
<1>7. \A x \in Range(o) : x = o[1] \/ x \in Range(t)
  <2> SUFFICES ASSUME NEW i \in 1..n PROVE o[i] = o[1] \/ o[i] \in Range(t)
    BY <1>4 DEF Range
  <2>1. CASE i # 1
    <3>1. PICK j \in 1..n - 1 : i = j + 1
      BY <2>1
    <3>2. o[i] = t[j] /\ j \in DOMAIN t
      BY <3>1, <1>4
    <3> QED BY <3>2 DEF Range
  <2> QED BY <2>1
<1>8. o[1] \in Range(o)
  BY <1>4 DEF Range
<1>9. \A i, j \in DOMAIN t : t[i] = t[j] => i = j
  BY <1>4, <1>5
<1>10. Range(o) = Range(t) \cup {o[1]} /\ o[1] \notin Range(t)
  BY <1>6, <1>7, <1>8
<1> QED BY <1>1, <1>2, <1>4, <1>9, <1>10

-----------------------------------------------------------------------------
(***************************************************************************)
(* What is known of an attempt depends on its own record and on the input. *)
(***************************************************************************)
LEMMA SaneKept ==
    ASSUME NEW t \in Seeds, Sane(t), hashes' = hashes, m' = m, attempt'[t] = attempt[t]
    PROVE  Sane(t)'
<1>1. r' = r
  BY DEF r
<1>2. Placed(t)' = Placed(t)
  BY <1>1 DEF Placed
<1>3. \A h : Address(t, h)' = Address(t, h)
  BY <1>1 DEF Address
<1> QED BY <1>1, <1>2, <1>3 DEF Sane

\* A bucket whose displacement fits sends its hashes to different slots.
LEMMA FitIsInjective ==
    ASSUME hashes \in Seq(Hashes), NEW s \in Seeds, NEW b, NEW d, Fits(s, b, d),
           NEW g \in KeysOf(s, b), NEW h \in KeysOf(s, b),
           slot_of(g, s, d, m) = slot_of(h, s, d, m)
    PROVE  g = h
<1> DEFINE to == {slot_of(x, s, d, m) : x \in KeysOf(s, b)}
           f == [x \in KeysOf(s, b) |-> slot_of(x, s, d, m)]
<1>1. IsFiniteSet(KeysOf(s, b))
  <2>1. KeysOf(s, b) \in SUBSET Range(hashes)
    BY DEF KeysOf
  <2> QED BY <2>1, HashRange, FS_Subset
<1>2. f \in Surjection(KeysOf(s, b), to)
  BY DEF Surjection
<1>3. Cardinality(to) = Cardinality(KeysOf(s, b))
  BY DEF Fits
<1>4. f \in Injection(KeysOf(s, b), to)
  <2> HIDE DEF f, to
  <2> QED BY <1>1, <1>2, <1>3, FS_Surjection
<1> QED BY <1>4 DEF Injection, IsInjective

\* The bucket at the head of the order is placed.
LEMMA BucketPlaced ==
    ASSUME hashes \in Seq(Hashes), m \in Nat \ {0}, UNCHANGED <<hashes, m>>,
           NEW s \in Seeds, Sane(s), attempt[s] \in Attempts, attempt[s].order # <<>>,
           NEW b, b = Head(attempt[s].order), NEW d \in 0..MaxDisp, Fits(s, b, d),
           attempt'[s].order = Tail(attempt[s].order),
           attempt'[s].at = "searching",
           attempt'[s].disp = [attempt[s].disp EXCEPT ![b] = d],
           attempt'[s].occupied =
             attempt[s].occupied \cup {slot_of(h, s, d, m) : h \in KeysOf(s, b)}
    PROVE  Sane(s)'
<1> DEFINE D == attempt[s].disp
<1>0. PICK o : o = attempt[s].order
  OBVIOUS
<1>1. o \in Seq(0..r - 1) /\ o # <<>> /\ \A i, j \in DOMAIN o : o[i] = o[j] => i = j
  BY <1>0 DEF Attempts, Sane
<1>2. b \in 0..r - 1 /\ \A i, j \in DOMAIN Tail(o) : Tail(o)[i] = Tail(o)[j] => i = j
  <2>1. Head(o) \in 0..r - 1 /\ \A i, j \in DOMAIN Tail(o) : Tail(o)[i] = Tail(o)[j] => i = j
    <3>1. PICK S : S = 0..r - 1
      OBVIOUS
    <3>2. o \in Seq(S) /\ o # <<>>
      BY <1>1, <3>1
    <3>3. Head(o) \in S
      BY <3>2, HeadTailProperties
    <3>4. \A i, j \in DOMAIN Tail(o) : Tail(o)[i] = Tail(o)[j] => i = j
      BY <1>1, TailOfListing
    <3> QED BY <3>1, <3>3, <3>4
  <2> QED BY <1>0, <2>1
<1>5. Range(o) = Range(Tail(o)) \cup {b} /\ b \notin Range(Tail(o))
  BY <1>0, <1>1, TailOfListing
<1>6. r' = r /\ attempt'[s].disp \in [0..r - 1 -> 0..MaxDisp]
  BY <1>2 DEF r, Sane
<1>7. \A h \in Placed(s) : bucket_of(h, s, r) # b
  BY <1>0, <1>5 DEF Placed
<1>8. Placed(s)' = Placed(s) \cup KeysOf(s, b)
  BY <1>0, <1>5, <1>6 DEF Placed, KeysOf
<1>9. \A h \in Range(hashes) : bucket_of(h, s, r) \in 0..r - 1
  BY HashRange, BucketsOfBuild, BucketRange
<1>10. D \in [0..r - 1 -> 0..MaxDisp]
  BY DEF Sane
<1>11. \A h \in Placed(s) : Address(s, h)' = Address(s, h)
  BY <1>6, <1>7, <1>9, <1>10 DEF Address, Placed
<1>12. \A h \in KeysOf(s, b) : Address(s, h)' = slot_of(h, s, d, m)
  BY <1>2, <1>6, <1>10 DEF Address, KeysOf
<1>13. \A h \in Placed(s) : Address(s, h)' \in attempt[s].occupied
  BY <1>11 DEF Sane
<1>14. \A h \in KeysOf(s, b) : Address(s, h)' \notin attempt[s].occupied
  BY <1>12 DEF Fits
<1>15. \A h \in Placed(s)' : Address(s, h)' \in attempt'[s].occupied
  BY <1>8, <1>12, <1>13
<1>16. \A g, h \in Placed(s)' : Address(s, g)' = Address(s, h)' => g = h
  <2> SUFFICES ASSUME NEW g \in Placed(s)', NEW h \in Placed(s)', Address(s, g)' = Address(s, h)'
               PROVE  g = h
    OBVIOUS
  <2>1. CASE g \in Placed(s) /\ h \in Placed(s)
    BY <2>1, <1>11 DEF Sane
  <2>2. CASE g \in KeysOf(s, b) /\ h \in KeysOf(s, b)
    BY <2>2, <1>12, FitIsInjective
  <2> QED BY <2>1, <2>2, <1>8, <1>13, <1>14
<1> QED BY <1>0, <1>2, <1>6, <1>15, <1>16 DEF Sane

-----------------------------------------------------------------------------
(***************************************************************************)
(* The steps.                                                              *)
(***************************************************************************)
Live == {"searching", "won", "delivered"}

\* A step of one attempt leaves the others alone.
LEMMA OneAttempt ==
    ASSUME ChdInv, UNCHANGED <<hashes, m>>, NEW s \in Seeds, NEW a \in Attempts,
           attempt' = [attempt EXCEPT ![s] = a],
           a.at \in Live => Sane(s)'
    PROVE  /\ attempt' \in [Seeds -> Attempts']
           /\ \A t \in Seeds : attempt'[t].at \in Live => Sane(t)'
           /\ attempt'[s] = a
           /\ \A t \in Seeds : t # s => attempt'[t] = attempt[t]
<1>1. attempt \in [Seeds -> Attempts]
  BY DEF ChdInv
<1>2. Attempts' = Attempts
  BY DEF Attempts, r
<1>3. attempt' \in [Seeds -> Attempts] /\ attempt'[s] = a
      /\ \A t \in Seeds : t # s => attempt'[t] = attempt[t]
  BY <1>1
<1>4. ASSUME NEW t \in Seeds, attempt'[t].at \in Live PROVE Sane(t)'
  <2>1. CASE t = s
    BY <1>3, <1>4, <2>1
  <2>2. CASE t # s
    <3>1. attempt'[t] = attempt[t] /\ attempt[t].at \in Live
      BY <1>3, <1>4, <2>2
    <3>2. Sane(t)
      BY <3>1 DEF ChdInv, Live
    <3> QED BY <3>1, <3>2, SaneKept
  <2> QED BY <2>1, <2>2
<1> QED BY <1>2, <1>3, <1>4

\* An attempt that only changes its state.
LEMMA OnlyAt ==
    ASSUME ChdInv, NEW s \in Seeds,
           NEW x \in {"won", "delivered", "exhausted", "stopped", "skipped"},
           attempt' = [attempt EXCEPT ![s].at = x], UNCHANGED <<hashes, m>>,
           x \in Live => attempt[s].at \in Live /\ attempt[s].order = <<>>
    PROVE  /\ attempt' \in [Seeds -> Attempts']
           /\ \A t \in Seeds : attempt'[t].at \in Live => Sane(t)'
           /\ attempt'[s].at = x
           /\ \A t \in Seeds : t # s => attempt'[t] = attempt[t]
<1>1. attempt \in [Seeds -> Attempts] /\ attempt[s] \in Attempts
  BY DEF ChdInv
<1>2. PICK a : a = [attempt[s] EXCEPT !.at = x]
  OBVIOUS
<1>3. /\ a \in Attempts /\ a.at = x
      /\ a.order = attempt[s].order /\ a.disp = attempt[s].disp
      /\ a.occupied = attempt[s].occupied
  BY <1>1, <1>2 DEF Attempts
<1>4. attempt' = [attempt EXCEPT ![s] = a] /\ attempt'[s] = a
  BY <1>1, <1>2
<1>5. ASSUME x \in Live PROVE Sane(s)'
  <2>1. Sane(s)
    BY <1>5 DEF ChdInv, Live
  <2>2. Placed(s)' = Placed(s) /\ r' = r
    BY <1>3, <1>4 DEF Placed, r
  <2>3. \A h : Address(s, h)' = Address(s, h)
    BY <1>3, <1>4, <2>2 DEF Address
  <2> QED BY <1>3, <1>4, <1>5, <2>1, <2>2, <2>3 DEF Sane
<1> QED BY <1>3, <1>4, <1>5, OneAttempt

\* Nothing is known, and nothing has to be, of attempts that have not begun.
LEMMA AllWaiting ==
    ASSUME hashes \in Seq(Hashes), attempt = [s \in Seeds |-> Waiting]
    PROVE  /\ attempt \in [Seeds -> Attempts]
           /\ \A s \in Seeds : attempt[s].at = "waiting"
<1>1. <<>> \in Seq(0..r - 1)
  BY EmptySeq
<1>2. Waiting \in Attempts /\ Waiting.at = "waiting"
  BY <1>1 DEF Waiting, Attempts
<1> QED BY <1>2

\* new.
LEMMA ChdInvInit == ChdInit => ChdInv
<1> SUFFICES ASSUME ChdInit PROVE ChdInv
  OBVIOUS
<1>1. hashes \in Seq(Hashes) /\ Len(hashes) <= m /\ m \in Nat
  BY EmptySeq DEF ChdInit
<1>2. attempt \in [Seeds -> Attempts] /\ \A s \in Seeds : attempt[s].at = "waiting"
  BY <1>1, AllWaiting DEF ChdInit
<1>3. OtherSeed \notin Seeds
  BY MixAssumption DEF OtherSeed, Seeds
<1>4. Handed /\ ExhaustedIsHonest
  BY <1>2, <1>3 DEF Handed, ExhaustedIsHonest, ChdInit
<1> QED BY <1>1, <1>2, <1>4 DEF ChdInv, ChdInit

\* build_with_profile before the seeds.
LEMMA StartBuildInv ==
    ASSUME ChdInv, NEW hs \in Seq(Hashes), NEW size \in Nat, StartBuild(hs, size)
    PROVE  ChdInv'
<1>1. /\ outcome = "idle" /\ size >= Len(hs) /\ hashes' = hs /\ m' = size
      /\ outcome' \in {"ok", "duplicate", "building"}
      /\ (outcome' = "ok" => hs = <<>>) /\ (outcome' = "building" => hs # <<>>)
      /\ UNCHANGED <<parallel, attempt, cancelled, found>>
  BY DEF StartBuild
<1>2. attempt = [s \in Seeds |-> Waiting]
  BY <1>1 DEF ChdInv
<1>3. attempt' \in [Seeds -> Attempts'] /\ \A s \in Seeds : attempt'[s].at = "waiting"
  <2>1. hashes' \in Seq(Hashes) /\ attempt' = [s \in Seeds |-> Waiting]
    BY <1>1, <1>2
  <2>2. <<>> \in Seq(0..r' - 1)
    BY EmptySeq
  <2>3. Waiting \in Attempts' /\ Waiting.at = "waiting"
    BY <2>2 DEF Waiting, Attempts
  <2> QED BY <2>1, <2>3
<1>5. Handed' /\ ExhaustedIsHonest'
  BY <1>1, <1>3 DEF ChdInv, Handed, ExhaustedIsHonest
<1>6. attempt' = [s \in Seeds |-> Waiting]
  BY <1>1, <1>2
<1> QED BY <1>1, <1>3, <1>5, <1>6 DEF ChdInv

\* The start of a seed: every hash is waiting for its bucket.
LEMMA StartSeedInv ==
    ASSUME ChdInv, NEW s \in Seeds, StartSeed(s)
    PROVE  ChdInv'
<1>1. /\ outcome = "building" /\ attempt[s].at = "waiting"
      /\ UNCHANGED <<hashes, m, parallel, cancelled, found, outcome>>
  BY DEF StartSeed
<1>2. hashes \in Seq(Hashes) /\ attempt \in [Seeds -> Attempts] /\ attempt[s] \in Attempts
  BY DEF ChdInv
<1>3. CASE parallel /\ cancelled /\ attempt' = [attempt EXCEPT ![s].at = "stopped"]
  <2>1. /\ attempt' \in [Seeds -> Attempts']
        /\ \A t \in Seeds : attempt'[t].at \in Live => Sane(t)'
        /\ attempt'[s].at = "stopped"
        /\ \A t \in Seeds : t # s => attempt'[t] = attempt[t]
    BY <1>1, <1>3, OnlyAt DEF Live
  <2>2. PICK w \in Seeds : attempt[w].at \in {"won", "delivered"}
    BY <1>3 DEF ChdInv, Handed
  <2>3. w # s /\ attempt'[w].at \in {"won", "delivered"}
    BY <1>1, <2>1, <2>2
  <2>4. Handed' /\ ExhaustedIsHonest'
    BY <1>1, <2>1, <2>3 DEF ChdInv, Handed, ExhaustedIsHonest
  <2>5. hashes # <<>>
    BY <2>2 DEF ChdInv, Waiting
  <2> QED BY <1>1, <2>1, <2>4, <2>5 DEF ChdInv, Live
<1>4. ASSUME NEW o \in Orders(s),
             attempt' = [attempt EXCEPT
               ![s] = [Waiting EXCEPT !.at = "searching", !.order = o,
                                      !.disp = [b \in 0..r - 1 |-> 0]]]
      PROVE  ChdInv'
  <2>1. PICK a : a = [Waiting EXCEPT !.at = "searching", !.order = o,
                                     !.disp = [b \in 0..r - 1 |-> 0]]
    OBVIOUS
  <2>2. /\ o \in Seq(0..r - 1)
        /\ \A i, j \in DOMAIN o : o[i] = o[j] => i = j
        /\ \A h \in Range(hashes) : bucket_of(h, s, r) \in Range(o)
    BY <1>2, OrderListsAll
  <2>3. a.at = "searching" /\ a.order = o /\ a.disp = [b \in 0..r - 1 |-> 0]
        /\ a.d = 0 /\ a.occupied = {}
        /\ a = [at |-> "searching", order |-> o, d |-> 0, occupied |-> {},
                disp |-> [b \in 0..r - 1 |-> 0]]
    BY <2>1 DEF Waiting
  <2>4. a.disp \in [0..r - 1 -> 0..MaxDisp]
    BY <2>3, ChdAssumption
  <2>5. a \in Attempts
    BY <2>2, <2>3, <2>4 DEF Attempts
  <2>6. attempt' = [attempt EXCEPT ![s] = a] /\ attempt'[s] = a
    BY <1>2, <1>4, <2>1
  <2>7. Sane(s)'
    <3>1. r' = r
      BY <1>1 DEF r
    <3>2. Placed(s)' = {}
      BY <1>1, <2>2, <2>3, <2>6, <3>1 DEF Placed
    <3> QED BY <2>2, <2>3, <2>4, <2>6, <3>1, <3>2 DEF Sane
  <2>8. /\ attempt' \in [Seeds -> Attempts']
        /\ \A t \in Seeds : attempt'[t].at \in Live => Sane(t)'
        /\ \A t \in Seeds : t # s => attempt'[t] = attempt[t]
    BY <1>1, <2>5, <2>6, <2>7, OneAttempt
  <2>9. hashes # <<>>
    BY <1>1 DEF ChdInv
  <2>10. Handed' /\ ExhaustedIsHonest'
    BY <1>1, <2>3, <2>6, <2>8 DEF ChdInv, Handed, ExhaustedIsHonest
  <2> QED BY <1>1, <2>8, <2>9, <2>10 DEF ChdInv, Live
<1> QED BY <1>3, <1>4 DEF StartSeed

\* An attempt gives up, or is stopped on behalf of a winner.
LEMMA GiveUpInv ==
    ASSUME ChdInv, NEW s \in Seeds, attempt[s].at = "searching",
           NEW x \in {"exhausted", "stopped"}, x = "stopped" => cancelled,
           attempt' = [attempt EXCEPT ![s].at = x],
           UNCHANGED <<hashes, m, parallel, cancelled, found, outcome>>
    PROVE  ChdInv'
<1>1. /\ attempt' \in [Seeds -> Attempts']
      /\ \A t \in Seeds : attempt'[t].at \in Live => Sane(t)'
      /\ attempt'[s].at = x
      /\ \A t \in Seeds : t # s => attempt'[t] = attempt[t]
  BY OnlyAt DEF Live
<1>2. hashes # <<>> /\ outcome \notin {"idle", "duplicate", "exhausted"}
  BY DEF ChdInv, Waiting, ExhaustedIsHonest
<1>3. Handed' /\ ExhaustedIsHonest'
  <2>1. cancelled => \E w \in Seeds : w # s /\ attempt'[w].at \in {"won", "delivered"}
    BY <1>1 DEF ChdInv, Handed
  <2>2. found \in Seeds => attempt'[found].at = "delivered"
    BY <1>1 DEF ChdInv, Handed
  <2>3. (\E t \in Seeds : attempt'[t].at \in {"delivered", "skipped"}) => found \in Seeds
    BY <1>1 DEF ChdInv, Handed
  <2>4. Handed'
    BY <2>1, <2>2, <2>3 DEF Handed
  <2>5. ASSUME NEW t \in Seeds, attempt'[t].at = "stopped"
        PROVE  \E w \in Seeds : attempt'[w].at \in {"won", "delivered"}
    <3>1. CASE t = s
      BY <1>1, <2>1, <2>5, <3>1
    <3>2. CASE t # s
      <4>1. PICK w \in Seeds : attempt[w].at \in {"won", "delivered"}
        BY <1>1, <2>5, <3>2 DEF ChdInv, ExhaustedIsHonest
      <4> QED BY <4>1, <1>1
    <3> QED BY <3>1, <3>2
  <2> QED BY <1>2, <2>4, <2>5 DEF ExhaustedIsHonest
<1> QED BY <1>1, <1>2, <1>3 DEF ChdInv, Live

\* One displacement tried.
LEMMA TryDisplacementInv ==
    ASSUME ChdInv, NEW s \in Seeds, TryDisplacement(s)
    PROVE  ChdInv'
<1>1. /\ attempt[s].at = "searching" /\ attempt[s].order # <<>>
      /\ UNCHANGED <<hashes, m, parallel, cancelled, found, outcome>>
  BY DEF TryDisplacement
<1>2. CASE attempt' = [attempt EXCEPT ![s].at = "exhausted"]
  BY <1>1, <1>2, GiveUpInv
<1>3. CASE cancelled /\ attempt' = [attempt EXCEPT ![s].at = "stopped"]
  BY <1>1, <1>3, GiveUpInv
<1>4. PICK b : b = Head(attempt[s].order)
  OBVIOUS
<1>5. PICK d : d = attempt[s].d
  OBVIOUS
<1>6. /\ attempt \in [Seeds -> Attempts] /\ attempt[s] \in Attempts /\ Sane(s)
      /\ hashes \in Seq(Hashes) /\ d \in Nat
  BY <1>1, <1>5 DEF ChdInv, Attempts
<1>7. hashes # <<>> /\ outcome \notin {"idle", "duplicate", "exhausted"}
  BY <1>1 DEF ChdInv, Waiting, ExhaustedIsHonest
<1>8. m \in Nat \ {0} /\ r \in Nat \ {0}
  <2>1. Len(hashes) # 0 /\ Len(hashes) \in Nat
    BY <1>6, <1>7, EmptySeq
  <2> QED BY <2>1, <1>6, BucketsOfBuild DEF ChdInv
<1>9. ASSUME NEW a \in Attempts, a.at = "searching", attempt' = [attempt EXCEPT ![s] = a], Sane(s)'
      PROVE  ChdInv'
  <2>1. /\ attempt' \in [Seeds -> Attempts']
        /\ \A t \in Seeds : attempt'[t].at \in Live => Sane(t)'
        /\ \A t \in Seeds : attempt'[t].at = attempt[t].at
    BY <1>1, <1>9, OneAttempt
  <2>2. Handed' /\ ExhaustedIsHonest'
    BY <1>1, <2>1 DEF ChdInv, Handed, ExhaustedIsHonest
  <2> QED BY <1>1, <1>7, <2>1, <2>2 DEF ChdInv, Live
<1>10. ASSUME d <= MaxDisp, Fits(s, b, d), NEW a,
              a = [attempt[s] EXCEPT !.order = Tail(@), !.d = 0,
                     !.occupied = @ \cup {slot_of(h, s, d, m) : h \in KeysOf(s, b)},
                     !.disp[b] = d],
              attempt' = [attempt EXCEPT ![s] = a]
       PROVE  ChdInv'
  <2>1. d \in 0..MaxDisp
    BY <1>6, <1>10, ChdAssumption
  <2>2. /\ a.order = Tail(attempt[s].order) /\ a.at = "searching" /\ a.d = 0
        /\ a.disp = [attempt[s].disp EXCEPT ![b] = d]
        /\ a.occupied = attempt[s].occupied \cup {slot_of(h, s, d, m) : h \in KeysOf(s, b)}
    BY <1>1, <1>6, <1>10 DEF Attempts
  <2>3. attempt'[s] = a
    BY <1>6, <1>10
  <2>4. Sane(s)'
    BY <1>1, <1>4, <1>6, <1>8, <1>10, <2>1, <2>2, <2>3, BucketPlaced
  <2>5. a \in Attempts
    <3>1. attempt[s].order \in Seq(0..r - 1) /\ a.order \in Seq(0..r - 1)
      BY <1>1, <1>6, <2>2, HeadTailProperties DEF Attempts
    <3>2. a.disp \in [0..r - 1 -> 0..MaxDisp]
      BY <1>1, <2>3, <2>4 DEF Sane, r
    <3>3. \A h \in KeysOf(s, b) : slot_of(h, s, d, m) \in Nat
      BY <1>6, <1>8, <2>1, HashRange, SlotRange DEF KeysOf
    <3>4. a.occupied \subseteq Nat
      BY <1>6, <2>2, <3>3 DEF Attempts
    <3>5. a = [at |-> a.at, order |-> a.order, d |-> a.d, occupied |-> a.occupied, disp |-> a.disp]
      BY <1>6, <1>10 DEF Attempts
    <3>6. a.disp \in {<<>>} \cup [0..r - 1 -> 0..MaxDisp] /\ a.d \in Nat /\ a.occupied \in SUBSET Nat
      BY <2>2, <3>2, <3>4
    <3> QED BY <2>2, <3>1, <3>5, <3>6 DEF Attempts
  <2> QED BY <1>9, <1>10, <2>2, <2>4, <2>5
<1>11. ASSUME NEW a, a = [attempt[s] EXCEPT !.d = d + 1], attempt' = [attempt EXCEPT ![s] = a]
       PROVE  ChdInv'
  <2>1. /\ a \in Attempts /\ a.at = "searching" /\ a.order = attempt[s].order
        /\ a.disp = attempt[s].disp /\ a.occupied = attempt[s].occupied
    <3>1. PICK e \in Nat : e = d + 1
      BY <1>6
    <3>2. a = [attempt[s] EXCEPT !.d = e]
      BY <1>11, <3>1
    <3> QED BY <1>1, <1>6, <3>2 DEF Attempts
  <2>2. attempt'[s] = a
    BY <1>6, <1>11
  <2>3. Placed(s)' = Placed(s) /\ r' = r
    BY <1>1, <2>1, <2>2 DEF Placed, r
  <2>4. \A h : Address(s, h)' = Address(s, h)
    BY <1>1, <2>1, <2>2, <2>3 DEF Address
  <2>5. Sane(s)'
    BY <1>6, <2>1, <2>2, <2>3, <2>4 DEF Sane
  <2> QED BY <1>9, <1>11, <2>1, <2>5
<1>12. ASSUME d <= MaxDisp,
              attempt' = [attempt EXCEPT
                 ![s] = IF Fits(s, b, d)
                        THEN [attempt[s] EXCEPT !.order = Tail(@), !.d = 0,
                                !.occupied = @ \cup {slot_of(h, s, d, m) : h \in KeysOf(s, b)},
                                !.disp[b] = d]
                        ELSE [attempt[s] EXCEPT !.d = d + 1]]
       PROVE  ChdInv'
  <2>1. CASE Fits(s, b, d)
    BY <1>10, <1>12, <2>1
  <2>2. CASE ~Fits(s, b, d)
    BY <1>11, <1>12, <2>2
  <2> QED BY <2>1, <2>2
<1> QED BY <1>2, <1>3, <1>4, <1>5, <1>12 DEF TryDisplacement

\* An attempt goes on to "won", "delivered" or "skipped".
LEMMA AdvanceInv ==
    ASSUME ChdInv, NEW s \in Seeds, NEW x \in {"won", "delivered", "skipped"},
           attempt' = [attempt EXCEPT ![s].at = x],
           UNCHANGED <<hashes, m, parallel>>,
           x = "won" => attempt[s].at = "searching",
           x = "delivered" => attempt[s].at \in {"searching", "won"},
           x = "skipped" => attempt[s].at = "waiting" /\ outcome = "building",
           x \in Live => attempt[s].order = <<>>,
           cancelled' \in BOOLEAN, cancelled' => cancelled \/ x = "won",
           found' \in Seeds \cup {OtherSeed},
           found' \in Seeds => found' = found \/ (found' = s /\ x = "delivered"),
           found \in Seeds \/ x \in {"delivered", "skipped"} => found' \in Seeds,
           outcome' = outcome \/ (outcome' = "ok" /\ found' \in Seeds)
    PROVE  ChdInv'
<1>1. /\ attempt' \in [Seeds -> Attempts']
      /\ \A t \in Seeds : attempt'[t].at \in Live => Sane(t)'
      /\ attempt'[s].at = x
      /\ \A t \in Seeds : t # s => attempt'[t] = attempt[t]
  BY OnlyAt DEF Live
<1>2. hashes # <<>> /\ outcome \notin {"idle", "duplicate", "exhausted"}
  BY DEF ChdInv, Waiting, ExhaustedIsHonest
<1>3. OtherSeed \notin Seeds
  BY MixAssumption DEF OtherSeed, Seeds
<1>4. \A w \in Seeds : attempt[w].at \in {"won", "delivered"} =>
        attempt'[w].at \in {"won", "delivered"}
  BY <1>1
<1>5. found' \in Seeds => attempt'[found'].at = "delivered"
  <2> SUFFICES ASSUME found' \in Seeds PROVE attempt'[found'].at = "delivered"
    OBVIOUS
  <2>1. CASE found' = s /\ x = "delivered"
    BY <1>1, <2>1
  <2>2. CASE found' = found
    <3>1. attempt[found].at = "delivered" /\ found # s
      BY <2>2 DEF ChdInv, Handed
    <3> QED BY <1>1, <2>2, <3>1
  <2> QED BY <2>1, <2>2
<1>6. (\E t \in Seeds : attempt'[t].at \in {"delivered", "skipped"}) => found' \in Seeds
  BY <1>1 DEF ChdInv, Handed
<1>7. cancelled' => \E w \in Seeds : attempt'[w].at \in {"won", "delivered"}
  BY <1>1, <1>4 DEF ChdInv, Handed
<1>8. Handed'
  BY <1>5, <1>6, <1>7 DEF Handed
<1>9. ASSUME NEW t \in Seeds, attempt'[t].at = "stopped"
      PROVE  \E w \in Seeds : attempt'[w].at \in {"won", "delivered"}
  <2>1. attempt[t].at = "stopped"
    BY <1>1, <1>9
  <2>2. PICK w \in Seeds : attempt[w].at \in {"won", "delivered"}
    BY <2>1 DEF ChdInv, ExhaustedIsHonest
  <2> QED BY <1>4, <2>2
<1>10. ExhaustedIsHonest'
  BY <1>2, <1>9 DEF ExhaustedIsHonest
<1> QED BY <1>1, <1>2, <1>8, <1>10 DEF ChdInv, Live

\* try_build_seed returns Ok; rayon hands the result on, or a seed out.
LEMMA WinnerInv ==
    ASSUME ChdInv, NEW s \in Seeds, Succeed(s) \/ Deliver(s) \/ SkipSeed(s)
    PROVE  ChdInv'
<1>1. cancelled \in BOOLEAN /\ found \in Seeds \cup {OtherSeed}
  BY DEF ChdInv
<1>2. CASE Succeed(s) /\ parallel
  BY <1>1, <1>2, AdvanceInv DEF Succeed, Live
<1>3. CASE Succeed(s) /\ ~parallel
  BY <1>1, <1>3, AdvanceInv DEF Succeed, Live
<1>4. CASE Deliver(s)
  <2>1. Sane(s) /\ attempt[s].order = <<>>
    BY <1>4 DEF Deliver, ChdInv, Sane
  <2> QED BY <1>1, <1>4, <2>1, AdvanceInv DEF Deliver, Live
<1>5. CASE SkipSeed(s)
  <2>1. found \in Seeds
    BY <1>1, <1>5 DEF SkipSeed
  <2> QED BY <1>5, <2>1, AdvanceInv DEF SkipSeed, Live, ChdInv
<1> QED BY <1>2, <1>3, <1>4, <1>5

\* The seed loop ends: without a result every seed has been tried to its end.
LEMMA EndBuildInv ==
    ASSUME ChdInv, EndBuild
    PROVE  ChdInv'
<1>1. /\ outcome = "building" /\ UNCHANGED <<hashes, m, parallel, attempt, cancelled, found>>
      /\ outcome' = (IF found # OtherSeed THEN "ok" ELSE "exhausted")
      /\ \A s \in Seeds : Over(s)
  BY DEF EndBuild
<1>2. OtherSeed \notin Seeds /\ found \in Seeds \cup {OtherSeed}
  BY MixAssumption DEF OtherSeed, Seeds, ChdInv
<1>3. ASSUME found = OtherSeed PROVE \A s \in Seeds : attempt[s].at = "exhausted"
  <2>1. \A s \in Seeds : attempt[s].at \notin {"delivered", "skipped", "won"}
    BY <1>1, <1>2, <1>3 DEF ChdInv, Handed, Over
  <2>2. \A s \in Seeds : attempt[s].at # "stopped"
    BY <2>1 DEF ChdInv, ExhaustedIsHonest
  <2> QED BY <1>1, <2>1, <2>2 DEF Over
<1>4. \A t \in Seeds : attempt'[t].at \in Live => Sane(t)'
  BY <1>1, SaneKept DEF ChdInv, Live
<1>5. attempt' \in [Seeds -> Attempts']
  BY <1>1 DEF ChdInv, Attempts, r
<1>6. Handed' /\ ExhaustedIsHonest'
  BY <1>1, <1>2, <1>3 DEF ChdInv, Handed, ExhaustedIsHonest
<1> QED BY <1>1, <1>2, <1>4, <1>5, <1>6 DEF ChdInv, Live

\* Every step of the construction keeps the invariant.
LEMMA ChdInvStep ==
    ASSUME ChdInv, ChdStep
    PROVE  ChdInv'
BY StartSeedInv, TryDisplacementInv, WinnerInv, EndBuildInv DEF ChdStep

\* So does any step that leaves the construction alone.
LEMMA ChdInvStutter ==
    ASSUME ChdInv, UNCHANGED chdVars
    PROVE  ChdInv'
<1>1. UNCHANGED <<hashes, m, parallel, attempt, cancelled, found, outcome>>
  BY DEF chdVars
<1>2. \A t \in Seeds : attempt'[t].at \in Live => Sane(t)'
  BY <1>1, SaneKept DEF ChdInv, Live
<1>3. attempt' \in [Seeds -> Attempts']
  BY <1>1 DEF ChdInv, Attempts, r
<1>4. Handed' /\ ExhaustedIsHonest'
  BY <1>1 DEF ChdInv, Handed, ExhaustedIsHonest
<1> QED BY <1>1, <1>2, <1>3, <1>4 DEF ChdInv, Live

\* A finished function sends every hash of the input to a slot of its own.
LEMMA FinishedIsPerfect ==
    ASSUME ChdInv
    PROVE  PhfIsPerfect
<1> SUFFICES ASSUME outcome = "ok"
             PROVE  /\ \A h \in Range(hashes) : index(h) \in 0..m - 1
                    /\ \A g, h \in Range(hashes) : g # h => index(g) # index(h)
  BY DEF PhfIsPerfect
<1>1. CASE hashes = <<>>
  BY <1>1 DEF Range
<1>2. CASE hashes # <<>>
  <2>1. PICK s \in Seeds : s = found
    BY <1>2 DEF ChdInv
  <2>2. Sane(s) /\ attempt[s].order = <<>> /\ hashes \in Seq(Hashes)
    BY <2>1 DEF ChdInv, Handed, Sane
  <2>3. m \in Nat \ {0}
    BY <1>2, <2>2, EmptySeq DEF ChdInv
  <2>4. Placed(s) = Range(hashes)
    BY <2>2 DEF Placed, Range
  <2>5. \A h : index(h) = Address(s, h)
    BY <2>1, <2>3 DEF index, Address
  <2>6. \A h \in Range(hashes) : Address(s, h) \in 0..m - 1
    <3> TAKE h \in Range(hashes)
    <3>1. h \in Hashes /\ bucket_of(h, s, r) \in 0..r - 1
      BY <2>2, HashRange, BucketsOfBuild, BucketRange
    <3>2. attempt[s].disp[bucket_of(h, s, r)] \in 0..MaxDisp
      BY <2>2, <3>1 DEF Sane
    <3> QED BY <2>3, <3>1, <3>2, SlotRange DEF Address
  <2> QED BY <2>2, <2>4, <2>5, <2>6 DEF Sane
<1> QED BY <1>1, <1>2

(***************************************************************************)
(* The bucketed constructions.                                             *)
(***************************************************************************)

\* The keys dealt to a bucket, one key later.
LEMMA DealtNext ==
    ASSUME NEW o, NEW s, NEW n \in Nat, NEW b
    PROVE  /\ Dealt(o, s, n, b) \subseteq 1..n
           /\ IsFiniteSet(Dealt(o, s, n, b))
           /\ Cardinality(Dealt(o, s, n, b)) \in Nat
           /\ Dealt(o, s, 0, b) = {}
           /\ bucket_of(o.hashes[n + 1], s, o.r) = b =>
                Cardinality(Dealt(o, s, n + 1, b)) = Cardinality(Dealt(o, s, n, b)) + 1
<1>1. Dealt(o, s, n, b) \in SUBSET (1..n) /\ IsFiniteSet(1..n)
  BY FS_Interval DEF Dealt
<1>2. IsFiniteSet(Dealt(o, s, n, b)) /\ Cardinality(Dealt(o, s, n, b)) \in Nat
  BY <1>1, FS_Subset, FS_CardinalityType
<1>3. n + 1 \notin Dealt(o, s, n, b)
  BY <1>1
<1>4. ASSUME bucket_of(o.hashes[n + 1], s, o.r) = b
      PROVE  Cardinality(Dealt(o, s, n + 1, b)) = Cardinality(Dealt(o, s, n, b)) + 1
  <2>1. Dealt(o, s, n + 1, b) = Dealt(o, s, n, b) \cup {n + 1}
    BY <1>4 DEF Dealt
  <2> QED BY <2>1, <1>2, <1>3, FS_AddElement
<1>5. Dealt(o, s, 0, b) = {}
  BY DEF Dealt
<1> QED BY <1>1, <1>2, <1>4, <1>5

\* The same, of the bucket that gets the key.
LEMMA DealtHere ==
    ASSUME NEW o, NEW s, NEW n \in Nat, NEW b, bucket_of(o.hashes[n + 1], s, o.r) = b
    PROVE  Cardinality(Dealt(o, s, n + 1, b)) = Cardinality(Dealt(o, s, n, b)) + 1
<1>1. IsFiniteSet(Dealt(o, s, n, b)) /\ Dealt(o, s, n, b) \subseteq 1..n
  BY DealtNext
<1>2. n + 1 \notin Dealt(o, s, n, b)
  BY <1>1
<1>3. Dealt(o, s, n + 1, b) = Dealt(o, s, n, b) \cup {n + 1}
  BY DEF Dealt
<1> QED BY <1>1, <1>2, <1>3, FS_AddElement

\* A key that goes elsewhere leaves the bucket as it is.
LEMMA DealtElsewhere ==
    ASSUME NEW o, NEW s, NEW n \in Nat, NEW b, ~(bucket_of(o.hashes[n + 1], s, o.r) = b)
    PROVE  Dealt(o, s, n + 1, b) = Dealt(o, s, n, b)
BY DEF Dealt

\* What the write of one element does to an array.
LEMMA WriteOne ==
    ASSUME NEW D, NEW V, NEW f \in [D -> V], NEW i \in D, NEW v \in V, NEW h, h = [f EXCEPT ![i] = v]
    PROVE  h \in [D -> V] /\ h[i] = v /\ \A j \in D : j # i => h[j] = f[j]
OBVIOUS

\* A key is dealt to a bucket that has a free slot.
LEMMA DealInv ==
    ASSUME NEW o, OneDeals(o), o.at = "placing",
           NEW b, b = bucket_of(o.hashes[o.i], o.seed, o.r), o.size[b] < SLOTS_PER_BUCKET
    PROVE  OneDeals(Deal(o, b)) /\ Deal(o, b).hashes = o.hashes
<1>1. PICK p : p = Deal(o, b)
  OBVIOUS
<1>0. /\ o.hashes \in Seq(Hashes) /\ o.i \in 1..Len(o.hashes) + 1 /\ o.i <= Len(o.hashes)
      /\ o.r \in Nat \ {0}
  BY DEF OneDeals
<1>2. PICK n \in Nat, i \in Nat, r0 \in Nat \ {0} : n = Len(o.hashes) /\ i = o.i /\ r0 = o.r
  <2>1. Len(o.hashes) \in Nat
    BY <1>0
  <2>2. o.i \in Nat
    BY <1>0, <2>1
  <2> QED BY <1>0, <2>1, <2>2
<1>3. i \in 1..n /\ o.hashes[i] \in Hashes /\ DOMAIN o.hashes = 1..n
  BY <1>2 DEF OneDeals
<1>4. b \in 0..r0 - 1
  BY <1>2, <1>3, BucketRange DEF OneDeals
<1>5. PICK c \in Nat : c = o.size[b] /\ c + 1 \in 0..SLOTS_PER_BUCKET
  <2>1. o.size \in [0..r0 - 1 -> 0..SLOTS_PER_BUCKET]
    BY <1>2 DEF OneDeals
  <2>2. o.size[b] \in 0..SLOTS_PER_BUCKET
    BY <1>4, <2>1
  <2>3. SLOTS_PER_BUCKET \in Nat
    BY BucketAssumption
  <2> QED BY <2>2, <2>3
<1>6. p = [at |-> IF i = n THEN "ok" ELSE "placing", hashes |-> o.hashes, r |-> o.r,
           seed |-> o.seed, i |-> i + 1, bucket |-> [o.bucket EXCEPT ![i] = b],
           slot |-> [o.slot EXCEPT ![i] = c], size |-> [o.size EXCEPT ![b] = c + 1]]
  BY <1>1, <1>2, <1>5 DEF Deal, OneDeals
<1>7. /\ p.at = (IF i = n THEN "ok" ELSE "placing") /\ p.hashes = o.hashes /\ p.r = r0
      /\ p.seed = o.seed /\ p.i = i + 1 /\ p.bucket = [o.bucket EXCEPT ![i] = b]
      /\ p.slot = [o.slot EXCEPT ![i] = c] /\ p.size = [o.size EXCEPT ![b] = c + 1]
  BY <1>2, <1>6
<1>8. \A s, l, d : Dealt(p, s, l, d) = Dealt(o, s, l, d)
  BY <1>2, <1>7 DEF Dealt
<1>9. /\ p.bucket \in [1..n -> Nat] /\ p.slot \in [1..n -> Nat]
      /\ p.size \in [0..r0 - 1 -> 0..SLOTS_PER_BUCKET]
  <2>1. /\ o.bucket \in [1..n -> Nat] /\ o.slot \in [1..n -> Nat]
        /\ o.size \in [0..r0 - 1 -> 0..SLOTS_PER_BUCKET]
    BY <1>2 DEF OneDeals
  <2>2. PICK A, B, f, g, h : /\ A = 1..n /\ B = 0..r0 - 1
                            /\ f = o.bucket /\ g = o.slot /\ h = o.size
    OBVIOUS
  <2>3. /\ f \in [A -> Nat] /\ g \in [A -> Nat] /\ h \in [B -> 0..SLOTS_PER_BUCKET]
        /\ i \in A /\ b \in B /\ b \in Nat /\ c \in Nat /\ c + 1 \in 0..SLOTS_PER_BUCKET
    <3>1. b \in Nat
      BY ONLY <1>4, r0 \in Nat \ {0}
    <3>2. c \in Nat /\ c + 1 \in 0..SLOTS_PER_BUCKET
      BY ONLY <1>5
    <3>3. i \in A /\ b \in B
      BY ONLY <1>3, <1>4, <2>2
    <3>4. f \in [A -> Nat] /\ g \in [A -> Nat] /\ h \in [B -> 0..SLOTS_PER_BUCKET]
      BY ONLY <2>1, <2>2
    <3> QED BY ONLY <3>1, <3>2, <3>3, <3>4
  <2>4. /\ p.bucket = [f EXCEPT ![i] = b] /\ p.slot = [g EXCEPT ![i] = c]
        /\ p.size = [h EXCEPT ![b] = c + 1]
    BY <1>7, <2>2
  <2>5. /\ [f EXCEPT ![i] = b] \in [A -> Nat] /\ [g EXCEPT ![i] = c] \in [A -> Nat]
        /\ [h EXCEPT ![b] = c + 1] \in [B -> 0..SLOTS_PER_BUCKET]
    BY ONLY <2>3
  <2> QED BY <2>2, <2>4, <2>5
<1>10. \A d \in 0..r0 - 1 : p.size[d] = Cardinality(Dealt(p, p.seed, i, d))
  <2> TAKE d \in 0..r0 - 1
  <2>1. PICK l \in Nat : i = l + 1 /\ l = o.i - 1
    BY <1>2, <1>3
  <2>2. o.size[d] = Cardinality(Dealt(o, o.seed, l, d)) /\ d \in DOMAIN o.size
    BY <1>2, <2>1 DEF OneDeals
  <2>3. CASE d = b
    <3>1. bucket_of(o.hashes[l + 1], o.seed, o.r) = b
      BY <1>2, <2>1
    <3>2. Cardinality(Dealt(o, o.seed, l + 1, b)) = Cardinality(Dealt(o, o.seed, l, b)) + 1
      <4>1. l \in Nat
        BY <2>1
      <4> QED BY ONLY <4>1, <3>1, DealtHere
    <3>3. p.size[b] = c + 1
      BY <1>7, <2>2, <2>3
    <3> QED BY <1>5, <1>7, <1>8, <2>1, <2>2, <2>3, <3>2, <3>3
  <2>4. CASE d # b
    <3>1. bucket_of(o.hashes[l + 1], o.seed, o.r) # d
      BY <1>2, <2>1, <2>4
    <3>2. Dealt(o, o.seed, l + 1, d) = Dealt(o, o.seed, l, d)
      BY <2>1, <3>1, DealtElsewhere
    <3>3. p.size[d] = o.size[d]
      BY <1>7, <2>2, <2>4
    <3> QED BY <1>7, <1>8, <2>1, <2>2, <3>2, <3>3
  <2> QED BY <2>3, <2>4
<1>11. \A j \in 1..i - 1 :
         /\ o.bucket[j] = bucket_of(o.hashes[j], o.seed, o.r) /\ o.bucket[j] \in 0..r0 - 1
         /\ o.slot[j] < o.size[o.bucket[j]] /\ o.slot[j] \in Nat
         /\ p.bucket[j] = o.bucket[j] /\ p.slot[j] = o.slot[j]
  <2> TAKE j \in 1..i - 1
  <2>1. j \in 1..n /\ j # i /\ o.hashes[j] \in Hashes
    <3>1. j \in 1..n /\ j # i
      BY <1>3
    <3> QED BY <1>0, <1>2, <3>1
  <2>2. o.bucket[j] = bucket_of(o.hashes[j], o.seed, o.r) /\ o.slot[j] < o.size[o.bucket[j]]
    BY <1>2 DEF OneDeals
  <2>3. o.bucket[j] \in 0..r0 - 1
    <3>1. o.seed \in Seeds
      BY DEF OneDeals
    <3> QED BY <1>2, <2>1, <2>2, <3>1, BucketRange
  <2> QED BY <1>2, <1>7, <2>1, <2>2, <2>3 DEF OneDeals
<1>12. p.bucket[i] = b /\ p.slot[i] = c /\ p.size[b] = c + 1
       /\ \A d \in 0..r0 - 1 : d # b => p.size[d] = o.size[d]
  BY <1>2, <1>3, <1>4, <1>7 DEF OneDeals
<1>13. \A j \in 1..i : p.bucket[j] = bucket_of(p.hashes[j], p.seed, p.r) /\ p.slot[j] < p.size[p.bucket[j]]
  <2> TAKE j \in 1..i
  <2>1. CASE j = i
    BY <1>2, <1>7, <1>12, <2>1
  <2>2. CASE j # i
    <3>1. j \in 1..i - 1
      BY <2>2
    <3>2. /\ p.bucket[j] = bucket_of(p.hashes[j], p.seed, p.r) /\ p.bucket[j] = o.bucket[j]
          /\ p.slot[j] = o.slot[j] /\ o.slot[j] < o.size[o.bucket[j]] /\ o.slot[j] \in Nat
          /\ o.bucket[j] \in 0..r0 - 1
      BY <1>2, <1>7, <1>11, <3>1
    <3>3. CASE o.bucket[j] = b
      BY <1>5, <1>12, <3>2, <3>3
    <3>4. CASE o.bucket[j] # b
      BY <1>12, <3>2, <3>4
    <3> QED BY <3>3, <3>4
  <2> QED BY <2>1, <2>2
<1>14. \A j, k \in 1..i : p.bucket[j] = p.bucket[k] /\ p.slot[j] = p.slot[k] => j = k
  <2> SUFFICES ASSUME NEW j \in 1..i, NEW k \in 1..i, p.bucket[j] = p.bucket[k],
                      p.slot[j] = p.slot[k], j # k
               PROVE  FALSE
    OBVIOUS
  <2>1. CASE j = i
    BY <1>5, <1>11, <1>12, <2>1
  <2>2. CASE k = i
    BY <1>5, <1>11, <1>12, <2>2
  <2>3. CASE j # i /\ k # i
    <3>1. j \in 1..i - 1 /\ k \in 1..i - 1
      BY <2>3
    <3> QED BY <1>2, <1>11, <3>1 DEF OneDeals
  <2> QED BY <2>1, <2>2, <2>3
<1>15. \A s : Overfull(p, s) <=> Overfull(o, s)
  BY <1>2, <1>7, <1>8 DEF Overfull
<1>16. p.i \in 1..n + 1 /\ (p.at = "placing" => p.i <= n) /\ (p.at = "ok" => p.i = n + 1)
       /\ p.i - 1 = i /\ p.at \in {"placing", "ok"}
  BY <1>3, <1>7
<1>17. p = [at |-> p.at, hashes |-> p.hashes, r |-> p.r, seed |-> p.seed, i |-> p.i,
            bucket |-> p.bucket, slot |-> p.slot, size |-> p.size]
  BY <1>6
<1>18. \A s \in 0..p.seed - 1 : Overfull(p, s)
  BY <1>7, <1>15 DEF OneDeals
<1>19. p.hashes \in Seq(Hashes) /\ p.hashes # <<>> /\ p.r \in Nat \ {0} /\ p.seed \in Seeds
       /\ Len(p.hashes) = n
  BY <1>2, <1>7 DEF OneDeals
<1>20. OneDeals(p)
  BY <1>7, <1>9, <1>10, <1>13, <1>14, <1>16, <1>17, <1>18, <1>19 DEF OneDeals
<1> QED BY <1>1, <1>7, <1>20

\* A full bucket: the present seed sends it more keys than it has slots.
LEMMA FullIsOverfull ==
    ASSUME NEW o, OneDeals(o), o.at = "placing",
           NEW b, b = bucket_of(o.hashes[o.i], o.seed, o.r), ~(o.size[b] < SLOTS_PER_BUCKET)
    PROVE  Overfull(o, o.seed)
<1>1. /\ o.hashes \in Seq(Hashes) /\ o.i \in 1..Len(o.hashes) + 1 /\ o.i <= Len(o.hashes)
      /\ o.r \in Nat \ {0} /\ o.seed \in Seeds
  BY DEF OneDeals
<1>2. Len(o.hashes) \in Nat
  BY <1>1
<1>3. PICK n \in Nat, l \in Nat : n = Len(o.hashes) /\ l = o.i - 1 /\ l + 1 = o.i
  BY <1>1, <1>2
<1>4. o.hashes[o.i] \in Hashes
  BY <1>1, <1>2
<1>5. b \in 0..o.r - 1
  BY <1>1, <1>4, BucketRange
<1>6. o.size[b] = Cardinality(Dealt(o, o.seed, l, b)) /\ o.size[b] \in 0..SLOTS_PER_BUCKET
  BY <1>3, <1>5 DEF OneDeals
<1>7. Cardinality(Dealt(o, o.seed, l + 1, b)) = Cardinality(Dealt(o, o.seed, l, b)) + 1
  BY <1>3, DealtNext
<1>8. Cardinality(Dealt(o, o.seed, l + 1, b)) > SLOTS_PER_BUCKET
  BY <1>6, <1>7, BucketAssumption
<1>9. Dealt(o, o.seed, l + 1, b) \in SUBSET Dealt(o, o.seed, n, b)
  BY <1>1, <1>3 DEF Dealt
<1>10. IsFiniteSet(Dealt(o, o.seed, n, b)) /\ Cardinality(Dealt(o, o.seed, n, b)) \in Nat
  BY DealtNext
<1>11. PICK x \in Nat, y \in Nat : /\ x = Cardinality(Dealt(o, o.seed, l + 1, b))
                                   /\ y = Cardinality(Dealt(o, o.seed, n, b)) /\ x <= y
  <2>1. /\ IsFiniteSet(Dealt(o, o.seed, l + 1, b))
        /\ Cardinality(Dealt(o, o.seed, l + 1, b)) <= Cardinality(Dealt(o, o.seed, n, b))
    BY <1>9, <1>10, FS_Subset
  <2> QED BY <2>1, <1>10, FS_CardinalityType
<1>12. Cardinality(Dealt(o, o.seed, n, b)) > SLOTS_PER_BUCKET
  BY <1>8, <1>11, BucketAssumption
<1> QED BY <1>3, <1>5, <1>12 DEF Overfull

\* The next seed, or the end of the retries.
LEMMA NextSeedInv ==
    ASSUME NEW o, OneDeals(o), o.at = "placing", Overfull(o, o.seed)
    PROVE  OneDeals(NextSeed(o)) /\ NextSeed(o).hashes = o.hashes
<1>1. PICK p : p = NextSeed(o)
  OBVIOUS
<1>2. /\ o.hashes \in Seq(Hashes) /\ o.hashes # <<>> /\ o.r \in Nat \ {0} /\ o.seed \in Seeds
      /\ o.bucket \in [1..Len(o.hashes) -> Nat] /\ o.slot \in [1..Len(o.hashes) -> Nat]
      /\ \A s \in 0..o.seed - 1 : Overfull(o, s)
  BY DEF OneDeals
<1>3. PICK n \in Nat : n = Len(o.hashes) /\ n > 0
  BY <1>2
<1>4. PICK q \in Nat : q = o.seed /\ q \in 0..MaxSeeds - 1
  BY <1>2, MixAssumption DEF Seeds
<1>5. \A s \in 0..q : Overfull(o, s)
  BY <1>2, <1>4
<1>6. CASE o.seed + 1 = MaxSeeds
  <2>1. p = [at |-> "exhausted", hashes |-> o.hashes, r |-> o.r, seed |-> o.seed, i |-> o.i,
             bucket |-> o.bucket, slot |-> o.slot, size |-> o.size]
    BY <1>1, <1>6 DEF NextSeed, OneDeals
  <2>2. /\ p.at = "exhausted" /\ p.hashes = o.hashes /\ p.r = o.r /\ p.seed = o.seed
        /\ p.i = o.i /\ p.bucket = o.bucket /\ p.slot = o.slot /\ p.size = o.size
        /\ p = [at |-> p.at, hashes |-> p.hashes, r |-> p.r, seed |-> p.seed, i |-> p.i,
                bucket |-> p.bucket, slot |-> p.slot, size |-> p.size]
    BY <2>1
  <2>3. \A s, l, d : Dealt(p, s, l, d) = Dealt(o, s, l, d)
    BY <2>2 DEF Dealt
  <2>4. \A s : Overfull(o, s) => Overfull(p, s)
    BY <2>2, <2>3 DEF Overfull
  <2>5. \A s \in Seeds : Overfull(p, s)
    BY <1>4, <1>5, <1>6, <2>4 DEF Seeds
  <2>6. OneDeals(p)
    BY <2>2, <2>3, <2>4, <2>5 DEF OneDeals
  <2> QED BY <1>1, <2>2, <2>6
<1>7. CASE o.seed + 1 # MaxSeeds
  <2>1. p = [at |-> "placing", hashes |-> o.hashes, r |-> o.r, seed |-> q + 1, i |-> 1,
             bucket |-> o.bucket, slot |-> o.slot, size |-> Zeros(0..o.r - 1)]
    BY <1>1, <1>4, <1>7 DEF NextSeed, OneDeals
  <2>2. /\ p.at = "placing" /\ p.hashes = o.hashes /\ p.r = o.r /\ p.seed = q + 1
        /\ p.i = 1 /\ p.bucket = o.bucket /\ p.slot = o.slot
        /\ p.size = [x \in 0..o.r - 1 |-> 0]
        /\ p = [at |-> p.at, hashes |-> p.hashes, r |-> p.r, seed |-> p.seed, i |-> p.i,
                bucket |-> p.bucket, slot |-> p.slot, size |-> p.size]
    BY <2>1 DEF Zeros
  <2>3. \A s, l, d : Dealt(p, s, l, d) = Dealt(o, s, l, d)
    BY <2>2 DEF Dealt
  <2>4. \A s : Overfull(o, s) => Overfull(p, s)
    BY <2>2, <2>3 DEF Overfull
  <2>5. \A s \in 0..p.seed - 1 : Overfull(p, s)
    BY <1>4, <1>5, <2>2, <2>4
  <2>6. q + 1 \in Seeds
    BY <1>4, <1>7, MixAssumption DEF Seeds
  <2>7. \A d : Cardinality(Dealt(p, p.seed, p.i - 1, d)) = 0
    BY <2>2, FS_EmptySet DEF Dealt
  <2>8. \A d \in 0..p.r - 1 : p.size[d] = 0
    BY <2>2
  <2>9. p.size \in [0..p.r - 1 -> 0..SLOTS_PER_BUCKET]
    BY <2>2, BucketAssumption
  <2>10. p.i \in 1..Len(p.hashes) + 1 /\ p.i <= Len(p.hashes) /\ p.i - 1 = 0
    BY <1>3, <2>2
  <2>11. 1..p.i - 1 = {}
    BY <2>2
  <2>12. p.at = "placing"
    BY <2>2
  <2>13. /\ p.hashes \in Seq(Hashes) /\ p.hashes # <<>> /\ p.r \in Nat \ {0} /\ p.seed \in Seeds
         /\ p.bucket \in [1..Len(p.hashes) -> Nat] /\ p.slot \in [1..Len(p.hashes) -> Nat]
    BY <1>2, <2>2, <2>6
  <2>14. OneDeals(p)
    BY <2>2, <2>5, <2>7, <2>8, <2>9, <2>10, <2>11, <2>12, <2>13 DEF OneDeals
  <2> QED BY <1>1, <2>2, <2>14
<1> QED BY <1>6, <1>7

\* One turn of the loop over the keys.
LEMMA DealKeyInv ==
    ASSUME NEW o, OneDeals(o), o.at = "placing"
    PROVE  LET p == DealKey(o, bucket_of(o.hashes[o.i], o.seed, o.r))
           IN  OneDeals(p) /\ p.hashes = o.hashes
<1>1. PICK b : b = bucket_of(o.hashes[o.i], o.seed, o.r)
  OBVIOUS
<1>2. o.hashes \in Seq(Hashes) /\ o.i \in 1..Len(o.hashes) + 1 /\ o.i <= Len(o.hashes)
      /\ o.seed \in Seeds /\ o.r \in Nat \ {0}
  BY DEF OneDeals
<1>3. o.hashes[o.i] \in Hashes
  BY <1>2
<1>4. b \in 0..o.r - 1
  BY <1>1, <1>2, <1>3, BucketRange
<1>5. o.size[b] \in Nat
  BY <1>4, BucketAssumption DEF OneDeals
<1>6. CASE o.size[b] < SLOTS_PER_BUCKET
  <2>1. OneDeals(Deal(o, b)) /\ Deal(o, b).hashes = o.hashes
    BY <1>1, <1>6, DealInv
  <2>2. ~(o.size[b] >= SLOTS_PER_BUCKET)
    BY <1>5, <1>6, BucketAssumption
  <2> QED BY <1>1, <2>1, <2>2 DEF DealKey
<1>7. CASE ~(o.size[b] < SLOTS_PER_BUCKET)
  <2>1. OneDeals(NextSeed(o)) /\ NextSeed(o).hashes = o.hashes
    BY <1>1, <1>7, FullIsOverfull, NextSeedInv
  <2>2. o.size[b] >= SLOTS_PER_BUCKET
    BY <1>5, <1>7, BucketAssumption
  <2> QED BY <1>1, <2>1, <2>2 DEF DealKey
<1> QED BY <1>6, <1>7

\* The state before the first key is dealt.
LEMMA NewOneDeals ==
    ASSUME NEW hs \in Seq(Hashes), hs # <<>>, ~has_duplicate(hs)
    PROVE  OneDeals(NewOne(hs)) /\ NewOne(hs).hashes = hs
<1>1. PICK p : p = NewOne(hs)
  OBVIOUS
<1>2. PICK n \in Nat : n = Len(hs) /\ n > 0 /\ DOMAIN hs = 1..n
  OBVIOUS
<1>3. PICK r0 \in Nat \ {0} : r0 = Buckets(n, LambdaB)
  <2>1. LambdaB \in Nat \ {0}
    BY BucketAssumption
  <2> QED BY <2>1, BucketCount
<1>4. p = [at |-> "placing", hashes |-> hs, r |-> r0, seed |-> 0, i |-> 1,
           bucket |-> [x \in 1..n |-> 0], slot |-> [x \in 1..n |-> 0],
           size |-> [x \in 0..r0 - 1 |-> 0]]
  BY <1>1, <1>2, <1>3 DEF NewOne, Zeros
<1>5. /\ p.at = "placing" /\ p.hashes = hs /\ p.r = r0 /\ p.seed = 0 /\ p.i = 1
      /\ p.bucket = [x \in 1..n |-> 0] /\ p.slot = [x \in 1..n |-> 0]
      /\ p.size = [x \in 0..r0 - 1 |-> 0]
      /\ p = [at |-> p.at, hashes |-> p.hashes, r |-> p.r, seed |-> p.seed, i |-> p.i,
              bucket |-> p.bucket, slot |-> p.slot, size |-> p.size]
  BY <1>4
<1>6. \A d : Cardinality(Dealt(p, p.seed, p.i - 1, d)) = 0
  BY <1>5, FS_EmptySet DEF Dealt
<1>7. p.size \in [0..p.r - 1 -> 0..SLOTS_PER_BUCKET] /\ \A d \in 0..p.r - 1 : p.size[d] = 0
  BY <1>5, BucketAssumption
<1>8. p.i \in 1..Len(p.hashes) + 1 /\ p.i <= Len(p.hashes) /\ 1..p.i - 1 = {} /\ 0..p.seed - 1 = {}
  BY <1>2, <1>5
<1>9. /\ p.hashes \in Seq(Hashes) /\ p.hashes # <<>> /\ p.r \in Nat \ {0} /\ p.seed \in Seeds
      /\ p.bucket \in [1..Len(p.hashes) -> Nat] /\ p.slot \in [1..Len(p.hashes) -> Nat]
  BY <1>2, <1>5, MixAssumption DEF Seeds
<1>10. OneDeals(p)
  BY <1>5, <1>6, <1>7, <1>8, <1>9 DEF OneDeals
<1> QED BY <1>1, <1>5, <1>10

\* NewOne of any input.
LEMMA NewOneOf ==
    ASSUME NEW hs \in Seq(Hashes)
    PROVE  OneOf(NewOne(hs), hs)
<1>1. CASE hs = <<>> \/ has_duplicate(hs)
  BY <1>1 DEF NewOne, OneOf
<1>2. CASE hs # <<>> /\ ~has_duplicate(hs)
  BY <1>2, NewOneDeals DEF OneOf
<1> QED BY <1>1, <1>2

\* The keys of a level-0 bucket are counted one key at a time.
LEMMA HomeToNext ==
    ASSUME NEW t, NEW l \in Nat, NEW b
    PROVE  /\ IsFiniteSet(HomeTo(t, l, b)) /\ Cardinality(HomeTo(t, l, b)) \in Nat
           /\ Home(t, l + 1) = b =>
                Cardinality(HomeTo(t, l + 1, b)) = Cardinality(HomeTo(t, l, b)) + 1
           /\ ~(Home(t, l + 1) = b) => HomeTo(t, l + 1, b) = HomeTo(t, l, b)
<1>1. HomeTo(t, l, b) \in SUBSET (1..l) /\ IsFiniteSet(1..l)
  BY FS_Interval DEF HomeTo
<1>2. IsFiniteSet(HomeTo(t, l, b)) /\ Cardinality(HomeTo(t, l, b)) \in Nat
  BY <1>1, FS_Subset, FS_CardinalityType
<1>3. l + 1 \notin HomeTo(t, l, b)
  BY <1>1
<1>4. ASSUME Home(t, l + 1) = b
      PROVE  Cardinality(HomeTo(t, l + 1, b)) = Cardinality(HomeTo(t, l, b)) + 1
  <2>1. HomeTo(t, l + 1, b) = HomeTo(t, l, b) \cup {l + 1}
    BY <1>4 DEF HomeTo
  <2> QED BY <2>1, <1>2, <1>3, FS_AddElement
<1>5. ASSUME ~(Home(t, l + 1) = b)
      PROVE  HomeTo(t, l + 1, b) = HomeTo(t, l, b)
  BY <1>5 DEF HomeTo
<1> QED BY <1>2, <1>4, <1>5

\* What TwoDeals says of the fields that a build never changes.
LEMMA TwoTyped ==
    ASSUME NEW t, TwoDeals(t)
    PROVE  /\ t.hashes \in Seq(Hashes) /\ Len(t.hashes) \in Nat
           /\ DOMAIN t.hashes = 1..Len(t.hashes)
           /\ t.r \in Nat \ {0} /\ t.overflow \subseteq 0..t.r - 1
           /\ t.i \in Nat \ {0} /\ t.i <= Len(t.hashes) + 1
           /\ \A j \in 1..Len(t.hashes) : Home(t, j) \in 0..t.r - 1
<1>1. t.hashes \in Seq(Hashes) /\ t.r \in Nat \ {0} /\ t.overflow \subseteq 0..t.r - 1
      /\ t.i \in 1..Len(t.hashes) + 1
  BY DEF TwoDeals, TwoShape, TwoAside, TwoPlaced
<1>2. Len(t.hashes) \in Nat /\ DOMAIN t.hashes = 1..Len(t.hashes)
  BY <1>1
<1>3. ASSUME NEW j \in 1..Len(t.hashes) PROVE Home(t, j) \in 0..t.r - 1
  <2>1. t.hashes[j] \in Hashes
    BY <1>1, <1>2
  <2>2. OtherSeed \in 0..MaxSeeds
    BY MixAssumption DEF OtherSeed
  <2> QED BY <1>1, <2>1, <2>2, BucketRangeAny DEF Home
<1> QED BY <1>1, <1>2, <1>3

\* The state before the first key is placed.
LEMMA NewTwoDeals ==
    ASSUME NEW hs \in Seq(Hashes), hs # <<>>, ~has_duplicate(hs)
    PROVE  TwoDeals(NewTwo(hs)) /\ NewTwo(hs).hashes = hs /\ NewTwo(hs).at = "placing"
<1>1. PICK p : p = NewTwo(hs)
  OBVIOUS
<1>2. PICK n \in Nat : n = Len(hs) /\ n > 0 /\ DOMAIN hs = 1..n
  OBVIOUS
<1>3. PICK r0 \in Nat \ {0} : r0 = Buckets(n, Lambda0)
  <2>1. Lambda0 \in Nat \ {0}
    BY BucketAssumption
  <2> QED BY <2>1, BucketCount
<1>4. PICK full : full = {b \in 0..r0 - 1 : SizeAt0(hs, r0, b) > SLOTS_PER_BUCKET}
  OBVIOUS
<1>5. p = [at |-> "placing", hashes |-> hs, r |-> r0, overflow |-> full, i |-> 1,
           level |-> [x \in 1..n |-> 0], bucket |-> [x \in 1..n |-> 0],
           slot |-> [x \in 1..n |-> 0], cursor |-> [x \in 0..r0 - 1 |-> 0], orig |-> <<>>]
  BY <1>1, <1>2, <1>3, <1>4 DEF NewTwo, Zeros
<1>6. /\ p.at = "placing" /\ p.hashes = hs /\ p.r = r0 /\ p.overflow = full /\ p.i = 1
      /\ p.level = [x \in 1..n |-> 0] /\ p.bucket = [x \in 1..n |-> 0]
      /\ p.slot = [x \in 1..n |-> 0] /\ p.cursor = [x \in 0..r0 - 1 |-> 0] /\ p.orig = <<>>
      /\ p = [at |-> p.at, hashes |-> p.hashes, r |-> p.r, overflow |-> p.overflow, i |-> p.i,
              level |-> p.level, bucket |-> p.bucket, slot |-> p.slot, cursor |-> p.cursor,
              orig |-> p.orig]
  BY <1>5
<1>7. p.i \in 1..Len(p.hashes) + 1 /\ 1..p.i - 1 = {} /\ Len(p.hashes) = n
  BY <1>2, <1>6
<1>8. \A b : Cardinality(HomeTo(p, p.i - 1, b)) = 0
  BY <1>7, FS_EmptySet DEF HomeTo
<1>9. /\ p.level \in [1..Len(p.hashes) -> {0, 1}]
      /\ \A j \in p.i..Len(p.hashes) : p.level[j] = 0
      /\ p.bucket \in [1..Len(p.hashes) -> Nat]
      /\ p.slot \in [1..Len(p.hashes) -> Nat] /\ p.cursor \in [0..p.r - 1 -> Nat]
      /\ \A b \in 0..p.r - 1 : p.cursor[b] = 0
  BY <1>6, <1>7
<1>10. /\ p.orig \in Seq(1..Len(p.hashes)) /\ DOMAIN p.orig = {} /\ Range(p.orig) = {}
  BY <1>6 DEF Range
<1>11. TwoDeals(p)
  BY <1>3, <1>4, <1>6, <1>7, <1>8, <1>9, <1>10 DEF TwoDeals, TwoShape, TwoAside, TwoPlaced
<1> QED BY <1>1, <1>6, <1>11

\* Pass 3 sets a key aside: its bucket overflows.
LEMMA SetAsideInv ==
    ASSUME NEW t, TwoDeals(t), t.at = "placing", t.i <= Len(t.hashes),
           Home(t, t.i) \in t.overflow
    PROVE  LET p == PlaceKey0(t, Home(t, t.i))
           IN  TwoDeals(p) /\ p.hashes = t.hashes /\ p.at = "placing"
<1>1. PICK p : p = PlaceKey0(t, Home(t, t.i))
  OBVIOUS
<1>2. PICK n \in Nat, i \in Nat \ {0}, l \in Nat :
        n = Len(t.hashes) /\ i = t.i /\ l = t.i - 1 /\ i = l + 1 /\ i <= n
  BY TwoTyped
<1>3. PICK q : q = t.orig /\ q \in Seq(1..n)
  BY <1>2 DEF TwoDeals, TwoShape, TwoAside, TwoPlaced
<1>4. p = [at |-> "placing", hashes |-> t.hashes, r |-> t.r, overflow |-> t.overflow,
           i |-> i + 1, level |-> [t.level EXCEPT ![i] = 1], bucket |-> t.bucket,
           slot |-> t.slot, cursor |-> t.cursor, orig |-> Append(q, i)]
  BY <1>1, <1>2, <1>3 DEF PlaceKey0, TwoDeals, TwoShape
<1>5. /\ p.at = "placing" /\ p.hashes = t.hashes /\ p.r = t.r /\ p.overflow = t.overflow
      /\ p.i = i + 1 /\ p.level = [t.level EXCEPT ![i] = 1] /\ p.bucket = t.bucket
      /\ p.slot = t.slot /\ p.cursor = t.cursor /\ p.orig = Append(q, i)
      /\ p = [at |-> p.at, hashes |-> p.hashes, r |-> p.r, overflow |-> p.overflow, i |-> p.i,
              level |-> p.level, bucket |-> p.bucket, slot |-> p.slot, cursor |-> p.cursor,
              orig |-> p.orig]
  BY <1>4
<1>6. \A j : Home(p, j) = Home(t, j)
  BY <1>5 DEF Home
<1>7. /\ p.i \in 1..Len(p.hashes) + 1 /\ p.i - 1 = i /\ Len(p.hashes) = n
      /\ 1..i = (1..l) \cup {i} /\ i \notin 1..l
  BY <1>2, <1>5
<1>8. /\ p.level \in [1..n -> {0, 1}] /\ p.level[i] = 1
      /\ \A j \in 1..l : p.level[j] = t.level[j]
      /\ \A j \in p.i..Len(p.hashes) : p.level[j] = 0
  <2>1. t.level \in [1..n -> {0, 1}] /\ i \in 1..n /\ \A j \in i..n : t.level[j] = 0
    BY <1>2 DEF TwoDeals, TwoShape, TwoAside, TwoPlaced
  <2>2. i + 1..n \subseteq i..n /\ i \notin i + 1..n /\ i + 1..n \subseteq 1..n
    BY <1>2
  <2>3. p.i = i + 1 /\ Len(p.hashes) = n /\ p.level = [t.level EXCEPT ![i] = 1]
    BY <1>5, <1>7
  <2>4. \A j \in i + 1..n : p.level[j] = 0
    BY <2>1, <2>2, <2>3
  <2> QED BY <1>2, <2>1, <2>3, <2>4
<1>9. \A b \in (0..p.r - 1) \ p.overflow : p.cursor[b] = Cardinality(HomeTo(p, i, b))
  <2> TAKE b \in (0..p.r - 1) \ p.overflow
  <2>1. HomeTo(t, l + 1, b) = HomeTo(t, l, b)
    BY <1>2, <1>5, HomeToNext
  <2>2. HomeTo(p, i, b) = HomeTo(t, i, b)
    BY <1>6 DEF HomeTo
  <2>3. t.cursor[b] = Cardinality(HomeTo(t, l, b))
    BY <1>2, <1>5 DEF TwoDeals, TwoShape, TwoAside, TwoPlaced
  <2> QED BY <1>2, <1>5, <2>1, <2>2, <2>3
<1>10. /\ Range(q) = {j \in 1..l : Home(t, j) \in t.overflow}
       /\ \A j, k \in DOMAIN q : q[j] = q[k] => j = k
  BY <1>2, <1>3 DEF TwoDeals, TwoShape, TwoAside, TwoPlaced
<1>11. PICK c \in Nat : c = Len(q) /\ DOMAIN q = 1..c /\ DOMAIN Append(q, i) = 1..c + 1
  BY <1>3
<1>12. /\ Append(q, i) \in Seq(1..n) /\ Append(q, i)[c + 1] = i
       /\ \A j \in 1..c : Append(q, i)[j] = q[j]
  BY <1>2, <1>3, <1>11
<1>13. \A j \in 1..c : q[j] \in 1..l
  BY <1>10, <1>11 DEF Range
<1>14. \A j, k \in DOMAIN p.orig : p.orig[j] = p.orig[k] => j = k
  BY <1>5, <1>7, <1>10, <1>11, <1>12, <1>13
<1>15. Range(p.orig) = {j \in 1..i : Home(p, j) \in p.overflow}
  <2>1. Range(p.orig) = Range(q) \cup {i}
    <3>1. PICK u : u = Append(q, i)
      OBVIOUS
    <3>2. Range(u) = {u[x] : x \in 1..c + 1} /\ Range(q) = {q[x] : x \in 1..c}
      BY <1>11, <3>1 DEF Range
    <3>3. 1..c + 1 = (1..c) \cup {c + 1}
      OBVIOUS
    <3>4. u[c + 1] = i /\ \A x \in 1..c : u[x] = q[x]
      BY <1>12, <3>1
    <3>5. Range(u) \subseteq Range(q) \cup {i}
      BY <3>2, <3>3, <3>4
    <3>6. Range(q) \subseteq Range(u) /\ i \in Range(u)
      BY <3>2, <3>3, <3>4
    <3> QED BY <1>5, <3>1, <3>5, <3>6
  <2>2. {j \in 1..i : Home(t, j) \in t.overflow} = {j \in 1..l : Home(t, j) \in t.overflow} \cup {i}
    BY <1>2, <1>7
  <2> QED BY <1>5, <1>6, <1>10, <2>1, <2>2
<1>16. \A j \in 1..i :
         IF Home(p, j) \in p.overflow THEN p.level[j] = 1
         ELSE p.level[j] = 0 /\ p.bucket[j] = Home(p, j) /\ p.slot[j] < p.cursor[Home(p, j)]
  <2> TAKE j \in 1..i
  <2>1. CASE j = i
    BY <1>2, <1>5, <1>6, <1>8, <2>1
  <2>2. CASE j # i
    <3>1. j \in 1..l
      BY <1>7, <2>2
    <3> QED BY <1>2, <1>5, <1>6, <1>8, <3>1 DEF TwoDeals, TwoShape, TwoAside, TwoPlaced
  <2> QED BY <2>1, <2>2
<1>17. \A j, k \in 1..i :
         /\ Home(p, j) \notin p.overflow /\ Home(p, k) \notin p.overflow
         /\ p.bucket[j] = p.bucket[k] /\ p.slot[j] = p.slot[k]
         => j = k
  <2> TAKE j, k \in 1..i
  <2>1. CASE j = i \/ k = i
    BY <1>2, <1>5, <1>6, <2>1
  <2>2. CASE j # i /\ k # i
    <3>1. j \in 1..l /\ k \in 1..l
      BY <1>7, <2>2
    <3> QED BY <1>2, <1>5, <1>6, <3>1 DEF TwoDeals, TwoShape, TwoAside, TwoPlaced
  <2> QED BY <2>1, <2>2
<1>18. /\ p.hashes \in Seq(Hashes) /\ p.hashes # <<>> /\ ~has_duplicate(p.hashes)
       /\ p.r \in Nat \ {0}
       /\ p.overflow = {b \in 0..p.r - 1 : SizeAt0(p.hashes, p.r, b) > SLOTS_PER_BUCKET}
       /\ p.bucket \in [1..n -> Nat] /\ p.slot \in [1..n -> Nat] /\ p.cursor \in [0..p.r - 1 -> Nat]
  BY <1>2, <1>5 DEF TwoDeals, TwoShape, TwoAside, TwoPlaced
<1>19. /\ p.at = "placing" /\ Len(p.hashes) = n /\ p.i - 1 = i /\ p.i \in 1..n + 1
       /\ p.orig \in Seq(1..n)
  BY <1>5, <1>7, <1>12
<1>20. TwoShape(p)
  BY <1>5, <1>8, <1>18, <1>19 DEF TwoShape
<1>21. TwoAside(p)
  BY <1>14, <1>15, <1>19 DEF TwoAside
<1>22. TwoPlaced(p)
  <2>1. \A j \in p.i..Len(p.hashes) : p.level[j] = 0
    BY <1>8
  <2>2. p.i - 1 = i
    BY <1>7
  <2> QED BY <1>9, <1>16, <1>17, <2>1, <2>2 DEF TwoPlaced
<1> QED BY <1>1, <1>5, <1>20, <1>21, <1>22 DEF TwoDeals

\* Pass 3 places a key in its level-0 bucket.
LEMMA PlaceInv ==
    ASSUME NEW t, TwoDeals(t), t.at = "placing", t.i <= Len(t.hashes),
           Home(t, t.i) \notin t.overflow
    PROVE  LET p == PlaceKey0(t, Home(t, t.i))
           IN  TwoDeals(p) /\ p.hashes = t.hashes /\ p.at = "placing"
<1>1. PICK p : p = PlaceKey0(t, Home(t, t.i))
  OBVIOUS
<1>2. PICK n \in Nat, i \in Nat \ {0}, l \in Nat :
        n = Len(t.hashes) /\ i = t.i /\ l = t.i - 1 /\ i = l + 1 /\ i <= n
  BY TwoTyped
<1>3. PICK b : b = Home(t, i) /\ b \in 0..t.r - 1 /\ b \notin t.overflow
  BY <1>2, TwoTyped
<1>4. PICK c \in Nat : c = t.cursor[b]
  BY <1>3 DEF TwoDeals, TwoShape, TwoAside, TwoPlaced
<1>5. p = [at |-> "placing", hashes |-> t.hashes, r |-> t.r, overflow |-> t.overflow,
           i |-> i + 1, level |-> t.level, bucket |-> [t.bucket EXCEPT ![i] = b],
           slot |-> [t.slot EXCEPT ![i] = c], cursor |-> [t.cursor EXCEPT ![b] = c + 1],
           orig |-> t.orig]
  BY <1>1, <1>2, <1>3, <1>4 DEF PlaceKey0, TwoDeals, TwoShape
<1>6. /\ p.at = "placing" /\ p.hashes = t.hashes /\ p.r = t.r /\ p.overflow = t.overflow
      /\ p.i = i + 1 /\ p.level = t.level /\ p.bucket = [t.bucket EXCEPT ![i] = b]
      /\ p.slot = [t.slot EXCEPT ![i] = c] /\ p.cursor = [t.cursor EXCEPT ![b] = c + 1]
      /\ p.orig = t.orig
      /\ p = [at |-> p.at, hashes |-> p.hashes, r |-> p.r, overflow |-> p.overflow, i |-> p.i,
              level |-> p.level, bucket |-> p.bucket, slot |-> p.slot, cursor |-> p.cursor,
              orig |-> p.orig]
  BY <1>5
<1>7. \A j : Home(p, j) = Home(t, j)
  BY <1>6 DEF Home
<1>8. /\ p.i \in 1..Len(p.hashes) + 1 /\ p.i - 1 = i /\ Len(p.hashes) = n
      /\ 1..i = (1..l) \cup {i} /\ i \notin 1..l /\ 1..l \subseteq 1..n /\ i \in 1..n
  BY <1>2, <1>6
<1>9. /\ t.bucket \in [1..n -> Nat] /\ t.slot \in [1..n -> Nat] /\ t.cursor \in [0..t.r - 1 -> Nat]
      /\ t.level \in [1..n -> {0, 1}] /\ t.orig \in Seq(1..n)
      /\ \A j, k \in DOMAIN t.orig : t.orig[j] = t.orig[k] => j = k
  BY <1>2 DEF TwoDeals, TwoShape, TwoAside, TwoPlaced
<1>10. /\ p.bucket \in [1..n -> Nat] /\ p.slot \in [1..n -> Nat] /\ p.cursor \in [0..p.r - 1 -> Nat]
       /\ p.bucket[i] = b /\ p.slot[i] = c /\ p.cursor[b] = c + 1
       /\ \A j \in 1..l : p.bucket[j] = t.bucket[j] /\ p.slot[j] = t.slot[j]
       /\ \A d \in 0..t.r - 1 : d # b => p.cursor[d] = t.cursor[d]
  <2>1. /\ p.bucket \in [1..n -> Nat] /\ p.bucket[i] = b
        /\ \A j \in 1..l : p.bucket[j] = t.bucket[j]
    <3>1. t.bucket \in [1..n -> Nat] /\ i \in 1..n /\ p.bucket = [t.bucket EXCEPT ![i] = b]
      BY <1>6, <1>8, <1>9
    <3>2. b \in Nat
      BY <1>3
    <3>3. /\ p.bucket \in [1..n -> Nat] /\ p.bucket[i] = b
          /\ \A j \in 1..n : j # i => p.bucket[j] = t.bucket[j]
      BY <3>1, <3>2, WriteOne
    <3>4. \A j \in 1..l : j \in 1..n /\ j # i
      BY <1>8
    <3> QED BY <3>3, <3>4
  <2>2. /\ p.slot \in [1..n -> Nat] /\ p.slot[i] = c
        /\ \A j \in 1..l : p.slot[j] = t.slot[j]
    <3>1. t.slot \in [1..n -> Nat] /\ i \in 1..n /\ p.slot = [t.slot EXCEPT ![i] = c]
      BY <1>6, <1>8, <1>9
    <3>2. /\ p.slot \in [1..n -> Nat] /\ p.slot[i] = c
          /\ \A j \in 1..n : j # i => p.slot[j] = t.slot[j]
      BY <3>1, WriteOne
    <3>3. \A j \in 1..l : j \in 1..n /\ j # i
      BY <1>8
    <3> QED BY <3>2, <3>3
  <2>3. /\ p.cursor \in [0..t.r - 1 -> Nat] /\ p.cursor[b] = c + 1
        /\ \A d \in 0..t.r - 1 : d # b => p.cursor[d] = t.cursor[d]
    <3>1. PICK B : B = 0..t.r - 1
      OBVIOUS
    <3>2. t.cursor \in [B -> Nat] /\ b \in B /\ p.cursor = [t.cursor EXCEPT ![b] = c + 1]
      BY <1>3, <1>6, <1>9, <3>1
    <3>3. p.cursor \in [B -> Nat] /\ p.cursor[b] = c + 1
          /\ \A d \in B : d # b => p.cursor[d] = t.cursor[d]
      BY <3>2
    <3> QED BY <3>1, <3>3
  <2> QED BY <1>6, <2>1, <2>2, <2>3
<1>11. \A d \in (0..p.r - 1) \ p.overflow : p.cursor[d] = Cardinality(HomeTo(p, i, d))
  <2> TAKE d \in (0..p.r - 1) \ p.overflow
  <2>1. HomeTo(p, i, d) = HomeTo(t, i, d)
    BY <1>7 DEF HomeTo
  <2>2. t.cursor[d] = Cardinality(HomeTo(t, l, d))
    BY <1>2, <1>6 DEF TwoDeals, TwoShape, TwoAside, TwoPlaced
  <2>3. CASE d = b
    <3>1. Cardinality(HomeTo(t, l + 1, d)) = Cardinality(HomeTo(t, l, d)) + 1
      BY <1>2, <1>3, <2>3, HomeToNext
    <3> QED BY <1>2, <1>4, <1>10, <2>1, <2>2, <2>3, <3>1
  <2>4. CASE ~(d = b)
    <3>1. HomeTo(t, l + 1, d) = HomeTo(t, l, d)
      BY <1>2, <1>3, <2>4, HomeToNext
    <3> QED BY <1>2, <1>6, <1>10, <2>1, <2>2, <2>4, <3>1
  <2> QED BY <2>3, <2>4
<1>12. Range(p.orig) = {j \in 1..i : Home(p, j) \in p.overflow}
  <2>1. Range(t.orig) = {j \in 1..l : Home(t, j) \in t.overflow}
    BY <1>2 DEF TwoDeals, TwoShape, TwoAside, TwoPlaced
  <2>2. {j \in 1..i : Home(t, j) \in t.overflow} = {j \in 1..l : Home(t, j) \in t.overflow}
    BY <1>3, <1>8
  <2> QED BY <1>6, <1>7, <2>1, <2>2
<1>13. \A j \in 1..l :
         IF Home(t, j) \in t.overflow THEN t.level[j] = 1
         ELSE /\ t.level[j] = 0 /\ t.bucket[j] = Home(t, j)
              /\ t.slot[j] < t.cursor[Home(t, j)] /\ t.slot[j] \in Nat
  BY <1>2, <1>8, <1>9 DEF TwoDeals, TwoShape, TwoAside, TwoPlaced
<1>14. t.level[i] = 0 /\ \A j \in p.i..Len(p.hashes) : p.level[j] = 0
  <2>1. \A j \in i..n : t.level[j] = 0
    BY <1>2 DEF TwoDeals, TwoShape, TwoAside, TwoPlaced
  <2>2. i \in i..n /\ i + 1..n \subseteq i..n
    BY <1>2
  <2>3. p.i = i + 1 /\ Len(p.hashes) = n /\ p.level = t.level
    BY <1>6, <1>8
  <2> QED BY <2>1, <2>2, <2>3
<1>15. \A j \in 1..i :
         IF Home(p, j) \in p.overflow THEN p.level[j] = 1
         ELSE p.level[j] = 0 /\ p.bucket[j] = Home(p, j) /\ p.slot[j] < p.cursor[Home(p, j)]
  <2> TAKE j \in 1..i
  <2>1. CASE j = i
    BY <1>3, <1>6, <1>7, <1>10, <1>14, <2>1
  <2>2. CASE j # i
    <3>1. j \in 1..l
      BY <1>8, <2>2
    <3>2. CASE Home(t, j) \in t.overflow
      BY <1>6, <1>7, <1>13, <3>1, <3>2
    <3>3. CASE Home(t, j) \notin t.overflow
      <4>1. /\ t.level[j] = 0 /\ t.bucket[j] = Home(t, j) /\ t.slot[j] \in Nat
            /\ t.slot[j] < t.cursor[Home(t, j)] /\ Home(t, j) \in 0..t.r - 1
        BY <1>2, <1>8, <1>13, <3>1, <3>3, TwoTyped
      <4>2. t.slot[j] < p.cursor[Home(t, j)]
        <5>1. CASE Home(t, j) = b
          BY <1>4, <1>10, <4>1, <5>1
        <5>2. CASE Home(t, j) # b
          BY <1>10, <4>1, <5>2
        <5> QED BY <5>1, <5>2
      <4> QED BY <1>6, <1>7, <1>10, <3>1, <3>3, <4>1, <4>2
    <3> QED BY <3>2, <3>3
  <2> QED BY <2>1, <2>2
<1>16. \A j \in 1..l : Home(t, j) \notin t.overflow /\ Home(t, j) = b => t.slot[j] < c
  BY <1>4, <1>13
<1>17. \A j, k \in 1..i :
         /\ Home(p, j) \notin p.overflow /\ Home(p, k) \notin p.overflow
         /\ p.bucket[j] = p.bucket[k] /\ p.slot[j] = p.slot[k]
         => j = k
  <2> SUFFICES ASSUME NEW j \in 1..i, NEW k \in 1..i,
                      Home(t, j) \notin t.overflow, Home(t, k) \notin t.overflow,
                      p.bucket[j] = p.bucket[k], p.slot[j] = p.slot[k], j # k
               PROVE  FALSE
    BY <1>6, <1>7
  <2>1. CASE j = i
    <3>1. k \in 1..l
      BY <1>8, <2>1
    <3>2. t.bucket[k] = b /\ t.slot[k] = c /\ t.bucket[k] = Home(t, k)
      BY <1>10, <1>13, <2>1, <3>1
    <3> QED BY <1>16, <3>1, <3>2
  <2>2. CASE k = i
    <3>1. j \in 1..l
      BY <1>8, <2>2
    <3>2. t.bucket[j] = b /\ t.slot[j] = c /\ t.bucket[j] = Home(t, j)
      BY <1>10, <1>13, <2>2, <3>1
    <3> QED BY <1>16, <3>1, <3>2
  <2>3. CASE j # i /\ k # i
    <3>1. j \in 1..l /\ k \in 1..l
      BY <1>8, <2>3
    <3>2. t.bucket[j] = t.bucket[k] /\ t.slot[j] = t.slot[k]
      BY <1>10, <3>1
    <3> QED BY <1>2, <3>1, <3>2 DEF TwoDeals, TwoShape, TwoAside, TwoPlaced
  <2> QED BY <2>1, <2>2, <2>3
<1>18. /\ p.hashes \in Seq(Hashes) /\ p.hashes # <<>> /\ ~has_duplicate(p.hashes)
       /\ p.r \in Nat \ {0}
       /\ p.overflow = {x \in 0..p.r - 1 : SizeAt0(p.hashes, p.r, x) > SLOTS_PER_BUCKET}
  BY <1>6 DEF TwoDeals, TwoShape, TwoAside, TwoPlaced
<1>19. /\ p.at = "placing" /\ Len(p.hashes) = n /\ p.i - 1 = i /\ p.i \in 1..n + 1
       /\ p.level \in [1..n -> {0, 1}] /\ p.orig \in Seq(1..n)
       /\ \A j, k \in DOMAIN p.orig : p.orig[j] = p.orig[k] => j = k
  BY <1>6, <1>8, <1>9
<1>20. TwoShape(p)
  BY <1>6, <1>10, <1>18, <1>19 DEF TwoShape
<1>21. TwoAside(p)
  BY <1>12, <1>19 DEF TwoAside
<1>22. TwoPlaced(p)
  BY <1>11, <1>14, <1>15, <1>17, <1>19 DEF TwoPlaced
<1> QED BY <1>1, <1>6, <1>20, <1>21, <1>22 DEF TwoDeals

\* Pass 3, one key.
LEMMA PlaceKeyInv ==
    ASSUME NEW t, TwoDeals(t), t.at = "placing", t.i <= Len(t.hashes)
    PROVE  LET p == PlaceKey0(t, bucket_of(t.hashes[t.i], OtherSeed, t.r))
           IN  TwoDeals(p) /\ p.hashes = t.hashes /\ p.at = "placing"
BY SetAsideInv, PlaceInv DEF Home

\* The keys set aside, once all are dealt with, are different hashes.
LEMMA SetAsideHashes ==
    ASSUME NEW t, TwoDeals(t), t.orig # <<>>
    PROVE  /\ SetAside(t) \in Seq(Hashes) /\ SetAside(t) # <<>> /\ ~has_duplicate(SetAside(t))
           /\ DOMAIN SetAside(t) = DOMAIN t.orig
           /\ \A j \in DOMAIN t.orig : t.orig[j] \in 1..Len(t.hashes)
<1>1. PICK n \in Nat : n = Len(t.hashes) /\ t.hashes \in Seq(Hashes) /\ DOMAIN t.hashes = 1..n
  BY TwoTyped
<1>2. t.orig \in Seq(1..n) /\ \A j, k \in DOMAIN t.orig : t.orig[j] = t.orig[k] => j = k
  BY <1>1 DEF TwoDeals, TwoAside
<1>3. PICK c \in Nat : c = Len(t.orig) /\ DOMAIN t.orig = 1..c /\ c > 0
  BY <1>2
<1>4. \A j \in 1..c : t.orig[j] \in 1..n /\ t.hashes[t.orig[j]] \in Hashes
  BY <1>1, <1>2, <1>3
<1>5. SetAside(t) = [j \in 1..c |-> t.hashes[t.orig[j]]]
  BY <1>3 DEF SetAside
<1>6. SetAside(t) \in Seq(Hashes) /\ Len(SetAside(t)) = c /\ DOMAIN SetAside(t) = 1..c
  BY <1>4, <1>5
<1>7. SetAside(t) # <<>>
  BY <1>3, <1>6
<1>8. ASSUME NEW j \in 1..c, NEW k \in 1..c, j < k, SetAside(t)[j] = SetAside(t)[k]
      PROVE  FALSE
  <2>1. t.hashes[t.orig[j]] = t.hashes[t.orig[k]]
    BY <1>5, <1>8
  <2>2. \A x, y \in 1..n : x < y => t.hashes[x] # t.hashes[y]
    <3>1. ~has_duplicate(t.hashes)
      BY DEF TwoDeals, TwoShape
    <3> QED BY <1>1, <3>1 DEF has_duplicate
  <2>3. t.orig[j] # t.orig[k]
    <3>1. j # k /\ j \in DOMAIN t.orig /\ k \in DOMAIN t.orig
      BY <1>3, <1>8
    <3> QED BY <1>2, <3>1
  <2>4. t.orig[j] < t.orig[k] \/ t.orig[k] < t.orig[j]
    BY <1>4, <2>3
  <2> QED BY <1>4, <2>1, <2>2, <2>4
<1>9. ~has_duplicate(SetAside(t))
  BY <1>6, <1>8 DEF has_duplicate
<1> QED BY <1>1, <1>3, <1>4, <1>6, <1>7, <1>9

\* A change of `at' alone.
LEMMA TwoAtOnly ==
    ASSUME NEW t, TwoDeals(t), t.i = Len(t.hashes) + 1, NEW a
    PROVE  LET p == [t EXCEPT !.at = a]
           IN  /\ TwoDeals(p) /\ p.at = a /\ p.hashes = t.hashes /\ p.r = t.r /\ p.i = t.i
               /\ p.overflow = t.overflow /\ p.bucket = t.bucket /\ p.slot = t.slot
               /\ p.level = t.level /\ p.orig = t.orig
<1>1. PICK p : p = [t EXCEPT !.at = a]
  OBVIOUS
<1>2. p = [at |-> a, hashes |-> t.hashes, r |-> t.r, overflow |-> t.overflow, i |-> t.i,
           level |-> t.level, bucket |-> t.bucket, slot |-> t.slot, cursor |-> t.cursor,
           orig |-> t.orig]
  BY <1>1 DEF TwoDeals, TwoShape
<1>3. /\ p.at = a /\ p.hashes = t.hashes /\ p.r = t.r /\ p.overflow = t.overflow
      /\ p.i = t.i /\ p.level = t.level /\ p.bucket = t.bucket
      /\ p.slot = t.slot /\ p.cursor = t.cursor /\ p.orig = t.orig
      /\ p = [at |-> p.at, hashes |-> p.hashes, r |-> p.r, overflow |-> p.overflow, i |-> p.i,
              level |-> p.level, bucket |-> p.bucket, slot |-> p.slot, cursor |-> p.cursor,
              orig |-> p.orig]
  BY <1>2
<1>4. \A j : Home(p, j) = Home(t, j)
  BY <1>3 DEF Home
<1>5. \A l, b : HomeTo(p, l, b) = HomeTo(t, l, b)
  BY <1>4 DEF HomeTo
<1>6. TwoShape(p)
  BY <1>3 DEF TwoDeals, TwoShape
<1>7. TwoAside(p)
  BY <1>3, <1>4 DEF TwoDeals, TwoAside
<1>8. TwoPlaced(p)
  BY <1>3, <1>4, <1>5 DEF TwoDeals, TwoPlaced
<1> QED BY <1>1, <1>3, <1>6, <1>7, <1>8 DEF TwoDeals

\* patch_level_1: a key set aside gets what level 1 found for it, the others
\* keep what they have.
LEMMA PatchedAt ==
    ASSUME NEW t, TwoDeals(t), NEW array \in [1..Len(t.hashes) -> Nat],
           NEW from \in [DOMAIN t.orig -> Nat]
    PROVE  /\ Patched(t, array, from) \in [1..Len(t.hashes) -> Nat]
           /\ \A j \in DOMAIN t.orig : Patched(t, array, from)[t.orig[j]] = from[j]
           /\ \A i \in 1..Len(t.hashes) : i \notin Range(t.orig) => Patched(t, array, from)[i] = array[i]
<1>1. PICK n \in Nat : n = Len(t.hashes)
  BY TwoTyped
<1>2. t.orig \in Seq(1..n) /\ \A j, k \in DOMAIN t.orig : t.orig[j] = t.orig[k] => j = k
  BY <1>1 DEF TwoDeals, TwoAside
<1>3. \A j \in DOMAIN t.orig : t.orig[j] \in 1..n
  BY <1>2
<1>4. PICK P : P = Patched(t, array, from)
  OBVIOUS
<1>5. P = [i \in 1..n |->
             IF \E j \in DOMAIN t.orig : t.orig[j] = i
             THEN from[CHOOSE j \in DOMAIN t.orig : t.orig[j] = i] ELSE array[i]]
  BY <1>1, <1>4 DEF Patched
<1>6. ASSUME NEW j \in DOMAIN t.orig
      PROVE  P[t.orig[j]] = from[j]
  <2>1. (CHOOSE k \in DOMAIN t.orig : t.orig[k] = t.orig[j]) = j
    BY <1>2
  <2> QED BY <1>3, <1>5, <2>1
<1>7. ASSUME NEW i \in 1..n, i \notin Range(t.orig)
      PROVE  P[i] = array[i]
  BY <1>5, <1>7 DEF Range
<1>8. \A i \in 1..n : P[i] \in Nat
  <2> TAKE i \in 1..n
  <2>1. CASE i \in Range(t.orig)
    <3>1. PICK j \in DOMAIN t.orig : i = t.orig[j]
      BY <2>1 DEF Range
    <3> QED BY <1>6, <3>1
  <2>2. CASE i \notin Range(t.orig)
    BY <1>1, <1>7, <2>2
  <2> QED BY <2>1, <2>2
<1>9. P \in [1..n -> Nat]
  BY <1>5, <1>8
<1> QED BY <1>1, <1>4, <1>6, <1>7, <1>9

\* Arrays that differ from those of the build for keys set aside only.
Patches(t, bs, ss) ==
  /\ bs \in [1..Len(t.hashes) -> Nat] /\ ss \in [1..Len(t.hashes) -> Nat]
  /\ \A i \in 1..Len(t.hashes) :
       i \notin Range(t.orig) => bs[i] = t.bucket[i] /\ ss[i] = t.slot[i]

Patch(t, bs, ss) == [t EXCEPT !.at = "ok", !.bucket = bs, !.slot = ss]

\* The level-0 part of a build outlives the patch.
LEMMA PatchInv ==
    ASSUME NEW t, TwoDeals(t), t.i = Len(t.hashes) + 1, NEW bs, NEW ss,
           Patches(t, bs, ss),
           NEW p, p = Patch(t, bs, ss)
    PROVE  /\ TwoDeals(p) /\ p.at = "ok" /\ p.hashes = t.hashes /\ p.orig = t.orig
           /\ p.bucket = bs /\ p.slot = ss
<1>1. p = [at |-> "ok", hashes |-> t.hashes, r |-> t.r, overflow |-> t.overflow, i |-> t.i,
           level |-> t.level, bucket |-> bs, slot |-> ss, cursor |-> t.cursor,
           orig |-> t.orig]
  BY DEF Patch, TwoDeals, TwoShape
<1>2. /\ p.at = "ok" /\ p.hashes = t.hashes /\ p.r = t.r /\ p.overflow = t.overflow
      /\ p.i = t.i /\ p.level = t.level /\ p.bucket = bs
      /\ p.slot = ss /\ p.cursor = t.cursor /\ p.orig = t.orig
      /\ p = [at |-> p.at, hashes |-> p.hashes, r |-> p.r, overflow |-> p.overflow, i |-> p.i,
              level |-> p.level, bucket |-> p.bucket, slot |-> p.slot, cursor |-> p.cursor,
              orig |-> p.orig]
  BY <1>1
<1>3. \A j : Home(p, j) = Home(t, j)
  BY <1>2 DEF Home
<1>4. \A l, b : HomeTo(p, l, b) = HomeTo(t, l, b)
  BY <1>3 DEF HomeTo
<1>5. TwoShape(p)
  BY <1>2 DEF TwoDeals, TwoShape, Patches
<1>6. TwoAside(p)
  BY <1>2, <1>3 DEF TwoDeals, TwoAside
<1>7. PICK n \in Nat : n = Len(t.hashes) /\ t.i - 1 = n
  BY TwoTyped
<1>8. ASSUME NEW j \in 1..n, Home(t, j) \notin t.overflow
      PROVE  p.bucket[j] = t.bucket[j] /\ p.slot[j] = t.slot[j]
  <2>1. j \notin Range(t.orig)
    BY <1>8 DEF TwoDeals, TwoAside
  <2> QED BY <1>2, <1>7, <2>1 DEF Patches
<1>9. TwoPlaced(p)
  <2>1. \A j \in 1..n :
          IF Home(p, j) \in p.overflow THEN p.level[j] = 1
          ELSE p.level[j] = 0 /\ p.bucket[j] = Home(p, j) /\ p.slot[j] < p.cursor[Home(p, j)]
    BY <1>2, <1>3, <1>7, <1>8 DEF TwoDeals, TwoPlaced
  <2>2. \A j, k \in 1..n :
          /\ Home(p, j) \notin p.overflow /\ Home(p, k) \notin p.overflow
          /\ p.bucket[j] = p.bucket[k] /\ p.slot[j] = p.slot[k]
          => j = k
    BY <1>2, <1>3, <1>7, <1>8 DEF TwoDeals, TwoPlaced
  <2>3. p.i - 1 = n
    BY <1>2, <1>7
  <2>4. \A j \in p.i..Len(p.hashes) : p.level[j] = 0
    BY <1>2 DEF TwoDeals, TwoPlaced
  <2>5. \A b \in (0..p.r - 1) \ p.overflow : p.cursor[b] = Cardinality(HomeTo(p, p.i - 1, b))
    BY <1>2, <1>4 DEF TwoDeals, TwoPlaced
  <2> QED BY <2>1, <2>2, <2>3, <2>4, <2>5 DEF TwoPlaced
<1> QED BY <1>2, <1>5, <1>6, <1>9 DEF TwoDeals

\* A step of BucketedPhf::build.
LEMMA BucketedStepOf ==
    ASSUME NEW hs, OneOf(one, hs), BucketedStep
    PROVE  OneOf(one', hs)
<1>1. PICK o : o = one
  OBVIOUS
<1>2. OneOf(o, hs) /\ o.at = "placing"
  BY <1>1 DEF BucketedStep
<1>3. OneDeals(o) /\ o.hashes = hs /\ hs # <<>> /\ ~has_duplicate(hs)
  BY <1>2 DEF OneOf, NoOne
<1>4. PICK p : p = DealKey(o, bucket_of(o.hashes[o.i], o.seed, o.r))
  OBVIOUS
<1>5. OneDeals(p) /\ p.hashes = o.hashes
  BY <1>2, <1>3, <1>4, DealKeyInv
<1>6. one' = p
  BY <1>1, <1>4 DEF BucketedStep
<1> QED BY <1>3, <1>5, <1>6 DEF OneOf

\* The steps of a container with one level.
LEMMA OneOfStep ==
    ASSUME NEW hs, OneOf(one, hs), two = NoTwo, BucketStep
    PROVE  OneOf(one', hs) /\ two' = NoTwo
<1>1. BucketedStep
  BY DEF BucketStep, PlaceLevel0, StartLevel1, FinishLevel1, NoTwo
<1> QED BY <1>1, BucketedStepOf DEF BucketedStep

\* NewTwo of any input.
LEMMA NewTwoOf ==
    ASSUME NEW hs \in Seq(Hashes)
    PROVE  TwoOf(NoOne, NewTwo(hs), hs)
<1>1. CASE hs = <<>> \/ has_duplicate(hs)
  BY <1>1 DEF NewTwo, TwoOf
<1>2. CASE hs # <<>> /\ ~has_duplicate(hs)
  BY <1>2, NewTwoDeals DEF TwoOf, LevelOne
<1> QED BY <1>1, <1>2

\* A step of the level-1 build leaves level 0 alone.
LEMMA LevelOneStep ==
    ASSUME NEW hs, TwoOf(one, two, hs), BucketedStep
    PROVE  TwoOf(one', two', hs)
<1>1. PICK o, t : o = one /\ t = two
  OBVIOUS
<1>2. o.at = "placing" /\ two' = t
  BY <1>1 DEF BucketedStep
<1>3. /\ TwoDeals(t) /\ t.hashes = hs /\ t.at \in {"placing", "level1", "ok", "exhausted"}
      /\ LevelOne(o, t) /\ hs # <<>> /\ ~has_duplicate(hs)
  BY <1>1, <1>2 DEF TwoOf, NoOne
<1>4. t.at = "level1"
  BY <1>2, <1>3 DEF LevelOne, NoOne
<1>5. OneDeals(o) /\ o.hashes = SetAside(t)
  BY <1>3, <1>4 DEF LevelOne
<1>6. PICK p : p = DealKey(o, bucket_of(o.hashes[o.i], o.seed, o.r))
  OBVIOUS
<1>7. OneDeals(p) /\ p.hashes = SetAside(t)
  BY <1>2, <1>5, <1>6, DealKeyInv
<1>8. LevelOne(p, t)
  BY <1>4, <1>7 DEF LevelOne
<1>9. one' = p
  BY <1>1, <1>6 DEF BucketedStep
<1> QED BY <1>2, <1>3, <1>8, <1>9 DEF TwoOf

\* A step of pass 3.
LEMMA PlaceLevel0Step ==
    ASSUME NEW hs, TwoOf(one, two, hs), PlaceLevel0
    PROVE  TwoOf(one', two', hs)
<1>1. PICK o, t : o = one /\ t = two
  OBVIOUS
<1>2. t.at = "placing" /\ t.i <= Len(t.hashes) /\ one' = o
  BY <1>1 DEF PlaceLevel0
<1>3. /\ TwoDeals(t) /\ t.hashes = hs /\ LevelOne(o, t) /\ hs # <<>> /\ ~has_duplicate(hs)
  BY <1>1, <1>2 DEF TwoOf, NoTwo
<1>4. PICK p : p = PlaceKey0(t, bucket_of(t.hashes[t.i], OtherSeed, t.r))
  OBVIOUS
<1>5. TwoDeals(p) /\ p.hashes = hs /\ p.at = "placing"
  BY <1>2, <1>3, <1>4, PlaceKeyInv
<1>6. two' = p
  BY <1>1, <1>4 DEF PlaceLevel0
<1>7. LevelOne(o, p)
  BY <1>2, <1>3, <1>5 DEF LevelOne
<1> QED BY <1>2, <1>3, <1>5, <1>6, <1>7 DEF TwoOf

\* The end of pass 3.
LEMMA StartLevel1Step ==
    ASSUME NEW hs, TwoOf(one, two, hs), StartLevel1
    PROVE  TwoOf(one', two', hs)
<1>1. PICK o, t : o = one /\ t = two
  OBVIOUS
<1>2. t.at = "placing" /\ t.i > Len(t.hashes)
  BY <1>1 DEF StartLevel1
<1>3. /\ TwoDeals(t) /\ t.hashes = hs /\ LevelOne(o, t) /\ hs # <<>> /\ ~has_duplicate(hs)
  BY <1>1, <1>2 DEF TwoOf, NoTwo
<1>4. o = NoOne /\ t.i = Len(t.hashes) + 1
  <2>1. Len(t.hashes) \in Nat /\ t.i \in Nat /\ t.i <= Len(t.hashes) + 1
    BY <1>3, TwoTyped
  <2> QED BY <1>2, <1>3, <2>1 DEF LevelOne
<1>5. CASE t.orig = <<>>
  <2>1. PICK p : p = [t EXCEPT !.at = "ok"]
    OBVIOUS
  <2>2. TwoDeals(p) /\ p.at = "ok" /\ p.hashes = hs /\ p.orig = <<>>
    BY <1>3, <1>4, <1>5, <2>1, TwoAtOnly
  <2>3. two' = p /\ one' = o
    BY <1>1, <1>5, <2>1 DEF StartLevel1
  <2>4. LevelOne(o, p)
    BY <1>4, <2>2 DEF LevelOne
  <2> QED BY <1>3, <2>2, <2>3, <2>4 DEF TwoOf
<1>6. CASE t.orig # <<>>
  <2>1. PICK p : p = [t EXCEPT !.at = "level1"]
    OBVIOUS
  <2>2. TwoDeals(p) /\ p.at = "level1" /\ p.hashes = t.hashes /\ p.orig = t.orig
    BY <1>3, <1>4, <2>1, TwoAtOnly
  <2>3. PICK w : w = NewOne(SetAside(t))
    OBVIOUS
  <2>4. two' = p /\ one' = w
    BY <1>1, <1>6, <2>1, <2>3 DEF StartLevel1, SetAside
  <2>5. OneDeals(w) /\ w.hashes = SetAside(t)
    BY <1>3, <1>6, <2>3, SetAsideHashes, NewOneDeals
  <2>6. SetAside(p) = SetAside(t)
    BY <2>2 DEF SetAside
  <2>7. LevelOne(w, p)
    BY <2>2, <2>5, <2>6 DEF LevelOne
  <2> QED BY <1>3, <2>2, <2>4, <2>7 DEF TwoOf
<1> QED BY <1>5, <1>6

\* Level 1 is done.
LEMMA FinishLevel1Step ==
    ASSUME NEW hs, TwoOf(one, two, hs), FinishLevel1
    PROVE  TwoOf(one', two', hs)
<1>1. PICK o, t : o = one /\ t = two
  OBVIOUS
<1>2. t.at = "level1" /\ o.at # "placing" /\ one' = o
  BY <1>1 DEF FinishLevel1
<1>3. /\ TwoDeals(t) /\ t.hashes = hs /\ LevelOne(o, t) /\ hs # <<>> /\ ~has_duplicate(hs)
  BY <1>1, <1>2 DEF TwoOf, NoTwo
<1>4. OneDeals(o) /\ o.hashes = SetAside(t) /\ t.i = Len(t.hashes) + 1
  BY <1>2, <1>3 DEF LevelOne, TwoDeals, TwoShape
<1>5. o.at \in {"ok", "exhausted"}
  BY <1>2, <1>4 DEF OneDeals
<1>6. PICK n \in Nat : n = Len(t.hashes) /\ t.bucket \in [1..n -> Nat] /\ t.slot \in [1..n -> Nat]
  BY <1>3, TwoTyped DEF TwoDeals, TwoShape
<1>7. o.bucket \in [DOMAIN t.orig -> Nat] /\ o.slot \in [DOMAIN t.orig -> Nat]
  <2>1. o.hashes \in Seq(Hashes)
    BY <1>4 DEF OneDeals
  <2>2. DOMAIN o.hashes = 1..Len(o.hashes)
    BY <2>1
  <2>3. DOMAIN o.hashes = DOMAIN t.orig
    BY <1>4 DEF SetAside
  <2> QED BY <1>4, <2>2, <2>3 DEF OneDeals
<1>8. CASE o.at = "ok"
  <2>1. PICK bs, ss : bs = Patched(t, t.bucket, o.bucket) /\ ss = Patched(t, t.slot, o.slot)
    OBVIOUS
  <2>2. /\ bs \in [1..Len(t.hashes) -> Nat]
        /\ \A j \in DOMAIN t.orig : bs[t.orig[j]] = o.bucket[j]
        /\ \A i \in 1..Len(t.hashes) : i \notin Range(t.orig) => bs[i] = t.bucket[i]
    <3>1. PICK f, g : /\ f = t.bucket /\ g = o.bucket /\ bs = Patched(t, f, g)
                      /\ f \in [1..Len(t.hashes) -> Nat] /\ g \in [DOMAIN t.orig -> Nat]
      BY <1>6, <1>7, <2>1
    <3> QED BY <1>3, <3>1, PatchedAt
  <2>3. /\ ss \in [1..Len(t.hashes) -> Nat]
        /\ \A j \in DOMAIN t.orig : ss[t.orig[j]] = o.slot[j]
        /\ \A i \in 1..Len(t.hashes) : i \notin Range(t.orig) => ss[i] = t.slot[i]
    <3>1. PICK f, g : /\ f = t.slot /\ g = o.slot /\ ss = Patched(t, f, g)
                      /\ f \in [1..Len(t.hashes) -> Nat] /\ g \in [DOMAIN t.orig -> Nat]
      BY <1>6, <1>7, <2>1
    <3> QED BY <1>3, <3>1, PatchedAt
  <2>4. PICK p : p = Patch(t, bs, ss)
    OBVIOUS
  <2>5. TwoDeals(p) /\ p.at = "ok" /\ p.hashes = hs /\ p.orig = t.orig /\ p.bucket = bs /\ p.slot = ss
    <3>1. Patches(t, bs, ss)
      BY <2>2, <2>3 DEF Patches
    <3>2. TwoDeals(t) /\ t.i = Len(t.hashes) + 1
      BY <1>3, <1>4
    <3>3. /\ TwoDeals(p) /\ p.at = "ok" /\ p.hashes = t.hashes /\ p.orig = t.orig
          /\ p.bucket = bs /\ p.slot = ss
      BY <2>4, <3>1, <3>2, PatchInv
    <3> QED BY <1>3, <3>3
  <2>6. two' = p
    BY <1>1, <1>8, <2>1, <2>4 DEF FinishLevel1, Patch
  <2>7. SetAside(p) = SetAside(t)
    BY <1>3, <2>5 DEF SetAside
  <2>8. o # NoOne /\ t.orig # <<>>
    <3>1. o.hashes # <<>> /\ o.hashes \in Seq(Hashes)
      BY <1>4 DEF OneDeals
    <3>2. NoOne.hashes = <<>>
      BY DEF NoOne
    <3>3. DOMAIN o.hashes = DOMAIN t.orig
      BY <1>4 DEF SetAside
    <3> QED BY <3>1, <3>2, <3>3
  <2>9. LevelOne(o, p)
    BY <1>4, <1>8, <2>2, <2>3, <2>5, <2>7, <2>8 DEF LevelOne
  <2> QED BY <1>2, <1>3, <2>5, <2>6, <2>9 DEF TwoOf
<1>9. CASE o.at = "exhausted"
  <2>1. PICK p : p = [t EXCEPT !.at = "exhausted"]
    OBVIOUS
  <2>2. TwoDeals(p) /\ p.at = "exhausted" /\ p.hashes = t.hashes /\ p.orig = t.orig
    BY <1>3, <1>4, <2>1, TwoAtOnly
  <2>3. two' = p
    BY <1>1, <1>9, <2>1 DEF FinishLevel1
  <2>4. SetAside(p) = SetAside(t)
    BY <2>2 DEF SetAside
  <2>5. LevelOne(o, p)
    BY <1>4, <1>9, <2>2, <2>4 DEF LevelOne
  <2> QED BY <1>2, <1>3, <2>2, <2>3, <2>5 DEF TwoOf
<1> QED BY <1>5, <1>8, <1>9

\* The steps of a container with two levels.
LEMMA TwoOfStep ==
    ASSUME NEW hs, TwoOf(one, two, hs), BucketStep
    PROVE  TwoOf(one', two', hs)
BY LevelOneStep, PlaceLevel0Step, StartLevel1Step, FinishLevel1Step DEF BucketStep

\* A finished build of one level: every key has a slot of its own in the
\* bucket that the function computes for it.
LEMMA OneBuilt ==
    ASSUME NEW o, OneDeals(o), o.at = "ok"
    PROVE  /\ \A j \in 1..Len(o.hashes) :
                /\ o.bucket[j] = bucket_of(o.hashes[j], o.seed, o.r)
                /\ o.bucket[j] \in 0..o.r - 1
                /\ o.slot[j] \in 0..SLOTS_PER_BUCKET - 1
           /\ \A j, k \in 1..Len(o.hashes) :
                o.bucket[j] = o.bucket[k] /\ o.slot[j] = o.slot[k] => j = k
<1>1. o.hashes \in Seq(Hashes) /\ o.i = Len(o.hashes) + 1 /\ o.r \in Nat \ {0} /\ o.seed \in Seeds
  BY DEF OneDeals
<1>2. PICK n \in Nat : n = Len(o.hashes) /\ n = o.i - 1
  BY <1>1
<1>3. ASSUME NEW j \in 1..n
      PROVE  /\ o.bucket[j] = bucket_of(o.hashes[j], o.seed, o.r)
             /\ o.bucket[j] \in 0..o.r - 1
             /\ o.slot[j] \in 0..SLOTS_PER_BUCKET - 1
  <2>1. o.hashes[j] \in Hashes
    BY <1>1, <1>2
  <2>2. o.bucket[j] = bucket_of(o.hashes[j], o.seed, o.r) /\ o.slot[j] < o.size[o.bucket[j]]
    BY <1>2 DEF OneDeals
  <2>3. o.bucket[j] \in 0..o.r - 1
    BY <1>1, <2>1, <2>2, BucketRange
  <2>4. o.size[o.bucket[j]] \in 0..SLOTS_PER_BUCKET /\ o.slot[j] \in Nat
    BY <1>2, <2>3 DEF OneDeals
  <2>5. o.slot[j] \in 0..SLOTS_PER_BUCKET - 1
    BY <2>2, <2>4, BucketAssumption
  <2> QED BY <2>2, <2>3, <2>5
<1>4. \A j, k \in 1..n : o.bucket[j] = o.bucket[k] /\ o.slot[j] = o.slot[k] => j = k
  BY <1>2 DEF OneDeals
<1> QED BY <1>2, <1>3, <1>4

\* A level-0 bucket that is not marked has a slot for each of its keys.
LEMMA Unmarked ==
    ASSUME NEW t, TwoDeals(t), NEW l \in 0..Len(t.hashes), NEW b \in (0..t.r - 1) \ t.overflow
    PROVE  /\ Cardinality(HomeTo(t, l, b)) \in Nat
           /\ Cardinality(HomeTo(t, l, b)) <= SLOTS_PER_BUCKET
<1>1. PICK n \in Nat : n = Len(t.hashes) /\ DOMAIN t.hashes = 1..n /\ l \in 0..n
  BY TwoTyped
<1>2. SizeAt0(t.hashes, t.r, b) = Cardinality(HomeTo(t, n, b))
  BY <1>1 DEF SizeAt0, HomeTo, Home
<1>3. IsFiniteSet(HomeTo(t, n, b)) /\ Cardinality(HomeTo(t, n, b)) \in Nat
  BY HomeToNext
<1>4. Cardinality(HomeTo(t, n, b)) <= SLOTS_PER_BUCKET
  <2>1. ~(SizeAt0(t.hashes, t.r, b) > SLOTS_PER_BUCKET)
    BY DEF TwoDeals, TwoShape
  <2> QED BY <1>2, <1>3, <2>1, BucketAssumption
<1>5. HomeTo(t, l, b) \in SUBSET HomeTo(t, n, b)
  BY <1>1 DEF HomeTo
<1>6. Cardinality(HomeTo(t, l, b)) <= Cardinality(HomeTo(t, n, b))
  <2>1. PICK S, T : S = HomeTo(t, l, b) /\ T = HomeTo(t, n, b)
    OBVIOUS
  <2> QED BY <1>3, <1>5, <2>1, FS_Subset
<1>7. Cardinality(HomeTo(t, l, b)) \in Nat
  <2>1. l \in Nat
    BY <1>1
  <2> QED BY <2>1, HomeToNext
<1> QED BY <1>3, <1>4, <1>6, <1>7, BucketAssumption

\* Where the key j of a finished build of two levels lies.
KeyAt(o, t, j) ==
  IF Home(t, j) \in t.overflow
  THEN /\ t.level[j] = 1
       /\ t.bucket[j] = bucket_of(t.hashes[j], o.seed, o.r)
       /\ t.bucket[j] \in 0..o.r - 1
  ELSE /\ t.level[j] = 0
       /\ t.bucket[j] = Home(t, j)
       /\ t.bucket[j] \in 0..t.r - 1

\* A finished build of two levels: every key has a slot of its own in the
\* level and the bucket that the function computes for it.
LEMMA TwoBuilt ==
    ASSUME NEW o, NEW t, TwoDeals(t), LevelOne(o, t), t.at = "ok"
    PROVE  /\ \A j \in 1..Len(t.hashes) : KeyAt(o, t, j) /\ t.slot[j] \in 0..SLOTS_PER_BUCKET - 1
           /\ \A j, k \in 1..Len(t.hashes) :
                t.level[j] = t.level[k] /\ t.bucket[j] = t.bucket[k] /\ t.slot[j] = t.slot[k] => j = k
<1>1. PICK n \in Nat : n = Len(t.hashes) /\ n = t.i - 1
  <2>1. t.i = Len(t.hashes) + 1
    BY DEF TwoDeals, TwoShape
  <2> QED BY <2>1, TwoTyped
<1>2. ASSUME NEW j \in 1..n, Home(t, j) \notin t.overflow
      PROVE  KeyAt(o, t, j) /\ t.slot[j] \in 0..SLOTS_PER_BUCKET - 1 /\ t.level[j] = 0
  <2>1. /\ t.level[j] = 0 /\ t.bucket[j] = Home(t, j) /\ t.slot[j] < t.cursor[Home(t, j)]
    BY <1>1, <1>2 DEF TwoDeals, TwoPlaced
  <2>2. Home(t, j) \in (0..t.r - 1) \ t.overflow
    BY <1>1, <1>2, TwoTyped
  <2>3. t.cursor[Home(t, j)] = Cardinality(HomeTo(t, n, Home(t, j)))
    BY <1>1, <2>2 DEF TwoDeals, TwoPlaced
  <2>4. t.cursor[Home(t, j)] \in Nat /\ t.cursor[Home(t, j)] <= SLOTS_PER_BUCKET
    <3>1. n \in 0..Len(t.hashes)
      BY <1>1
    <3> QED BY <2>2, <2>3, <3>1, Unmarked
  <2>5. t.slot[j] \in Nat
    BY <1>1 DEF TwoDeals, TwoShape
  <2>6. t.slot[j] \in 0..SLOTS_PER_BUCKET - 1
    BY <2>1, <2>4, <2>5, BucketAssumption
  <2> QED BY <1>2, <2>1, <2>2, <2>6 DEF KeyAt
<1>3. ASSUME NEW j \in 1..n, Home(t, j) \in t.overflow
      PROVE  \E x \in DOMAIN t.orig :
               /\ j = t.orig[x] /\ x \in 1..Len(o.hashes) /\ o.hashes[x] = t.hashes[j]
               /\ OneDeals(o) /\ o.at = "ok" /\ t.level[j] = 1
               /\ t.bucket[j] = o.bucket[x] /\ t.slot[j] = o.slot[x]
  <2>1. j \in Range(t.orig)
    BY <1>1, <1>3 DEF TwoDeals, TwoAside
  <2>2. PICK x \in DOMAIN t.orig : j = t.orig[x]
    BY <2>1 DEF Range
  <2>3. t.orig # <<>>
    BY <2>2
  <2>4. OneDeals(o) /\ o.hashes = SetAside(t) /\ o.at = "ok"
    BY <2>3 DEF LevelOne
  <2>5. t.bucket[j] = o.bucket[x] /\ t.slot[j] = o.slot[x]
    BY <2>2 DEF LevelOne
  <2>6. o.hashes[x] = t.hashes[j] /\ x \in DOMAIN o.hashes
    BY <2>2, <2>4 DEF SetAside
  <2>7. o.hashes \in Seq(Hashes)
    BY <2>4 DEF OneDeals
  <2>8. x \in 1..Len(o.hashes)
    BY <2>6, <2>7
  <2>9. t.level[j] = 1
    BY <1>1, <1>3 DEF TwoDeals, TwoPlaced
  <2> QED BY <2>2, <2>4, <2>5, <2>6, <2>8, <2>9
<1>4. ASSUME NEW j \in 1..n, Home(t, j) \in t.overflow
      PROVE  KeyAt(o, t, j) /\ t.slot[j] \in 0..SLOTS_PER_BUCKET - 1
  <2>1. PICK x \in DOMAIN t.orig :
               /\ j = t.orig[x] /\ x \in 1..Len(o.hashes) /\ o.hashes[x] = t.hashes[j]
               /\ OneDeals(o) /\ o.at = "ok" /\ t.level[j] = 1
               /\ t.bucket[j] = o.bucket[x] /\ t.slot[j] = o.slot[x]
    BY <1>3, <1>4
  <2>2. /\ o.bucket[x] = bucket_of(o.hashes[x], o.seed, o.r)
        /\ o.bucket[x] \in 0..o.r - 1 /\ o.slot[x] \in 0..SLOTS_PER_BUCKET - 1
    BY <2>1, OneBuilt
  <2> QED BY <1>4, <2>1, <2>2 DEF KeyAt
<1>5. ASSUME NEW j \in 1..n, NEW k \in 1..n, t.level[j] = t.level[k], t.bucket[j] = t.bucket[k],
             t.slot[j] = t.slot[k]
      PROVE  j = k
  <2>1. CASE Home(t, j) \in t.overflow /\ Home(t, k) \in t.overflow
    <3>1. PICK x \in 1..Len(o.hashes) : /\ j = t.orig[x] /\ OneDeals(o) /\ o.at = "ok"
                                        /\ t.bucket[j] = o.bucket[x] /\ t.slot[j] = o.slot[x]
      BY <1>3, <2>1
    <3>2. PICK y \in 1..Len(o.hashes) : /\ k = t.orig[y]
                                        /\ t.bucket[k] = o.bucket[y] /\ t.slot[k] = o.slot[y]
      BY <1>3, <2>1
    <3>3. x = y
      BY <1>5, <3>1, <3>2, OneBuilt
    <3> QED BY <3>1, <3>2, <3>3
  <2>2. CASE Home(t, j) \notin t.overflow /\ Home(t, k) \notin t.overflow
    BY <1>1, <1>5, <2>2 DEF TwoDeals, TwoPlaced
  <2>3. CASE Home(t, j) \in t.overflow /\ Home(t, k) \notin t.overflow
    BY <1>2, <1>4, <1>5, <2>3 DEF KeyAt
  <2>4. CASE Home(t, j) \notin t.overflow /\ Home(t, k) \in t.overflow
    BY <1>2, <1>4, <1>5, <2>4 DEF KeyAt
  <2> QED BY <2>1, <2>2, <2>3, <2>4
<1> QED BY <1>1, <1>2, <1>4, <1>5

(***************************************************************************)
(* The containers.                                                         *)
(***************************************************************************)

\* The hashes of an input.
LEMMA HashesOfInput ==
    ASSUME NEW ks \in Inputs
    PROVE  /\ ks \in Seq(Keys) /\ Len(ks) \in Nat
           /\ HashesOf(ks) \in Seq(Hashes)
           /\ Len(HashesOf(ks)) = Len(ks) /\ DOMAIN HashesOf(ks) = DOMAIN ks
           /\ \A i \in DOMAIN ks : HashesOf(ks)[i] = Hash[ks[i]]
<1>1. ks \in Seq(Keys) /\ Hash \in [Keys -> Hashes]
  BY MapsAssumption
<1>2. Len(ks) \in Nat /\ DOMAIN ks = 1..Len(ks) /\ \A i \in 1..Len(ks) : ks[i] \in Keys
  BY <1>1
<1>3. HashesOf(ks) = [i \in 1..Len(ks) |-> Hash[ks[i]]]
  BY <1>2 DEF HashesOf
<1>4. \A i \in 1..Len(ks) : Hash[ks[i]] \in Hashes
  BY <1>1, <1>2
<1>5. HashesOf(ks) \in Seq(Hashes) /\ Len(HashesOf(ks)) = Len(ks)
  BY <1>2, <1>3, <1>4
<1> QED BY <1>1, <1>2, <1>3, <1>5

\* table_size gives at least a slot per key.
LEMMA TableSizeEnough ==
    ASSUME NEW n \in Nat
    PROVE  table_size(n) \in Nat
<1>1. n * LoadPercent + 99 \in Nat
  BY MapsAssumption
<1> QED BY <1>1 DEF table_size

\* from_entries of the CHD containers.
LEMMA ChdFromInv ==
    ASSUME ChdInv, NEW k, NEW ks \in Inputs, NEW size \in Nat, ChdFrom(k, ks, size)
    PROVE  ChdInv'
BY HashesOfInput, StartBuildInv DEF ChdFrom

\* The CHD construction inside the containers.
LEMMA ChdInvNext == ChdInv /\ [Next]_vars => ChdInv'
<1> SUFFICES ASSUME ChdInv, [Next]_vars PROVE ChdInv'
  OBVIOUS
<1>1. ASSUME NEW ks \in Inputs,
             \/ MapFromEntries(ks) \/ SetFromKeys(ks) \/ UncheckedFromEntries(ks)
             \/ SparseFromEntries(ks)
      PROVE  ChdInv'
  <2>1. Len(ks) \in Nat /\ table_size(Len(ks)) \in Nat
    BY HashesOfInput, TableSizeEnough
  <2> QED BY <1>1, <2>1, ChdFromInv
          DEF MapFromEntries, SetFromKeys, UncheckedFromEntries, SparseFromEntries
<1>2. ASSUME NEW ks \in Inputs,
             \/ BucketedFromEntries(ks) \/ BucketedFromKeys(ks)
             \/ MultilevelFromEntries(ks) \/ MultilevelFromKeys(ks)
      PROVE  ChdInv'
  BY <1>2, ChdInvStutter DEF BucketedFromEntries, BucketedFromKeys, MultilevelFromEntries,
                             MultilevelFromKeys, OneFrom, TwoFrom
<1>3. CASE BuildStep
  BY <1>3, ChdInvStep, ChdInvStutter DEF BuildStep
<1>4. CASE Allocate \/ PlaceEntry \/ Finish \/ Drop \/ UNCHANGED vars
  BY <1>4, ChdInvStutter DEF Allocate, PlaceEntry, Finish, Drop, vars
<1> QED BY <1>1, <1>2, <1>3, <1>4 DEF Next

\* ChdInv holds in every state of every build.
THEOREM ChdInvHolds == Spec => []ChdInv
<1>1. Init => ChdInv
  BY ChdInvInit DEF Init
<1> QED BY <1>1, ChdInvNext, PTL DEF Spec

\* A finished CHD function is perfect: whatever order the buckets are taken
\* in, whichever seeds fail and whichever parallel worker wins.
THEOREM FinishedChdIsPerfect == Spec => []PhfIsPerfect
BY ChdInvHolds, FinishedIsPerfect, PTL

\* Cancellation is honest: a worker is stopped only for a winner, and
\* Exhausted means that every seed was searched to its last displacement.
THEOREM CancellationIsHonest == Spec => []ExhaustedIsHonest
<1>1. ChdInv => ExhaustedIsHonest
  BY DEF ChdInv
<1> QED BY <1>1, ChdInvHolds, PTL

----------------------------------------------------------------------------
(* The containers: MapsInv is inductive. *)

\* A CHD construction that rests has no step.
LEMMA ChdRests ==
    ASSUME ChdInv, outcome \in {"idle", "duplicate"}
    PROVE  ~ChdStep
<1>1. \A s \in Seeds : attempt[s].at = "waiting"
  BY DEF ChdInv, Waiting
<1> QED BY <1>1 DEF ChdStep, StartSeed, TryDisplacement, Succeed, Deliver, SkipSeed, EndBuild

\* What the steps of a CHD construction leave alone.
LEMMA ChdKeeps ==
    ASSUME ChdStep
    PROVE  hashes' = hashes /\ m' = m /\ outcome' \in {outcome, "ok", "exhausted"}
<1>1. ASSUME NEW s \in Seeds, StartSeed(s) \/ TryDisplacement(s) \/ Deliver(s) \/ SkipSeed(s)
      PROVE  hashes' = hashes /\ m' = m /\ outcome' = outcome
  BY <1>1 DEF StartSeed, TryDisplacement, Deliver, SkipSeed
<1>2. ASSUME NEW s \in Seeds, Succeed(s)
      PROVE  hashes' = hashes /\ m' = m /\ outcome' \in {outcome, "ok", "exhausted"}
  BY <1>2 DEF Succeed
<1>3. ASSUME EndBuild
      PROVE  hashes' = hashes /\ m' = m /\ outcome' \in {outcome, "ok", "exhausted"}
  BY <1>3 DEF EndBuild
<1> QED BY <1>1, <1>2, <1>3 DEF ChdStep

\* A bucketed construction that rests has no step.
LEMMA BucketsRest ==
    ASSUME one = NoOne, two = NoTwo
    PROVE  ~BucketStep
BY DEF BucketStep, BucketedStep, PlaceLevel0, StartLevel1, FinishLevel1, NoOne, NoTwo

\* from_entries of the CHD containers starts the construction of its input.
LEMMA ChdFromBuilds ==
    ASSUME BuildOf, NEW ks \in Inputs, NEW k \in Chd, NEW size, ChdFrom(k, ks, size),
           size = IF k = "sparse" THEN table_size(Len(ks)) ELSE Len(ks)
    PROVE  BuildOf' /\ phase' = "building"
<1>1. phase = "new" /\ phase' = "building" /\ kind' = k /\ input' = ks
  BY DEF ChdFrom, From
<1>2. one' = NoOne /\ two' = NoTwo
  BY <1>1 DEF BuildOf, ChdFrom, bucketVars
<1>3. /\ hashes' = HashesOf(ks) /\ m' = size
      /\ outcome' = IF HashesOf(ks) = <<>> THEN "ok"
                    ELSE IF has_duplicate(HashesOf(ks)) THEN "duplicate" ELSE "building"
  BY DEF ChdFrom, StartBuild
<1>4. outcome' # "idle"
  BY <1>3
<1>5. outcome' = "duplicate" <=> has_duplicate(hashes')
  <2>1. ~has_duplicate(<<>>)
    BY DEF has_duplicate
  <2> QED BY <1>3, <2>1
<1>6. /\ hashes' = HashesOf(input')
      /\ m' = IF kind' = "sparse" THEN table_size(Len(input')) ELSE Len(input')
  BY <1>1, <1>3
<1>7. k \notin Bucketed /\ k \notin Multilevel
  BY DEF Chd, Dense, Bucketed, Multilevel
<1> QED BY <1>1, <1>2, <1>4, <1>5, <1>6, <1>7 DEF BuildOf

\* from_entries of the containers with one level.
LEMMA OneFromBuilds ==
    ASSUME BuildOf, NEW ks \in Inputs, NEW k \in Bucketed, OneFrom(k, ks)
    PROVE  BuildOf' /\ phase' = "building"
<1>1. phase = "new" /\ phase' = "building" /\ kind' = k /\ input' = ks
  BY DEF OneFrom, From
<1>2. outcome' = "idle" /\ two' = NoTwo /\ one' = NewOne(HashesOf(ks))
  BY <1>1 DEF BuildOf, OneFrom, chdVars
<1>3. OneOf(one', HashesOf(input'))
  BY <1>1, <1>2, HashesOfInput, NewOneOf
<1>4. k \notin Chd /\ k \notin Multilevel
  BY DEF Chd, Dense, Bucketed, Multilevel
<1> QED BY <1>1, <1>2, <1>3, <1>4 DEF BuildOf

\* from_entries of the containers with two levels.
LEMMA TwoFromBuilds ==
    ASSUME BuildOf, NEW ks \in Inputs, NEW k \in Multilevel, TwoFrom(k, ks)
    PROVE  BuildOf' /\ phase' = "building"
<1>1. phase = "new" /\ phase' = "building" /\ kind' = k /\ input' = ks
  BY DEF TwoFrom, From
<1>2. outcome' = "idle" /\ one' = NoOne /\ two' = NewTwo(HashesOf(ks))
  BY <1>1 DEF BuildOf, TwoFrom, chdVars
<1>3. TwoOf(one', two', HashesOf(input'))
  BY <1>1, <1>2, HashesOfInput, NewTwoOf
<1>4. k \notin Chd /\ k \notin Bucketed
  BY DEF Chd, Dense, Bucketed, Multilevel
<1> QED BY <1>1, <1>2, <1>3, <1>4 DEF BuildOf

\* A step of the construction.
LEMMA BuildStepBuilds ==
    ASSUME ChdInv, BuildOf, BuildStep
    PROVE  BuildOf' /\ phase' = phase /\ phase = "building"
<1>1. /\ phase = "building" /\ phase' = phase /\ kind' = kind /\ input' = input
  BY DEF BuildStep, mapsVars
<1>2. CASE ChdStep /\ UNCHANGED bucketVars
  <2>1. outcome \notin {"idle", "duplicate"}
    BY <1>2, ChdRests
  <2>2. kind \in Chd
    BY <1>1, <2>1 DEF BuildOf
  <2>3. /\ hashes' = hashes /\ m' = m /\ outcome' \notin {"idle", "duplicate"}
        /\ one' = one /\ two' = two
    BY <1>2, <2>1, ChdKeeps DEF bucketVars
  <2>4. /\ hashes' = HashesOf(input') /\ ~has_duplicate(hashes')
        /\ m' = IF kind' = "sparse" THEN table_size(Len(input')) ELSE Len(input')
        /\ one' = NoOne /\ two' = NoTwo /\ input' \in Inputs
    BY <1>1, <2>1, <2>2, <2>3 DEF BuildOf
  <2>5. kind \notin Bucketed /\ kind \notin Multilevel
    BY <2>2 DEF Chd, Dense, Bucketed, Multilevel
  <2> QED BY <1>1, <2>2, <2>3, <2>4, <2>5 DEF BuildOf
<1>3. CASE BucketStep /\ UNCHANGED chdVars
  <2>1. hashes' = hashes /\ m' = m /\ outcome' = outcome
    BY <1>3 DEF chdVars
  <2>2. kind \notin Chd
    BY <1>1, <1>3, BucketsRest DEF BuildOf
  <2>3. PICK hs : hs = HashesOf(input)
    OBVIOUS
  <2>4. hs = HashesOf(input')
    BY <1>1, <2>3
  <2>5. CASE kind \in Bucketed
    <3>1. kind \notin Multilevel
      BY <2>5 DEF Bucketed, Multilevel
    <3>2. OneOf(one, hs) /\ two = NoTwo
      BY <1>1, <2>3, <2>5 DEF BuildOf
    <3>3. OneOf(one', hs) /\ two' = NoTwo
      BY <1>3, <3>2, OneOfStep
    <3> QED BY <1>1, <2>1, <2>2, <2>4, <2>5, <3>1, <3>3 DEF BuildOf
  <2>6. CASE kind \in Multilevel
    <3>1. kind \notin Bucketed
      BY <2>6 DEF Bucketed, Multilevel
    <3>2. TwoOf(one, two, hs)
      BY <1>1, <2>3, <2>6 DEF BuildOf
    <3>3. TwoOf(one', two', hs)
      BY <1>3, <3>2, TwoOfStep
    <3> QED BY <1>1, <2>1, <2>2, <2>4, <2>6, <3>1, <3>3 DEF BuildOf
  <2> QED BY <1>1, <2>2, <2>5, <2>6 DEF BuildOf
<1> QED BY <1>1, <1>2, <1>3 DEF BuildStep

\* The other steps leave the construction alone.
LEMMA BuildOfKept ==
    ASSUME BuildOf, UNCHANGED <<kind, input, chdVars, bucketVars>>,
           phase = "new" <=> phase' = "new"
    PROVE  BuildOf' /\ Built' = Built /\ Slots' = Slots
<1>1. /\ kind' = kind /\ input' = input /\ hashes' = hashes /\ m' = m /\ outcome' = outcome
      /\ one' = one /\ two' = two
  BY DEF chdVars, bucketVars
<1>2. Built' = Built /\ Slots' = Slots
  BY <1>1 DEF Built, Slots
<1>3. BuildOf'
  BY <1>1 DEF BuildOf
<1> QED BY <1>2, <1>3

\* The slots of a kept construction are the same.
LEMMA SlotOfKept ==
    ASSUME UNCHANGED <<kind, input, chdVars, bucketVars>>, NEW i
    PROVE  SlotOf(i)' = SlotOf(i)
<1>1. r' = r
  BY DEF chdVars, r
<1>2. index(Hash[input[i]])' = index(Hash[input[i]])
  BY <1>1 DEF index, chdVars
<1> QED BY <1>2 DEF SlotOf, chdVars, bucketVars

\* A construction that succeeded had no two equal hashes to deal with.
LEMMA OkMeansDistinct ==
    ASSUME BuildOf, phase # "new", Built = "ok"
    PROVE  ~has_duplicate(HashesOf(input))
<1>1. CASE kind \in Chd
  BY <1>1 DEF BuildOf, Built
<1>2. CASE kind \in Bucketed
  <2>1. kind \notin Chd /\ kind \notin Multilevel
    BY <1>2 DEF Chd, Dense, Bucketed, Multilevel
  <2>2. one.at = "ok" /\ OneOf(one, HashesOf(input))
    BY <1>2, <2>1 DEF BuildOf, Built
  <2> QED BY <2>2 DEF OneOf, NoOne, has_duplicate
<1>3. CASE kind \in Multilevel
  <2>1. kind \notin Chd
    BY <1>3 DEF Chd, Dense, Multilevel
  <2>2. two.at = "ok" /\ TwoOf(one, two, HashesOf(input))
    BY <1>3, <2>1 DEF BuildOf, Built
  <2> QED BY <2>2 DEF TwoOf, NoTwo, has_duplicate
<1> QED BY <1>1, <1>2, <1>3 DEF BuildOf

\* Then the keys, too, are known by their hashes.
LEMMA DistinctKeys ==
    ASSUME NEW ks \in Inputs, ~has_duplicate(HashesOf(ks)),
           NEW i \in DOMAIN ks, NEW j \in DOMAIN ks, Hash[ks[i]] = Hash[ks[j]]
    PROVE  i = j
<1>1. DOMAIN ks = 1..Len(ks) /\ Len(ks) \in Nat /\ DOMAIN HashesOf(ks) = DOMAIN ks
      /\ HashesOf(ks)[i] = HashesOf(ks)[j]
  BY HashesOfInput
<1>2. ~(i < j) /\ ~(j < i)
  BY <1>1 DEF has_duplicate
<1> QED BY <1>1, <1>2

\* What the construction promises the container: every entry has a slot of
\* its own.
SlotsRight ==
  /\ Len(input) \in Nat /\ DOMAIN input = 1..Len(input)
  /\ \A i \in 1..Len(input) : SlotOf(i) \in Slots
  /\ \A i, j \in 1..Len(input) : SlotOf(i) = SlotOf(j) => i = j

\* The slots of a CHD container.
LEMMA ChdSlots ==
    ASSUME ChdInv, BuildOf, phase # "new", Built = "ok", kind \in Chd
    PROVE  SlotsRight
<1>1. /\ outcome = "ok" /\ input \in Inputs /\ hashes = HashesOf(input)
      /\ ~has_duplicate(HashesOf(input))
  BY OkMeansDistinct DEF Built, BuildOf
<1>2. PhfIsPerfect
  BY FinishedIsPerfect
<1>3. PICK n \in Nat : n = Len(input) /\ DOMAIN input = 1..n
  BY <1>1, HashesOfInput
<1>4. \A i \in 1..n : Hash[input[i]] \in Range(hashes)
  <2>1. DOMAIN hashes = 1..n /\ \A i \in 1..n : hashes[i] = Hash[input[i]]
    BY <1>1, <1>3, HashesOfInput
  <2> QED BY <2>1 DEF Range
<1>5. \A i \in 1..n : SlotOf(i) = <<0, 0, index(Hash[input[i]])>>
  BY DEF SlotOf
<1>6. \A i \in 1..n : SlotOf(i) \in Slots
  <2> TAKE i \in 1..n
  <2>1. index(Hash[input[i]]) \in 0..m - 1
    BY <1>1, <1>2, <1>4 DEF PhfIsPerfect
  <2> QED BY <1>5, <2>1 DEF Slots
<1>7. ASSUME NEW i \in 1..n, NEW j \in 1..n, SlotOf(i) = SlotOf(j) PROVE i = j
  <2>1. index(Hash[input[i]]) = index(Hash[input[j]])
    BY <1>5, <1>7
  <2>2. Hash[input[i]] = Hash[input[j]]
    BY <1>1, <1>2, <1>4, <2>1 DEF PhfIsPerfect
  <2> QED BY <1>1, <1>3, <2>2, DistinctKeys
<1> QED BY <1>3, <1>6, <1>7 DEF SlotsRight

\* The slots of a container with one level.
LEMMA OneSlots ==
    ASSUME BuildOf, phase # "new", Built = "ok", kind \in Bucketed
    PROVE  /\ SlotsRight
           /\ \A i \in 1..Len(input) : /\ SlotOf(i)[1] = 0 /\ one.r # 0
                                       /\ SlotOf(i)[2] = OneBucket(Hash[input[i]])
<1>1. kind \notin Chd /\ kind \notin Multilevel
  BY DEF Chd, Dense, Bucketed, Multilevel
<1>2. one.at = "ok" /\ OneOf(one, HashesOf(input)) /\ input \in Inputs
  BY <1>1 DEF BuildOf, Built
<1>3. PICK n \in Nat : /\ n = Len(input) /\ DOMAIN input = 1..n
                       /\ Len(HashesOf(input)) = n
                       /\ \A i \in 1..n : HashesOf(input)[i] = Hash[input[i]]
  BY <1>2, HashesOfInput
<1>4. CASE HashesOf(input) = <<>>
  <2>1. n = 0 /\ 1..n = {}
    BY <1>3, <1>4
  <2> QED BY <1>3, <2>1 DEF SlotsRight
<1>5. CASE HashesOf(input) # <<>>
  <2>1. OneDeals(one) /\ one.hashes = HashesOf(input)
    BY <1>2, <1>5 DEF OneOf, NoOne
  <2>2. PICK o : o = one
    OBVIOUS
  <2>3. /\ \A j \in 1..n :
             /\ o.bucket[j] = bucket_of(Hash[input[j]], o.seed, o.r)
             /\ o.bucket[j] \in 0..o.r - 1
             /\ o.slot[j] \in 0..SLOTS_PER_BUCKET - 1
        /\ \A j, k \in 1..n : o.bucket[j] = o.bucket[k] /\ o.slot[j] = o.slot[k] => j = k
    BY <1>2, <1>3, <2>1, <2>2, OneBuilt
  <2>4. \A i \in 1..n : SlotOf(i) = <<0, o.bucket[i], o.slot[i]>>
    BY <1>1, <2>2 DEF SlotOf
  <2>5. Slots = {0} \X (0..o.r - 1) \X (0..SLOTS_PER_BUCKET - 1)
    BY <1>1, <2>2 DEF Slots, SlotsIn
  <2>6. one.r # 0
    BY <2>1 DEF OneDeals
  <2>7. SlotsRight
    <3>1. \A i \in 1..n : SlotOf(i) \in Slots
      BY <2>3, <2>4, <2>5
    <3>2. \A i, j \in 1..n : SlotOf(i) = SlotOf(j) => i = j
      BY <2>3, <2>4
    <3> QED BY <1>3, <3>1, <3>2 DEF SlotsRight
  <2>8. \A i \in 1..n : SlotOf(i)[1] = 0 /\ SlotOf(i)[2] = OneBucket(Hash[input[i]])
    BY <2>2, <2>3, <2>4, <2>6 DEF OneBucket
  <2> QED BY <1>3, <2>6, <2>7, <2>8
<1> QED BY <1>4, <1>5

\* The slots of a container with two levels.
LEMMA TwoSlots ==
    ASSUME BuildOf, phase # "new", Built = "ok", kind \in Multilevel
    PROVE  /\ SlotsRight
           /\ \A i \in 1..Len(input) : /\ SlotOf(i)[1] = classify(Hash[input[i]])[1]
                                       /\ SlotOf(i)[2] = classify(Hash[input[i]])[2]
<1>1. kind \notin Chd
  BY DEF Chd, Dense, Multilevel
<1>2. two.at = "ok" /\ TwoOf(one, two, HashesOf(input)) /\ input \in Inputs
  BY <1>1 DEF BuildOf, Built
<1>3. PICK n \in Nat : /\ n = Len(input) /\ DOMAIN input = 1..n
                       /\ Len(HashesOf(input)) = n
                       /\ \A i \in 1..n : HashesOf(input)[i] = Hash[input[i]]
  BY <1>2, HashesOfInput
<1>4. CASE HashesOf(input) = <<>>
  <2>1. n = 0 /\ 1..n = {}
    BY <1>3, <1>4
  <2> QED BY <1>3, <2>1 DEF SlotsRight
<1>5. CASE HashesOf(input) # <<>>
  <2>1. PICK o, t : o = one /\ t = two
    OBVIOUS
  <2>2. TwoDeals(t) /\ t.hashes = HashesOf(input) /\ LevelOne(o, t) /\ t.at = "ok"
    BY <1>2, <1>5, <2>1 DEF TwoOf, NoTwo
  <2>3. /\ \A j \in 1..n : KeyAt(o, t, j) /\ t.slot[j] \in 0..SLOTS_PER_BUCKET - 1
        /\ \A j, k \in 1..n :
             t.level[j] = t.level[k] /\ t.bucket[j] = t.bucket[k] /\ t.slot[j] = t.slot[k] => j = k
    BY <1>3, <2>2, TwoBuilt
  <2>4. \A i \in 1..n : SlotOf(i) = <<t.level[i], t.bucket[i], t.slot[i]>>
    BY <1>1, <2>1 DEF SlotOf
  <2>5. Slots = ({0} \X (0..t.r - 1) \X (0..SLOTS_PER_BUCKET - 1))
                \cup ({1} \X (0..o.r - 1) \X (0..SLOTS_PER_BUCKET - 1))
    BY <1>1, <2>1 DEF Slots, SlotsIn
  <2>6. \A i \in 1..n : SlotOf(i) \in Slots
    BY <2>3, <2>4, <2>5 DEF KeyAt
  <2>7. SlotsRight
    BY <1>3, <2>3, <2>4, <2>6 DEF SlotsRight
  <2>8. ASSUME NEW i \in 1..n
        PROVE  classify(Hash[input[i]]) = <<t.level[i], t.bucket[i]>>
    <3>1. t.hashes[i] = Hash[input[i]] /\ t.r # 0
      BY <1>3, <2>2 DEF TwoDeals, TwoShape
    <3>2. KeyAt(o, t, i)
      BY <2>3
    <3>3. CASE Home(t, i) \in t.overflow
      <4>1. t.level[i] = 1 /\ t.bucket[i] = bucket_of(t.hashes[i], o.seed, o.r) /\ o.r # 0
        <5>1. /\ t.level[i] = 1 /\ t.bucket[i] = bucket_of(t.hashes[i], o.seed, o.r)
              /\ t.bucket[i] \in 0..o.r - 1
          BY <3>2, <3>3 DEF KeyAt
        <5> QED BY <5>1
      <4> QED BY <2>1, <3>1, <3>3, <4>1 DEF classify, OneBucket, Home
    <3>4. CASE Home(t, i) \notin t.overflow
      BY <2>1, <3>1, <3>2, <3>4 DEF classify, KeyAt, Home
    <3> QED BY <3>3, <3>4
  <2> QED BY <1>3, <2>4, <2>7, <2>8
<1> QED BY <1>4, <1>5

\* The same for every container.
LEMMA AllSlots ==
    ASSUME ChdInv, BuildOf, phase # "new", Built = "ok"
    PROVE  SlotsRight
BY ChdSlots, OneSlots, TwoSlots DEF BuildOf

\* Allocate: the empty container, or the error.
LEMMA AllocateInv ==
    ASSUME ChdInv, MapsInv, Allocate
    PROVE  MapsInv'
<1>1. phase = "building" /\ UNCHANGED <<kind, input, chdVars, bucketVars>> /\ phase' \in {"placing", "failed"}
  BY DEF Allocate
<1>2. BuildOf' /\ Built' = Built /\ Slots' = Slots /\ input' = input /\ kind' = kind
  BY <1>1, BuildOfKept DEF MapsInv
<1>3. CASE phase' = "failed"
  <2>1. Built \in {"exhausted", "duplicate"}
    BY <1>3 DEF Allocate
  <2> QED BY <1>2, <1>3, <2>1 DEF MapsInv, Settled, Allocated
<1>4. CASE phase' = "placing"
  <2>1. /\ Built = "ok" /\ next' = 1 /\ tags' = [c \in Slots |-> 0]
        /\ cells' = [c \in Slots |-> 0] /\ drops' = [i \in DOMAIN input |-> 0]
    BY <1>4 DEF Allocate, Zeros
  <2>2. Len(input) \in Nat
    BY <1>1, HashesOfInput DEF MapsInv, BuildOf
  <2>3. next' \in 1..Len(input) + 1 /\ 1..next' - 1 = {}
    BY <2>1, <2>2
  <2>4. tags' \in [Slots -> Nat] /\ cells' \in [Slots -> Nat]
        /\ DOMAIN drops' = DOMAIN input /\ \A c \in Slots : cells'[c] = 0 /\ tags'[c] = 0
    BY <2>1
  <2>5. Filled'
    BY <1>2, <1>4, <2>3, <2>4 DEF Filled
  <2> QED BY <1>2, <1>4, <2>1, <2>5 DEF MapsInv, Settled, Allocated
<1> QED BY <1>1, <1>3, <1>4

\* An entry is written to its slot.
LEMMA PlaceEntryInv ==
    ASSUME ChdInv, MapsInv, PlaceEntry
    PROVE  MapsInv'
<1>1. /\ phase = "placing" /\ next <= Len(input) /\ next' = next + 1 /\ phase' = phase
      /\ drops' = drops /\ UNCHANGED <<kind, input, chdVars, bucketVars>>
  BY DEF PlaceEntry
<1>2. BuildOf' /\ Built' = Built /\ Slots' = Slots /\ input' = input /\ kind' = kind
  BY <1>1, BuildOfKept DEF MapsInv
<1>3. Filled /\ Built = "ok" /\ BuildOf /\ input \in Inputs
  BY <1>1 DEF MapsInv, Settled, Allocated, BuildOf
<1>4. SlotsRight
  BY <1>1, <1>3, AllSlots
<1>5. PICK n, x, S : /\ n \in Nat /\ x \in Nat
                     /\ n = Len(input) /\ x = next /\ x \in 1..n
                     /\ DOMAIN input = 1..n /\ S = Slots
  <2>1. Len(input) \in Nat /\ DOMAIN input = 1..Len(input) /\ next \in 1..Len(input) + 1
    BY <1>3, <1>4 DEF SlotsRight, Filled
  <2>2. next \in Nat /\ next \in 1..Len(input)
    BY <1>1, <2>1
  <2> QED BY <2>1, <2>2
<1>6. PICK c0 \in S : c0 = SlotOf(x)
  BY <1>4, <1>5 DEF SlotsRight
<1>7. PICK g \in Nat : g = Tag[Hash[input[x]]]
  <2>1. input[x] \in Keys
    BY <1>3, <1>5, HashesOfInput
  <2> QED BY <2>1, MapsAssumption
<1>8. tags' = [tags EXCEPT ![c0] = g] /\ cells' = [cells EXCEPT ![c0] = x]
  BY <1>5, <1>6, <1>7 DEF PlaceEntry
<1>9. tags \in [S -> Nat] /\ cells \in [S -> Nat]
  BY <1>3, <1>5 DEF Filled
<1>10. /\ tags' \in [S -> Nat] /\ cells' \in [S -> Nat] /\ tags'[c0] = g /\ cells'[c0] = x
       /\ \A c \in S : c # c0 => tags'[c] = tags[c] /\ cells'[c] = cells[c]
  <2>1. x \in Nat
    BY <1>5
  <2> QED BY <1>8, <1>9, <2>1
<1>11. next' \in 1..n + 1 /\ next' - 1 = x /\ 1..x = (1..x - 1) \cup {x} /\ x \notin 1..x - 1
       /\ 1..x - 1 \subseteq 1..n
  BY <1>1, <1>5
<1>12. \A i \in 1..x : cells'[SlotOf(i)] = i
  <2> TAKE i \in 1..x
  <2>1. CASE i = x
    BY <1>6, <1>10, <2>1
  <2>2. CASE i # x
    <3>1. i \in 1..x - 1 /\ i \in 1..n
      BY <1>11, <2>2
    <3>2. SlotOf(i) \in S /\ SlotOf(i) # c0
      BY <1>4, <1>5, <1>6, <2>2, <3>1 DEF SlotsRight
    <3>3. cells[SlotOf(i)] = i
      BY <1>3, <1>5, <3>1 DEF Filled
    <3> QED BY <1>10, <3>2, <3>3
  <2> QED BY <2>1, <2>2
<1>13. \A c \in S : IF cells'[c] = 0 THEN tags'[c] = 0
                    ELSE /\ cells'[c] \in 1..x /\ c = SlotOf(cells'[c])
                         /\ tags'[c] = Tag[Hash[input[cells'[c]]]]
  <2> TAKE c \in S
  <2>1. CASE c = c0
    BY <1>5, <1>6, <1>7, <1>10, <2>1
  <2>2. CASE c # c0
    <3>1. cells'[c] = cells[c] /\ tags'[c] = tags[c]
      BY <1>10, <2>2
    <3>2. IF cells[c] = 0 THEN tags[c] = 0
          ELSE /\ cells[c] \in 1..x - 1 /\ c = SlotOf(cells[c])
               /\ tags[c] = Tag[Hash[input[cells[c]]]]
      BY <1>3, <1>5 DEF Filled
    <3> QED BY <1>11, <3>1, <3>2
  <2> QED BY <2>1, <2>2
<1>14. \A i : SlotOf(i)' = SlotOf(i)
  BY <1>1, SlotOfKept
<1>15. Filled'
  <2>1. DOMAIN drops = DOMAIN input
    BY <1>3 DEF Filled
  <2>2. \A i \in 1..next' - 1 : cells'[SlotOf(i)'] = i
    BY <1>11, <1>12, <1>14
  <2>3. \A c \in Slots' : IF cells'[c] = 0 THEN tags'[c] = 0
                          ELSE /\ cells'[c] \in 1..next' - 1 /\ c = SlotOf(cells'[c])
                               /\ tags'[c] = Tag[Hash[input'[cells'[c]]]]
    BY <1>2, <1>5, <1>11, <1>13
  <2>4. next' \in 1..Len(input') + 1 /\ tags' \in [Slots' -> Nat] /\ cells' \in [Slots' -> Nat]
    BY <1>2, <1>5, <1>10, <1>11
  <2>5. phase' = "placing" /\ DOMAIN drops' = DOMAIN input'
    BY <1>1, <1>2, <2>1
  <2> QED BY <1>14, <2>2, <2>3, <2>4, <2>5 DEF Filled
<1> QED BY <1>1, <1>2, <1>3, <1>15 DEF MapsInv, Settled, Allocated

\* The unwraps of a dense container: when all entries are placed no slot is
\* empty, for there are as many slots as entries.
LEMMA NoSlotEmpty ==
    ASSUME ChdInv, MapsInv, phase = "placing", next > Len(input), kind \in Dense,
           NEW c \in Slots
    PROVE  cells[c] # 0
<1>1. Filled /\ Built = "ok" /\ BuildOf /\ kind \in Chd
  BY DEF MapsInv, Settled, Allocated, Chd
<1>2. SlotsRight
  BY <1>1, AllSlots
<1>3. PICK n \in Nat : n = Len(input) /\ m = n /\ next = n + 1
  <2>1. m = Len(input)
    BY <1>1 DEF BuildOf, Dense
  <2>2. Len(input) \in Nat /\ next \in 1..Len(input) + 1
    BY <1>1, <1>2 DEF SlotsRight, Filled
  <2> QED BY <2>1, <2>2
<1>4. Slots = {0} \X {0} \X (0..n - 1)
  BY <1>1, <1>3 DEF Slots
<1>5. PICK f : f = [i \in 1..n |-> SlotOf(i)[3]]
  OBVIOUS
<1>6. \A i \in 1..n : SlotOf(i) = <<0, 0, f[i]>> /\ f[i] \in 0..n - 1
  BY <1>2, <1>3, <1>4, <1>5 DEF SlotsRight
<1>7. PICK z \in 0..n - 1 : c = <<0, 0, z>>
  BY <1>4
<1>8. SUFFICES ASSUME \A i \in 1..n : f[i] # z PROVE FALSE
  <2>1. ASSUME NEW i \in 1..n, f[i] = z PROVE cells[c] = i /\ i # 0
    <3>1. i \in 1..next - 1
      BY <1>3
    <3>2. SlotOf(i) = c
      BY <1>6, <1>7, <2>1
    <3>3. cells[SlotOf(i)] = i
      BY <1>1, <3>1 DEF Filled
    <3> QED BY <3>2, <3>3
  <2> QED BY <2>1
<1>9. PICK T : T = (0..n - 1) \ {z}
  OBVIOUS
<1>10. IsFiniteSet(0..n - 1) /\ Cardinality(0..n - 1) = n /\ n > 0
  <2>1. n > 0 /\ n - 1 \in Int /\ 0 \in Int
    BY <1>7
  <2>2. IsFiniteSet(0..n - 1) /\ Cardinality(0..n - 1) = IF 0 > n - 1 THEN 0 ELSE (n - 1) - 0 + 1
    BY <2>1, FS_Interval
  <2> QED BY <2>1, <2>2
<1>11. IsFiniteSet(T) /\ Cardinality(T) = n - 1
  BY <1>9, <1>10, FS_RemoveElement
<1>12. IsFiniteSet(1..n) /\ Cardinality(1..n) = n
  <2>1. IsFiniteSet(1..n) /\ Cardinality(1..n) = IF 1 > n THEN 0 ELSE n - 1 + 1
    BY FS_Interval
  <2> QED BY <1>10, <2>1
<1>13. f \in [1..n -> T]
  BY <1>5, <1>6, <1>8, <1>9
<1>14. PICK i, j \in 1..n : i # j /\ f[i] = f[j]
  <2>1. Cardinality(T) < Cardinality(1..n)
    BY <1>11, <1>12
  <2> QED BY <1>11, <1>12, <1>13, <2>1, FS_PigeonHole
<1> QED BY <1>2, <1>3, <1>6, <1>14 DEF SlotsRight

\* All entries are placed.
LEMMA FinishInv ==
    ASSUME ChdInv, MapsInv, Finish
    PROVE  MapsInv'
<1>1. /\ phase = "placing" /\ next > Len(input)
      /\ UNCHANGED <<kind, input, chdVars, bucketVars>> /\ UNCHANGED <<next, tags, cells, drops>>
  BY DEF Finish
<1>2. phase' = "ready"
  BY <1>1, NoSlotEmpty DEF Finish
<1>3. BuildOf' /\ Built' = Built /\ Slots' = Slots /\ input' = input /\ kind' = kind
  BY <1>1, <1>2, BuildOfKept DEF MapsInv
<1>4. Filled /\ Built = "ok" /\ BuildOf
  BY <1>1 DEF MapsInv, Settled, Allocated
<1>5. Len(input) \in Nat
  BY <1>1, <1>4, HashesOfInput DEF BuildOf
<1>6. next \in 1..Len(input) + 1
  BY <1>4 DEF Filled
<1>7. next = Len(input) + 1
  BY <1>1, <1>5, <1>6
<1>8. kind \in Dense => \A c \in Slots : cells[c] # 0
  BY <1>1, NoSlotEmpty
<1>9. \A i : SlotOf(i)' = SlotOf(i)
  BY <1>1, SlotOfKept
<1>10. Filled'
  BY <1>1, <1>2, <1>3, <1>4, <1>7, <1>8, <1>9 DEF Filled
<1> QED BY <1>2, <1>3, <1>4, <1>10 DEF MapsInv, Settled, Allocated

\* The destructor, whichever slots S it goes through, drops every entry once
\* if these are the slots written, and possibly empty ones.
LEMMA DropsOnce ==
    ASSUME SlotsRight, Filled, next = Len(input) + 1, NEW S,
           {c \in Slots : cells[c] # 0} \subseteq S, S \subseteq Slots
    PROVE  /\ DOMAIN DroppedIn(S) = DOMAIN input
           /\ \A i \in DOMAIN input : DroppedIn(S)[i] = 1
<1>1. DOMAIN drops = DOMAIN input
  BY DEF Filled
<1>2. ASSUME NEW i \in DOMAIN input PROVE DroppedIn(S)[i] = 1
  <2>1. PICK n \in Nat : n = Len(input) /\ i \in 1..n
    BY DEF SlotsRight
  <2>2. next - 1 = n
    BY <2>1
  <2>3. SlotOf(i) \in Slots /\ cells[SlotOf(i)] = i
    BY <2>1, <2>2 DEF SlotsRight, Filled
  <2>4. ASSUME NEW c \in Slots, cells[c] = i PROVE c = SlotOf(i)
    BY <2>1, <2>4 DEF Filled
  <2>5. {c \in S : cells[c] = i} = {SlotOf(i)}
    BY <2>1, <2>3, <2>4
  <2>6. Cardinality({SlotOf(i)}) = 1
    BY FS_Singleton
  <2> QED BY <1>1, <2>5, <2>6 DEF DroppedIn
<1> QED BY <1>1, <1>2 DEF DroppedIn

\* The slots that hold an entry.
Taken == {c \in Slots : cells[c] # 0}

\* A tag byte tells whether its slot is taken.
LEMMA TagsTell ==
    ASSUME input \in Inputs, SlotsRight, Filled, NEW c \in Slots
    PROVE  tags[c] # 0 <=> cells[c] # 0
<1>1. CASE cells[c] = 0
  BY <1>1 DEF Filled
<1>2. CASE cells[c] # 0
  <2>1. /\ cells[c] \in 1..next - 1 /\ tags[c] = Tag[Hash[input[cells[c]]]]
    BY <1>2 DEF Filled
  <2>2. cells[c] \in DOMAIN input
    <3>1. Len(input) \in Nat /\ next \in 1..Len(input) + 1 /\ DOMAIN input = 1..Len(input)
      BY DEF SlotsRight, Filled
    <3> QED BY <2>1, <3>1
  <2>3. input[cells[c]] \in Keys
    <3>1. input \in Seq(Keys)
      BY MapsAssumption
    <3> QED BY <2>2, <3>1
  <2>4. Tag[Hash[input[cells[c]]]] \in Nat \ {0}
    BY <2>3, MapsAssumption
  <2> QED BY <1>2, <2>1, <2>4
<1> QED BY <1>1, <1>2

\* The slots the destructors and iterators of the bucketed containers visit.
LEMMA WrittenIsTaken ==
    ASSUME input \in Inputs, SlotsRight, Filled
    PROVE  /\ kind \in Bucketed => Written(0) = Taken
           /\ kind \in Multilevel => Written(0) \cup Written(1) = Taken
<1>1. \A c \in Slots : tags[c] # 0 <=> cells[c] # 0
  BY TagsTell
<1>2. ASSUME kind \in Bucketed PROVE Written(0) = Taken
  <2>1. Slots = {0} \X (0..one.r - 1) \X (0..SLOTS_PER_BUCKET - 1)
    BY <1>2 DEF Slots, SlotsIn, Chd, Dense, Multilevel, Bucketed
  <2>2. \A c \in Slots : c[1] = 0
    BY <2>1
  <2> QED BY <1>1, <2>2 DEF Written, Taken
<1>3. ASSUME kind \in Multilevel PROVE Written(0) \cup Written(1) = Taken
  <2>1. Slots = ({0} \X (0..two.r - 1) \X (0..SLOTS_PER_BUCKET - 1))
                \cup ({1} \X (0..one.r - 1) \X (0..SLOTS_PER_BUCKET - 1))
    BY <1>3 DEF Slots, SlotsIn, Chd, Dense, Multilevel
  <2>2. \A c \in Slots : c[1] = 0 \/ c[1] = 1
    BY <2>1
  <2> QED BY <1>1, <2>2 DEF Written, Taken
<1> QED BY <1>2, <1>3

\* The destructor.
LEMMA DropInv ==
    ASSUME ChdInv, MapsInv, Drop
    PROVE  MapsInv'
<1>1. /\ phase = "ready" /\ phase' = "gone"
      /\ UNCHANGED <<kind, input, chdVars, bucketVars>> /\ UNCHANGED <<next, tags, cells>>
  BY DEF Drop
<1>2. BuildOf' /\ Built' = Built /\ Slots' = Slots /\ input' = input /\ kind' = kind
  BY <1>1, BuildOfKept DEF MapsInv
<1>3. /\ Filled /\ Built = "ok" /\ BuildOf /\ input \in Inputs
      /\ kind \in Chd \cup Bucketed \cup Multilevel
  BY <1>1 DEF MapsInv, Settled, Allocated, BuildOf
<1>4. SlotsRight
  BY <1>1, <1>3, AllSlots
<1>5. next = Len(input) + 1
  BY <1>1, <1>3 DEF Filled
<1>6. drops' = DroppedIn(Taken)
  <2>1. CASE kind \in Chd
    BY <2>1 DEF Drop, Taken, Chd, Dense
  <2>2. CASE kind \in Bucketed
    <3>1. Written(0) = Taken
      BY <1>3, <1>4, <2>2, WrittenIsTaken
    <3>2. drops' = DroppedIn(Written(0))
      <4>1. CASE kind = "bucketed"
        BY <4>1 DEF Drop, BucketedDrop, Chd, Dense
      <4>2. CASE kind = "bucketed_set"
        BY <4>2 DEF Drop, BucketedSetDrop, Chd, Dense
      <4> QED BY <2>2, <4>1, <4>2 DEF Bucketed
    <3> QED BY <3>1, <3>2
  <2>3. CASE kind \in Multilevel
    <3>1. Written(0) \cup Written(1) = Taken
      BY <1>3, <1>4, <2>3, WrittenIsTaken
    <3>2. drops' = DroppedIn(Written(0) \cup Written(1))
      <4>1. CASE kind = "multilevel"
        BY <4>1 DEF Drop, MultilevelDrop, Chd, Dense
      <4>2. CASE kind = "multilevel_set"
        BY <4>2 DEF Drop, MultilevelSetDrop, Chd, Dense
      <4> QED BY <2>3, <4>1, <4>2 DEF Multilevel
    <3> QED BY <3>1, <3>2
  <2> QED BY <1>3, <2>1, <2>2, <2>3
<1>7. DOMAIN drops' = DOMAIN input /\ \A i \in DOMAIN input : drops'[i] = 1
  <2>1. Taken \subseteq Slots /\ {c \in Slots : cells[c] # 0} \subseteq Taken
    BY DEF Taken
  <2> QED BY <1>3, <1>4, <1>5, <1>6, <2>1, DropsOnce
<1>8. \A i : SlotOf(i)' = SlotOf(i)
  BY <1>1, SlotOfKept
<1>9. Filled'
  BY <1>1, <1>2, <1>3, <1>5, <1>7, <1>8 DEF Filled
<1> QED BY <1>1, <1>2, <1>3, <1>9 DEF MapsInv, Settled, Allocated

\* MapsInv is inductive, given ChdInv.
LEMMA MapsInvNext == ChdInv /\ MapsInv /\ [Next]_vars => MapsInv'
<1> SUFFICES ASSUME ChdInv, MapsInv, [Next]_vars PROVE MapsInv'
  OBVIOUS
<1>1. BuildOf /\ Settled /\ (Allocated => Filled)
  BY DEF MapsInv
<1>2. BuildOf' /\ phase' = "building" => MapsInv'
  BY DEF MapsInv, Settled, Allocated
<1>3. ASSUME NEW ks \in Inputs, NEW k \in Chd, NEW size,
             size = IF k = "sparse" THEN table_size(Len(ks)) ELSE Len(ks), ChdFrom(k, ks, size)
      PROVE  MapsInv'
  BY <1>1, <1>2, <1>3, ChdFromBuilds
<1>4. ASSUME NEW ks \in Inputs,
             \/ MapFromEntries(ks) \/ SetFromKeys(ks) \/ UncheckedFromEntries(ks)
             \/ SparseFromEntries(ks)
      PROVE  MapsInv'
  <2>1. CASE MapFromEntries(ks)
    BY <1>3, <2>1 DEF MapFromEntries, Chd, Dense
  <2>2. CASE SetFromKeys(ks)
    BY <1>3, <2>2 DEF SetFromKeys, Chd, Dense
  <2>3. CASE UncheckedFromEntries(ks)
    BY <1>3, <2>3 DEF UncheckedFromEntries, Chd, Dense
  <2>4. CASE SparseFromEntries(ks)
    BY <1>3, <2>4 DEF SparseFromEntries, Chd, Dense
  <2> QED BY <1>4, <2>1, <2>2, <2>3, <2>4
<1>5. ASSUME NEW ks \in Inputs, BucketedFromEntries(ks) \/ BucketedFromKeys(ks)
      PROVE  MapsInv'
  BY <1>1, <1>2, <1>5, OneFromBuilds DEF BucketedFromEntries, BucketedFromKeys, Bucketed
<1>6. ASSUME NEW ks \in Inputs, MultilevelFromEntries(ks) \/ MultilevelFromKeys(ks)
      PROVE  MapsInv'
  BY <1>1, <1>2, <1>6, TwoFromBuilds DEF MultilevelFromEntries, MultilevelFromKeys, Multilevel
<1>7. CASE BuildStep
  BY <1>1, <1>2, <1>7, BuildStepBuilds
<1>8. CASE Allocate
  BY <1>8, AllocateInv
<1>9. CASE PlaceEntry
  BY <1>9, PlaceEntryInv
<1>10. CASE Finish
  BY <1>10, FinishInv
<1>11. CASE Drop
  BY <1>11, DropInv
<1>12. CASE UNCHANGED vars
  <2>1. UNCHANGED <<kind, input, chdVars, bucketVars>> /\ UNCHANGED <<phase, next, tags, cells, drops>>
    BY <1>12 DEF vars, mapsVars
  <2>2. BuildOf' /\ Built' = Built /\ Slots' = Slots /\ input' = input /\ kind' = kind
    BY <1>1, <2>1, BuildOfKept
  <2>3. \A i : SlotOf(i)' = SlotOf(i)
    BY <2>1, SlotOfKept
  <2>4. Filled => Filled'
    BY <2>1, <2>2, <2>3 DEF Filled
  <2> QED BY <2>1, <2>2, <2>4 DEF MapsInv, Settled, Allocated
<1> QED BY <1>4, <1>5, <1>6, <1>7, <1>8, <1>9, <1>10, <1>11, <1>12 DEF Next

\* MapsInv holds in every state of every container.
THEOREM MapsInvHolds == Spec => []MapsInv
<1>1. Init => MapsInv
  BY DEF Init, ChdInit, BucketInit, MapsInv, BuildOf, Settled, Allocated
<1>2. Init => ChdInv
  BY ChdInvInit DEF Init
<1> QED BY <1>1, <1>2, ChdInvNext, MapsInvNext, PTL DEF Spec

----------------------------------------------------------------------------
(* The errors. *)

\* The inductive invariants imply ErrorsAreHonest.
LEMMA HonestFromInv ==
    ASSUME MapsInv
    PROVE  ErrorsAreHonest
<1>1. BuildOf /\ Settled
  BY DEF MapsInv
<1>2. ASSUME phase = "failed"
      PROVE  (Built = "duplicate") <=> has_duplicate(HashesOf(input))
  <2>1. Built \in {"exhausted", "duplicate"}
    BY <1>1, <1>2 DEF Settled
  <2>2. CASE kind \in Chd
    BY <1>1, <1>2, <2>2 DEF BuildOf, Built
  <2>3. CASE kind \in Bucketed
    <3>1. kind \notin Chd /\ kind \notin Multilevel
      BY <2>3 DEF Chd, Dense, Bucketed, Multilevel
    <3>2. OneOf(one, HashesOf(input)) /\ Built = one.at
      BY <1>1, <1>2, <2>3, <3>1 DEF BuildOf, Built
    <3> QED BY <2>1, <3>2 DEF OneOf, NoOne, OneDeals
  <2>4. CASE kind \in Multilevel
    <3>1. kind \notin Chd
      BY <2>4 DEF Chd, Dense, Multilevel
    <3>2. TwoOf(one, two, HashesOf(input)) /\ Built = two.at
      BY <1>1, <1>2, <2>4, <3>1 DEF BuildOf, Built
    <3> QED BY <2>1, <3>2 DEF TwoOf, NoTwo
  <2> QED BY <1>1, <1>2, <2>2, <2>3, <2>4 DEF BuildOf
<1>3. ASSUME phase \in {"placing", "ready"}
      PROVE  ~has_duplicate(HashesOf(input))
  BY <1>1, <1>3, OkMeansDistinct DEF Settled, Allocated
<1>4. ASSUME one.at = "exhausted"
      PROVE  \A s \in Seeds : \E b \in 0..one.r - 1 :
               Cardinality({i \in DOMAIN one.hashes : bucket_of(one.hashes[i], s, one.r) = b})
                 > SLOTS_PER_BUCKET
  <2>1. OneDeals(one)
    <3>1. one # NoOne
      BY <1>4 DEF NoOne
    <3>2. CASE kind \in Bucketed /\ phase # "new"
      BY <1>1, <1>4, <3>2 DEF BuildOf, OneOf, NoOne
    <3>3. CASE kind \in Multilevel /\ phase # "new"
      <4>1. TwoOf(one, two, HashesOf(input))
        BY <1>1, <3>3 DEF BuildOf
      <4> QED BY <3>1, <4>1 DEF TwoOf, LevelOne
    <3> QED BY <1>1, <3>1, <3>2, <3>3 DEF BuildOf
  <2>2. DOMAIN one.hashes = 1..Len(one.hashes)
    <3>1. one.hashes \in Seq(Hashes)
      BY <2>1 DEF OneDeals
    <3> QED BY <3>1
  <2> TAKE s \in Seeds
  <2>3. Overfull(one, s)
    BY <1>4, <2>1 DEF OneDeals
  <2> QED BY <2>2, <2>3 DEF Overfull, Dealt
<1> QED BY <1>2, <1>3, <1>4 DEF ErrorsAreHonest

\* DuplicateHash and Exhausted are reported exactly when the input calls for
\* it: HonestFromInv in every state.
THEOREM HonestErrors == Spec => []ErrorsAreHonest
BY MapsInvHolds, HonestFromInv, PTL

\* The unwraps of the dense containers never meet an empty slot.
THEOREM NoUnwrapPanics == Spec => [](phase # "panicked")
<1>1. MapsInv => phase # "panicked"
  BY DEF MapsInv
<1> QED BY <1>1, MapsInvHolds, PTL

----------------------------------------------------------------------------
(* Lookups and iteration. *)

\* What MapsInv says of a container that is ready, with n entries in S.
Stored(n, S) ==
  /\ n \in Nat /\ n = Len(input) /\ DOMAIN input = 1..n /\ S = Slots
  /\ \A i \in 1..n : input[i] \in Keys
  /\ \A i, j \in 1..n : Hash[input[i]] = Hash[input[j]] => i = j
  /\ \A i \in 1..n : SlotOf(i) \in S /\ cells[SlotOf(i)] = i
  /\ \A c \in S : IF cells[c] = 0 THEN tags[c] = 0
                  ELSE /\ cells[c] \in 1..n /\ c = SlotOf(cells[c])
                       /\ tags[c] = Tag[Hash[input[cells[c]]]]
  /\ kind \in Dense => \A c \in S : cells[c] # 0

\* It holds of every container that is ready.
LEMMA ReadyIsStored ==
    ASSUME ChdInv, MapsInv, phase = "ready"
    PROVE  \E n, S : Stored(n, S)
<1>1. /\ Filled /\ Built = "ok" /\ BuildOf /\ input \in Inputs
  BY DEF MapsInv, Settled, Allocated, BuildOf
<1>2. SlotsRight /\ ~has_duplicate(HashesOf(input))
  BY <1>1, AllSlots, OkMeansDistinct
<1>3. PICK n, S : n \in Nat /\ n = Len(input) /\ DOMAIN input = 1..n /\ S = Slots /\ next - 1 = n
  <2>1. Len(input) \in Nat /\ DOMAIN input = 1..Len(input)
    BY <1>2 DEF SlotsRight
  <2>2. next = Len(input) + 1
    BY <1>1 DEF Filled
  <2>3. next - 1 = Len(input)
    BY <2>1, <2>2
  <2> QED BY <2>1, <2>3
<1>4. \A i \in 1..n : input[i] \in Keys
  BY <1>1, <1>3, MapsAssumption
<1>5. \A i, j \in 1..n : Hash[input[i]] = Hash[input[j]] => i = j
  BY <1>1, <1>2, <1>3, DistinctKeys
<1>6. \A i \in 1..n : SlotOf(i) \in S
  BY <1>2, <1>3 DEF SlotsRight
<1>7. /\ \A i \in 1..n : cells[SlotOf(i)] = i
      /\ \A c \in S : IF cells[c] = 0 THEN tags[c] = 0
                      ELSE /\ cells[c] \in 1..n /\ c = SlotOf(cells[c])
                           /\ tags[c] = Tag[Hash[input[cells[c]]]]
      /\ kind \in Dense => \A c \in S : cells[c] # 0
  BY <1>1, <1>3 DEF Filled
<1>8. Stored(n, S)
  BY <1>3, <1>4, <1>5, <1>6, <1>7 DEF Stored
<1> QED BY <1>8

\* The function of a finished CHD build sends every hash into the table.
LEMMA IndexInTable ==
    ASSUME ChdInv, outcome = "ok", hashes # <<>>, NEW h \in Hashes
    PROVE  m # 0 /\ index(h) \in 0..m - 1
<1>1. m \in Nat \ {0}
  <2>1. hashes \in Seq(Hashes) /\ m \in Nat /\ Len(hashes) <= m
    BY DEF ChdInv
  <2>2. Len(hashes) \in Nat \ {0}
    BY <2>1
  <2> QED BY <2>1, <2>2
<1>2. found \in Seeds /\ attempt[found].at = "delivered"
  BY DEF ChdInv, Handed
<1>3. attempt[found].disp \in [0..r - 1 -> 0..MaxDisp]
  BY <1>2 DEF ChdInv, Sane
<1>4. r \in Nat \ {0}
  BY BucketsOfBuild DEF ChdInv
<1>5. bucket_of(h, found, r) \in 0..r - 1
  BY <1>2, <1>4, BucketRange
<1>6. attempt[found].disp[bucket_of(h, found, r)] \in 0..MaxDisp
  BY <1>3, <1>5
<1>7. slot_of(h, found, attempt[found].disp[bucket_of(h, found, r)], m) \in 0..m - 1
  BY <1>1, <1>2, <1>6, SlotRange
<1> QED BY <1>1, <1>7 DEF index

\* Where a CHD container looks for a key: its own slot, or some slot.
LEMMA ChdLooks ==
    ASSUME ChdInv, BuildOf, phase = "ready", Built = "ok", kind \in Chd, NEW k \in Keys,
           input # <<>>
    PROVE  <<0, 0, index(Hash[k])>> \in Slots
<1>1. outcome = "ok" /\ hashes = HashesOf(input) /\ input \in Inputs
  BY DEF Built, BuildOf
<1>2. hashes # <<>>
  <2>1. Len(hashes) = Len(input) /\ input \in Seq(Keys) /\ hashes \in Seq(Hashes)
    BY <1>1, HashesOfInput
  <2> QED BY <2>1
<1>3. Hash[k] \in Hashes
  BY MapsAssumption
<1>4. index(Hash[k]) \in 0..m - 1
  BY <1>1, <1>2, <1>3, IndexInTable
<1> QED BY <1>4 DEF Slots

\* The comparison of the key with that of the slot.
LEMMA EntryAtRight ==
    ASSUME NEW n, NEW S, Stored(n, S), NEW c \in S, NEW k
    PROVE  /\ \A i \in 1..n : input[i] = k /\ c = SlotOf(i) => EntryAt(c, k) = i
           /\ (\A i \in 1..n : input[i] # k) => EntryAt(c, k) = None
<1>1. ASSUME NEW i \in 1..n, input[i] = k, c = SlotOf(i) PROVE EntryAt(c, k) = i
  <2>1. cells[c] = i /\ i # 0
    BY <1>1 DEF Stored
  <2> QED BY <1>1, <2>1 DEF EntryAt
<1>2. ASSUME \A i \in 1..n : input[i] # k PROVE EntryAt(c, k) = None
  <2>1. cells[c] = 0 \/ cells[c] \in 1..n
    BY DEF Stored
  <2> QED BY <1>2, <2>1 DEF EntryAt
<1> QED BY <1>1, <1>2

\* The scan of a bucket.
LEMMA ScanRight ==
    ASSUME NEW n, NEW S, Stored(n, S), NEW level, NEW b, NEW k \in Keys
    PROVE  /\ \A i \in 1..n : input[i] = k /\ SlotOf(i)[1] = level /\ SlotOf(i)[2] = b
                                => ScanBucket(level, b, k) = i
           /\ (\A i \in 1..n : input[i] # k) => ScanBucket(level, b, k) = None
<1>1. PICK hits : hits = {c \in S : c[1] = level /\ c[2] = b /\ tags[c] = Tag[Hash[k]]}
  OBVIOUS
<1>2. Tag[Hash[k]] # 0
  BY MapsAssumption
<1>3. \A c \in hits : cells[c] # 0 /\ cells[c] \in 1..n /\ c = SlotOf(cells[c])
  BY <1>1, <1>2 DEF Stored
<1>4. ScanBucket(level, b, k) =
        IF \E c \in hits : cells[c] = 0 THEN Garbage
        ELSE IF \E c \in hits : input[cells[c]] = k
        THEN cells[CHOOSE c \in hits : input[cells[c]] = k] ELSE None
  BY <1>1 DEF ScanBucket, Stored
<1>5. ASSUME NEW i \in 1..n, input[i] = k, SlotOf(i)[1] = level, SlotOf(i)[2] = b
      PROVE  ScanBucket(level, b, k) = i
  <2>1. SlotOf(i) \in S /\ cells[SlotOf(i)] = i /\ i # 0
    BY DEF Stored
  <2>2. tags[SlotOf(i)] = Tag[Hash[k]]
    BY <1>5, <2>1 DEF Stored
  <2>3. SlotOf(i) \in hits
    BY <1>1, <1>5, <2>1, <2>2
  <2>4. PICK c : c = CHOOSE d \in hits : input[cells[d]] = k
    OBVIOUS
  <2>5. c \in hits /\ input[cells[c]] = k
    BY <1>5, <2>1, <2>3, <2>4
  <2>6. cells[c] = i
    <3>1. Hash[input[cells[c]]] = Hash[input[i]] /\ cells[c] \in 1..n
      BY <1>3, <1>5, <2>5
    <3> QED BY <3>1 DEF Stored
  <2> QED BY <1>3, <1>4, <1>5, <2>1, <2>3, <2>4, <2>6
<1>6. ASSUME \A i \in 1..n : input[i] # k
      PROVE  ScanBucket(level, b, k) = None
  BY <1>3, <1>4, <1>6
<1> QED BY <1>5, <1>6

\* Every key given in is found, with its own entry.
LEMMA GetPresent ==
    ASSUME ChdInv, MapsInv, phase = "ready", NEW i \in DOMAIN input
    PROVE  get(input[i]) = i
<1>1. /\ Built = "ok" /\ BuildOf /\ kind \in Chd \cup Bucketed \cup Multilevel
  BY DEF MapsInv, Settled, Allocated, BuildOf
<1>2. PICK n, S : Stored(n, S)
  BY ReadyIsStored
<1>3. PICK k \in Keys : k = input[i] /\ i \in 1..n /\ n = Len(input) /\ input # <<>>
  BY <1>2 DEF Stored
<1>4. SlotOf(i) \in S /\ S = Slots /\ cells[SlotOf(i)] = i
  BY <1>2, <1>3 DEF Stored
<1>5. CASE kind \in Chd
  <2>1. SlotOf(i) = <<0, 0, index(Hash[k])>>
    BY <1>3, <1>5 DEF SlotOf
  <2>2. EntryAt(SlotOf(i), k) = i
    BY <1>2, <1>3, <1>4, EntryAtRight
  <2>3. kind = "map" => get(k) = i
    BY <1>4, <2>1, <2>2 DEF get, MapGet
  <2>4. kind = "set" => get(k) = i
    BY <1>4, <2>1, <2>2 DEF get, SetGet
  <2>5. kind = "sparse" => get(k) = i
    BY <1>4, <2>1, <2>2 DEF get, SparseGet
  <2>6. kind = "unchecked" => get(k) = i
    BY <1>4, <2>1 DEF get, UncheckedGet
  <2> QED BY <1>3, <1>5, <2>3, <2>4, <2>5, <2>6 DEF Chd, Dense
<1>6. CASE kind \in Bucketed
  <2>1. SlotOf(i)[1] = 0 /\ one.r # 0 /\ SlotOf(i)[2] = OneBucket(Hash[k])
    BY <1>1, <1>3, <1>6, OneSlots
  <2>2. ScanBucket(0, OneBucket(Hash[k]), k) = i
    BY <1>2, <1>3, <2>1, ScanRight
  <2>3. get(k) = i
    BY <1>6, <2>1, <2>2 DEF get, BucketedGet, BucketedSetGet, Bucketed
  <2> QED BY <1>3, <2>3
<1>7. CASE kind \in Multilevel
  <2>1. SlotOf(i)[1] = classify(Hash[k])[1] /\ SlotOf(i)[2] = classify(Hash[k])[2]
    BY <1>1, <1>3, <1>7, TwoSlots
  <2>2. ScanBucket(classify(Hash[k])[1], classify(Hash[k])[2], k) = i
    BY <1>2, <1>3, <2>1, ScanRight
  <2>3. get(k) = i
    BY <1>3, <1>7, <2>2 DEF get, MultilevelGet, MultilevelSetGet, Multilevel
  <2> QED BY <1>3, <2>3
<1> QED BY <1>1, <1>5, <1>6, <1>7

\* Every other key is rejected, and the unchecked map answers with one of its
\* values.
LEMMA GetAbsent ==
    ASSUME ChdInv, MapsInv, phase = "ready", NEW k \in Keys \ Range(input)
    PROVE  IF kind # "unchecked" THEN get(k) = None
           ELSE input # <<>> => get(k) \in DOMAIN input
<1>1. /\ Built = "ok" /\ BuildOf /\ kind \in Chd \cup Bucketed \cup Multilevel
  BY DEF MapsInv, Settled, Allocated, BuildOf
<1>2. PICK n, S : Stored(n, S)
  BY ReadyIsStored
<1>3. S = Slots /\ DOMAIN input = 1..n /\ \A i \in 1..n : input[i] # k
  BY <1>2 DEF Stored, Range
<1>4. CASE kind \in Chd
  <2>1. PICK c : c = <<0, 0, index(Hash[k])>>
    OBVIOUS
  <2>2. c \in S => EntryAt(c, k) = None
    BY <1>2, <1>3, EntryAtRight
  <2>3. input # <<>> => c \in S
    BY <1>1, <1>3, <1>4, <2>1, ChdLooks
  <2>4. kind # "sparse" /\ input = <<>> => S = {}
    <3>1. ASSUME kind # "sparse", input = <<>> PROVE m = 0
      BY <1>1, <1>4, <3>1 DEF BuildOf
    <3>2. ASSUME kind # "sparse", input = <<>> PROVE Slots = {0} \X {0} \X (0..m - 1) /\ 0..m - 1 = {}
      BY <1>4, <3>1, <3>2 DEF Slots
    <3> QED BY <1>3, <3>2
  <2>5. kind = "map" => get(k) = None
    BY <1>3, <2>1, <2>2, <2>3, <2>4 DEF get, MapGet
  <2>6. kind = "set" => get(k) = None
    BY <1>3, <2>1, <2>2, <2>3, <2>4 DEF get, SetGet
  <2>7. kind = "sparse" => get(k) = None
    BY <1>3, <2>1, <2>2 DEF get, SparseGet
  <2>8. kind = "unchecked" /\ input # <<>> => get(k) \in DOMAIN input
    <3>1. ASSUME kind = "unchecked", input # <<>> PROVE cells[c] \in 1..n
      BY <1>2, <2>3, <3>1 DEF Stored, Dense
    <3> QED BY <1>3, <2>1, <2>3, <3>1 DEF get, UncheckedGet
  <2> QED BY <1>4, <2>5, <2>6, <2>7, <2>8 DEF Chd, Dense
<1>5. CASE kind \in Bucketed
  <2>1. \A level, b : ScanBucket(level, b, k) = None
    BY <1>2, <1>3, ScanRight
  <2> QED BY <1>5, <2>1 DEF get, BucketedGet, BucketedSetGet, Bucketed
<1>6. CASE kind \in Multilevel
  <2>1. \A level, b : ScanBucket(level, b, k) = None
    BY <1>2, <1>3, ScanRight
  <2> QED BY <1>6, <2>1 DEF get, MultilevelGet, MultilevelSetGet, Multilevel
<1> QED BY <1>1, <1>4, <1>5, <1>6

\* Iteration yields exactly the entries given in.
LEMMA IterRight ==
    ASSUME ChdInv, MapsInv, phase = "ready"
    PROVE  iter = DOMAIN input
<1>1. /\ Built = "ok" /\ BuildOf /\ kind \in Chd \cup Bucketed \cup Multilevel
      /\ Filled /\ input \in Inputs
  BY DEF MapsInv, Settled, Allocated, BuildOf
<1>2. PICK n, S : Stored(n, S)
  BY ReadyIsStored
<1>3. S = Slots /\ DOMAIN input = 1..n
  BY <1>2 DEF Stored
<1>4. Taken \subseteq S
  BY <1>3 DEF Taken
<1>5. {cells[c] : c \in Taken} = 1..n
  <2>1. ASSUME NEW c \in Taken PROVE cells[c] \in 1..n
    BY <1>2, <1>3 DEF Taken, Stored
  <2>2. ASSUME NEW i \in 1..n PROVE SlotOf(i) \in Taken /\ cells[SlotOf(i)] = i
    <3>1. SlotOf(i) \in Slots /\ cells[SlotOf(i)] = i /\ i # 0
      BY <1>2 DEF Stored
    <3> QED BY <3>1 DEF Taken
  <2> QED BY <2>1, <2>2
<1>6. CASE kind \in Dense
  <2>1. Taken = Slots
    BY <1>2, <1>3, <1>6 DEF Taken, Stored
  <2>2. iter = {cells[c] : c \in Slots}
    BY <1>6 DEF iter, DenseIter, Dense, Multilevel
  <2> QED BY <1>3, <1>5, <2>1, <2>2
<1>7. CASE kind = "sparse"
  <2>1. {cells[c] : c \in Slots} \ {0} = {cells[c] : c \in Taken}
    BY DEF Taken
  <2>2. iter = {cells[c] : c \in Slots} \ {0}
    BY <1>7 DEF iter, SparseIter, Dense, Multilevel
  <2> QED BY <1>3, <1>5, <2>1, <2>2
<1>8. SlotsRight
  BY <1>1, AllSlots
<1>9. CASE kind \in Bucketed
  <2>1. Written(0) = Taken
    BY <1>1, <1>8, <1>9, WrittenIsTaken
  <2>2. iter = {cells[c] : c \in Written(0)}
    BY <1>9 DEF iter, BucketedIter, Bucketed, Dense, Multilevel
  <2> QED BY <1>3, <1>5, <2>1, <2>2
<1>10. CASE kind \in Multilevel
  <2>1. Written(0) \cup Written(1) = Taken
    BY <1>1, <1>8, <1>10, WrittenIsTaken
  <2>2. iter = {cells[c] : c \in Written(0)} \cup {cells[c] : c \in Written(1)}
    BY <1>10 DEF iter, MultilevelIter, Dense, Multilevel
  <2> QED BY <1>3, <1>5, <2>1, <2>2
<1> QED BY <1>1, <1>6, <1>7, <1>9, <1>10 DEF Chd

\* A container holds exactly its input: every key given in is found, every
\* other one rejected, iteration yields every entry, and the destructor drops
\* each exactly once.
THEOREM ContainersHoldInput == Spec => []HoldsExactlyInput
<1>1. ASSUME ChdInv, MapsInv PROVE HoldsExactlyInput
  <2>1. phase = "ready" =>
          /\ \A i \in DOMAIN input : get(input[i]) = i
          /\ \A k \in Keys \ Range(input) :
               IF kind # "unchecked" THEN get(k) = None
               ELSE input # <<>> => get(k) \in DOMAIN input
          /\ iter = DOMAIN input
    BY <1>1, GetPresent, GetAbsent, IterRight
  <2>2. phase = "gone" => \A i \in DOMAIN input : drops[i] = 1
    BY <1>1 DEF MapsInv, Allocated, Filled
  <2> QED BY <2>1, <2>2 DEF HoldsExactlyInput
<1> QED BY <1>1, ChdInvHolds, MapsInvHolds, PTL
=============================================================================
