--------------------------- MODULE BucketedBuild ---------------------------
(***************************************************************************)
(* The two bucketed constructions.  BucketedPhf::build                     *)
(* (perfect/bucketed/algorithm.rs) deals the keys into buckets of a fixed  *)
(* number of slots and starts over with the next seed when a bucket        *)
(* overflows.  MultilevelBucketedPhf::build (bucketed/multilevel.rs) has   *)
(* one seed for level 0, marks the buckets that would overflow, and sends  *)
(* all their keys to a level 1 built by the former.                        *)
(*                                                                         *)
(* Both are sequential; a step is one turn of a loop over the keys.  The   *)
(* arrays of a build live in the records one and two, indexed like the     *)
(* input from 1.                                                           *)
(***************************************************************************)
EXTENDS PerfectUtil

CONSTANTS SLOTS_PER_BUCKET,
          LambdaB,    \* the average load of a bucket in tenths, also of level 1
          Lambda0     \* the same for level 0 of the multilevel function

\* As build asserts, both are below the number of slots.
ASSUME BucketAssumption ==
  /\ SLOTS_PER_BUCKET \in Nat
  /\ {LambdaB, Lambda0} \subseteq 1..10 * SLOTS_PER_BUCKET - 1

VARIABLES one,   \* the state of a BucketedPhf::build
          two    \* the state of a MultilevelBucketedPhf::build

bucketVars == <<one, two>>

Zeros(S) == [x \in S |-> 0]

----------------------------------------------------------------------------
(* BucketedPhf::build *)

NoOne == [at |-> "idle", hashes |-> <<>>, r |-> 0, seed |-> OtherSeed, i |-> 0,
          bucket |-> <<>>, slot |-> <<>>, size |-> <<>>]

\* The state before the first key is dealt; the empty input needs no bucket.
NewOne(hs) ==
  LET r == Buckets(Len(hs), LambdaB)
  IN  IF hs = <<>> THEN [NoOne EXCEPT !.at = "ok"]
      ELSE IF has_duplicate(hs) THEN [NoOne EXCEPT !.at = "duplicate"]
      ELSE [at |-> "placing", hashes |-> hs, r |-> r, seed |-> 0, i |-> 1,
            bucket |-> Zeros(DOMAIN hs), slot |-> Zeros(DOMAIN hs),
            size |-> Zeros(0..r - 1)]

\* Mutant: the fill counters of the failed seed stay.
NextSeedKeepsSizes(o) ==
  IF o.seed + 1 = MaxSeeds
  THEN [o EXCEPT !.at = "exhausted"]
  ELSE [o EXCEPT !.seed = @ + 1, !.i = 1]

\* The next seed: the fill counters are reset, the two output arrays are not.
NextSeed(o) ==
  IF o.seed + 1 = MaxSeeds
  THEN [o EXCEPT !.at = "exhausted"]
  ELSE [o EXCEPT !.seed = @ + 1, !.i = 1, !.size = Zeros(0..o.r - 1)]

Deal(o, b) ==
  [o EXCEPT !.bucket[o.i] = b, !.slot[o.i] = o.size[b], !.size[b] = @ + 1,
            !.i = @ + 1, !.at = IF o.i = Len(o.hashes) THEN "ok" ELSE "placing"]

\* One turn of the loop over the keys.
DealKey(o, b) == IF o.size[b] >= SLOTS_PER_BUCKET THEN NextSeed(o) ELSE Deal(o, b)

BucketedStep ==
  /\ one.at = "placing"
  /\ one' = DealKey(one, bucket_of(one.hashes[one.i], one.seed, one.r))
  /\ UNCHANGED two

\* BucketedPhf::bucket
OneBucket(h) == IF one.r = 0 THEN 0 ELSE bucket_of(h, one.seed, one.r)

----------------------------------------------------------------------------
(* MultilevelBucketedPhf::build *)

NoTwo == [at |-> "idle", hashes |-> <<>>, r |-> 0, overflow |-> {}, i |-> 0,
          level |-> <<>>, bucket |-> <<>>, slot |-> <<>>, cursor |-> <<>>, orig |-> <<>>]

SizeAt0(hs, r, b) == Cardinality({i \in DOMAIN hs : bucket_of(hs[i], OtherSeed, r) = b})

\* Passes 1 and 2: count the buckets and mark the ones that overflow.
NewTwo(hs) ==
  LET r == Buckets(Len(hs), Lambda0)
  IN  IF hs = <<>> THEN [NoTwo EXCEPT !.at = "ok"]
      ELSE IF has_duplicate(hs) THEN [NoTwo EXCEPT !.at = "duplicate"]
      ELSE [at |-> "placing", hashes |-> hs, r |-> r,
            overflow |-> {b \in 0..r - 1 : SizeAt0(hs, r, b) > SLOTS_PER_BUCKET},
            i |-> 1, level |-> Zeros(DOMAIN hs), bucket |-> Zeros(DOMAIN hs),
            slot |-> Zeros(DOMAIN hs), cursor |-> Zeros(0..r - 1), orig |-> <<>>]

\* Pass 3, one key: to its level-0 bucket, or aside for level 1.
PlaceKey0(t, b) ==
  IF b \in t.overflow
  THEN [t EXCEPT !.level[t.i] = 1, !.orig = Append(@, t.i), !.i = @ + 1]
  ELSE [t EXCEPT !.bucket[t.i] = b, !.slot[t.i] = t.cursor[b],
                 !.cursor[b] = @ + 1, !.i = @ + 1]

PlaceLevel0 ==
  /\ two.at = "placing"
  /\ two.i <= Len(two.hashes)
  /\ two' = PlaceKey0(two, bucket_of(two.hashes[two.i], OtherSeed, two.r))
  /\ UNCHANGED one

\* After pass 3: done, or level 1 is built from the keys set aside.
StartLevel1 ==
  /\ two.at = "placing"
  /\ two.i > Len(two.hashes)
  /\ \/ /\ two.orig = <<>>
        /\ two' = [two EXCEPT !.at = "ok"]
        /\ UNCHANGED one
     \/ /\ two.orig # <<>>
        /\ two' = [two EXCEPT !.at = "level1"]
        /\ one' = NewOne([j \in DOMAIN two.orig |-> two.hashes[two.orig[j]]])

\* Mutant: the j-th result of level 1 goes to the j-th key.
PatchedInOrder(t, array, from) ==
  [i \in DOMAIN array |-> IF i \in DOMAIN from THEN from[i] ELSE array[i]]

Patched(t, array, from) ==
  [i \in DOMAIN array |->
     IF \E j \in DOMAIN t.orig : t.orig[j] = i
     THEN from[CHOOSE j \in DOMAIN t.orig : t.orig[j] = i]
     ELSE array[i]]

\* Level 1 is done: patch_level_1, or its error is the build's.
FinishLevel1 ==
  /\ two.at = "level1"
  /\ one.at # "placing"
  /\ two' = IF one.at = "ok"
            THEN [two EXCEPT !.at = "ok",
                             !.bucket = Patched(two, @, one.bucket),
                             !.slot = Patched(two, @, one.slot)]
            ELSE [two EXCEPT !.at = one.at]
  /\ UNCHANGED one

\* MultilevelBucketedPhf::classify
classify(h) ==
  IF two.r = 0 THEN <<0, 0>>
  ELSE LET b == bucket_of(h, OtherSeed, two.r)
       IN  IF b \in two.overflow THEN <<1, OneBucket(h)>> ELSE <<0, b>>

BucketInit == one = NoOne /\ two = NoTwo

BucketStep == BucketedStep \/ PlaceLevel0 \/ StartLevel1 \/ FinishLevel1

----------------------------------------------------------------------------
(* The inductive invariants of the two constructions. *)

\* Of the first n keys, those that seed s sends to bucket b.
Dealt(o, s, n, b) == {j \in 1..n : bucket_of(o.hashes[j], s, o.r) = b}

\* Seed s sends more keys to some bucket than it has slots.
Overfull(o, s) == \E b \in 0..o.r - 1 :
  Cardinality(Dealt(o, s, Len(o.hashes), b)) > SLOTS_PER_BUCKET

\* A build that has keys to deal: the counters count the keys dealt under the
\* present seed, and these lie in slots of their own below the counters.
OneDeals(o) ==
  /\ o = [at |-> o.at, hashes |-> o.hashes, r |-> o.r, seed |-> o.seed, i |-> o.i,
          bucket |-> o.bucket, slot |-> o.slot, size |-> o.size]
  /\ o.at \in {"placing", "ok", "exhausted"}
  /\ o.hashes \in Seq(Hashes) /\ o.hashes # <<>>
  /\ o.r \in Nat \ {0} /\ o.seed \in Seeds
  /\ o.i \in 1..Len(o.hashes) + 1
  /\ o.at = "placing" => o.i <= Len(o.hashes)
  /\ o.at = "ok" => o.i = Len(o.hashes) + 1
  /\ o.bucket \in [1..Len(o.hashes) -> Nat] /\ o.slot \in [1..Len(o.hashes) -> Nat]
  /\ o.size \in [0..o.r - 1 -> 0..SLOTS_PER_BUCKET]
  /\ \A b \in 0..o.r - 1 : o.size[b] = Cardinality(Dealt(o, o.seed, o.i - 1, b))
  /\ \A j \in 1..o.i - 1 :
       /\ o.bucket[j] = bucket_of(o.hashes[j], o.seed, o.r)
       /\ o.slot[j] < o.size[o.bucket[j]]
  /\ \A j, k \in 1..o.i - 1 : o.bucket[j] = o.bucket[k] /\ o.slot[j] = o.slot[k] => j = k
  /\ \A s \in 0..o.seed - 1 : Overfull(o, s)
  /\ o.at = "exhausted" => \A s \in Seeds : Overfull(o, s)

\* A BucketedPhf::build of the hashes hs.
OneOf(o, hs) ==
  IF hs = <<>> THEN o = [NoOne EXCEPT !.at = "ok"]
  ELSE IF has_duplicate(hs) THEN o = [NoOne EXCEPT !.at = "duplicate"]
  ELSE OneDeals(o) /\ o.hashes = hs

\* The level-0 bucket of key j.
Home(t, j) == bucket_of(t.hashes[j], OtherSeed, t.r)

\* Of the first l keys, those whose level-0 bucket is b.
HomeTo(t, l, b) == {j \in 1..l : Home(t, j) = b}

\* The parts of a build that has keys to place.
TwoShape(t) ==
  /\ t = [at |-> t.at, hashes |-> t.hashes, r |-> t.r, overflow |-> t.overflow, i |-> t.i,
          level |-> t.level, bucket |-> t.bucket, slot |-> t.slot, cursor |-> t.cursor,
          orig |-> t.orig]
  /\ t.hashes \in Seq(Hashes) /\ t.hashes # <<>> /\ ~has_duplicate(t.hashes)
  /\ t.r \in Nat \ {0}
  /\ t.overflow = {b \in 0..t.r - 1 : SizeAt0(t.hashes, t.r, b) > SLOTS_PER_BUCKET}
  /\ t.i \in 1..Len(t.hashes) + 1
  /\ t.at # "placing" => t.i = Len(t.hashes) + 1
  /\ t.level \in [1..Len(t.hashes) -> {0, 1}]
  /\ t.bucket \in [1..Len(t.hashes) -> Nat] /\ t.slot \in [1..Len(t.hashes) -> Nat]
  /\ t.cursor \in [0..t.r - 1 -> Nat]

\* The keys whose bucket overflows are set aside.
TwoAside(t) ==
  /\ t.orig \in Seq(1..Len(t.hashes))
  /\ \A j, k \in DOMAIN t.orig : t.orig[j] = t.orig[k] => j = k
  /\ Range(t.orig) = {j \in 1..t.i - 1 : Home(t, j) \in t.overflow}

\* The others lie in slots of their own, which the cursors count.
TwoPlaced(t) ==
  /\ \A j \in t.i..Len(t.hashes) : t.level[j] = 0
  /\ \A b \in (0..t.r - 1) \ t.overflow : t.cursor[b] = Cardinality(HomeTo(t, t.i - 1, b))
  /\ \A j \in 1..t.i - 1 :
       IF Home(t, j) \in t.overflow THEN t.level[j] = 1
       ELSE t.level[j] = 0 /\ t.bucket[j] = Home(t, j) /\ t.slot[j] < t.cursor[Home(t, j)]
  /\ \A j, k \in 1..t.i - 1 :
       /\ Home(t, j) \notin t.overflow /\ Home(t, k) \notin t.overflow
       /\ t.bucket[j] = t.bucket[k] /\ t.slot[j] = t.slot[k]
       => j = k

TwoDeals(t) == TwoShape(t) /\ TwoAside(t) /\ TwoPlaced(t)

\* What level 1 is built from.
SetAside(t) == [j \in DOMAIN t.orig |-> t.hashes[t.orig[j]]]

\* How the build of level 1 goes on, and where its keys lie in the end.
LevelOne(o, t) ==
  /\ t.at \in {"level1", "exhausted"} \/ (t.at = "ok" /\ t.orig # <<>>) =>
       OneDeals(o) /\ o.hashes = SetAside(t)
  /\ t.at = "exhausted" => o.at = "exhausted"
  /\ t.at = "ok" =>
       /\ t.orig = <<>> \/ o.at = "ok"
       /\ \A j \in DOMAIN t.orig :
            t.bucket[t.orig[j]] = o.bucket[j] /\ t.slot[t.orig[j]] = o.slot[j]
  /\ t.at = "placing" \/ (t.at = "ok" /\ t.orig = <<>>) => o = NoOne

\* A MultilevelBucketedPhf::build of the hashes hs, with o the one of level 1.
TwoOf(o, t, hs) ==
  IF hs = <<>> THEN t = [NoTwo EXCEPT !.at = "ok"] /\ o = NoOne
  ELSE IF has_duplicate(hs) THEN t = [NoTwo EXCEPT !.at = "duplicate"] /\ o = NoOne
  ELSE /\ TwoDeals(t) /\ t.hashes = hs
       /\ t.at \in {"placing", "level1", "ok", "exhausted"}
       /\ LevelOne(o, t)
=============================================================================
