---------------------------- MODULE PerfectMaps ----------------------------
(***************************************************************************)
(* The static maps and sets of perfect/: a set of entries goes in once,    *)
(* a perfect hash function is built over the hashes of their keys, every   *)
(* entry is written to its slot, and from then on there are only lookups,  *)
(* iteration and, at the end, the destructor.                              *)
(*                                                                         *)
(* The eight containers: PerfectMap "map", PerfectSet "set" and            *)
(* PerfectMapUnchecked "unchecked" have a CHD function onto exactly n      *)
(* slots, PerfectMapSparse "sparse" one onto more; the maps and sets of    *)
(* bucketed/, "bucketed", "bucketed_set", "multilevel", "multilevel_set",  *)
(* have tags beside their slots.                                           *)
(*                                                                         *)
(* An entry is known by its place in the input; a slot by level, bucket    *)
(* and slot, with level and bucket 0 where there are none.                 *)
(***************************************************************************)
EXTENDS ChdBuild, BucketedBuild

CONSTANTS Keys,
          Hash,         \* hash_one: key -> hash; two keys may share one
          Tag,          \* hash_tag: hash -> tag byte
          LoadPercent,  \* PerfectMapConfig::load_factor, in percent
          Inputs        \* the inputs tried: sequences of keys

ASSUME MapsAssumption ==
  /\ Hash \in [Keys -> Hashes]
  /\ Tag \in [Hashes -> Nat \ {0}]
  /\ LoadPercent \in Nat /\ LoadPercent >= 100
  /\ Inputs \subseteq Seq(Keys)

VARIABLES kind,     \* which container is built
          input,    \* the keys of the entries given to from_entries
          phase,    \* "new", "building", "placing", "ready", "failed",
            \* "panicked", "gone"
          next,     \* the entry placed next
          tags,     \* slot -> tag byte, 0 where nothing was placed
          cells,    \* slot -> entry, 0 where the memory was never written
          drops     \* entry -> how often it was dropped

mapsVars == <<kind, input, phase, next, tags, cells, drops>>
vars == <<chdVars, bucketVars, mapsVars>>

Dense == {"map", "set", "unchecked"}
Chd == Dense \cup {"sparse"}
Multilevel == {"multilevel", "multilevel_set"}

HashesOf(ks) == [i \in DOMAIN ks |-> Hash[ks[i]]]

\* PerfectMapConfig::table_size
table_size(n) == (n * LoadPercent + 99) \div 100

(***************************************************************************)
(* from_entries / from_keys of each container: hash every key and start    *)
(* the construction.  What follows, placing the entries, is common to all. *)
(***************************************************************************)
From(k, ks) ==
  /\ phase = "new"
  /\ phase' = "building"
  /\ kind' = k
  /\ input' = ks
  /\ UNCHANGED <<next, tags, cells, drops>>

ChdFrom(k, ks, size) == From(k, ks) /\ StartBuild(HashesOf(ks), size) /\ UNCHANGED bucketVars
OneFrom(k, ks) == From(k, ks) /\ one' = NewOne(HashesOf(ks)) /\ UNCHANGED <<chdVars, two>>
TwoFrom(k, ks) == From(k, ks) /\ two' = NewTwo(HashesOf(ks)) /\ UNCHANGED <<chdVars, one>>

MapFromEntries(ks) == ChdFrom("map", ks, Len(ks))
SetFromKeys(ks) == ChdFrom("set", ks, Len(ks))
UncheckedFromEntries(ks) == ChdFrom("unchecked", ks, Len(ks))
SparseFromEntries(ks) == ChdFrom("sparse", ks, table_size(Len(ks)))
BucketedFromEntries(ks) == OneFrom("bucketed", ks)
BucketedFromKeys(ks) == OneFrom("bucketed_set", ks)
MultilevelFromEntries(ks) == TwoFrom("multilevel", ks)
MultilevelFromKeys(ks) == TwoFrom("multilevel_set", ks)

BuildStep ==
  /\ phase = "building"
  /\ \/ ChdStep /\ UNCHANGED bucketVars
     \/ BucketStep /\ UNCHANGED chdVars
  /\ UNCHANGED mapsVars

\* The state of the construction.
Built == IF kind \in Chd THEN outcome ELSE IF kind \in Multilevel THEN two.at ELSE one.at

SlotsIn(level, buckets) == {level} \X (0..buckets - 1) \X (0..SLOTS_PER_BUCKET - 1)

\* The slots the container allocates once the function is there.
Slots ==
  IF kind \in Chd THEN {0} \X {0} \X (0..m - 1)
  ELSE IF kind \in Multilevel THEN SlotsIn(0, two.r) \cup SlotsIn(1, one.r)
  ELSE SlotsIn(0, one.r)

\* Ok: allocate empty slots.  Err: the ? hands the error to the caller.
Allocate ==
  /\ phase = "building"
  /\ Built \in {"ok", "exhausted", "duplicate"}
  /\ \/ /\ Built = "ok"
        /\ phase' = "placing"
        /\ next' = 1
        /\ tags' = Zeros(Slots)
        /\ cells' = Zeros(Slots)
        /\ drops' = Zeros(DOMAIN input)
     \/ /\ Built # "ok"
        /\ phase' = "failed"
        /\ UNCHANGED <<next, tags, cells, drops>>
  /\ UNCHANGED <<kind, input, chdVars, bucketVars>>

\* The slot of entry i: CHD asks the function, the others the placements.
SlotOf(i) ==
  IF kind \in Chd THEN <<0, 0, index(Hash[input[i]])>>
  ELSE IF kind \in Multilevel THEN <<two.level[i], two.bucket[i], two.slot[i]>>
  ELSE <<0, one.bucket[i], one.slot[i]>>

PlaceEntry ==
  /\ phase = "placing"
  /\ next <= Len(input)
  /\ tags' = [tags EXCEPT ![SlotOf(next)] = Tag[Hash[input[next]]]]
  /\ cells' = [cells EXCEPT ![SlotOf(next)] = next]
  /\ next' = next + 1
  /\ UNCHANGED <<kind, input, phase, drops, chdVars, bucketVars>>

\* A dense container unwraps every slot: an empty one is a panic.
Finish ==
  /\ phase = "placing"
  /\ next > Len(input)
  /\ phase' = IF kind \in Dense /\ \E c \in Slots : cells[c] = 0
              THEN "panicked" ELSE "ready"
  /\ UNCHANGED <<kind, input, next, tags, cells, drops, chdVars, bucketVars>>

\* The slots of one level whose tag says they were written.
Written(level) == {c \in Slots : c[1] = level /\ tags[c] # 0}

\* How often each entry is dropped when the slots S are.
DroppedIn(S) == [i \in DOMAIN drops |-> Cardinality({c \in S : cells[c] = i})]

BucketedDrop == DroppedIn(Written(0))
BucketedSetDrop == DroppedIn(Written(0))
MultilevelDrop == DroppedIn(Written(0) \cup Written(1))
MultilevelSetDrop == DroppedIn(Written(0) \cup Written(1))

\* The destructor: by tag, or by the Options and boxed slices of the language.
Drop ==
  /\ phase = "ready"
  /\ phase' = "gone"
  /\ drops' = CASE kind = "bucketed" -> BucketedDrop
                [] kind = "bucketed_set" -> BucketedSetDrop
                [] kind = "multilevel" -> MultilevelDrop
                [] kind = "multilevel_set" -> MultilevelSetDrop
                [] kind \in Chd -> DroppedIn({c \in Slots : cells[c] # 0})
  /\ UNCHANGED <<kind, input, next, tags, cells, chdVars, bucketVars>>

----------------------------------------------------------------------------
(* Lookups and iteration, on a container that is ready. *)

None == 0
Garbage == -1   \* what reading memory that was never written gives

\* The entry of slot c if it is that of key k.
EntryAt(c, k) ==
  IF cells[c] = 0 THEN None ELSE IF input[cells[c]] = k THEN cells[c] ELSE None

MapGet(k) == IF Slots = {} THEN None ELSE EntryAt(<<0, 0, index(Hash[k])>>, k)
SetGet(k) == IF Slots = {} THEN None ELSE EntryAt(<<0, 0, index(Hash[k])>>, k)

\* An index behind the last slot, which get() guards against, gives None.
SparseGet(k) ==
  LET c == <<0, 0, index(Hash[k])>>
  IN  IF c \in Slots THEN EntryAt(c, k) ELSE None

\* get_unchecked compares nothing; of an empty map it reads behind the slice.
UncheckedGet(k) ==
  LET c == <<0, 0, index(Hash[k])>> IN IF c \in Slots THEN cells[c] ELSE Garbage

\* The scan of one bucket: every slot with the key's tag is compared.
ScanBucket(level, b, k) ==
  LET hits == {c \in Slots : c[1] = level /\ c[2] = b /\ tags[c] = Tag[Hash[k]]}
  IN  IF \E c \in hits : cells[c] = 0 THEN Garbage
      ELSE IF \E c \in hits : input[cells[c]] = k
      THEN cells[CHOOSE c \in hits : input[cells[c]] = k]
      ELSE None

BucketedGet(k) == IF one.r = 0 THEN None ELSE ScanBucket(0, OneBucket(Hash[k]), k)
BucketedSetGet(k) == IF one.r = 0 THEN None ELSE ScanBucket(0, OneBucket(Hash[k]), k)

MultilevelGet(k) ==
  LET at == classify(Hash[k]) IN IF input = <<>> THEN None ELSE ScanBucket(at[1], at[2], k)
MultilevelSetGet(k) ==
  LET at == classify(Hash[k]) IN IF input = <<>> THEN None ELSE ScanBucket(at[1], at[2], k)

get(k) ==
  CASE kind = "map" -> MapGet(k)
    [] kind = "set" -> SetGet(k)
    [] kind = "unchecked" -> UncheckedGet(k)
    [] kind = "sparse" -> SparseGet(k)
    [] kind = "bucketed" -> BucketedGet(k)
    [] kind = "bucketed_set" -> BucketedSetGet(k)
    [] kind = "multilevel" -> MultilevelGet(k)
    [] kind = "multilevel_set" -> MultilevelSetGet(k)

\* iter: the entries of the slots taken, by slot or by level and slot.
DenseIter == {cells[c] : c \in Slots}
SparseIter == {cells[c] : c \in Slots} \ {0}
BucketedIter == {cells[c] : c \in Written(0)}
MultilevelIter == {cells[c] : c \in Written(0)} \cup {cells[c] : c \in Written(1)}

iter ==
  CASE kind \in Dense -> DenseIter
    [] kind = "sparse" -> SparseIter
    [] kind \in {"bucketed", "bucketed_set"} -> BucketedIter
    [] kind \in Multilevel -> MultilevelIter

----------------------------------------------------------------------------
Init ==
  /\ ChdInit /\ BucketInit
  /\ kind = "map" /\ input = <<>> /\ phase = "new" /\ next = 0
  /\ tags = <<>> /\ cells = <<>> /\ drops = <<>>

Next ==
  \/ \E ks \in Inputs :
       \/ MapFromEntries(ks) \/ SetFromKeys(ks) \/ UncheckedFromEntries(ks)
       \/ SparseFromEntries(ks) \/ BucketedFromEntries(ks) \/ BucketedFromKeys(ks)
       \/ MultilevelFromEntries(ks) \/ MultilevelFromKeys(ks)
  \/ BuildStep \/ Allocate \/ PlaceEntry \/ Finish \/ Drop

(***************************************************************************)
(* A call runs to its end, and a rayon worker that has taken a seed works  *)
(* on: weak fairness of the steps of a construction.                       *)
(***************************************************************************)
Spec == Init /\ [][Next]_vars
             /\ WF_vars(BuildStep) /\ WF_vars(Allocate \/ PlaceEntry \/ Finish)

----------------------------------------------------------------------------
(***************************************************************************)
(* A container that was built holds exactly its input: every key given in  *)
(* is found with its own value, every other key is rejected (one that      *)
(* shares hash or tag with a stored key too), no lookup reads memory that  *)
(* was never written, iteration yields every entry once, and in the end    *)
(* the destructor drops every entry exactly once.  The unchecked map makes *)
(* no promise about other keys but, its document says, that the answer is  *)
(* one of its values; the empty one, which has none, is left out.          *)
(***************************************************************************)
HoldsExactlyInput ==
  /\ phase = "ready" =>
       /\ \A i \in DOMAIN input : get(input[i]) = i
       /\ \A k \in Keys \ Range(input) :
            IF kind # "unchecked" THEN get(k) = None
            ELSE input # <<>> => get(k) \in DOMAIN input
       /\ iter = DOMAIN input
  /\ phase = "gone" => \A i \in DOMAIN input : drops[i] = 1

(***************************************************************************)
(* The errors are honest: DuplicateHash is reported exactly for inputs     *)
(* with two equal hashes, and Exhausted of a bucketed construction only    *)
(* when its last seed overflowed a bucket.                                 *)
(***************************************************************************)
ErrorsAreHonest ==
  /\ phase = "failed" => ((Built = "duplicate") <=> has_duplicate(HashesOf(input)))
  /\ phase \in {"placing", "ready"} => ~has_duplicate(HashesOf(input))
  /\ one.at = "exhausted" =>
       \A s \in Seeds : \E b \in 0..one.r - 1 :
          Cardinality({i \in DOMAIN one.hashes : bucket_of(one.hashes[i], s, one.r) = b})
             > SLOTS_PER_BUCKET

(***************************************************************************)
(* Every construction ends, with a container or with an error, also when   *)
(* workers are cancelled.                                                  *)
(***************************************************************************)
BuildEnds == (phase = "building") ~> (phase \in {"ready", "failed"})

----------------------------------------------------------------------------
(* The inductive invariant behind the two invariants above. *)

Bucketed == {"bucketed", "bucketed_set"}

\* The construction under way, or done, is that of the input; the others rest.
BuildOf ==
  IF phase = "new" THEN outcome = "idle" /\ one = NoOne /\ two = NoTwo
  ELSE /\ input \in Inputs
       /\ kind \in Chd \cup Bucketed \cup Multilevel
       /\ kind \in Chd =>
            /\ hashes = HashesOf(input)
            /\ m = IF kind = "sparse" THEN table_size(Len(input)) ELSE Len(input)
            /\ outcome # "idle"
            /\ outcome = "duplicate" <=> has_duplicate(hashes)
            /\ one = NoOne /\ two = NoTwo
       /\ kind \notin Chd => outcome = "idle"
       /\ kind \in Bucketed => OneOf(one, HashesOf(input)) /\ two = NoTwo
       /\ kind \in Multilevel => TwoOf(one, two, HashesOf(input))

Allocated == phase \in {"placing", "ready", "panicked", "gone"}

\* A container is filled only by a construction that succeeded.
Settled ==
  /\ phase \in {"new", "building", "placing", "ready", "failed", "panicked", "gone"}
  /\ Allocated => Built = "ok"
  /\ phase = "failed" => Built \in {"exhausted", "duplicate"}

\* The entries placed so far lie in their slots with their tags, and every
\* other slot is empty.
Filled ==
  /\ next \in 1..Len(input) + 1
  /\ phase # "placing" => next = Len(input) + 1
  /\ tags \in [Slots -> Nat] /\ cells \in [Slots -> Nat]
  /\ DOMAIN drops = DOMAIN input
  /\ \A i \in 1..next - 1 : cells[SlotOf(i)] = i
  /\ \A c \in Slots :
       IF cells[c] = 0 THEN tags[c] = 0
       ELSE /\ cells[c] \in 1..next - 1
            /\ c = SlotOf(cells[c])
            /\ tags[c] = Tag[Hash[input[cells[c]]]]
  /\ kind \in Dense /\ phase \in {"ready", "gone"} => \A c \in Slots : cells[c] # 0
  /\ phase = "gone" => \A i \in DOMAIN input : drops[i] = 1

MapsInv == BuildOf /\ Settled /\ (Allocated => Filled) /\ phase # "panicked"
=============================================================================
