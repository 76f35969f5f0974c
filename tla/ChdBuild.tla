------------------------------ MODULE ChdBuild ------------------------------
(***************************************************************************)
(* The construction of a CHD perfect hash function (perfect/chd.rs): the   *)
(* keys' hashes are split into buckets, the buckets are taken in           *)
(* descending order of size, and for each one a displacement is searched   *)
(* that sends its keys to slots nobody holds yet.  A seed whose search     *)
(* runs out of displacements is given up and the next one is tried: one    *)
(* after another, or, with the feature parallel-build, several at once by  *)
(* rayon's find_map_any, where the first success cancels the others        *)
(* through an atomic flag.                                                 *)
(*                                                                         *)
(* What slot_of's mixer makes of a hash, a seed and a displacement is      *)
(* given by the table SlotMix; only the projection onto the slots is       *)
(* computed.  Timing and counters of the build profile are left out.       *)
(***************************************************************************)
EXTENDS PerfectUtil

CONSTANTS Lambda,       \* DEFAULT_LAMBDA: keys per bucket
          MaxDisp,      \* MAX_DISPLACEMENT
          CheckEvery,   \* displacements between two looks at `cancelled` (64)
          Threads,      \* rayon's workers
          SlotMix       \* <<hash, seed, d>> -> the mixed hash, before "% m"

ASSUME ChdAssumption ==
  /\ {Lambda, CheckEvery, Threads} \subseteq Nat \ {0}
  /\ MaxDisp \in Nat
  /\ SlotMix \in [Hashes \X (0..MaxSeeds) \X (0..MaxDisp) -> Nat]

VARIABLES hashes,     \* the input: a sequence of hashes
          m,          \* the requested table size
          parallel,   \* TRUE: compiled with the feature parallel-build
          attempt,    \* seed -> the state of its try_build_seed
          cancelled,  \* the atomic flag of the parallel build
          found,      \* what find_map_any has picked up, a seed or OtherSeed
          outcome     \* "idle", "building", "ok", "exhausted" or "duplicate"

chdVars == <<hashes, m, parallel, attempt, cancelled, found, outcome>>

slot_of(h, seed, d, size) == SlotMix[<<h, seed, d>>] % size

r == Buckets(Len(hashes), 10 * Lambda)

\* The keys of bucket b under a seed, as the counting sort lays them out.
KeysOf(seed, b) == {h \in Range(hashes) : bucket_of(h, seed, r) = b}

(***************************************************************************)
(* The orders sort_unstable_by may leave the buckets in: descending size,  *)
(* ties in any order.  Empty buckets are skipped by the search.            *)
(***************************************************************************)
Orders(seed) ==
  LET used == {b \in 0..r - 1 : KeysOf(seed, b) # {}}
  IN  {o \in SetToSeqs(used) :
         \A i \in 1..Len(o) - 1 :
            Cardinality(KeysOf(seed, o[i])) >= Cardinality(KeysOf(seed, o[i + 1]))}

Waiting == [at |-> "waiting", order |-> <<>>, d |-> 0, occupied |-> {}, disp |-> <<>>]

Running == {s \in Seeds : attempt[s].at \in {"searching", "won"}}

Over(s) == attempt[s].at \in {"delivered", "exhausted", "stopped", "skipped"}

(***************************************************************************)
(* build_with_profile up to the seed loop: the empty input and duplicate   *)
(* hashes are answered at once.                                            *)
(***************************************************************************)
StartBuild(hs, size) ==
  /\ outcome = "idle"
  /\ size >= Len(hs)
  /\ hashes' = hs
  /\ m' = size
  /\ outcome' = IF hs = <<>> THEN "ok"
                ELSE IF has_duplicate(hs) THEN "duplicate" ELSE "building"
  /\ UNCHANGED <<parallel, attempt, cancelled, found>>

(***************************************************************************)
(* A seed's attempt begins: after every smaller one has failed, or, in     *)
(* parallel, whenever a worker is free.  A parallel attempt first looks at *)
(* the flag.  Then come the phases 1 to 3 of try_build_seed: assignment,   *)
(* counting sort, order.                                                   *)
(***************************************************************************)
StartSeed(s) ==
  /\ outcome = "building"
  /\ attempt[s].at = "waiting"
  /\ IF parallel THEN Cardinality(Running) < Threads
                 ELSE \A t \in 0..s - 1 : attempt[t].at = "exhausted"
  /\ \/ /\ parallel /\ cancelled
        /\ attempt' = [attempt EXCEPT ![s].at = "stopped"]
     \/ /\ ~(parallel /\ cancelled)
        /\ \E o \in Orders(s) :
             attempt' = [attempt EXCEPT
               ![s] = [Waiting EXCEPT !.at = "searching", !.order = o,
                                      !.disp = [b \in 0..r - 1 |-> 0]]]
  /\ UNCHANGED <<hashes, m, parallel, cancelled, found, outcome>>

\* Mutant: the keys of the bucket are not compared with each other.
FitsOthersOnly(s, b, d) ==
  {slot_of(h, s, d, m) : h \in KeysOf(s, b)} \cap attempt[s].occupied = {}

\* The displacement fits: the bucket's keys go to free slots, each to its own.
Fits(s, b, d) ==
  LET to == {slot_of(h, s, d, m) : h \in KeysOf(s, b)}
  IN  /\ to \cap attempt[s].occupied = {}
      /\ Cardinality(to) = Cardinality(KeysOf(s, b))

\* Mutant: d is not raised after a collision.
TryDisplacementAgain(s) ==
  LET a == attempt[s]
      b == Head(a.order)
  IN  /\ a.at = "searching"
      /\ a.order # <<>>
      /\ Fits(s, b, a.d)
      /\ attempt' = [attempt EXCEPT
           ![s] = [a EXCEPT !.order = Tail(a.order), !.d = 0, !.disp[b] = a.d,
                            !.occupied = @ \cup {slot_of(h, s, a.d, m) : h \in KeysOf(s, b)}]]
      /\ UNCHANGED <<hashes, m, parallel, cancelled, found, outcome>>

(***************************************************************************)
(* One turn of the loop over d for the bucket at the head of the order:    *)
(* give up past MAX_DISPLACEMENT, stop when cancelled (looked at every 64  *)
(* turns), otherwise accept d or go on to the next.                        *)
(***************************************************************************)
TryDisplacement(s) ==
  LET a == attempt[s]
      b == Head(a.order)
  IN  /\ a.at = "searching"
      /\ a.order # <<>>
      /\ \/ /\ a.d > MaxDisp
            /\ attempt' = [attempt EXCEPT ![s].at = "exhausted"]
         \/ /\ a.d <= MaxDisp
            /\ parallel /\ cancelled /\ a.d % CheckEvery = 0
            /\ attempt' = [attempt EXCEPT ![s].at = "stopped"]
         \/ /\ a.d <= MaxDisp
            /\ ~(parallel /\ cancelled /\ a.d % CheckEvery = 0)
            /\ attempt' = [attempt EXCEPT
                 ![s] = IF Fits(s, b, a.d)
                        THEN [a EXCEPT !.order = Tail(a.order),
                                       !.d = 0,
                                       !.occupied = @ \cup {slot_of(h, s, a.d, m) : h \in KeysOf(s, b)},
                                       !.disp[b] = a.d]
                        ELSE [a EXCEPT !.d = a.d + 1]]
      /\ UNCHANGED <<hashes, m, parallel, cancelled, found, outcome>>

\* Mutant: the worker that raises the flag then hands in what the flag says.
SucceedCancelsItself(s) ==
  /\ attempt[s].at = "searching"
  /\ attempt[s].order = <<>>
  /\ cancelled' = (parallel \/ cancelled)
  /\ attempt' = [attempt EXCEPT ![s].at = IF parallel THEN "stopped" ELSE "delivered"]
  /\ found' = IF parallel THEN found ELSE s
  /\ outcome' = IF parallel THEN outcome ELSE "ok"
  /\ UNCHANGED <<hashes, m, parallel>>

(***************************************************************************)
(* try_build_seed returns Ok.  The sequential loop returns the function;   *)
(* a parallel worker raises the flag and has still to hand in its result.  *)
(***************************************************************************)
Succeed(s) ==
  /\ attempt[s].at = "searching"
  /\ attempt[s].order = <<>>
  /\ IF parallel
     THEN /\ attempt' = [attempt EXCEPT ![s].at = "won"]
          /\ cancelled' = TRUE
          /\ UNCHANGED <<found, outcome>>
     ELSE /\ attempt' = [attempt EXCEPT ![s].at = "delivered"]
          /\ found' = s
          /\ outcome' = "ok"
          /\ UNCHANGED cancelled
  /\ UNCHANGED <<hashes, m, parallel>>

(***************************************************************************)
(* rayon's side of find_map_any (external): it keeps one of the results    *)
(* handed in, hands out no more seeds than it likes once it has one, and   *)
(* returns when no worker is left running.                                 *)
(***************************************************************************)
Deliver(s) ==
  /\ attempt[s].at = "won"
  /\ found' \in IF found = OtherSeed THEN {s} ELSE {found, s}
  /\ attempt' = [attempt EXCEPT ![s].at = "delivered"]
  /\ UNCHANGED <<hashes, m, parallel, cancelled, outcome>>

SkipSeed(s) ==
  /\ outcome = "building" /\ parallel
  /\ found # OtherSeed
  /\ attempt[s].at = "waiting"
  /\ attempt' = [attempt EXCEPT ![s].at = "skipped"]
  /\ UNCHANGED <<hashes, m, parallel, cancelled, found, outcome>>

\* The end of the seed loop: the result found, or BuildError::Exhausted.
EndBuild ==
  /\ outcome = "building"
  /\ \A s \in Seeds : Over(s)
  /\ outcome' = IF found # OtherSeed THEN "ok" ELSE "exhausted"
  /\ UNCHANGED <<hashes, m, parallel, attempt, cancelled, found>>

ChdInit ==
  /\ hashes = <<>> /\ m = 0
  /\ parallel \in BOOLEAN
  /\ attempt = [s \in Seeds |-> Waiting]
  /\ cancelled = FALSE
  /\ found = OtherSeed
  /\ outcome = "idle"

ChdStep ==
  \/ \E s \in Seeds : \/ StartSeed(s) \/ TryDisplacement(s) \/ Succeed(s)
                      \/ Deliver(s) \/ SkipSeed(s)
  \/ EndBuild

\* ChdPhf::index of a finished build.
index(h) ==
  IF m = 0 THEN 0
  ELSE LET b == bucket_of(h, found, r)
       IN  slot_of(h, found, attempt[found].disp[b], m)

----------------------------------------------------------------------------
(***************************************************************************)
(* A finished build is perfect: the hashes it was built from go to         *)
(* different slots inside the table, whatever order the buckets were       *)
(* taken in, however many seeds were given up before, and whichever of the *)
(* parallel workers won.                                                   *)
(***************************************************************************)
PhfIsPerfect ==
  outcome = "ok" =>
    /\ \A h \in Range(hashes) : index(h) \in 0..m - 1
    /\ \A g, h \in Range(hashes) : g # h => index(g) # index(h)

(***************************************************************************)
(* Cancellation never turns a success into a failure: Exhausted is         *)
(* reported only when every seed was tried to its last displacement, and   *)
(* an attempt is stopped only on behalf of one that succeeded.             *)
(***************************************************************************)
ExhaustedIsHonest ==
  /\ outcome = "exhausted" => \A s \in Seeds : attempt[s].at = "exhausted"
  /\ (\E s \in Seeds : attempt[s].at = "stopped")
        => \E s \in Seeds : attempt[s].at \in {"won", "delivered"}

----------------------------------------------------------------------------
(* The inductive invariant behind the two properties. *)

\* The hashes an attempt has dealt with, and where it has sent one of them.
Placed(s) == {h \in Range(hashes) : bucket_of(h, s, r) \notin Range(attempt[s].order)}

Address(s, h) == slot_of(h, s, attempt[s].disp[bucket_of(h, s, r)], m)

Attempts ==
  [at : {"waiting", "searching", "won", "delivered", "exhausted", "stopped", "skipped"},
   order : Seq(0..r - 1), d : Nat, occupied : SUBSET Nat,
   disp : {<<>>} \cup [0..r - 1 -> 0..MaxDisp]]

\* An attempt that may still be, or is, the result: its table of displacements
\* is there, no bucket waits twice, the hashes placed so far hold occupied
\* slots, each its own, and nothing is left to do for a winner.
Sane(s) ==
  /\ attempt[s].disp \in [0..r - 1 -> 0..MaxDisp]
  /\ \A i, j \in DOMAIN attempt[s].order :
       attempt[s].order[i] = attempt[s].order[j] => i = j
  /\ \A h \in Placed(s) : Address(s, h) \in attempt[s].occupied
  /\ \A g, h \in Placed(s) : Address(s, g) = Address(s, h) => g = h
  /\ attempt[s].at # "searching" => attempt[s].order = <<>>

\* Who raised the flag, and what find_map_any has in its hands.
Handed ==
  /\ found \in Seeds => attempt[found].at = "delivered"
  /\ (\E s \in Seeds : attempt[s].at \in {"delivered", "skipped"}) => found \in Seeds
  /\ cancelled => \E s \in Seeds : attempt[s].at \in {"won", "delivered"}

ChdInv ==
  /\ hashes \in Seq(Hashes) /\ m \in Nat /\ Len(hashes) <= m
  /\ parallel \in BOOLEAN /\ cancelled \in BOOLEAN
  /\ found \in Seeds \cup {OtherSeed}
  /\ outcome \in {"idle", "building", "ok", "exhausted", "duplicate"}
  /\ attempt \in [Seeds -> Attempts]
  /\ outcome \in {"idle", "duplicate"} => attempt = [s \in Seeds |-> Waiting]
  /\ outcome = "building" => hashes # <<>>
  /\ outcome = "ok" => hashes = <<>> \/ found \in Seeds
  /\ hashes = <<>> => attempt = [s \in Seeds |-> Waiting]
  /\ \A s \in Seeds : attempt[s].at \in {"searching", "won", "delivered"} => Sane(s)
  /\ Handed
  /\ ExhaustedIsHonest
=============================================================================
