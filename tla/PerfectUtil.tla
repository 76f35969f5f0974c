----------------------------- MODULE PerfectUtil -----------------------------
(***************************************************************************)
(* What the perfect-hash constructions share (perfect/util.rs).  A hash is *)
(* a member of Hashes; what the mixer makes of it under a seed is given by *)
(* the table Mix, and only the projection onto the buckets is computed.    *)
(***************************************************************************)
EXTENDS Integers, FiniteSets, SequencesExt

CONSTANTS Hashes,       \* the u64 hashes that occur
          MaxSeeds,     \* MAX_SEED_RETRIES
          Mix           \* <<hash, seed>> -> the mixed hash, before "% r"

ASSUME MixAssumption ==
  /\ MaxSeeds \in Nat \ {0}
  /\ Mix \in [Hashes \X (0..MaxSeeds) -> Nat]

Seeds == 0..MaxSeeds - 1

\* A seed outside the retries' range: the seed of level 0 of the multilevel
\* function, and "no seed" where a build has not chosen one.
OtherSeed == MaxSeeds

bucket_of(h, seed, r) == Mix[<<h, seed>>] % r

has_duplicate(hs) == \E i, j \in DOMAIN hs : i < j /\ hs[i] = hs[j]

\* The number of buckets for n keys: ceil(n / lambda), at least 1; lambda, a
\* fraction for the bucketed functions, is given in tenths.
Buckets(n, lambda) == Max({1, (10 * n + lambda - 1) \div lambda})
=============================================================================
