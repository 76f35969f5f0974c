----------------------------- MODULE MCFlatSet -----------------------------
EXTENDS FlatSet, TLC

CONSTANTS k1, k2, k3, k4, k5

\* Groups 0, 0, 0, 1, 1 and channels 0, 0, 1, 0, 1: either group can be filled
\* by keys of channel 0 and then displace one of channel 1.
MCHash == k1 :> 0 @@ k2 :> 0 @@ k3 :> 1 @@ k4 :> 4 @@ k5 :> 5

\* k1 and k2 fill their group, so that k3 is displaced; without k3 the limit is
\* lower and the way to k3 is still marked.
MCOthers == {<<k1, k2, k3>>}
=============================================================================
