--------------------------- MODULE MCDailyDigest ---------------------------
(* Instances of DailyDigest for TLC. *)
EXTENDS DailyDigest, TLC

CONSTANTS d1, d2, i1, i2, i3, i4, i5, i6, w1, w2

\* One daily a week, two weeks a month: two digests meet at either level.
SmallThresholds == (0 :> 1) @@ (1 :> 2)
=============================================================================
