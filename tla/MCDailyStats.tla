----------------------------- MODULE MCDailyStats -----------------------------
(* DailyStats for TLC: names for the model values; records are             *)
(* interchangeable.                                                        *)
EXTENDS DailyStats, TLC
CONSTANTS r1, r2, k1, h1, w1, w2
RecordSymmetry == Permutations({r1, r2})
=============================================================================
