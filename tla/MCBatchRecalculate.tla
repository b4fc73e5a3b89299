-------------------------- MODULE MCBatchRecalculate --------------------------
(* BatchRecalculate for TLC: a student with an id in two spellings,        *)
(* another, and a malformed id; a term of a campus the user processes and  *)
(* one without.                                                            *)
EXTENDS BatchRecalculate, TLC
CONSTANTS s1, s2, t1, t2, k1, c1, c2, c3, i1, j1, i2, bad
MCRecord == Student \X Term
MCCampusOf == t1 :> c1 @@ t2 :> NoCampus
MCStudentOf == i1 :> s1 @@ j1 :> s1 @@ i2 :> s2 @@ bad :> NoStudent
=============================================================================
