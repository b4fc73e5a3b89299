------------------------------- MODULE MCSeeding -------------------------------
(* Seeding for TLC: the records of the model's students and terms, and     *)
(* interchangeable terms.                                                  **)
EXTENDS Seeding, TLC
CONSTANTS s1, s2, t1, t2, k1, k2
MCRecord == Student \X Term
TermSymmetry == Permutations({t1, t2})
=============================================================================
