----------------------------- MODULE MCRecalculate -----------------------------
(* Recalculate for TLC: k1 may be reopened, k2 may not, k3 has no          *)
(* predicate and is not registered.                                        *)
EXTENDS Recalculate, TLC
CONSTANTS r1, k1, k2, k3, w1, w2
MCAllSteps == <<k1, k2>>
WorkerSymmetry == Permutations({w1, w2})
=============================================================================
