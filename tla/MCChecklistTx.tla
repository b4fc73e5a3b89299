----------------------------- MODULE MCChecklistTx -----------------------------
(* ChecklistTx for TLC.  No symmetry: the run checks liveness as well.     *)
EXTENDS ChecklistTx
CONSTANTS r1, k1, k2, p1, p2
=============================================================================
