------------------------------- MODULE MCEventBus -------------------------------
(* EventBus for TLC: the host seeds two steps when an application starts   *)
(* and completes the first on its event; another app listens as well, and  *)
(* may raise.                                                              *)
EXTENDS EventBus, TLC
CONSTANTS r1, r2, k1, k2, started, finished, seeder, finisher, other
MCHost == started :> <<seeder>> @@ finished :> <<finisher>>
MCWork ==
    seeder :> <<[op |-> "add", key |-> k1], [op |-> "add", key |-> k2]>>
    @@ finisher :> <<[op |-> "complete", key |-> k1]>>
    @@ other :> <<>>
RecordSymmetry == Permutations({r1, r2})
=================================================================================
