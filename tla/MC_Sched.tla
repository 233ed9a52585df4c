------------------------------ MODULE MC_Sched ------------------------------
(* Sched instantiated for TLC.  Levels: 0 protected, 1 periodic, 2 below   *)
(* SCHED_MAX_PRIO_LEVEL_UNPROTECTED (thread_create refuses it), 3 main and *)
(* ordinary threads, 4 idle.                                               *)
EXTENDS Sched

MC_OrdinaryPrios == {2, 3}
MC_ProtectedPrios == {0}
\* Any thread may wake any pid.
MC_WakeupTargets == Pids
=============================================================================
