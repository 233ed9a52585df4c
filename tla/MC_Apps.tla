------------------------------- MODULE MC_Apps -------------------------------
(* Apps instantiated for TLC: 16 priority levels with main at              *)
(* THREAD_PRIORITY_MAIN (7) as in sched.h and thread.h, idle, main and two *)
(* more pids.  For the "clients" image the choices mirror the mutex        *)
(* check: an ordinary thread_create asks for a level below                 *)
(* SCHED_MAX_PRIO_LEVEL_UNPROTECTED (refused) or main's, a protected one   *)
(* for level 0.                                                            *)
EXTENDS Apps

MC_OrdinaryPrios == {2, 7}
MC_ProtectedPrios == {0}
\* The woken pid is never a mutex user (see the hazards of thread_wakeup).
MC_WakeupTargets == Pids \ MutexUsers
=============================================================================
