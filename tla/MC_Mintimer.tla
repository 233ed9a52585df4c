---------------------------- MODULE MC_Mintimer ----------------------------
(* Model-checking instance of Mintimer.  The hardware counter has 3 bits   *)
(* (8 ticks a period) under a short time of 4 bits (two periods), so       *)
(* _secure_mintimer_high_cnt wraps and _long_cnt advances within the bound *)
(* on time.  The constants keep the ratio of secure_mintimer.h:            *)
(* BACKOFF 200 : OVERHEAD 300 : ISR_BACKOFF 200 become 2 : 3 : 2.          *)
EXTENDS Mintimer

\* Ticks since boot explored: two full short times.
TIME_LIMIT == 2 * SHORT + 2
ClockBound == clock <= TIME_LIMIT
=============================================================================
