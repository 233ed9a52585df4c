------------------------------- MODULE Sched -------------------------------
(***************************************************************************)
(* The scheduler of the sancus_sm_timer protected module: thread table,    *)
(* run queues, the exitless entry stub of cpu.c, the timer ISR of          *)
(* periph/timer.c and the thread-sleep side of secure_mintimer.  All of    *)
(* it runs inside one protected module with interrupts disabled, so every  *)
(* entry into the module is one atomic step here.                         *)
(*                                                                         *)
(* Each C function that changes scheduler state is a pure operator from a  *)
(* kernel record k to a kernel record; an action composes them in the      *)
(* order the entry path calls them and commits the result.  Outcomes that  *)
(* depend on time (which timers expire, whether a deadline is within       *)
(* SECURE_MINTIMER_BACKOFF, whether the timer IFG is pending) are chosen   *)
(* with \E.                                                                *)
(***************************************************************************)
EXTENDS Integers, Sequences, FiniteSets, SequencesExt, FiniteSetsExt, Functions

CONSTANTS
    KERNEL_PID_LAST,     \* pids are KERNEL_PID_FIRST..KERNEL_PID_LAST
    SCHED_PRIO_LEVELS,   \* number of run queues; the last is the idle level
    MAIN_PRIO,           \* THREAD_PRIORITY_MAIN given to main by kernel_init
    OrdinaryPrios,       \* priorities threads pass to thread_create
    ProtectedPrios,      \* priorities threads pass to thread_create_protected
    Periodic,            \* pids threads pass to thread_change_to_periodical
    PromoteOthers,       \* FALSE: a thread only makes itself periodic
    WakeupTargets,       \* pids threads pass to thread_wakeup
    NULL,                \* model value: the NULL thread pointer
    SCHED_TIMER          \* model value: scheduler_timer (its thread is NULL)

KERNEL_PID_UNDEF == 0
KERNEL_PID_FIRST == 1
Pids == KERNEL_PID_FIRST..KERNEL_PID_LAST
Prios == 0..(SCHED_PRIO_LEVELS - 1)
SCHED_PERIODIC_PRIO_LEVEL == 1
SCHED_MAX_PRIO_LEVEL_UNPROTECTED == 3
THREAD_PRIORITY_IDLE == SCHED_PRIO_LEVELS - 1
\* kernel_init creates idle first and main second, each in the first free slot
IDLE_PID == KERNEL_PID_FIRST

ASSUME /\ KERNEL_PID_LAST >= 2
       /\ SCHED_MAX_PRIO_LEVEL_UNPROTECTED <= MAIN_PRIO
       /\ MAIN_PRIO < THREAD_PRIORITY_IDLE
       /\ OrdinaryPrios \cup ProtectedPrios \subseteq Prios
       /\ Periodic \subseteq Pids \ {IDLE_PID}
       /\ PromoteOthers \in BOOLEAN
       /\ WakeupTargets \subseteq Pids

Statuses == {"STOPPED", "SLEEPING", "MUTEX_BLOCKED", "RUNNING", "PENDING"}
\* status >= STATUS_ON_RUNQUEUE
STATUS_ON_RUNQUEUE == {"RUNNING", "PENDING"}

\* Outcomes the code cannot recover from: the CPU restores the context of a
\* NULL thread, or bitarithm_lsb spins forever on an empty bitcache.
HaltingFaults == {"NullRestore", "EmptyBitcache"}
Faults == HaltingFaults \cup {"TimerRelinked", "OobWrite"}

\* What a thread's own code does next, when a library call makes two
\* scheduler entries (thread_sleep: set own status, then yield;
\* thread_create: create in scheduler, then sched_switch), or when it
\* resumes inside a call (_mutex_lock after its yield).
NoCont == [op |-> "none", prio |-> 0]
Conts == {NoCont, [op |-> "yield", prio |-> 0], [op |-> "lock", prio |-> 0]}
         \cup [op : {"switch"}, prio : Prios]

VARIABLES
    inUse,       \* sched_threads[i].in_use
    status,      \* sched_threads[i].status
    prio,        \* sched_threads[i].priority
    rq,          \* sched_runqueues: one sequence per level, head first
    bitcache,    \* runqueue_bitcache as the set of levels whose bit is set
    active,      \* sched_active_thread (a pid or NULL)
    activePid,   \* sched_active_pid
    csr,         \* sched_context_switch_request
    armed,       \* pids whose secure_mintimer_timer_list slot is linked
    schedTimer,  \* scheduler_timer is linked in a timer list
    booted,      \* initialization_done
    fault,       \* memory-safety outcomes the code has produced
    schedFired,  \* history: scheduler_timer fired in the last step
    cont         \* per thread: the scheduler entry its code makes next

vars == <<inUse, status, prio, rq, bitcache, active, activePid, csr, armed,
          schedTimer, booted, fault, schedFired, cont>>

\* The scheduler's protected state as one record, for composing functions.
K == [inUse |-> inUse, status |-> status, prio |-> prio, rq |-> rq,
      bitcache |-> bitcache, active |-> active, activePid |-> activePid,
      csr |-> csr, armed |-> armed, schedTimer |-> schedTimer,
      booted |-> booted, fault |-> fault, schedFired |-> FALSE]

Commit(k) ==
    /\ inUse' = k.inUse          /\ status' = k.status
    /\ prio' = k.prio            /\ rq' = k.rq
    /\ bitcache' = k.bitcache    /\ active' = k.active
    /\ activePid' = k.activePid  /\ csr' = k.csr
    /\ armed' = k.armed          /\ schedTimer' = k.schedTimer
    /\ booted' = k.booted        /\ fault' = k.fault
    /\ schedFired' = k.schedFired

Raise(k, f) == [k EXCEPT !.fault = @ \cup {f}]

-----------------------------------------------------------------------------
(* Circular run-queue lists: list->next is the tail, the tail's next the   *)
(* head.  As sequences: rpush appends, lpop drops the head, lpoprpush      *)
(* moves the head to the tail.                                             *)

sm_clist_rpush(q, t) == Append(q, t)
sm_clist_lpop(q) == IF q = <<>> THEN q ELSE Tail(q)
sm_clist_lpoprpush(q) == IF q = <<>> THEN q ELSE Append(Tail(q), Head(q))

\* Lowest set bit: the highest-priority non-empty level.
bitarithm_lsb_sm_timer(v) == Min(v)

\* Mutant: pushing without testing whether the thread is already queued.
sched_set_status_nocheck(k, t, s) ==
    LET p   == k.prio[t]
        add == s \in STATUS_ON_RUNQUEUE
        del == s \notin STATUS_ON_RUNQUEUE /\ k.status[t] \in STATUS_ON_RUNQUEUE
        q   == IF add THEN sm_clist_rpush(k.rq[p], t)
               ELSE IF del THEN sm_clist_lpop(k.rq[p]) ELSE k.rq[p]
    IN [k EXCEPT !.rq[p] = q,
                 !.bitcache = IF add THEN @ \cup {p}
                              ELSE IF del /\ q = <<>> THEN @ \ {p} ELSE @,
                 !.status[t] = s]

\* Mutant: the bitcache bit is set one position too far (1 << (priority + 1)).
sched_set_status_shift(k, t, s) ==
    LET p   == k.prio[t]
        add == s \in STATUS_ON_RUNQUEUE /\ k.status[t] \notin STATUS_ON_RUNQUEUE
        del == s \notin STATUS_ON_RUNQUEUE /\ k.status[t] \in STATUS_ON_RUNQUEUE
        q   == IF add THEN sm_clist_rpush(k.rq[p], t)
               ELSE IF del THEN sm_clist_lpop(k.rq[p]) ELSE k.rq[p]
    IN [k EXCEPT !.rq[p] = q,
                 !.bitcache = IF add THEN @ \cup {p + 1}
                              ELSE IF del /\ q = <<>> THEN @ \ {p} ELSE @,
                 !.status[t] = s]

\* Moving a thread on or off its run queue pops the HEAD of the queue, not
\* the thread itself.
sched_set_status(k, t, s) ==
    LET p   == k.prio[t]
        add == s \in STATUS_ON_RUNQUEUE /\ k.status[t] \notin STATUS_ON_RUNQUEUE
        del == s \notin STATUS_ON_RUNQUEUE /\ k.status[t] \in STATUS_ON_RUNQUEUE
        q   == IF add THEN sm_clist_rpush(k.rq[p], t)
               ELSE IF del THEN sm_clist_lpop(k.rq[p]) ELSE k.rq[p]
    IN [k EXCEPT !.rq[p] = q,
                 !.bitcache = IF add THEN @ \cup {p}
                              ELSE IF del /\ q = <<>> THEN @ \ {p} ELSE @,
                 !.status[t] = s]
-----------------------------------------------------------------------------
(* Thread timers.  Slot t of secure_mintimer_timer_list belongs to pid t;  *)
(* its thread field is always &sched_threads[t].  Where a timer sits in    *)
(* the three timer lists is the business of module Mintimer; here a timer  *)
(* is armed or not.                                                        *)

\* Removes the slot's pending timer (secure_mintimer_remove) and returns it.
get_available_timer(k, t) == [k EXCEPT !.armed = @ \ {t}]

\* A timer of a thread makes it PENDING; every shot requests a reschedule.
shoot_timer(k, x) ==
    LET k1 == IF x = SCHED_TIMER THEN k ELSE sched_set_status(k, x, "PENDING")
    IN [k1 EXCEPT !.csr = 1]

\* spin: the deadline is within SECURE_MINTIMER_BACKOFF, so the code spins
\* and shoots the timer at once instead of linking it.
secure_mintimer_set_absolute(k, t, spin) ==
    IF spin THEN shoot_timer(k, t) ELSE [k EXCEPT !.armed = @ \cup {t}]

secure_mintimer_tsleep_specific_pid(k, t, spin) ==
    secure_mintimer_set_absolute(
        sched_set_status(get_available_timer(k, t), t, "SLEEPING"), t, spin)

\* _secure_mintimer_set_absolute_explicit on scheduler_timer, which the
\* caller never unlinks first: linking a linked node corrupts the list.
arm_scheduler_timer(k) ==
    IF k.schedTimer THEN Raise(k, "TimerRelinked")
    ELSE [k EXCEPT !.schedTimer = TRUE]

\* One expiry inside _timer_callback: unlink, clear the target, shoot.
\* Mutant: the expired scheduler_timer is shot but stays linked.
fire_keep_linked(k, x) ==
    IF x = SCHED_TIMER
    THEN shoot_timer([k EXCEPT !.schedFired = TRUE], x)
    ELSE shoot_timer([k EXCEPT !.armed = @ \ {x}], x)

fire(k, x) ==
    IF x = SCHED_TIMER
    THEN shoot_timer([k EXCEPT !.schedTimer = FALSE, !.schedFired = TRUE], x)
    ELSE shoot_timer([k EXCEPT !.armed = @ \ {x}], x)

secure_mintimer_timer_callback(k, seq) == FoldLeft(fire, k, seq)

\* The timers one run of the callback may expire, in expiry order.
Expiries(k) ==
    UNION {SetToSeqs(S) :
             S \in SUBSET (k.armed \cup IF k.schedTimer THEN {SCHED_TIMER} ELSE {})}

-----------------------------------------------------------------------------
(* Scheduler functions of core/sched.c and core/thread.c.                  *)

periodic_thread_schedule_next_timer(k, t, spin) ==
    secure_mintimer_set_absolute(
        sched_set_status(get_available_timer(k, t), t, "SLEEPING"), t, spin)

\* Label end: of sched_run_internal: a periodic thread about to run rotates
\* the periodic queue and arms the scheduler timer for its quantum.
sched_run_end(k) ==
    IF k.prio[k.active] = SCHED_PERIODIC_PRIO_LEVEL
    THEN arm_scheduler_timer(
           [k EXCEPT !.rq[SCHED_PERIODIC_PRIO_LEVEL] = sm_clist_lpoprpush(@)])
    ELSE k

\* exhausted: the running periodic thread has used its runtime (only read
\* when no switch is requested and a periodic thread is RUNNING).
sched_run_internal(k, exhausted, spin) ==
    LET a       == k.active
        charged == /\ a # NULL
                   /\ k.status[a] = "RUNNING"
                   /\ k.prio[a] = SCHED_PERIODIC_PRIO_LEVEL
                   /\ k.csr = 0
        k1 == IF charged THEN periodic_thread_schedule_next_timer(k, a, spin)
              ELSE k
        k2 == [k1 EXCEPT !.csr = 0]
        next == Head(k2.rq[bitarithm_lsb_sm_timer(k2.bitcache)])
        st == IF a # NULL /\ k2.status[a] = "RUNNING"
              THEN [k2.status EXCEPT ![a] = "PENDING"] ELSE k2.status
    IN IF charged /\ ~exhausted THEN sched_run_end(k)
       ELSE IF k2.bitcache = {} THEN Raise(k2, "EmptyBitcache")
       ELSE IF next = a THEN sched_run_end(k2)
       ELSE sched_run_end([k2 EXCEPT !.status = [st EXCEPT ![next] = "RUNNING"],
                                     !.active = next, !.activePid = next])

\* me = NULL (after an exit or at boot) skips both branches here; the code
\* still reads NULL->priority (see the hazards in PROJECT.json).
sched_yield(k, spin) ==
    LET me == k.active
        k1 == IF me # NULL /\ k.status[me] \in STATUS_ON_RUNQUEUE
              THEN [k EXCEPT !.rq[k.prio[me]] = sm_clist_lpoprpush(@)]
              ELSE k
    IN IF me # NULL /\ k1.prio[me] = SCHED_PERIODIC_PRIO_LEVEL
       THEN [periodic_thread_schedule_next_timer(
               [k1 EXCEPT !.schedTimer = FALSE], me, spin) EXCEPT !.csr = 1]
       ELSE k1

\* Mutant: the pid is freed without sched_set_status, so it stays queued.
sched_task_exit_internal_nostatus(k) ==
    IF k.activePid = KERNEL_PID_UNDEF THEN k
    ELSE [k EXCEPT !.inUse[k.activePid] = FALSE, !.active = NULL]

\* Leaves the exited thread's sleep timer armed and sched_active_pid set.
sched_task_exit_internal(k) ==
    IF k.activePid = KERNEL_PID_UNDEF THEN k
    ELSE [sched_set_status([k EXCEPT !.inUse[k.activePid] = FALSE],
                           k.active, "STOPPED")
          EXCEPT !.active = NULL]

FreePids(k) == {i \in Pids : ~k.inUse[i]}

\* First free pid, priority, then PENDING (which puts it on the run queue).
thread_create_scheduler_internal(k, p) ==
    IF FreePids(k) = {} THEN k
    ELSE LET i == Min(FreePids(k))
         IN sched_set_status([k EXCEPT !.inUse[i] = TRUE, !.prio[i] = p],
                             i, "PENDING")

\* -EOVERFLOW is not KERNEL_PID_UNDEF, so a full table makes the entry write
\* sm_idx and sm_entry of sched_threads[-EOVERFLOW].
thread_create_protected_in_scheduler(k, p) ==
    IF FreePids(k) = {} THEN Raise(k, "OobWrite")
    ELSE thread_create_scheduler_internal(k, p)

thread_create_unprotected_in_scheduler(k, p) ==
    IF p < SCHED_MAX_PRIO_LEVEL_UNPROTECTED THEN k
    ELSE thread_create_scheduler_internal(k, p)

thread_change_to_periodical(k, t, spin) ==
    secure_mintimer_tsleep_specific_pid(
        [sched_set_status(k, t, "SLEEPING")
            EXCEPT !.prio[t] = SCHED_PERIODIC_PRIO_LEVEL], t, spin)

thread_wakeup(k, t) ==
    IF k.status[t] = "SLEEPING" THEN sched_set_status(k, t, "RUNNING") ELSE k

\* Called with do_thread_yield = 1 on every path modelled here.
thread_yield_higher_internal(k, spin, exhausted) ==
    sched_run_internal(sched_yield(k, spin), exhausted, spin)

\* Runs from a thread, so sm_irq_is_in() is false and the yield is taken.
sched_switch_internal(k, other, spin, exhausted) ==
    LET a == k.active
    IN IF k.status[a] \notin STATUS_ON_RUNQUEUE \/ k.prio[a] > other
       THEN thread_yield_higher_internal([k EXCEPT !.csr = 1], spin, exhausted)
       ELSE k

scheduler_init(k) ==
    IF k.booted THEN k ELSE [k EXCEPT !.booted = TRUE, !.schedTimer = FALSE]

\* __MACRO_EXIT_ISR: run the scheduler only if a switch was requested, then
\* restore sched_active_thread.
exit_isr(k, exhausted, spin) ==
    LET k1 == IF k.csr # 0 THEN sched_run_internal(k, exhausted, spin) ELSE k
    IN IF k1.active = NULL THEN Raise(k1, "NullRestore") ELSE k1

\* Label .default of exitless_entry: a pending timer IFG/CCIFG is served
\* first (callback, csr = 1, EXIT_ISR) and the yield is then skipped;
\* otherwise thread_yield_higher_internal(1): sched_yield, sched_run.
exitless_default(k, ifg, seq, spin, exhausted) ==
    IF ifg
    THEN exit_isr([secure_mintimer_timer_callback(k, seq) EXCEPT !.csr = 1],
                  exhausted, spin)
    ELSE thread_yield_higher_internal(k, spin, exhausted)
-----------------------------------------------------------------------------
(* Actions.  A thread's code runs when it is sched_active_thread; the idle *)
(* thread only loops in pm_set_lowest and never calls the scheduler.       *)

Init ==
    /\ inUse = [t \in Pids |-> FALSE]
    /\ status = [t \in Pids |-> "STOPPED"]
    /\ prio = [t \in Pids |-> 0]
    /\ rq = [p \in Prios |-> <<>>]
    /\ bitcache = {}
    /\ active = NULL
    /\ activePid = KERNEL_PID_UNDEF
    /\ csr = 0
    /\ armed = {}
    /\ schedTimer = FALSE
    /\ booted = FALSE
    /\ fault = {}
    /\ schedFired = FALSE
    /\ cont = [t \in Pids |-> NoCont]

\* A stale sleep timer has put a thread whose slot is free back on a run
\* queue (reported by ExitedThreadNeverRunnable); from here on the slot's
\* stale context may be resumed or its pid reused while queued, and the
\* model stops following the system.
Revived == \E t \in Pids : ~inUse[t] /\ status[t] \in STATUS_ON_RUNQUEUE

Halted == fault \cap HaltingFaults # {} \/ Revived

\* idle_thread loops on pm_set_lowest and never enters the scheduler; the
\* code of every other thread may.
Callers == Pids \ {IDLE_PID}

\* The active thread's own code is executing and may make a call.
Runs(a) == /\ booted /\ ~Halted
           /\ a = active /\ a # NULL /\ a \in Callers

Calls(a) == Runs(a) /\ cont[a] = NoCont

\* kernel_init: create idle and main WOUT_YIELD, then the BOOT entry:
\* scheduler_init and the default path with no thread (no timer IFG yet).
KernelInit ==
    /\ ~booted
    /\ LET k1 == thread_create_unprotected_in_scheduler(K, THREAD_PRIORITY_IDLE)
           k2 == thread_create_unprotected_in_scheduler(k1, MAIN_PRIO)
       IN \E ex \in BOOLEAN :
            Commit(exitless_default(scheduler_init(k2), FALSE, <<>>, FALSE, ex))
    /\ UNCHANGED cont

\* thread_yield_higher (YIELD), a yield from a protected thread, the second
\* entry of thread_sleep, and BOOT after boot, which behaves the same.
Yield(a) ==
    /\ Runs(a) /\ cont[a].op \in {"none", "yield"}
    /\ \E ifg, spin, ex \in BOOLEAN, seq \in Expiries(K) :
         /\ ifg \/ seq = <<>>
         /\ Commit(exitless_default(K, ifg, seq, spin, ex))
    /\ cont' = [cont EXCEPT ![a] = NoCont]

\* SLEEP entry: _secure_mintimer_tsleep_internal, then the default path.
Sleep(a) ==
    /\ Calls(a)
    /\ \E s0 \in BOOLEAN :
         LET k1 == secure_mintimer_tsleep_specific_pid(K, a, s0)
         IN \E ifg, spin, ex \in BOOLEAN, seq \in Expiries(k1) :
              /\ ifg \/ seq = <<>>
              /\ Commit(exitless_default(k1, ifg, seq, spin, ex))
    /\ UNCHANGED cont

\* EXIT entry (cpu_switch_context_exit): no context save,
\* sched_task_exit_internal, then the default path.
Exit(a) ==
    /\ Calls(a)
    /\ LET k1 == sched_task_exit_internal(K)
       IN \E ifg, spin, ex \in BOOLEAN, seq \in Expiries(k1) :
            /\ ifg \/ seq = <<>>
            /\ Commit(exitless_default(k1, ifg, seq, spin, ex))
    /\ UNCHANGED cont

\* thread_sleep, first entry: sched_set_own_status(STATUS_SLEEPING).
ThreadSleep(a) ==
    /\ Calls(a)
    /\ Commit(sched_set_status(K, a, "SLEEPING"))
    /\ cont' = [cont EXCEPT ![a] = [op |-> "yield", prio |-> 0]]

Wakeup(a) ==
    /\ Calls(a)
    /\ \E t \in WakeupTargets : Commit(thread_wakeup(K, t))
    /\ UNCHANGED cont

\* thread_create: -EINVAL below SCHED_MAX_PRIO_LEVEL_UNPROTECTED before any
\* entry; otherwise the create entry, then sched_switch(priority) unless
\* THREAD_CREATE_WOUT_YIELD (also when the create returned -EOVERFLOW).
CreateThread(a) ==
    /\ Calls(a)
    /\ \E p \in OrdinaryPrios, woutYield \in BOOLEAN :
         IF p < SCHED_MAX_PRIO_LEVEL_UNPROTECTED
         THEN UNCHANGED vars
         ELSE /\ Commit(thread_create_unprotected_in_scheduler(K, p))
              /\ cont' = [cont EXCEPT ![a] = IF woutYield THEN NoCont
                                            ELSE [op |-> "switch", prio |-> p]]

CreateProtected(a) ==
    /\ Calls(a)
    /\ \E p \in ProtectedPrios, woutYield \in BOOLEAN :
         /\ Commit(thread_create_protected_in_scheduler(K, p))
         /\ cont' = [cont EXCEPT ![a] = IF woutYield THEN NoCont
                                       ELSE [op |-> "switch", prio |-> p]]

\* SCHED_SWITCH entry made by thread_create after the create entry.
Switch(a) ==
    /\ Runs(a) /\ cont[a].op = "switch"
    /\ \E spin, ex \in BOOLEAN :
         Commit(sched_switch_internal(K, cont[a].prio, spin, ex))
    /\ cont' = [cont EXCEPT ![a] = NoCont]

PromoteTargets(a) ==
    {t \in Periodic : inUse[t] /\ (PromoteOthers \/ t = a)}

ChangeToPeriodical(a) ==
    /\ Calls(a)
    /\ \E t \in PromoteTargets(a), spin \in BOOLEAN :
         Commit(thread_change_to_periodical(K, t, spin))
    /\ UNCHANGED cont

\* Timer interrupt while a thread runs (IRQs are enabled only in threads):
\* save context, secure_mintimer_timer_callback, EXIT_ISR.
TimerISR ==
    /\ booted /\ ~Halted /\ active # NULL
    /\ \E seq \in Expiries(K), spin, ex \in BOOLEAN :
         Commit(exit_isr(secure_mintimer_timer_callback(K, seq), ex, spin))
    /\ UNCHANGED cont

\* Memory-access violation by the running thread (caller id 0xFFFD): kill
\* it like an exit; with the timer IFG set go to the ISR body without a
\* context save, else thread_yield_higher_internal(1).
Violation(a) ==
    /\ Runs(a)
    /\ LET k1 == sched_task_exit_internal(K)
       IN \E ifg, spin, ex \in BOOLEAN, seq \in Expiries(k1) :
            /\ ifg \/ seq = <<>>
            /\ Commit(IF ifg
                      THEN exit_isr(secure_mintimer_timer_callback(k1, seq), ex, spin)
                      ELSE thread_yield_higher_internal(k1, spin, ex))
    /\ cont' = [cont EXCEPT ![a] = NoCont]

\* After a halting fault the CPU no longer runs scheduler code; after a
\* revival the model stops following the system.
Halt == Halted /\ UNCHANGED vars

Next ==
    \/ KernelInit
    \/ TimerISR
    \/ Halt
    \/ \E a \in Pids :
         \/ Yield(a) \/ Sleep(a) \/ Exit(a) \/ ThreadSleep(a) \/ Wakeup(a)
         \/ CreateThread(a) \/ CreateProtected(a) \/ Switch(a)
         \/ ChangeToPeriodical(a) \/ Violation(a)

Spec == Init /\ [][Next]_vars
-----------------------------------------------------------------------------
(* Properties.                                                             *)

TypeOK ==
    /\ inUse \in [Pids -> BOOLEAN]
    /\ status \in [Pids -> Statuses]
    /\ prio \in [Pids -> Prios]
    /\ rq \in [Prios -> Seq(Pids)]
    /\ bitcache \subseteq Prios
    /\ active \in Pids \cup {NULL}
    /\ activePid \in Pids \cup {KERNEL_PID_UNDEF}
    /\ csr \in {0, 1}
    /\ armed \subseteq Pids
    /\ schedTimer \in BOOLEAN /\ booted \in BOOLEAN /\ schedFired \in BOOLEAN
    /\ fault \subseteq Faults
    /\ cont \in [Pids -> Conts]

\* sched_set_status keeps the run queues, the bitcache and the statuses in
\* step: a thread is in exactly the queue of its priority, once, exactly
\* when its status is RUNNING or PENDING, and a level's bit is set exactly
\* when its queue is non-empty.  Broken if the head popped by sm_clist_lpop
\* is not the thread whose status changes.
RunQueueConsistent ==
    /\ \A p \in Prios : p \in bitcache <=> rq[p] # <<>>
    /\ \A p \in Prios : IsInjective(rq[p])
    /\ \A t \in Pids, p \in Prios :
         t \in Range(rq[p]) <=> (status[t] \in STATUS_ON_RUNQUEUE /\ prio[t] = p)

\* spec.md 2 (lifecycle): task exit releases the slot as STOPPED; an exited
\* thread is never put back on a run queue.  Neither sched_task_exit_internal
\* nor thread_wakeup removes the thread's armed sleep timer, and the stale
\* timer's _shoot_timer makes the slot PENDING again.
ExitedThreadNeverRunnable ==
    \A t \in Pids : ~inUse[t] => status[t] \notin STATUS_ON_RUNQUEUE

\* scheduler_timer is linked into a timer list at most once: the label end:
\* of sched_run_internal arms it again without unlinking it when a
\* periodic thread is re-selected while its quantum timer is pending.
TimerNeverRelinked == "TimerRelinked" \notin fault

\* EXIT_ISR restores sched_active_thread only when it is a thread: the
\* violation path with the timer IFG set exits the thread and reaches
\* EXIT_ISR, which runs sched_run only if a switch was requested.
NoNullRestore == "NullRestore" \notin fault

\* spec.md 4.4: at quantum end a periodic thread sleeps until its next
\* period.  When scheduler_timer fires, _shoot_timer sets the switch
\* request, which makes sched_run_internal skip the runtime accounting.
QuantumEnforced ==
    [][schedFired' /\ active # NULL /\ prio[active] = SCHED_PERIODIC_PRIO_LEVEL
       /\ status[active] = "RUNNING"
       => status'[active] # "RUNNING"]_vars
=============================================================================
