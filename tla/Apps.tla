-------------------------------- MODULE Apps --------------------------------
(***************************************************************************)
(* The example applications of src/examples, run by the kernel of modules  *)
(* Sched and Mutex.  An application is a set of thread functions; each is  *)
(* a program of statements, and a statement is one step of the thread      *)
(* while it is sched_active_thread: a kernel call (an entry of the         *)
(* scheduler module, composed from the operators of Sched) or a plain      *)
(* statement of the application.  The firmware image is chosen at boot;    *)
(* image "clients" is the nondeterministic mutex users of module Mutex.    *)
(*                                                                         *)
(* Time is abstracted as in Sched: an armed timer may fire at any timer    *)
(* interrupt.  A sleep of at most SECURE_MINTIMER_BACKOFF ticks is a spin  *)
(* in _secure_mintimer_set_absolute and never arms a timer.                *)
(***************************************************************************)
EXTENDS Mutex

CONSTANTS
    Images,    \* firmware images explored
    APPA_ID    \* the Sancus module id of appa, as sancus_get_caller_id sees it

\* kernel_init creates idle and then main, each in the first free slot.
MAIN_PID == IDLE_PID + 1
\* SECURE_MINTIMER_BACKOFF of secure_mintimer.h, in ticks.
BACKOFF_TICKS == 200
US_PER_SEC == 1000000

ASSUME /\ Images \subseteq {"clients", "unprotected_threads", "secure_mintimer",
                            "secure_threads", "ccs_case_study", "violation"}
       /\ APPA_ID \in Nat

VARIABLES
    image,      \* the application the firmware was built with
    code,       \* the thread function each pid runs ("none": no app code)
    at,         \* the statement of its function each thread executes next
    sm_1_done,  \* secure_threads: sm_1_done
    sm_2_done,  \* secure_threads: sm_2_done
    io_ready    \* ccs_case_study: io_ready[IO_BUFS] of the ioenclave

appvars == <<image, code, at, sm_1_done, sm_2_done, io_ready>>
kvars == <<allvars, appvars>>

\* The thread has returned from sched_shut_down, or has no code to run.
DONE == 0

-----------------------------------------------------------------------------
(* Statements.  `next` is the statement that follows; a while loop falls   *)
(* into its body (the next index) or leaves it for `exit`.                 *)

SCreate(fn, p, protected, n) ==
    [op |-> "create", fn |-> fn, prio |-> p, protected |-> protected, next |-> n]
SSleep(ticks, n) == [op |-> "sleep", ticks |-> ticks, next |-> n]
SYield(n) == [op |-> "yield", next |-> n]
SExit == [op |-> "exit"]
SViolation == [op |-> "violation"]
SShutDown == [op |-> "shutdown"]
SWhile(cond, e) == [op |-> "while", cond |-> cond, exit |-> e]
SLocal(what, n) == [op |-> "local", what |-> what, next |-> n]

\* SECURE_MINTIMER_HZ is 1 MHz: secure_mintimer_usleep sleeps usec ticks,
\* secure_mintimer_sleep seconds * US_PER_SEC through _secure_mintimer_tsleep64,
\* whose high word is 0 for sleeps below 4294 s (the examples sleep 1 s).
usleep_ticks(usec) == usec
sleep_ticks(seconds) == seconds * US_PER_SEC
\* ___MACRO_CALL_SLEEP_FROM_SM(lsb, msb): the offset is msb:lsb.
sm_sleep_ticks(lsb, msb) == msb * 2^16 + lsb

\* Mutant: the threads are created one level below main, not above it.
unprotected_main_below ==
    <<SCreate("foo_thread", MAIN_PRIO + 1, FALSE, 2),
      SCreate("foo_thread", MAIN_PRIO + 1, FALSE, 3), SYield(4), SShutDown>>

\* examples/unprotected_threads: two threads one level above main, each
\* yields once and exits; main yields until both are done.
unprotected_main ==
    << SCreate("foo_thread", MAIN_PRIO - 1, FALSE, 2),
       SCreate("foo_thread", MAIN_PRIO - 1, FALSE, 3),
       SYield(4),
       SShutDown >>
foo_thread == << SYield(2), SExit >>

\* examples/secure_mintimer: main sleeps 1000 us, then one second.
secure_mintimer_main ==
    << SSleep(usleep_ticks(1000), 2), SSleep(sleep_ticks(1), 3), SShutDown >>

\* examples/secure_threads: foo polls sm_2_done with a 16-tick sleep, bar
\* yields, sleeps 0 ticks and signals; main sleeps 10 ms at a time.
secure_threads_main ==
    << SCreate("foo_greet", 2, TRUE, 2),
       SCreate("bar_greet", 3, TRUE, 3),
       SWhile("neither_done", 5),
       SSleep(usleep_ticks(10000), 3),
       SShutDown >>
foo_greet ==
    << SWhile("sm_2_not_done", 3),
       SSleep(sm_sleep_ticks(16, 0), 1),
       SLocal("set_sm_1_done", 4),
       SExit >>
bar_greet ==
    << SYield(2), SSleep(sm_sleep_ticks(0, 0), 3),
       SLocal("set_sm_2_done", 4), SExit >>

\* examples/ccs-case-study, built without _HAVE_APPB: appa and the I/O
\* thread of the ioenclave at level 2; main sleeps 300 ms forever.
ccs_main ==
    << SCreate("a_entry", 2, TRUE, 2),
       SCreate("io_thread", 2, TRUE, 3),
       SWhile("true", DONE),
       SSleep(usleep_ticks(300000), 3) >>
a_entry ==
    << SWhile("true", DONE),
       SLocal("a_reading", 3),
       SSleep(sm_sleep_ticks(256, 1), 1) >>
io_thread ==
    << SWhile("true", DONE),
       SLocal("io_drain", 3),
       SSleep(sm_sleep_ticks(256, 1), 1) >>

\* examples/violation: foo protected at level 1 (SCHED_PERIODIC_PRIO_LEVEL,
\* with no period or runtime), bar at level 2; main yields once and shuts
\* down.  sancus_enable, the pr_info ocalls and the clix timing are left out.
violation_main ==
    << SCreate("foo_clix", 1, TRUE, 2),
       SCreate("bar_clix", 2, TRUE, 3),
       SYield(4),
       SShutDown >>
\* foo_greet: one clix of 3 cycles, then the EXIT entry.
foo_clix == << SExit >>
\* bar_greet: a second clix right after the first expired is a violation.
bar_clix == << SViolation >>

Program(fn) ==
    CASE fn = "unprotected_main"     -> unprotected_main
      [] fn = "foo_thread"           -> foo_thread
      [] fn = "secure_mintimer_main" -> secure_mintimer_main
      [] fn = "secure_threads_main"  -> secure_threads_main
      [] fn = "foo_greet"            -> foo_greet
      [] fn = "bar_greet"            -> bar_greet
      [] fn = "ccs_main"             -> ccs_main
      [] fn = "a_entry"              -> a_entry
      [] fn = "io_thread"            -> io_thread
      [] fn = "violation_main"       -> violation_main
      [] fn = "foo_clix"             -> foo_clix
      [] fn = "bar_clix"             -> bar_clix

MainOf(img) ==
    CASE img = "unprotected_threads" -> "unprotected_main"
      [] img = "secure_mintimer"     -> "secure_mintimer_main"
      [] img = "secure_threads"      -> "secure_threads_main"
      [] img = "ccs_case_study"      -> "ccs_main"
      [] img = "violation"           -> "violation_main"
      [] img = "clients"             -> "none"

-----------------------------------------------------------------------------
(* Plain statements of the applications.                                   *)

IO_BUFS == 4

\* io_uart_write_byte (asynchronous build): the caller's buffer is taken
\* when free, and the byte is dropped (false returned) when it is not.
io_uart_write_byte(ready, caller) ==
    LET c == IF caller = 0 \/ caller >= IO_BUFS THEN 0 ELSE caller
    IN IF ready[c] THEN ready ELSE [ready EXCEPT ![c] = TRUE]

\* Mutant: the for loop stops one buffer short (i < IO_BUFS - 1).
io_drain_short(ready) ==
    [i \in DOMAIN ready |-> IF i < IO_BUFS - 1 THEN FALSE ELSE ready[i]]

\* One pass of the for loop of io_thread: every ready buffer is written to
\* UART_TXD (after busy-waiting on UART_TX_FULL) and freed.
io_drain(ready) == [i \in DOMAIN ready |-> FALSE]

CondHolds(cond) ==
    CASE cond = "true"          -> TRUE
      [] cond = "sm_2_not_done" -> ~sm_2_done
      [] cond = "neither_done"  -> ~sm_1_done /\ ~sm_2_done

Stmt(a) == Program(code[a])[at[a]]

\* The active thread runs code of the application.
AppRuns(a) ==
    /\ image # "clients" /\ Calls(a)
    /\ code[a] # "none" /\ at[a] # DONE

Advance(a) == at' = [at EXCEPT ![a] = Stmt(a).next]

\* thread_create or thread_create_protected with THREAD_CREATE_WOUT_YIELD:
\* the create entry only; the new pid starts at its function's first line.
AppCreate(a) ==
    /\ AppRuns(a) /\ Stmt(a).op = "create"
    /\ LET s == Stmt(a)
           new == Min(FreePids(K))
       IN /\ FreePids(K) # {}
          /\ Commit(IF s.protected
                    THEN thread_create_protected_in_scheduler(K, s.prio)
                    ELSE thread_create_unprotected_in_scheduler(K, s.prio))
          /\ code' = [code EXCEPT ![new] = s.fn]
          /\ at' = [at EXCEPT ![a] = s.next, ![new] = 1]
    /\ UNCHANGED <<cont, mvars, image, sm_1_done, sm_2_done, io_ready>>

\* thread_yield_higher, or ___MACRO_CALL_THREAD_YIELD_FROM_SM: YIELD entry.
AppYield(a) ==
    /\ AppRuns(a) /\ Stmt(a).op = "yield"
    /\ \E ifg, spin, ex \in BOOLEAN, seq \in Expiries(K) :
         /\ ifg \/ seq = <<>>
         /\ Commit(exitless_default(K, ifg, seq, spin, ex))
    /\ Advance(a)
    /\ UNCHANGED <<cont, mvars, image, code, sm_1_done, sm_2_done, io_ready>>

\* secure_mintimer_usleep and secure_mintimer_sleep reach the SLEEP entry
\* through _secure_mintimer_tsleep, ___MACRO_CALL_SLEEP_FROM_SM directly.
AppSleep(a) ==
    /\ AppRuns(a) /\ Stmt(a).op = "sleep"
    /\ LET k1 == secure_mintimer_tsleep_specific_pid(
                   K, a, Stmt(a).ticks <= BACKOFF_TICKS)
       IN \E ifg, spin, ex \in BOOLEAN, seq \in Expiries(k1) :
            /\ ifg \/ seq = <<>>
            /\ Commit(exitless_default(k1, ifg, seq, spin, ex))
    /\ Advance(a)
    /\ UNCHANGED <<cont, mvars, image, code, sm_1_done, sm_2_done, io_ready>>

\* cpu_switch_context_exit, or ___MACRO_CALL_THREAD_EXIT_FROM_SM: EXIT entry.
AppExit(a) ==
    /\ AppRuns(a) /\ Stmt(a).op = "exit"
    /\ LET k1 == sched_task_exit_internal(K)
       IN \E ifg, spin, ex \in BOOLEAN, seq \in Expiries(k1) :
            /\ ifg \/ seq = <<>>
            /\ Commit(exitless_default(k1, ifg, seq, spin, ex))
    /\ code' = [code EXCEPT ![a] = "none"]
    /\ at' = [at EXCEPT ![a] = DONE]
    /\ UNCHANGED <<cont, mvars, image, sm_1_done, sm_2_done, io_ready>>

\* The memory-access violation of the running SM: the violation path of
\* the timer ISR kills the thread (module Sched), and its code stops.
AppViolation(a) ==
    /\ AppRuns(a) /\ Stmt(a).op = "violation"
    /\ Violation(a)
    /\ code' = [code EXCEPT ![a] = "none"]
    /\ at' = [at EXCEPT ![a] = DONE]
    /\ UNCHANGED <<mvars, image, sm_1_done, sm_2_done, io_ready>>

\* sched_shut_down sets CPUOFF; main executes nothing after it.
AppShutDown(a) ==
    /\ AppRuns(a) /\ Stmt(a).op = "shutdown"
    /\ at' = [at EXCEPT ![a] = DONE]
    /\ UNCHANGED <<vars, mvars, image, code, sm_1_done, sm_2_done, io_ready>>

AppWhile(a) ==
    /\ AppRuns(a) /\ Stmt(a).op = "while"
    /\ at' = [at EXCEPT ![a] = IF CondHolds(Stmt(a).cond) THEN @ + 1
                               ELSE Stmt(a).exit]
    /\ UNCHANGED <<vars, mvars, image, code, sm_1_done, sm_2_done, io_ready>>

\* a_entry: reading_a = io_get_reading(); when the time read is at least
\* 50000 us, io_uart_write_byte('A').  Other statements set a flag or run
\* the I/O thread's loop.
AppLocal(a) ==
    /\ AppRuns(a) /\ Stmt(a).op = "local"
    /\ LET w == Stmt(a).what IN
       /\ sm_1_done' = (sm_1_done \/ w = "set_sm_1_done")
       /\ sm_2_done' = (sm_2_done \/ w = "set_sm_2_done")
       /\ \E late \in BOOLEAN :
            io_ready' = CASE w = "a_reading" /\ late -> io_uart_write_byte(io_ready, APPA_ID)
                          [] w = "io_drain"         -> io_drain(io_ready)
                          [] OTHER                  -> io_ready
    /\ Advance(a)
    /\ UNCHANGED <<vars, mvars, image, code>>

AppStep(a) ==
    \/ AppCreate(a) \/ AppYield(a) \/ AppSleep(a) \/ AppExit(a) \/ AppViolation(a)
    \/ AppShutDown(a) \/ AppWhile(a) \/ AppLocal(a)

\* The timer interrupt that expires timer t (among others).
TimerFires(t) ==
    /\ booted /\ ~Halted /\ active # NULL /\ t \in armed
    /\ \E seq \in Expiries(K), spin, ex \in BOOLEAN :
         /\ t \in Range(seq)
         /\ Commit(exit_isr(secure_mintimer_timer_callback(K, seq), ex, spin))
    /\ UNCHANGED <<cont, mvars, appvars>>

-----------------------------------------------------------------------------

AInit ==
    /\ MInit
    /\ image \in Images
    /\ code = [t \in Pids |-> IF t = MAIN_PID THEN MainOf(image) ELSE "none"]
    /\ at = [t \in Pids |-> IF t = MAIN_PID /\ image # "clients" THEN 1 ELSE DONE]
    /\ sm_1_done = FALSE /\ sm_2_done = FALSE
    /\ io_ready = [i \in 0..(IO_BUFS - 1) |-> FALSE]

Boot == KernelInit /\ UNCHANGED <<mvars, appvars>>

ANext ==
    \/ image = "clients" /\ MNext /\ UNCHANGED appvars
    \/ /\ image # "clients"
       /\ \/ Boot
          \/ TimerISR /\ UNCHANGED <<mvars, appvars>>
          \/ \E a \in Pids : AppStep(a)
    \* In examples/violation, bar's violation may come while foo's quantum
    \* timer has its IFG pending; the violation path then restores a NULL
    \* thread (finding of run sched_null_restore) and the system stops.
    \/ image = "violation" /\ Halt /\ UNCHANGED <<mvars, appvars>>

\* The states in which Boot, AppStep(a) and TimerFires(t) can take a step:
\* each implies ENABLED of its action (KernelInit and the application
\* statements always have a successor under their guard; Expiries(K)
\* contains <<t>> for every armed t).
BootEnabled == ~booted

AppEnabled(a) == AppRuns(a) /\ (Stmt(a).op = "create" => FreePids(K) # {})

TimerEnabled(t) == booted /\ ~Halted /\ active # NULL /\ t \in armed

\* The reset vector runs kernel_init, the CPU executes the code of the
\* active thread, and the hardware timer reaches every armed compare
\* value: weak fairness of the three, each stated with the predicate that
\* implies its enabledness, so no stronger than WF_kvars of the action.
Fairness ==
    /\ []<>~BootEnabled \/ []<><<Boot>>_kvars
    /\ \A a \in Pids : []<>~AppEnabled(a) \/ []<><<AppStep(a)>>_kvars
    /\ \A t \in Pids : []<>~TimerEnabled(t) \/ []<><<TimerFires(t)>>_kvars

ASpec == AInit /\ [][ANext]_kvars /\ Fairness
-----------------------------------------------------------------------------
(* Properties.                                                             *)

\* Images whose main leaves its wait loop and calls sched_shut_down.
Terminating == {"unprotected_threads", "secure_mintimer", "secure_threads"}

\* main returns from its waits and reaches sched_shut_down.  Every thread
\* function it waits for terminates, the timers of the sleeps fire, and
\* the scheduler runs main once no thread of a higher priority is queued
\* (secure_threads: "Sleeping until both SMs are done").
MainShutsDown ==
    image \in Terminating => <>(at[MAIN_PID] = DONE)

\* Images whose main creates its threads WOUT_YIELD above its own level and
\* then waits for them with a single thread_yield_higher.
YieldOnce == {"unprotected_threads", "violation"}

\* unprotected_threads: "Yielding until both threads are done"; violation:
\* "Yielding until both SMs are done" / "Both threads are finished" --
\* whenever main runs after its thread_yield_higher, every thread it
\* created has exited or been killed: sched_run_internal dispatches main
\* only when the levels above THREAD_PRIORITY_MAIN are empty, and all the
\* threads were queued PENDING by thread_create before main yielded (in
\* violation, foo sits at SCHED_PERIODIC_PRIO_LEVEL under a quantum timer
\* of runtime 0).
ThreadsDoneBeforeMain ==
    (image \in YieldOnce /\ active = MAIN_PID /\ at[MAIN_PID] \in {4, DONE})
        => \A t \in Pids \ {IDLE_PID, MAIN_PID} : code[t] = "none"

\* The example programs (not the generic clients, which may exit with a
\* timer IFG pending) never drive the kernel into one of its faults, except the
\* NULL restore examples/violation can reach: in particular foo of
\* examples/violation, a protected thread that thread_create_protected
\* puts at SCHED_PERIODIC_PRIO_LEVEL, is re-selected by sched_run_internal
\* only after its quantum timer fired, so scheduler_timer is never linked
\* twice; and no example creates a thread into a full table.
KernelFaultFree ==
    image # "clients" =>
        fault \subseteq (IF image = "violation" THEN {"NullRestore"} ELSE {})

\* ccs_case_study: a byte io_uart_write_byte accepts into a buffer is
\* eventually written out by io_thread: the I/O thread's timer fires and
\* it is dispatched at level 2 although appa shares the level.
ByteEventuallySent ==
    image = "ccs_case_study" =>
        \A i \in 0..(IO_BUFS - 1) : io_ready[i] ~> ~io_ready[i]
====
