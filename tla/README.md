# TLA+ models of the Sancus-RIOT scheduler

This directory holds TLA+ models of the protected scheduler of Sancus-RIOT. They are checked with TLC.
In the code, `sancus_sm_timer` is a Sancus protected module (SM). It owns these parts:

- the thread table and the run queues (`core/sched.c`, `core/thread.c`);
- the soft-timer engine (`sys/secure_mintimer/secure_mintimer_core.c`);
- the timer interrupt handler (`cpu/msp430-sancus/periph/timer.c`);
- the "exitless" entry stub, through which threads call into the scheduler (`cpu/msp430-sancus/cpu.c`, `cpu.h`);
- the kernel mutex (`core/mutex.c`).

The example applications under `examples/` run as threads on top of it, and they are modelled too.

## The system and how its parts interact

Threads enter the scheduler in only two ways: an `SM_ENTRY` call or the timer interrupt.
Interrupts are off for the whole of an entry, so an entry runs atomically. The model follows this:
**one scheduler entry is one TLA+ action**. Threads interleave only between entries.

The entries are:

| Entry | Code | Action |
|---|---|---|
| boot | `kernel_init` → `scheduler_kernel_init` → `exitless_entry(BOOT)` | `KernelInit` |
| yield | `thread_yield_higher` → `exitless_entry(YIELD)`, `.default` path | `Yield` |
| sleep | `exitless_entry(SLEEP)`: `secure_mintimer_tsleep_specific_pid` + `sched_set_status(SLEEPING)` + yield | `Sleep` |
| exit | `cpu_switch_context_exit` → `exitless_entry(EXIT)`: `sched_task_exit_internal` + `sched_run` | `Exit` |
| `thread_sleep` | two entries: `sched_set_own_status(SLEEPING)`, then yield | `ThreadSleep` (first entry); the second is `Yield` via `cont` |
| `thread_wakeup` | SM_ENTRY, SLEEPING → RUNNING; never yields (its `sched_switch` is commented out, thread.c:89) and leaves the sleep timer linked | `Wakeup` |
| `thread_create` / `thread_create_protected` | create in scheduler, then `sched_switch` unless `WOUT_YIELD` | `CreateThread`, `CreateProtected`; the switch is `Switch` via `cont` |
| `thread_change_to_periodical` | move to level 1, SLEEPING, arm period timer | `ChangeToPeriodical` |
| timer interrupt | `_timer_callback` (fire expired timers) + `EXIT_ISR` | `TimerISR` |
| violation | the Sancus violation path of the ISR: `sched_task_exit_internal`, then ISR body or yield | `Violation` |

Each C function that changes scheduler state is a pure operator `k → k` on a record `K`, and it keeps the C name.
The record holds the kernel variables. An action composes these operators in the order the code calls them.
It then writes the result back with `Commit`.
So a trailing `sched_run`, timer arm or rotation always belongs to the action that calls it; the model never takes it as a separate step.

Some outcomes depend on the hardware clock, which the model does not represent. The action chooses them with `\E`:

- `spin`: a new deadline lies within `SECURE_MINTIMER_BACKOFF`, so `_secure_mintimer_set_absolute` shoots the timer at once.
- `ifg`: the timer IFG is pending when `exitless_entry` checks it.
- `seq ∈ Expiries(k)`: the expired timers that `_timer_callback` fires, in firing order.
- `exhausted`: the outcome of the periodic runtime check in `sched_run_internal`.

## Module `Sched` (with `MC_Sched`)

**State**

| Variable | Code |
|---|---|
| `inUse`, `status`, `prio` | the `sched_threads[]` entries |
| `rq` | `sched_runqueues[]`: a sequence per level, head first, so `sm_clist_lpop` pops the head |
| `bitcache` | `runqueue_bitcache`, as the set of non-empty levels; `bitarithm_lsb` is `Min` |
| `active`, `activePid` | `sched_active_thread`, `sched_active_pid` |
| `csr` | `sched_context_switch_request` |
| `armed` | the linked `secure_mintimer_timer_list[pid]` sleep timers |
| `schedTimer` | whether `scheduler_timer` is linked |
| `booted` | the scheduler has booted |
| `fault` | the set of faults raised |
| `schedFired` | `scheduler_timer` fired in the last step (history variable) |
| `cont` | the pending second half of `thread_sleep` or `thread_create` |

`fault` records undefined behaviour that the code reaches:

- `NullRestore`: `RESTORE_CONTEXT` of a NULL thread.
- `EmptyBitcache`: `bitarithm_lsb` on 0 loops forever.
- `TimerRelinked`: a linked timer is linked again.
- `OobWrite`: a write to `sched_threads[-EOVERFLOW]`.

The first two stop the model (`Halt` is the only step enabled afterwards).
The model also halts at `Revived`: a released slot that is back on a run queue. After that the code would restore a stale stack or reuse a queued pid, and nothing after it is meaningful.

**Constants**

| Constant | Meaning |
|---|---|
| `KERNEL_PID_LAST` | the size of the thread table |
| `SCHED_PRIO_LEVELS` | the number of priority levels |
| `MAIN_PRIO` | main's priority |
| `OrdinaryPrios` | the priorities an application may pass to `thread_create` |
| `ProtectedPrios` | the priorities a protected thread may use |
| `Periodic` | the pids that may call `thread_change_to_periodical` |
| `PromoteOthers` | whether a thread may promote a thread other than itself |

`MC_Sched` uses levels 0 to 4:

- 0: protected;
- 1: `SCHED_PERIODIC_PRIO_LEVEL`;
- 2: `SCHED_MAX_PRIO_LEVEL_UNPROTECTED`, which `thread_create` refuses;
- 3: main and ordinary threads;
- 4: idle.

`Callers` is every pid except idle: `idle_thread` (kernel_init.c) loops on `pm_set_lowest` and never enters the scheduler.

## Module `Mintimer` (with `MC_Mintimer`)

`Mintimer` models the soft-timer engine at the level of its data. `Sched` reduces timers to "armed" and "fired"; this module does not.

**State**

| Variable | Code |
|---|---|
| `clock` | ghost: hardware ticks since boot |
| `high`, `long_cnt` | `_secure_mintimer_high_cnt`, `_long_cnt` |
| `ccr`, `ccie`, `ccifg`, `taifg` | `TIMER_A->CCR[0]`, the CCIE and CCIFG bits of `CCTL[0]`, `TIMER_CTL_IFG` |
| `target`, `long_target`, `next` | the fields of each `secure_mintimer_t` (one slot per sleeping thread) |
| `head` | `timer_list_head`, `overflow_list_head`, `long_list_head` |
| `pc`, `loc` | where the non-interruptible code is, and its locals |
| `lag` | ticks since the current step began |
| `due` | ghost: the clock value at which each sleeping thread asked to wake |
| `asleep`, `fault` | the thread of each slot is SLEEPING; a walk looped on a corrupted list |

The code runs with interrupts off, but the counter keeps counting. So an entry or the handler is a sequence of `pc` steps, and `Tick` interleaves with them.
A step may span at most `MAX_LAG` ticks, except a busy-wait on the counter, which may span any number.
The C functions are operators `m → m` with their C names, as in `Sched`. For example:

- `_add_timer_to_list`, `_remove`, `_merge_lists`, `_select_long_timers`, `_next_period`;
- `_secure_mintimer_set_absolute_explicit`, `_shoot_timer`;
- `sm_timer_set_absolute` and `sm_timer_init` from `timer.c`.

The actions are:

- `Sleep` (`secure_mintimer_usleep`) and `Sleep64` (`secure_mintimer_usleep64`);
- `SetAbsolute`, and `SpinGt`/`SpinLt` for the two loops of `secure_mintimer_spin_until`;
- `Yield`, and `Poll` for the `.default` check of the IFGs;
- `ISR`, the CCR0 interrupt, which is taken only between thread steps: thread code runs with interrupts enabled, so every thread action requires `~Pending`;
- the steps of `_timer_callback`: `WaitWrap`, `CallbackOverflow`, `CallbackFire`, `WaitRef`, `SpinWrap`;
- `Wakeup`, for `thread_wakeup`. It is only in `SpecWakeup`.

**Scaling.** The counter has `SECURE_MINTIMER_WIDTH = 3` bits, standing for 16. A short time has `SHORT_WIDTH = 4` bits, standing for 32.
So a short time spans two counter periods, and `_secure_mintimer_high_cnt` wraps and `_long_cnt` advances within the bound `clock <= 2 * 2^4 + 2`.
BACKOFF, OVERHEAD and ISR_BACKOFF are 2 : 3 : 2, the 200 : 300 : 200 of `secure_mintimer.h`.
`SECURE_MINTIMER_HZ` is 1 MHz by default, so the tick conversions are the identity.

## Module `Mutex` (checked in `MC_Apps`) and `PriorityLock`

`Mutex` extends `Sched` with one `mutex_t`:

- `mqueue` is the list of waiters;
- `mlocked` is `queue.next != NULL`;
- `queue.next == mutex_LOCKED` is `mlocked /\ mqueue = <<>>`.

`KM` adds these two to the kernel record. So `_mutex_lock`, `mutex_unlock` and `mutex_unlock_and_sleep` are operators `k → k`, like the scheduler functions they call (`sched_set_status`, `thread_add_to_list`, `sched_switch_internal_allow_yield`).
The `thread_yield_higher` of a blocking lock is the `YIELD` entry.
The functions have no caller in the tree, so the threads in `MutexUsers` lock and unlock nondeterministically. A thread unlocks only while it holds the mutex, and `holds` is a ghost variable that tracks this.
`PriorityLock` is the abstract lock, with these parts:

- an owner, a set of waiters, and a hand-off to a waiter of the best priority;
- `ORPHAN` for a mutex whose owner terminated without unlocking. The code has no owner field, so such a mutex stays locked for ever.

`ImplementsPriorityLock` checks the refinement mapping `AbsOwner`, with `Range(mqueue)` as the waiters.

The mutex is checked in the `"clients"` image of `MC_Apps` (see below), with 4 pids. `MutexUsers` are main and the two created threads.
Two restrictions keep the run about the mutex itself. Each hides a real hazard of the composition, listed in `PROJECT.json`:

- **No periodic thread.** A periodic thread that blocks on the mutex goes through `sched_yield`, whose periodic branch makes it SLEEPING and arms its period timer while it is still queued on the mutex.
- **`thread_wakeup` never targets a mutex user.** A woken sleeper keeps its sleep timer linked. When it later blocks on the mutex, the stale timer makes it PENDING while it is still queued.

TLC finds `WaitersBlocked` violated in both cases when the restriction is lifted. Neither is a run of its own, because the project keeps at most 12 runs.

## Module `Apps` (with `MC_Apps`)

`Apps` extends `Mutex` and boots one example application, the `image`, on the same kernel.
Each thread function is a sequence of statements. `code[t]` is the function that pid `t` runs, and `at[t]` is its next statement (`DONE` = 0 after it exited or shut down).
A statement is one of these:

| Statement | Code | Action |
|---|---|---|
| create | `thread_create` / `thread_create_protected` with `THREAD_CREATE_WOUT_YIELD` | `AppCreate` |
| yield | `thread_yield_higher`, `___MACRO_CALL_THREAD_YIELD_FROM_SM` | `AppYield` (the YIELD entry) |
| sleep | `secure_mintimer_usleep`, `secure_mintimer_sleep`, `___MACRO_CALL_SLEEP_FROM_SM` | `AppSleep` (the SLEEP entry) |
| exit | `cpu_switch_context_exit`, `___MACRO_CALL_THREAD_EXIT_FROM_SM` | `AppExit` (the EXIT entry) |
| violation | the second `clix` of `bar_greet` in `examples/violation` | `AppViolation` (`Sched`'s `Violation`) |
| shut down | `sched_shut_down` | `AppShutDown` |
| while | the loop tests of `main`, `foo_greet`, `a_entry`, `io_thread` | `AppWhile` |
| local | setting `sm_1_done` / `sm_2_done`, `a_entry`'s write, `io_thread`'s drain | `AppLocal` |

A statement runs only while its thread is `sched_active_thread` and not inside an entry. The kernel side of each entry is the same composition of `Sched` operators as in `Sched`'s `Yield`, `Sleep` and `Exit`.
The sleep length decides `spin`: a sleep of at most `SECURE_MINTIMER_BACKOFF` ticks is shot at once. The conversions are `usleep_ticks` (the identity at 1 MHz), `sleep_ticks` (`seconds * US_PER_SEC`), and `sm_sleep_ticks` (`msb * 2^16 + lsb`, the two registers of the macro).
`TimerFires(t)` is a `TimerISR` step in which timer `t` is among the expired ones.

The images are:

- `unprotected_threads`: two `foo_thread`s one level above main. Each yields once and exits, and main yields once and shuts down.
- `secure_mintimer`: main sleeps 1000 us, then one second, then shuts down.
- `secure_threads`: `foo_greet` (level 2) sleeps 16 ticks until `sm_2_done`. `bar_greet` (level 3) yields, sleeps 0 ticks and sets `sm_2_done`. Main sleeps 10 ms until a flag is set.
- `ccs_case_study`: `a_entry` and `io_thread` at level 2, each sleeping 65792 ticks per loop. `a_entry` writes a byte into its `io_ready` slot when its time reading is at least 50000 us, which is a free choice. Main sleeps in a loop.
- `violation`: main creates `foo_greet` protected at level 1, which is `SCHED_PERIODIC_PRIO_LEVEL` but has no period or runtime. It creates `bar_greet` protected at level 2, yields once and shuts down. foo exits; bar's second `clix` is a violation that kills it. This image may halt: bar's violation can come while foo's quantum timer has its IFG pending, and the kernel then restores a NULL thread (the `sched_null_restore` finding). `ANext` lets this image stutter after the fault, as `Sched`'s `Halt` does, and `MainShutsDown` does not include it.
- `clients`: the generic mutex clients of `Mutex`, that is `MNext`.

**Fairness.** Liveness is checked under weak fairness of three kinds of step:

- boot (`Boot`): the reset vector runs `kernel_init`;
- the active thread's next statement (`AppStep(a)`): the CPU executes the code of `sched_active_thread`;
- the expiry of each armed timer (`TimerFires(t)`): the hardware counter reaches every compare value, since the timer runs freely.

Each is stated as `[]<>~P \/ []<><<A>>_kvars`, where `P` (`BootEnabled`, `AppEnabled`, `TimerEnabled`) is a state predicate that implies `ENABLED A`. This is therefore no stronger than `WF_kvars(A)`. TLC evaluates it without computing `ENABLED` of the composed kernel operators.
It is not written as `WF_kvars(A)` because TLC evaluates `ENABLED` of these actions without caching the nested kernel operators. Even `WF_kvars(Boot)` alone does not finish.
Violations and `thread_wakeup` get no fairness, and the clients get none, because nothing in the code makes them happen.

## Runs

| Run | cfg | Expect | What it shows |
|---|---|---|---|
| sched | `MC_Sched.cfg` | pass | With 3 pids (idle, main, one created thread that may make itself periodic), every interleaving of the entries keeps the run queues, bitcache and statuses consistent (`RunQueueConsistent`). |
| sched_revival | `MC_Sched_Revival.cfg` | violation | A sleep or period timer that is still linked when its thread exits fires later and makes the released slot PENDING. |
| sched_timer_relink | `MC_Sched_Relink.cfg` | violation | `scheduler_timer` is linked twice when a periodic thread is re-selected while its quantum timer is pending. |
| sched_null_restore | `MC_Sched_NullRestore.cfg` | violation | A violation with the IFG pending restores a NULL context. The `violation` example of the repository reaches it too (run apps). |
| sched_quantum | `MC_Sched_Quantum.cfg` | violation | The quantum timer's expiry does not stop the periodic thread, because `_shoot_timer` sets `csr` and that disables the accounting. |
| mintimer | `MC_Mintimer.cfg` | pass | Two sleepers, with offsets that reach the backoff, the overflow list and the long list, and sleeps of a short time or more through `usleep64`. Over two short times, the lists stay acyclic, disjoint, sorted and free of dead timers (`ListsIntact`), and CCR0 is armed for the list head (`HeadArmed`). |
| mintimer_lost_timer | `MC_Mintimer_LostTimer.cfg` | violation | `_merge_lists` drops a long timer, and its thread never wakes. |
| mintimer_lost_period | `MC_Mintimer_LostPeriod.cfg` | violation | A compare interrupt taken after the counter wrapped loses a 16-bit period of `_secure_mintimer_now`. |
| mintimer_late_wake | `MC_Mintimer_LateWake.cfg` | violation | An offset just above BACKOFF goes to the next period's list and wakes a period late. |
| mintimer_early_wake | `MC_Mintimer_EarlyWake.cfg` | violation | A target just past a period boundary is on this period's list and fires up to a period early. |
| apps | `MC_Apps.cfg` | pass | Clients: mutual exclusion and the waiter list invariant hold through every interleaving with scheduler entries, timer interrupts and violations, and the mutex refines `PriorityLock`. Examples: they reach no kernel fault, except the NULL restore of `violation` (`KernelFaultFree`). So foo, a protected thread at the periodic level, never gets `scheduler_timer` linked twice. In `unprotected_threads` and `violation`, main runs after its yield only once all its threads have exited or been killed (`ThreadsDoneBeforeMain`); the `unprotected_threads` and `secure_mintimer` mains reach `sched_shut_down` (`MainShutsDown`); in `ccs_case_study`, every byte buffered by `io_uart_write_byte` is written out (`ByteEventuallySent`). |
| apps_secure_threads | `MC_Apps_SecureThreads.cfg` | violation | `secure_threads` never shuts down. `foo_greet`'s 16-tick sleep is within the backoff, so it is shot at once and `foo_greet` is re-dispatched at level 2 forever; `bar_greet` never runs. |

Each violation run checks one property. `PROJECT.json` lists the matching finding, with the source line and what the spec or code says.
Each property of a passing run has a mutant in `PROJECT.json`: a plausible bug in the mapped code that TLC must catch under the run's own cfg.

**Bounds.**

- **Sched: 3 pids.** This is the smallest table with idle, main and one application thread. It reaches every entry and every fault:
  - create with a full table;
  - self-promotion;
  - period and quantum timers;
  - exit with a timer armed;
  - violation with the IFG pending.
  The created thread's priority ranges over a protected level, the refused unprotected level and main's level.
- **Mintimer: two timers.** Two are needed for list order, merges and the long list. Time spans two full short times, so both counts wrap or advance.
- **Mutex: 4 pids.** This gives two waiters behind a holder, the smallest case where the queue order matters. `MC_Apps` sets main at level 7, as `THREAD_PRIORITY_MAIN` is. The clients then ask `thread_create` for level 2 (refused, being below `SCHED_MAX_PRIO_LEVEL_UNPROTECTED`) or 7, and `thread_create_protected` for level 0. These are the same three cases as in `MC_Sched`.
- **Apps: 16 levels, 4 pids, the examples' own priorities and sleep lengths.** Four pids hold idle, main and the two threads of each example. For `ccs_case_study` this means appa and io_thread, with appb left out (see below). `APPA_ID = 3` is appa's Sancus id: the scheduler's SM, ioenclave and appa are enabled in that order. So appa uses buffer 3, the last one, which the drain loop must reach.

**Fairness.** `Sched`, `Mintimer` and the mutex clients check safety only; the refinement is a safety property too. A thread may never call the scheduler again, and nothing but the hardware timer is guaranteed to make progress. The example applications are programs whose code is known, so `Apps` adds the fairness described in its section.

## Not modelled, and why

- **Register contents, stacks and `is_sm`/`sm_idx`/`sm_entry`.** The save and restore macros of `cpu.h` are modelled only as "whose context is restored". `PROJECT.json` lists as a hazard an unprotected thread preempted inside an SM, which would be restored through an unset `sm_entry`.
- **Periodic runtime arithmetic.** `last_reference`, `runtime` and `period` are abstracted to the nondeterministic `exhausted` and `spin`. `Mintimer` has the counter, but not this arithmetic. `PROJECT.json` lists what the arithmetic can do wrong as hazards without a property:
  - the loop of `periodic_thread_schedule_next_timer` (sched.c:185) stops at once on `last_reference` 0;
  - past the 32-bit wrap the same loop runs `current_time/period` rounds with interrupts off, possibly for ever;
  - `thread_change_to_periodical` accepts period 0, and the loop then never ends (thread.c:282).

  Each would be a violation run of its own, and every run slot holds a finding already. The accounting in `sched_run_internal` is reached only when no switch is requested, so it is not reached from the examples (see `sched_quantum`).
- **`sched_yield`'s read of `NULL->priority`** (sched.c:396) reads a peripheral byte. The model follows the non-periodic branch.
- **The other tick-conversion branches** (SHIFT ≠ 0, 32768 Hz) are not compiled at the default 1 MHz.
- **`sched_shut_down`** only sets CPUOFF. The next interrupt clears it again.
- **I/O and tooling.** UART, stdio, board start-up and the evaluation helpers are I/O.
- **`examples/evaluation`** starts 3 SMs, 10 unprotected threads and an eval thread next to main and idle (16 pids), too many for TLC with this kernel state.
- **appb of `ccs_case_study`** (`_HAVE_APPB`) is left out: a fifth pid makes the mutex clients' state space too large for the run, and appb is a copy of appa with its own buffer. Level 2 is therefore shared by two threads, not three.
- **`secure_threads`' loop test** `!sm_1_done && !sm_2_done` (main.c:94) ends the wait when either flag is set, not both as its message says. No run shows this, because the livelock above keeps both flags false.
- **`_is_set` on a timer whose target wrapped to 0** (secure_mintimer_core.c:118) is a hazard without a run. `Mintimer` with `SpecWakeup` and the clock started just before the end of the first 32-bit epoch reaches a `ListsIntact` violation, but no cfg of the project checks it.

## Open questions

These were not done. Each needs more state than a run can explore in minutes, or a run slot that a finding holds now:

1. Compose `Sched` with `Mintimer`, so that the stale-timer and quantum hazards are checked against real time.
2. Model the raw `sched_run` SM_ENTRY (sched.c:305). It needs separate variables for the thread whose code runs and for `sched_active_thread`.
3. Add a round-robin property for threads that share a level. It is violated by the short-sleep path (sched.c:393).
4. Add an abstract scheduler that `Sched` refines, on the configuration where `RunQueueConsistent` holds.
5. Add the periodic arithmetic (see above).
