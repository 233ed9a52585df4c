------------------------------ MODULE Mintimer ------------------------------
(***************************************************************************)
(* The soft-timer engine secure_mintimer_core.c of the sancus_sm_timer     *)
(* module, at the level of its data: the 16-bit hardware counter           *)
(* TIMER_A->R with its compare register CCR0 and the flags CCIFG and       *)
(* TAIFG, the software counts _secure_mintimer_high_cnt and _long_cnt, and *)
(* the three singly linked timer lists with their next pointers.           *)
(*                                                                         *)
(* Time is a ghost counter `clock` of hardware ticks since boot; the       *)
(* hardware counter is clock modulo 2^SECURE_MINTIMER_WIDTH.  The code     *)
(* runs with interrupts disabled, but the counter keeps counting while it  *)
(* runs: an entry or the timer handler is a sequence of steps (pc), ticks  *)
(* interleave with them, at most MAX_LAG per step, and without bound while *)
(* the code busy-waits on the counter.                                     *)
(*                                                                         *)
(* Widths are scaled down: SECURE_MINTIMER_WIDTH stands for the 16 bits of *)
(* the counter and SHORT_WIDTH for the 32 bits of a short target; all      *)
(* uint32_t arithmetic is modulo 2^SHORT_WIDTH, unsigned int arithmetic    *)
(* modulo 2^SECURE_MINTIMER_WIDTH.                                         *)
(***************************************************************************)
EXTENDS Integers, Sequences, FiniteSets, FiniteSetsExt, SequencesExt

CONSTANTS
    SECURE_MINTIMER_WIDTH,        \* bits of the hardware counter
    SHORT_WIDTH,                  \* bits of a short (uint32_t) time
    SECURE_MINTIMER_BACKOFF,      \* scaled, 200 in secure_mintimer.h
    SECURE_MINTIMER_OVERHEAD,     \* scaled, 300 in secure_mintimer.h
    SECURE_MINTIMER_ISR_BACKOFF,  \* scaled, 200 in secure_mintimer.h
    Timers,     \* secure_mintimer_timer_list slots (one per sleeping pid)
    Offsets,    \* microseconds threads pass to secure_mintimer_usleep
    Offsets64,  \* microseconds threads pass to secure_mintimer_usleep64
    MAX_LAG,    \* ticks one step of the code may span
    WAKE_SLACK, \* ticks a wake-up may come after its due time
    NULL

LLPERIOD == 2^SECURE_MINTIMER_WIDTH
SHORT == 2^SHORT_WIDTH
\* _secure_mintimer_lltimer_mask(0xFFFFFFFF)
LLMAX == LLPERIOD - 1
U32(x) == x % SHORT
U16(x) == x % LLPERIOD

ASSUME /\ 0 < SECURE_MINTIMER_WIDTH /\ SECURE_MINTIMER_WIDTH < SHORT_WIDTH
       /\ Offsets \subseteq 0..(SHORT - 1)
       /\ Offsets64 \subseteq 0..(SHORT * SHORT - 1)
       /\ MAX_LAG \in Nat

Heads == {"timer", "overflow", "long"}
Ptr == Timers \cup {NULL}

(* Program counter of the code that runs with interrupts disabled.         *)
(*  idle           thread code runs, interrupts enabled                    *)
(*  set_absolute   _secure_mintimer_set called _secure_mintimer_set_absolute*)
(*  spin_gt/lt     the two loops of secure_mintimer_spin_until             *)
(*  poll           the .default path of exitless_entry checks the IFGs     *)
(*  cb_*           _timer_callback, at its busy-wait loops and `overflow:` *)
PCs == {"idle", "set_absolute", "spin_gt", "spin_lt", "poll", "cb_wait_wrap",
        "cb_overflow", "cb_fire", "cb_wait_ref", "cb_spin_wrap"}

VARIABLES
    clock,        \* ghost: hardware ticks since boot
    high,         \* _secure_mintimer_high_cnt
    long_cnt,     \* _long_cnt
    ccr,          \* TIMER_A->CCR[0]
    ccie,         \* TIMER_CCTL_CCIE of CCTL[0]: the compare interrupt enabled
    ccifg,        \* TIMER_CCTL_CCIFG of CCTL[0]: the counter reached CCR0
    taifg,        \* TIMER_CTL_IFG: the counter wrapped to 0
    target,       \* secure_mintimer_t.target, per timer
    long_target,  \* secure_mintimer_t.long_target, per timer
    next,         \* secure_mintimer_t.next, per timer
    head,         \* timer_list_head, overflow_list_head, long_list_head
    pc,           \* where the non-interruptible code is
    lag,          \* ticks since the current step began
    loc,          \* local variables of the code at pc
    due,          \* ghost: clock value at which each pending timer is due
    asleep,       \* the thread of each slot is SLEEPING (sched_threads[].status)
    fault         \* the code looped forever on a corrupted list

vars == <<clock, high, long_cnt, ccr, ccie, ccifg, taifg, target, long_target,
          next, head, pc, lag, loc, due, asleep, fault>>

NONE == -1
NoLoc == [t |-> NULL, tgt |-> 0, spin |-> 0, reference |-> 0, now |-> 0]

M == [clock |-> clock, high |-> high, long_cnt |-> long_cnt, ccr |-> ccr,
      ccie |-> ccie, ccifg |-> ccifg, taifg |-> taifg, target |-> target,
      long_target |-> long_target, next |-> next, head |-> head, pc |-> pc,
      loc |-> loc, due |-> due, asleep |-> asleep, fault |-> fault]

\* Every step of the code starts a new lag count.
Commit(m) ==
    /\ clock' = m.clock  /\ high' = m.high  /\ long_cnt' = m.long_cnt
    /\ ccr' = m.ccr  /\ ccie' = m.ccie  /\ ccifg' = m.ccifg  /\ taifg' = m.taifg
    /\ target' = m.target  /\ long_target' = m.long_target  /\ next' = m.next
    /\ head' = m.head  /\ pc' = m.pc  /\ loc' = m.loc  /\ due' = m.due
    /\ asleep' = m.asleep
    /\ fault' = m.fault  /\ lag' = 0

-----------------------------------------------------------------------------
(* Reading the clock.                                                      *)

_secure_mintimer_lltimer_mask(v) == v % LLPERIOD
\* TIMER_A->R
sm_timer_read_internal(m) == m.clock % LLPERIOD
_secure_mintimer_lltimer_now(m) == sm_timer_read_internal(m)
\* high_cnt | lltimer_now; the do-while re-read cannot see high_cnt change,
\* since the handler that changes it cannot run inside the module.
_secure_mintimer_now(m) == m.high + _secure_mintimer_lltimer_now(m)
_this_high_period(m, tg) == tg - (tg % LLPERIOD) = m.high
_is_set(m, t) == m.target[t] # 0 \/ m.long_target[t] # 0

_time_left(m, tg, reference) ==
    LET now == _secure_mintimer_lltimer_now(m) IN
    IF now < reference THEN 0 ELSE IF tg > now THEN tg - now ELSE 0

\* Write CCR0, clear CCIFG, enable the compare interrupt.
sm_timer_set_absolute(m, value) ==
    [m EXCEPT !.ccr = value, !.ccifg = FALSE, !.ccie = TRUE]

\* (_in_handler is never set when this is reached.)
_lltimer_set(m, tg) == sm_timer_set_absolute(m, _secure_mintimer_lltimer_mask(tg))

-----------------------------------------------------------------------------
(* The linked lists.  List(m, p) follows next pointers from p; a list that *)
(* revisits a timer is cut after Cardinality(Timers) + 1 elements.         *)

RECURSIVE Walk(_, _, _)
Walk(nxt, p, n) == IF p = NULL \/ n = 0 THEN <<>>
                   ELSE <<p>> \o Walk(nxt, nxt[p], n - 1)
List(m, p) == Walk(m.next, p, Cardinality(Timers) + 1)
Cyclic(m, p) == Len(List(m, p)) > Cardinality(Timers)

\* Set *pp = t, where pp is the list head h or the next field of L[k - 1].
Link(m, h, L, k, t) ==
    IF k = 1 THEN [m EXCEPT !.head[h] = t]
    ELSE [m EXCEPT !.next[L[k - 1]] = t]

\* The walk of the insertion loops: the position of the first element of L
\* that is not in the set of elements the loop passes over.
StopAt(L, passed) ==
    LET stop == {i \in 1..Len(L) : L[i] \notin passed}
    IN IF stop = {} THEN Len(L) + 1 ELSE Min(stop)

Insert(m, h, t, k) ==
    LET L == List(m, m.head[h])
        m1 == [m EXCEPT !.next[t] = IF k <= Len(L) THEN L[k] ELSE NULL]
    IN Link(m1, h, L, k, t)

\* Mutant: the insertion loop compares the wrong way round.
_add_timer_to_list_desc(m, h, t) ==
    LET L == List(m, m.head[h])
        Passes(x) == m.target[x] >= m.target[t]
    IN Insert(m, h, t, StopAt(L, {x \in Timers : Passes(x)}))

_add_timer_to_list(m, h, t) ==
    LET L == List(m, m.head[h])
        Passes(x) == m.target[x] <= m.target[t]
    IN Insert(m, h, t, StopAt(L, {x \in Timers : Passes(x)}))

_add_timer_to_long_list(m, t) ==
    LET L == List(m, m.head["long"])
        Passes(x) == \/ m.long_target[x] < m.long_target[t]
                     \/ /\ m.long_target[x] = m.long_target[t]
                        /\ m.target[x] <= m.target[t]
    IN Insert(m, "long", t, StopAt(L, {x \in Timers : Passes(x)}))

InList(m, h, t) == t \in Range(List(m, m.head[h]))

_remove_timer_from_list(m, h, t) ==
    LET L == List(m, m.head[h])
    IN IF ~InList(m, h, t) THEN m
       ELSE Link(m, h, L, Min({i \in 1..Len(L) : L[i] = t}), m.next[t])

_remove(m, t) ==
    IF m.head["timer"] = t
    THEN LET m1 == [m EXCEPT !.head["timer"] = m.next[t]]
             h1 == m1.head["timer"]
         IN _lltimer_set(m1, IF h1 # NULL
                             THEN U32(m1.target[h1] - SECURE_MINTIMER_OVERHEAD)
                             ELSE LLMAX)
    ELSE IF InList(m, "timer", t) THEN _remove_timer_from_list(m, "timer", t)
    ELSE IF InList(m, "overflow", t)
         THEN _remove_timer_from_list(m, "overflow", t)
    ELSE _remove_timer_from_list(m, "long", t)

secure_mintimer_remove(m, t) ==
    IF _is_set(m, t)
    THEN [_remove(m, t) EXCEPT !.target[t] = 0, !.long_target[t] = 0]
    ELSE m

\* The slot of pid t, cleared of any pending timer.
get_available_timer(m, t) == secure_mintimer_remove(m, t)

\* _shoot_timer: the timer's thread becomes PENDING.
_shoot_timer(m, t) == [m EXCEPT !.due[t] = NONE, !.asleep[t] = FALSE]

\* Mutant: a new head of the timer list does not reprogram the lltimer.
_secure_mintimer_set_absolute_explicit_noarm(m, t, now) ==
    LET tg == U32(m.target[t] - SECURE_MINTIMER_OVERHEAD)
        m1 == IF tg < now THEN [m EXCEPT !.long_target[t] = @ + 1] ELSE m
    IN IF m1.long_target[t] > m1.long_cnt \/ ~_this_high_period(m1, tg)
       THEN _add_timer_to_long_list(m1, t)
       ELSE IF _secure_mintimer_lltimer_mask(now) >= tg
       THEN _add_timer_to_list(m1, "overflow", t)
       ELSE _add_timer_to_list(m1, "timer", t)

\* Queue timer t, whose target and long_target are set, given the time now.
_secure_mintimer_set_absolute_explicit(m, t, now) ==
    LET tg == U32(m.target[t] - SECURE_MINTIMER_OVERHEAD)
        m1 == IF tg < now THEN [m EXCEPT !.long_target[t] = @ + 1] ELSE m
    IN IF m1.long_target[t] > m1.long_cnt \/ ~_this_high_period(m1, tg)
       THEN _add_timer_to_long_list(m1, t)
       ELSE IF _secure_mintimer_lltimer_mask(now) >= tg
       THEN _add_timer_to_list(m1, "overflow", t)
       ELSE LET m2 == _add_timer_to_list(m1, "timer", t)
            IN IF m2.head["timer"] = t THEN _lltimer_set(m2, tg) ELSE m2

\* _compare: the timer with the lower target, or the non-NULL one.
_compare(m, a, b) ==
    IF a # NULL /\ b # NULL THEN IF m.target[a] <= m.target[b] THEN a ELSE b
    ELSE IF a # NULL THEN a ELSE b

\* The while(1) loop of _merge_lists: both heads advance every round.
RECURSIVE MergeLoop(_, _, _, _, _)
MergeLoop(m, a, b, pos, n) ==
    LET a1 == m.next[a]
        b1 == m.next[b]
    IN IF n = 0 THEN [m EXCEPT !.fault = TRUE]
       ELSE IF a1 = NULL THEN [m EXCEPT !.next[pos] = b1]
       ELSE IF b1 = NULL THEN [m EXCEPT !.next[pos] = a1]
       ELSE LET c == _compare(m, a1, b1)
            IN MergeLoop([m EXCEPT !.next[pos] = c], a1, b1, c, n - 1)

\* _merge_lists, its result stored in timer_list_head.
_merge_lists(m, a, b) ==
    LET r == _compare(m, a, b)
    IN [MergeLoop(m, a, b, r, 2 * Cardinality(Timers) + 2)
            EXCEPT !.head["timer"] = r]

\* Move the long timers of the current high period to the timer list.
_select_long_timers(m) ==
    LET L == List(m, m.head["long"])
        Due(x) == m.long_target[x] <= m.long_cnt /\ _this_high_period(m, m.target[x])
        n == StopAt(L, {x \in Timers : Due(x)}) - 1
        start == m.head["long"]
        m1 == IF n = 0 THEN m
              ELSE [m EXCEPT !.head["long"] = m.next[L[n]], !.next[L[n]] = NULL]
    IN IF n = 0 THEN m1
       ELSE IF m1.head["timer"] # NULL THEN _merge_lists(m1, m1.head["timer"], start)
       ELSE [m1 EXCEPT !.head["timer"] = start]

\* Mutant: the high count is advanced without the uint32_t wrap.
_next_period_nowrap(m) ==
    LET h == m.high + LLPERIOD
    IN _select_long_timers(
         [m EXCEPT !.high = h, !.long_cnt = IF h = SHORT THEN @ + 1 ELSE @,
                   !.head["timer"] = m.head["overflow"],
                   !.head["overflow"] = NULL])

\* Advance to the next period of the hardware counter.
_next_period(m) ==
    LET h == U32(m.high + LLPERIOD)
    IN _select_long_timers(
         [m EXCEPT !.high = h, !.long_cnt = IF h = 0 THEN @ + 1 ELSE @,
                   !.head["timer"] = m.head["overflow"],
                   !.head["overflow"] = NULL])

-----------------------------------------------------------------------------
(* Entries of the thread side: _secure_mintimer_tsleep (exitless SLEEP)    *)
(* and a plain yield, both ending in the .default path of exitless_entry.  *)

\* _secure_mintimer_tsleep_specific_pid up to the call of
\* _secure_mintimer_set_absolute inside _secure_mintimer_set.
_secure_mintimer_tsleep_specific_pid(m, t, offset) ==
    LET m1 == get_available_timer(m, t)
        m2 == [m1 EXCEPT !.target[t] = 0, !.long_target[t] = 0]
        m3 == secure_mintimer_remove(m2, t)
    IN [m3 EXCEPT !.pc = "set_absolute",
                  !.loc = [NoLoc EXCEPT !.t = t,
                                        !.tgt = U32(_secure_mintimer_now(m3) + offset)],
                  !.due[t] = m.clock + offset, !.asleep[t] = TRUE]

\* SECURE_MINTIMER_HZ is 1 MHz, so a microsecond is a tick.
_secure_mintimer_ticks_from_usec(usec) == usec

\* The SLEEP entry runs _secure_mintimer_tsleep_internal for the active
\* thread; long_offset never reaches the scheduler.
_secure_mintimer_tsleep(m, t, offset, long_offset) ==
    _secure_mintimer_tsleep_specific_pid(m, t, offset)

_secure_mintimer_tsleep32(m, t, ticks) == _secure_mintimer_tsleep(m, t, ticks, 0)

secure_mintimer_usleep(m, t, microseconds) ==
    _secure_mintimer_tsleep32(m, t, _secure_mintimer_ticks_from_usec(microseconds))

_secure_mintimer_ticks_from_usec64(usec) == usec

\* The low word is the offset, the high word long_offset, which
\* _secure_mintimer_tsleep drops; the ghost due time is what was asked for.
_secure_mintimer_tsleep64(m, t, ticks) ==
    [_secure_mintimer_tsleep(m, t, ticks % SHORT, ticks \div SHORT)
        EXCEPT !.due[t] = m.clock + ticks]

secure_mintimer_usleep64(m, t, microseconds) ==
    _secure_mintimer_tsleep64(m, t, _secure_mintimer_ticks_from_usec64(microseconds))

_secure_mintimer_set_absolute(m) ==
    LET t == m.loc.t
        now == _secure_mintimer_now(m)
        m1 == [m EXCEPT !.next[t] = NULL]
    IN IF U32(m.loc.tgt - now) <= SECURE_MINTIMER_BACKOFF
       THEN [m1 EXCEPT !.pc = "spin_gt",
                       !.loc.spin = _secure_mintimer_lltimer_mask(m.loc.tgt)]
       ELSE LET m2 == IF _is_set(m1, t) THEN _remove(m1, t) ELSE m1
                m3 == [m2 EXCEPT !.target[t] = m.loc.tgt,
                                 !.long_target[t] = m.long_cnt]
            IN [_secure_mintimer_set_absolute_explicit(m3, t, now)
                   EXCEPT !.pc = "poll"]

-----------------------------------------------------------------------------
(* _timer_callback.  The handler's own reads of the counter happen in the  *)
(* step that makes them; the loops that wait on the counter are pcs.       *)

CallbackStart(m) ==
    IF m.head["timer"] = NULL
    THEN [_next_period(m) EXCEPT !.pc = "cb_wait_wrap", !.loc.reference = 0]
    ELSE [m EXCEPT !.pc = "cb_overflow",
                   !.loc.reference = _secure_mintimer_lltimer_now(m)]

\* The while loop at `overflow:` would shoot the head now.
HeadExpiring(m) ==
    /\ m.head["timer"] # NULL
    /\ _time_left(m, _secure_mintimer_lltimer_mask(m.target[m.head["timer"]]),
                  m.loc.reference) < SECURE_MINTIMER_ISR_BACKOFF

\* Past the loop, the period has ended while callbacks ran.
PeriodEnded(m) ==
    U16(_secure_mintimer_lltimer_now(m) + SECURE_MINTIMER_ISR_BACKOFF) < m.loc.reference

NextTarget(m) == U32(m.target[m.head["timer"]] - SECURE_MINTIMER_OVERHEAD)

\* `goto overflow` with nothing to do yet: the handler busy-waits.
Retry(m) ==
    /\ ~HeadExpiring(m) /\ ~PeriodEnded(m) /\ m.head["timer"] # NULL
    /\ NextTarget(m) < U32(_secure_mintimer_now(m) + SECURE_MINTIMER_ISR_BACKOFF)

\* The end of _timer_callback: program the compare register, clear TAIFG.
CallbackEnd(m, next_target) ==
    [_lltimer_set(m, next_target) EXCEPT !.taifg = FALSE, !.pc = "idle",
                                         !.loc = NoLoc]

\* One pass from `overflow:` that does not shoot a timer.
Overflow(m) ==
    LET now == _secure_mintimer_lltimer_now(m) IN
    IF HeadExpiring(m) THEN [m EXCEPT !.pc = "cb_fire"]
    ELSE IF PeriodEnded(m) THEN [_next_period(m) EXCEPT !.pc = "cb_wait_ref"]
    ELSE IF m.head["timer"] # NULL THEN CallbackEnd(m, NextTarget(m))
    ELSE IF now < m.loc.reference
         THEN [_next_period(m) EXCEPT !.loc.reference = 0]
    ELSE IF _secure_mintimer_lltimer_mask(now + SECURE_MINTIMER_ISR_BACKOFF) < now
         THEN [m EXCEPT !.pc = "cb_spin_wrap", !.loc.now = now]
    ELSE CallbackEnd(m, LLMAX)

\* Pick the head, mark it fired, shoot it.
Fire(m) ==
    LET t == m.head["timer"]
        m1 == [m EXCEPT !.head["timer"] = m.next[t], !.target[t] = 0,
                        !.long_target[t] = 0, !.pc = "cb_overflow"]
    IN _shoot_timer(m1, t)

\* The exit condition of the busy-wait loop at pc is false.
Spinning(m) ==
    LET ll == _secure_mintimer_lltimer_now(m) IN
    CASE m.pc = "spin_gt"      -> ll > m.loc.spin
      [] m.pc = "spin_lt"      -> ll < m.loc.spin
      [] m.pc = "cb_wait_wrap" -> ll = LLMAX
      [] m.pc = "cb_fire"      ->
            _time_left(m, _secure_mintimer_lltimer_mask(m.target[m.head["timer"]]),
                       m.loc.reference) # 0
      [] m.pc = "cb_wait_ref"  -> m.loc.reference < ll
      [] m.pc = "cb_spin_wrap" -> ll >= m.loc.now
      [] m.pc = "cb_overflow"  -> Retry(m)
      [] OTHER                 -> FALSE

Pending == ccifg /\ ccie

-----------------------------------------------------------------------------

\* The zeroed globals of the module and the hardware timer before
\* secure_mintimer_init: counter stopped at 0, CCR0 and CCTL0 cleared.
Boot == [clock |-> 0, high |-> 0, long_cnt |-> 0, ccr |-> 0, ccie |-> FALSE,
         ccifg |-> FALSE, taifg |-> FALSE, target |-> [t \in Timers |-> 0],
         long_target |-> [t \in Timers |-> 0], next |-> [t \in Timers |-> NULL],
         head |-> [h \in Heads |-> NULL], pc |-> "idle", loc |-> NoLoc,
         due |-> [t \in Timers |-> NONE], asleep |-> [t \in Timers |-> FALSE],
         fault |-> FALSE]

\* TACTL = SMCLK | divider clears TAIFG; every CCTL is zeroed; the counter
\* starts in continuous mode.
sm_timer_init(m) == [m EXCEPT !.ccie = FALSE, !.ccifg = FALSE, !.taifg = FALSE]

\* Initialise the hardware timer and register the initial overflow tick.
secure_mintimer_init(m) == _lltimer_set(sm_timer_init(m), SHORT - 1)

Init ==
    LET m == secure_mintimer_init(Boot) IN
    /\ clock = m.clock /\ high = m.high /\ long_cnt = m.long_cnt
    /\ ccr = m.ccr /\ ccie = m.ccie /\ ccifg = m.ccifg /\ taifg = m.taifg
    /\ target = m.target /\ long_target = m.long_target /\ next = m.next
    /\ head = m.head /\ pc = m.pc /\ lag = 0 /\ loc = m.loc /\ due = m.due
    /\ asleep = m.asleep /\ fault = m.fault

\* The hardware counter counts, setting TAIFG on wrap and CCIFG on a match.
Tick ==
    /\ Spinning(M) \/ lag < MAX_LAG \/ (pc = "idle" /\ ~Pending)
    /\ clock' = clock + 1
    /\ taifg' = (taifg \/ U16(clock + 1) = 0)
    /\ ccifg' = (ccifg \/ U16(clock + 1) = ccr)
    /\ lag' = IF pc = "idle" /\ ~Pending THEN 0 ELSE lag + 1
    /\ UNCHANGED <<high, long_cnt, ccr, ccie, target, long_target, next, head,
                   pc, loc, due, asleep, fault>>

\* A running thread t sleeps for offset ticks.  Thread code runs with
\* interrupts enabled, so a pending compare interrupt is taken first.
Sleep(t, usec) ==
    /\ pc = "idle" /\ ~Pending /\ ~asleep[t]
    /\ Commit(secure_mintimer_usleep(M, t, usec))

\* The same through secure_mintimer_usleep64.
Sleep64(t, usec) ==
    /\ pc = "idle" /\ ~Pending /\ ~asleep[t]
    /\ Commit(secure_mintimer_usleep64(M, t, usec))

\* thread_wakeup: a SLEEPING thread is set RUNNING; its timer stays linked.
Wakeup(t) ==
    /\ pc = "idle" /\ ~Pending /\ asleep[t]
    /\ Commit([M EXCEPT !.asleep[t] = FALSE])

SetAbsolute ==
    /\ pc = "set_absolute"
    /\ Commit(_secure_mintimer_set_absolute(M))

\* secure_mintimer_spin_until, then _shoot_timer.
SpinGt ==
    /\ pc = "spin_gt" /\ ~Spinning(M)
    /\ Commit([M EXCEPT !.pc = "spin_lt"])

SpinLt ==
    /\ pc = "spin_lt" /\ ~Spinning(M)
    /\ Commit([_shoot_timer(M, loc.t) EXCEPT !.pc = "poll"])

\* A thread yields: exitless_entry goes straight to .default.
Yield ==
    /\ pc = "idle" /\ ~Pending
    /\ Commit([M EXCEPT !.pc = "poll"])

\* .default: TAIFG or CCIFG set runs the callback without the ISR.
Poll ==
    /\ pc = "poll"
    /\ Commit(IF taifg \/ ccifg THEN CallbackStart(M)
              ELSE [M EXCEPT !.pc = "idle", !.loc = NoLoc])

\* The CCR0 interrupt: accepting it resets CCIFG (CCR0 is a single-source
\* vector), the ISR clears CCIE and calls the callback.
ISR ==
    /\ pc = "idle" /\ Pending
    /\ Commit(CallbackStart([M EXCEPT !.ccie = FALSE, !.ccifg = FALSE]))

WaitWrap ==
    /\ pc = "cb_wait_wrap" /\ ~Spinning(M)
    /\ Commit([M EXCEPT !.pc = "cb_overflow"])

CallbackOverflow ==
    /\ pc = "cb_overflow" /\ ~Retry(M)
    /\ Commit(Overflow(M))

CallbackFire ==
    /\ pc = "cb_fire" /\ ~Spinning(M)
    /\ Commit(Fire(M))

\* while (reference < now) {}; reference = 0; goto overflow
WaitRef ==
    /\ pc = "cb_wait_ref" /\ ~Spinning(M)
    /\ Commit([M EXCEPT !.pc = "cb_overflow", !.loc.reference = 0])

\* while (now' >= now) {}; _next_period(); reference = 0; goto overflow
SpinWrap ==
    /\ pc = "cb_spin_wrap" /\ ~Spinning(M)
    /\ Commit([_next_period(M) EXCEPT !.pc = "cb_overflow", !.loc.reference = 0])

\* Every thread sleeps only through its timer.
Next ==
    \/ Tick
    \/ \E t \in Timers, o \in Offsets : Sleep(t, o)
    \/ \E t \in Timers, o \in Offsets64 : Sleep64(t, o)
    \/ SetAbsolute \/ SpinGt \/ SpinLt \/ Yield \/ Poll \/ ISR
    \/ WaitWrap \/ CallbackOverflow \/ CallbackFire \/ WaitRef \/ SpinWrap

Spec == Init /\ [][Next]_vars

\* Other threads may also end a sleep early with thread_wakeup.
NextWakeup == Next \/ \E t \in Timers : Wakeup(t)

SpecWakeup == Init /\ [][NextWakeup]_vars

-----------------------------------------------------------------------------
(* Properties.                                                             *)

TypeOK ==
    /\ clock \in Nat /\ high \in 0..(SHORT - 1) /\ long_cnt \in Nat
    /\ ccr \in 0..LLMAX /\ {ccie, ccifg, taifg, fault} \subseteq BOOLEAN
    /\ target \in [Timers -> 0..(SHORT - 1)] /\ long_target \in [Timers -> Nat]
    /\ next \in [Timers -> Ptr] /\ head \in [Heads -> Ptr]
    /\ pc \in PCs /\ lag \in Nat
    /\ due \in [Timers -> {NONE} \cup Nat] /\ asleep \in [Timers -> BOOLEAN]

\* Outside the handler, and with no counter wrap waiting to be handled,
\* _secure_mintimer_now and _long_cnt equal the hardware time: the software
\* count in _next_period never loses or gains a period of the 16-bit
\* counter, whichever of the ISR, the .default poll or the handler's own
\* spin loops notices the wrap.
ClockInSync ==
    (pc = "idle" /\ ~taifg) =>
        /\ _secure_mintimer_now(M) = clock % SHORT
        /\ long_cnt = clock \div SHORT

Listed == UNION {Range(List(M, head[h])) : h \in Heads}
Sorted(L, Le(_, _)) == \A i \in 1..(Len(L) - 1) : Le(L[i], L[i + 1])

\* Whenever no code of the module runs, the three lists that
\* _add_timer_to_list, _add_timer_to_long_list, _remove, _next_period and
\* _merge_lists rewrite are acyclic (no walk of the handler loops forever),
\* disjoint, hold only timers of threads that still sleep (no thread is
\* woken twice), and are sorted as the insertion loops sort them.
ListsIntact ==
    pc = "idle" =>
        /\ ~fault
        /\ \A h \in Heads : ~Cyclic(M, head[h])
        /\ \A h1, h2 \in Heads :
              h1 # h2 => Range(List(M, head[h1])) \cap Range(List(M, head[h2])) = {}
        /\ Listed \subseteq {t \in Timers : due[t] # NONE}
        /\ \A h \in {"timer", "overflow"} :
              Sorted(List(M, head[h]), LAMBDA a, b : target[a] <= target[b])
        /\ Sorted(List(M, head["long"]),
                  LAMBDA a, b : \/ long_target[a] < long_target[b]
                                \/ /\ long_target[a] = long_target[b]
                                   /\ target[a] <= target[b])

\* Every sleeping thread's timer is on one of the lists: _merge_lists and
\* _select_long_timers never drop a timer (its thread would sleep forever).
SleepersListed ==
    pc = "idle" => Listed = {t \in Timers : due[t] # NONE}

\* Whenever no code of the module runs and the timer list is not empty,
\* the compare interrupt is enabled and CCR0 holds the head's target less
\* SECURE_MINTIMER_OVERHEAD: _remove, the explicit insertion and the end of
\* _timer_callback keep the hardware armed for the earliest timer.
HeadArmed ==
    (pc = "idle" /\ head["timer"] # NULL) =>
        /\ ccie
        /\ ccr = _secure_mintimer_lltimer_mask(
                    U32(target[head["timer"]] - SECURE_MINTIMER_OVERHEAD))

\* A sleeping thread is never woken before the offset it asked for has
\* passed ("timers will never trigger early", secure_mintimer.h).
NoEarlyWake ==
    [][\A t \in Timers : (due[t] # NONE /\ due'[t] = NONE) => clock >= due[t]]_vars

\* A sleeping thread is woken at most WAKE_SLACK ticks after it is due.
NoLateWake ==
    \A t \in Timers : due[t] # NONE => clock <= due[t] + WAKE_SLACK

=============================================================================
