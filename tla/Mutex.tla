------------------------------- MODULE Mutex -------------------------------
(***************************************************************************)
(* The kernel mutex of core/mutex.c, composed with the scheduler of module *)
(* Sched.  mutex->queue.next is NULL (unlocked), mutex_LOCKED (locked, no  *)
(* waiter) or the first waiter of a list ordered by priority; the list     *)
(* links the waiters' rq_entry nodes, the same nodes the run queues use.   *)
(*                                                                         *)
(* The functions are SM_FUNCs of sancus_sm_timer: a thread reaches them    *)
(* from inside the module, so each call is one atomic step of the running  *)
(* thread, and the thread_yield_higher of a blocking lock is the YIELD     *)
(* entry of exitless_entry.  One mutex; the threads in MutexUsers lock it  *)
(* and unlock it only while they hold it.                                  *)
(***************************************************************************)
EXTENDS Sched

CONSTANT MutexUsers   \* pids whose code uses the mutex

ASSUME MutexUsers \subseteq Pids \ {IDLE_PID}

VARIABLES
    mqueue,   \* the waiters linked from mutex->queue, first first
    mlocked,  \* mutex->queue.next # NULL
    holds     \* ghost: threads whose code is between lock and unlock

mvars == <<mqueue, mlocked, holds>>
allvars == <<vars, mvars>>

\* The kernel record with the mutex: queue.next is NULL when ~ml,
\* mutex_LOCKED when ml /\ mq = <<>>, and Head(mq) otherwise.
KM == K @@ [mq |-> mqueue, ml |-> mlocked]

MCommit(k) == Commit(k) /\ mqueue' = k.mq /\ mlocked' = k.ml

-----------------------------------------------------------------------------

\* Mutant: the walk stops at the first waiter of a lower level instead.
thread_add_to_list_rev(k, t) ==
    LET L == k.mq
        stop == {i \in 1..Len(L) : k.prio[L[i]] < k.prio[t]}
        i == IF stop = {} THEN Len(L) + 1 ELSE Min(stop)
    IN [k EXCEPT !.mq = InsertAt(L, i, t)]

\* Walk past every waiter whose priority is not above (not greater than)
\* the new one's, then link the new node: FIFO within a priority.
thread_add_to_list(k, t) ==
    LET L == k.mq
        stop == {i \in 1..Len(L) : k.prio[L[i]] > k.prio[t]}
        i == IF stop = {} THEN Len(L) + 1 ELSE Min(stop)
    IN [k EXCEPT !.mq = InsertAt(L, i, t)]

\* Set a switch request when the woken thread's level is above the
\* caller's or the caller has left its run queue; never yield here.
sched_switch_internal_allow_yield(k, other_prio) ==
    LET a == k.active
    IN IF k.status[a] \notin STATUS_ON_RUNQUEUE \/ k.prio[a] > other_prio
       THEN [k EXCEPT !.csr = 1] ELSE k

\* Mutant: a blocking thread is appended behind every waiter.
_mutex_lock_blocking_append(k, ifg, seq, spin, ex) ==
    LET me == k.active
        k1 == sched_set_status(k, me, "MUTEX_BLOCKED")
    IN exitless_default([k1 EXCEPT !.mq = Append(k1.mq, me)], ifg, seq, spin, ex)

\* The lock is free: take it.  Otherwise block, join the waiters, yield.
_mutex_lock_blocking(k, ifg, seq, spin, ex) ==
    LET me == k.active
        k1 == sched_set_status(k, me, "MUTEX_BLOCKED")
        k2 == IF k1.mq = <<>> THEN [k1 EXCEPT !.mq = <<me>>]
              ELSE thread_add_to_list(k1, me)
    IN exitless_default(k2, ifg, seq, spin, ex)

\* Mutant: the waiter's status is written without sched_set_status.
list_remove_head_wake_nopush(k) ==
    LET w == Head(k.mq)
    IN [k EXCEPT !.status[w] = "PENDING", !.mq = Tail(k.mq)]

\* Hand the mutex to the first waiter, whose status becomes PENDING; the
\* mutex stays locked when it was the last one.
list_remove_head_wake(k) ==
    LET w == Head(k.mq)
    IN [sched_set_status(k, w, "PENDING") EXCEPT !.mq = Tail(k.mq)]

\* Mutant: the last waiter taken leaves queue.next NULL, not mutex_LOCKED.
mutex_unlock_unlocks(k) ==
    IF ~k.ml THEN k
    ELSE IF k.mq = <<>> THEN [k EXCEPT !.ml = FALSE]
    ELSE LET w == Head(k.mq)
             k1 == list_remove_head_wake(k)
         IN sched_switch_internal_allow_yield(
              [k1 EXCEPT !.ml = k1.mq # <<>>], k.prio[w])

mutex_unlock(k) ==
    IF ~k.ml THEN k
    ELSE IF k.mq = <<>> THEN [k EXCEPT !.ml = FALSE]
    ELSE LET w == Head(k.mq)
         IN sched_switch_internal_allow_yield(list_remove_head_wake(k), k.prio[w])

\* Release (waking the first waiter without a switch request), then
\* sleep and yield.
mutex_unlock_and_sleep(k, ifg, seq, spin, ex) ==
    LET k1 == IF ~k.ml THEN k
              ELSE IF k.mq = <<>> THEN [k EXCEPT !.ml = FALSE]
              ELSE list_remove_head_wake(k)
    IN exitless_default(sched_set_status(k1, k1.active, "SLEEPING"),
                        ifg, seq, spin, ex)

-----------------------------------------------------------------------------

MInit == Init /\ mqueue = <<>> /\ mlocked = FALSE /\ holds = {}

\* A step of the scheduler alone; a thread that exits or is killed leaves
\* its critical section (the mutex itself stays as it was).
SchedStep ==
    /\ Next /\ UNCHANGED <<mqueue, mlocked>>
    /\ holds' = {t \in holds : inUse'[t]}

Uses(a) == Calls(a) /\ a \in MutexUsers

\* mutex_lock and mutex_trylock on a free mutex: the early out.
Acquire(a) ==
    /\ Uses(a) /\ a \notin holds /\ ~mlocked
    /\ mlocked' = TRUE /\ holds' = holds \cup {a}
    /\ UNCHANGED <<vars, mqueue>>

\* mutex_trylock on a locked mutex returns 0 and changes nothing.
TryLockBusy(a) ==
    /\ Uses(a) /\ a \notin holds /\ mlocked
    /\ UNCHANGED allvars

\* mutex_lock on a locked mutex.
LockBlock(a) ==
    /\ Uses(a) /\ a \notin holds /\ mlocked
    /\ \E ifg, spin, ex \in BOOLEAN, seq \in Expiries(K) :
         /\ ifg \/ seq = <<>>
         /\ MCommit(_mutex_lock_blocking(KM, ifg, seq, spin, ex))
    /\ cont' = [cont EXCEPT ![a] = [op |-> "lock", prio |-> 0]]
    /\ UNCHANGED holds

\* Scheduled again, the blocked thread returns 1 from _mutex_lock.
LockResume(a) ==
    /\ Runs(a) /\ cont[a].op = "lock"
    /\ holds' = holds \cup {a}
    /\ cont' = [cont EXCEPT ![a] = NoCont]
    /\ UNCHANGED <<inUse, status, prio, rq, bitcache, active, activePid, csr,
                   armed, schedTimer, booted, fault, schedFired, mqueue, mlocked>>

Unlock(a) ==
    /\ Uses(a) /\ a \in holds
    /\ MCommit(mutex_unlock(KM))
    /\ holds' = holds \ {a}
    /\ UNCHANGED cont

UnlockAndSleep(a) ==
    /\ Uses(a) /\ a \in holds
    /\ \E ifg, spin, ex \in BOOLEAN, seq \in Expiries(K) :
         /\ ifg \/ seq = <<>>
         /\ MCommit(mutex_unlock_and_sleep(KM, ifg, seq, spin, ex))
    /\ holds' = holds \ {a}
    /\ UNCHANGED cont

MNext ==
    \/ SchedStep
    \/ \E a \in Pids :
         \/ Acquire(a) \/ TryLockBusy(a) \/ LockBlock(a) \/ LockResume(a)
         \/ Unlock(a) \/ UnlockAndSleep(a)

MSpec == MInit /\ [][MNext]_allvars

-----------------------------------------------------------------------------
(* Properties.                                                             *)

\* The threads the mutex has been given to: holders, and woken waiters
\* that have not yet returned from _mutex_lock.
Owners == holds \cup {t \in Pids : cont[t].op = "lock" /\ t \notin Range(mqueue)}

\* At most one thread owns the mutex: mutex_unlock hands the mutex to the
\* first waiter and leaves it mutex_LOCKED when that was the last, so no
\* lock early-outs while a woken waiter has yet to run, and no waiter
\* returns from _mutex_lock while another thread holds the mutex.
MutualExclusion == Cardinality(Owners) <= 1

\* The waiters are exactly the MUTEX_BLOCKED threads, each once, ordered
\* by priority: a blocked thread is never lost from the list (it would
\* never run again) and never runnable while still on it.
WaitersBlocked ==
    /\ IsInjective(mqueue)
    /\ \A t \in Pids : t \in Range(mqueue) <=> status[t] = "MUTEX_BLOCKED"
    /\ \A i \in 1..(Len(mqueue) - 1) : prio[mqueue[i]] <= prio[mqueue[i + 1]]
\* The owner of the abstract lock: the unique thread the mutex was given
\* to, nobody while queue.next is NULL, ORPHAN when it is locked and its
\* owner has terminated.
AbsOwner ==
    IF ~mlocked THEN -1           \* PriorityLock's FREE
    ELSE IF Owners = {} THEN -2   \* PriorityLock's ORPHAN
    ELSE CHOOSE o \in Owners : TRUE

Lock == INSTANCE PriorityLock
          WITH Procs <- MutexUsers, owner <- AbsOwner, waiting <- Range(mqueue),
               prio <- prio, alive <- inUse

\* The mutex implements PriorityLock: mutex_unlock passes the mutex to a
\* waiter of the best priority (thread_add_to_list keeps the queue sorted
\* and list_remove_head takes its first node), frees it only when nobody
\* waits, and a lock early-outs only on a free mutex.
ImplementsPriorityLock == Lock!LSpec
=============================================================================
