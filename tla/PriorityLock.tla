---------------------------- MODULE PriorityLock ----------------------------
(***************************************************************************)
(* What the kernel mutex promises, without its list: a lock with at most   *)
(* one owner and a set of waiting processes.  Unlocking hands the lock to  *)
(* a waiter of the best (numerically lowest) priority, or frees it when    *)
(* nobody waits.  The lock is not robust: when its owner terminates it     *)
(* stays taken by nobody, and its waiters wait for ever.                   *)
(*                                                                         *)
(* prio and alive belong to the environment (the scheduler); the lock      *)
(* only reads them.                                                        *)
(***************************************************************************)
EXTENDS Integers

CONSTANT Procs   \* a set of natural numbers

ASSUME Procs \subseteq Nat

VARIABLES
    owner,    \* a process, FREE, or ORPHAN (taken by a process now dead)
    waiting,  \* processes blocked on the lock
    prio,     \* the priority of each process (lower is better)
    alive     \* whether each process still exists

\* Two values that are not processes (process ids are natural numbers).
FREE == -1
ORPHAN == -2

lvars == <<owner, waiting>>

LInit == owner = FREE /\ waiting = {}

\* A process takes the free lock.
Take(t) ==
    /\ owner = FREE /\ t \notin waiting
    /\ owner' = t /\ UNCHANGED waiting

\* A process finds the lock taken and waits.
Block(t) ==
    /\ owner \notin {FREE, t} /\ t \notin waiting
    /\ waiting' = waiting \cup {t} /\ UNCHANGED owner

\* The owner unlocks with nobody waiting.
Release ==
    /\ owner \in Procs /\ waiting = {}
    /\ owner' = FREE /\ UNCHANGED waiting

\* The owner unlocks and the lock passes to a best-priority waiter.
HandOff(w) ==
    /\ owner \in Procs /\ w \in waiting
    /\ \A v \in waiting : prio[w] <= prio[v]
    /\ owner' = w /\ waiting' = waiting \ {w}

\* The owner terminates without unlocking.
Orphan ==
    /\ owner \in Procs /\ ~alive'[owner]
    /\ owner' = ORPHAN /\ UNCHANGED waiting

LNext ==
    \/ Release \/ Orphan
    \/ \E t \in Procs : Take(t) \/ Block(t) \/ HandOff(t)

LSpec == LInit /\ [][LNext]_lvars
=============================================================================
