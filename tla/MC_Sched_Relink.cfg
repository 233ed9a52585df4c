CONSTANTS
    KERNEL_PID_LAST = 3
    SCHED_PRIO_LEVELS = 5
    MAIN_PRIO = 3
    OrdinaryPrios <- MC_OrdinaryPrios
    ProtectedPrios <- MC_ProtectedPrios
    Periodic = {3}
    PromoteOthers = FALSE
    WakeupTargets <- MC_WakeupTargets
    NULL = NULL
    SCHED_TIMER = SCHED_TIMER
SPECIFICATION Spec
INVARIANT TimerNeverRelinked
