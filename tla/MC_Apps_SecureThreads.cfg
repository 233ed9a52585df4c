\* examples/secure_threads alone: foo_greet at level 2 waits for bar_greet
\* at level 3 by sleeping 0x10 ticks.
CONSTANTS
    KERNEL_PID_LAST = 4
    SCHED_PRIO_LEVELS = 16
    MAIN_PRIO = 7
    OrdinaryPrios <- MC_OrdinaryPrios
    ProtectedPrios <- MC_ProtectedPrios
    Periodic = {}
    PromoteOthers = FALSE
    WakeupTargets <- MC_WakeupTargets
    MutexUsers = {2, 3, 4}
    Images = {"secure_threads"}
    APPA_ID = 3
    NULL = NULL
    SCHED_TIMER = SCHED_TIMER
SPECIFICATION ASpec
PROPERTIES MainShutsDown
