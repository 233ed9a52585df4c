\* Generic mutex clients (main and two created threads locking one mutex)
\* next to three example applications booted on the same kernel; APPA_ID is
\* the Sancus id appa gets as the first module enabled after ioenclave.
CONSTANTS
    KERNEL_PID_LAST = 4
    SCHED_PRIO_LEVELS = 16
    MAIN_PRIO = 7
    OrdinaryPrios <- MC_OrdinaryPrios
    ProtectedPrios <- MC_ProtectedPrios
    Periodic = {}
    PromoteOthers = FALSE
    WakeupTargets <- MC_WakeupTargets
    MutexUsers = {2, 3, 4}
    Images = {"clients", "unprotected_threads", "secure_mintimer", "ccs_case_study", "violation"}
    APPA_ID = 3
    NULL = NULL
    SCHED_TIMER = SCHED_TIMER
SPECIFICATION ASpec
INVARIANTS MutualExclusion WaitersBlocked RunQueueConsistent ThreadsDoneBeforeMain KernelFaultFree
PROPERTIES ImplementsPriorityLock MainShutsDown ByteEventuallySent
