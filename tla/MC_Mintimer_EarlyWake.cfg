SPECIFICATION Spec
CONSTANTS
    SECURE_MINTIMER_WIDTH = 3
    SHORT_WIDTH = 4
    SECURE_MINTIMER_BACKOFF = 2
    SECURE_MINTIMER_OVERHEAD = 3
    SECURE_MINTIMER_ISR_BACKOFF = 2
    Timers = {1, 2}
    Offsets = {4, 9}
    Offsets64 = {}
    MAX_LAG = 1
    WAKE_SLACK = 3
    NULL = NULL
CONSTRAINT ClockBound
PROPERTY NoEarlyWake
