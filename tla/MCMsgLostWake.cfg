SPECIFICATION MsgSpec
CONSTANTS
    N_TASKS = 2
    ROUND_ROBIN = TRUE
    N_TOTAL_EVENTS = 1
    TIME_MOD = 4
    Prio = {0, 1}
    WaitTicks = {1}
    Clocks = {0}
    NTicks = {}
    SELF_KILL = FALSE
    Managed = {}
    TICK_LIMIT = 0
    INTERRUPTS = FALSE
    Timeouts = {}
    Signal = {s}
    DELAY_MAX = 1
    N_QUEUES = 1
    PoolSizes = {0, 3}
    Delays = {0, 1}
    Periods = {1}
    LOCKING = FALSE
INVARIANT
    ReaderMissesNothing
