SPECIFICATION FairMsgSpec
CONSTANTS
    N_TASKS = 2
    ROUND_ROBIN = TRUE
    N_TOTAL_EVENTS = 2
    TIME_MOD = 4
    Prio = {0, 1}
    WaitTicks = {}
    Clocks = {0}
    NTicks = {}
    SELF_KILL = FALSE
    Managed = {}
    TICK_LIMIT = 0
    INTERRUPTS = FALSE
    Timeouts = {1}
    Signal = {s}
    DELAY_MAX = 1
    N_QUEUES = 2
    PoolSizes = {0, 2}
    Delays = {0, 1}
    Periods = {}
    LOCKING = TRUE
INVARIANTS
    MsgTypeOK
    ReaderMissesNothing
    PosterMissesNothing
PROPERTIES
    DueIsReceived
    TimeoutEnds
CHECK_DEADLOCK FALSE
