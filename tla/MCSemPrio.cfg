SPECIFICATION ClientsSpec
CONSTANTS
    N_TASKS = 3
    ROUND_ROBIN = FALSE
    N_TOTAL_EVENTS = 0
    TIME_MOD = 2
    Prio = {0, 1, 2}
    WaitTicks = {}
    Clocks = {}
    NTicks = {}
    SELF_KILL = FALSE
    Managed = {0}
    TICK_LIMIT = 0
    INTERRUPTS = FALSE
    N_TOTAL_SEMAPHORES = 2
    SemMax = {1}
    SemInitial = {0}
    MAX_WAITED = 0
INVARIANTS
    SemTypeOK
    NoIdleToken
PROPERTIES
    SemaphoreSpec
CHECK_DEADLOCK FALSE
