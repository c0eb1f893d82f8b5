SPECIFICATION ClientsSpec
CONSTANTS
    N_TASKS = 3
    ROUND_ROBIN = TRUE
    N_TOTAL_EVENTS = 0
    TIME_MOD = 4
    Prio = {0, 1, 2}
    WaitTicks = {}
    Clocks = {}
    NTicks = {}
    SELF_KILL = FALSE
    Managed = {0}
    TICK_LIMIT = 0
    INTERRUPTS = FALSE
    N_TOTAL_SEMAPHORES = 1
    SemMax = {2}
    SemInitial = {0, 1}
    MAX_WAITED = 2
PROPERTIES
    LongestWaiterFirst
    SemaphoreSpec
CHECK_DEADLOCK FALSE
