SPECIFICATION SemIsrSpec
CONSTANTS
    N_TASKS = 2
    ROUND_ROBIN = FALSE
    N_TOTAL_EVENTS = 0
    TIME_MOD = 3
    Prio = {0, 1}
    WaitTicks = {1}
    Clocks = {0}
    NTicks = {}
    SELF_KILL = FALSE
    Managed = {}
    TICK_LIMIT = 0
    INTERRUPTS = FALSE
    N_TOTAL_SEMAPHORES = 2
    SemMax = {2}
    SemInitial = {0, 1}
    MAX_CREDIT = 1
INVARIANT
    TokensAccounted
