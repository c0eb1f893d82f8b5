SPECIFICATION ClientsSpec
CONSTANTS
    N_TASKS = 2
    ROUND_ROBIN = FALSE
    N_TOTAL_EVENTS = 2
    TIME_MOD = 4
    Prio = {0, 1}
    WaitTicks = {}
    Clocks = {0}
    NTicks = {}
    Timeouts = {2}
    SELF_KILL = FALSE
    Managed = {0}
    TICK_LIMIT = 0
    INTERRUPTS = FALSE
INVARIANTS
    EventTypeOK
    ListIsWait
    SignalsWake
    WakesForAReason
    TimeoutIsTold
