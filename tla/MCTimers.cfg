SPECIFICATION TimersSpec
CONSTANTS
    N_TASKS = 3
    ROUND_ROBIN = FALSE
    N_TOTAL_EVENTS = 0
    TIME_MOD = 4
    Prio = {0, 1, 2}
    WaitTicks = {0, 3}
    Clocks = {0, 2}
    NTicks = {2}
    SELF_KILL = FALSE
    Managed = {0, 1}
    TICK_LIMIT = 0
    INTERRUPTS = TRUE
    MAX_NOW = 4
INVARIANTS
    TypeOK
    UniquePrio
    ReadyIsDispatchable
    ExecutingIsReady
    TasksWellFormed
    TimeIsExact
    NotEarly
PROPERTIES
    NotLate
    KilledIsFinal
    SuspendedIsFrozen
CHECK_DEADLOCK FALSE
