SPECIFICATION KernelSpec
CONSTANTS
    N_TASKS = 1
    ROUND_ROBIN = FALSE
    N_TOTAL_EVENTS = 0
    TIME_MOD = 4
    Prio = {0}
    WaitTicks = {1}
    Clocks = {0}
    NTicks = {1}
    SELF_KILL = TRUE
    Managed = {0}
    TICK_LIMIT = 0
    INTERRUPTS = FALSE
PROPERTY
    KilledIsFinal
