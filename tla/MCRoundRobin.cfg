SPECIFICATION FairRRSpec
CONSTANTS
    N_TASKS = 3
    ROUND_ROBIN = TRUE
    N_TOTAL_EVENTS = 0
    TIME_MOD = 4
    Prio = {1, 2, 255}
    WaitTicks = {3}
    Clocks = {255}
    NTicks = {2}
    SELF_KILL = FALSE
    Managed = {0, 1}
    TICK_LIMIT = 0
    INTERRUPTS = TRUE
INVARIANTS
    ReadyIsDispatchable
    BoundedBypass
    ScanComesCloser
PROPERTIES
    ReadyRuns
    WaitEnds
