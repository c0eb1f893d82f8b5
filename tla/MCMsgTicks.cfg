SPECIFICATION ClockSpec
CONSTANTS
    Signal = {a, b}
    DELAY_MAX = 2
    SIZE = 3
    Delays = {0, 2}
    Periods = {2}
    INTERRUPTS = TRUE
INVARIANT
    OnMasterClock
