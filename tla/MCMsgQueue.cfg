SPECIFICATION Spec
CONSTANTS
    Signal = {a, b, c}
    DELAY_MAX = 2
    SIZE = 4
    Delays = {0, 1, 2}
    Periods = {2}
    INTERRUPTS = TRUE
INVARIANTS
    TypeOK
PROPERTIES
    
    DueNeverGoesBack
