SPECIFICATION BitsSpec
CONSTANT
    N_TOTAL_EVENTS = 17
INVARIANT
    BitsAreMissed
