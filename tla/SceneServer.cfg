SPECIFICATION LiveSpec
CONSTANTS
    Devices = {d1, d2}
    Messages = {m1, m2}
    MaxGeneration = 2
    MaxReturns = 2
INVARIANTS TypeOK NeverAsleep
PROPERTIES Heard Implements
CHECK_DEADLOCK FALSE
