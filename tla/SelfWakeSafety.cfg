SPECIFICATION Spec
CONSTANTS
    w1 = w1
    w2 = w2
    c1 = c1
    c2 = c2
    Wakes <- TwoWakes
    Convs <- TwoConvs
    FirstConv = c1
    Limit = 1
    Expiry = 1
    Horizon = 1
    DayLength = 2
    Offset = 1
    MaxAttempts = 2
    MaxTime = 2
    MaxSessions = 1
    MaxStops = 1
SYMMETRY TwoSymmetry
INVARIANTS TypeOK AtMostOneCall DailyQuota OnePendingPerOrigin RepliesOnce SucceededReplied
PROPERTIES CarriedAlong CallNeverRefunded SilentDuringTogether HoldsPreserveGrace Implements
