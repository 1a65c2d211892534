SPECIFICATION Spec
CONSTANTS
    w1 = w1
    w2 = w2
    c1 = c1
    c2 = c2
    Wakes <- OneWake
    Convs <- OneConv
    FirstConv = c1
    Limit = 1
    Expiry = 1
    Horizon = 1
    DayLength = 2
    Offset = 0
    MaxAttempts = 3
    MaxTime = 3
    MaxSessions = 2
    MaxStops = 0
PROPERTIES StandingDownRefunds
