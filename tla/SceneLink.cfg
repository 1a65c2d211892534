SPECIFICATION Spec
CONSTANTS
    Scene = scene
    NoSession = none
    TTL = 2
    MaxRtt = 1
    Interval = 1
    MaxClock = 3
    MaxGeneration = 3
    MaxVersion = 4
    MaxRequests = 3
INVARIANTS TypeOK Vouched StoppedForGood ReportsWhatPlayed
PROPERTY DelayedPausesSpareTheResumed
VIEW View
CHECK_DEADLOCK FALSE
