SPECIFICATION Spec
CONSTANTS
    Sessions = {s1, s2}
    NoSession = none
    Drivers = {muse}
    TTL = 3
    MaxRtt = 1
    MaxClock = 5
    MaxGeneration = 1
    MaxRevision = 2
    MaxRequests = 2
INVARIANTS TypeOK GenerationsRise SilenceBound AnswersInOrder
PROPERTY RevokedForGood
SYMMETRY Symmetry
