SPECIFICATION LiveSpec
CONSTANTS
    Clients = {c1}
    MaxSessions = 2
    MaxEpoch = 1
    None = None
INVARIANTS SceneAlone
PROPERTIES TombstoneStands PageLearns
CHECK_DEADLOCK FALSE
