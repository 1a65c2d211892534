CONSTANTS
    r1 = r1
    Rooms = {r1}
    Reports <- Attentive
    QueueLimit = 1
    MaxMessages = 1
    MaxTurns = 2
    MaxCaptures = 1
    MaxSource = 2
    MaxRestarts = 0
SPECIFICATION Spec
INVARIANTS PhotoKept
PROPERTIES FreshFrames
