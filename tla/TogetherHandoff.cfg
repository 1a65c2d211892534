CONSTANTS
    r1 = r1
    Rooms = {r1}
    Reports <- Attentive
    QueueLimit = 2
    MaxMessages = 1
    MaxTurns = 1
    MaxCaptures = 0
    MaxSource = 3
    MaxRestarts = 0
SPECIFICATION Spec
INVARIANTS FirstReplyGiven
