CONSTANTS
    r1 = r1
    Rooms = {r1}
    Reports <- Paused
    QueueLimit = 2
    MaxMessages = 2
    MaxTurns = 2
    MaxCaptures = 0
    MaxSource = 2
    MaxRestarts = 1
SPECIFICATION Spec
INVARIANTS OneAnswer OwnerComesFirst RoomOrChat
PROPERTIES EndedStaysSilent Implements
