SPECIFICATION Spec
CONSTANTS
    Chats = {c1, c2}
    Logs = {l1}
    Understandings = {u1}
    Notes = {n1}
    Events = {e1}
    MaxAttempts = 2
    Batch = 1
    Retries = {p1, p2}
    Casts = {{c1, c2, l1}, {c1, u1}, {l1, u1}, {u1, n1}, {u1, e1}, {n1, e1}}
    Root = Root
    None = None
INVARIANTS OutcomesHold
PROPERTIES Implements
