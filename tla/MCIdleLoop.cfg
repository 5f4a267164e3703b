CONSTANTS
    Sessions = {s1}
    Marked = {s1}
    Docs = {"away", "crossed"}
    MaxActive = 1
    MaxTurns = 1
    MaxNotes = 0
    MaxConns = 1
    MaxEdits = 2
    MaxRestarts = 0
SPECIFICATION Spec
INVARIANT NoLoop
CHECK_DEADLOCK FALSE
