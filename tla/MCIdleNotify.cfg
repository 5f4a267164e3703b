CONSTANTS
    Sessions = {s1, s2}
    Marked = {s1}
    Docs = {"away", "here", "anywhere", "crossed", "unreadable"}
    MaxActive = 1
    MaxTurns = 1
    MaxNotes = 1
    MaxConns = 2
    MaxEdits = 2
    MaxRestarts = 1
SPECIFICATION Spec
INVARIANT TypeOK
INVARIANT LoopNeedsCrossed
INVARIANT WakesEarned
INVARIANT InFlightExact
CHECK_DEADLOCK FALSE
