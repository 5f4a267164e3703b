CONSTANTS
    l1 = l1
    w1 = w1
    w2 = w2
    Sessions = {s1, s2}
    Labels = {l1}
    Wakes = {w1, w2}
    Target <- MCTarget
    Replies = {r1}
    None = none
    MaxConns = 2
    MaxClaims = 2
SPECIFICATION FairSpec
INVARIANT LabelsAgree
INVARIANT KeptUntilPrompted
PROPERTY ReplyReturns
CHECK_DEADLOCK FALSE
