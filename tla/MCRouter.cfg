CONSTANTS
    Sessions = {s1, s2}
    d1 = d1
    d2 = d2
    d3 = d3
    e1 = e1
    Events = {e1}
    Dests = {d1, d2, d3}
    Grants <- MCGrants
    Route <- MCRoute
    Source <- MCSource
    Durable = {e1}
    None = none
    MaxConnections = 2
    Cap <- MCCap
    MaxBusyMissedPongs = 1
    PendingMaxAttempts = 1
    PendingMaxRows = 2
    CanFill = TRUE
    CanHang = FALSE
    Pings = FALSE
    MaxRestarts = 1
SPECIFICATION Spec
SYMMETRY SessionSymmetry
INVARIANT CapsHold
INVARIANT SessionScoped
INVARIANT QueuedUntilAcked
CHECK_DEADLOCK FALSE
