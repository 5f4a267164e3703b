CONSTANTS
    Sessions = {s1}
    d1 = d1
    d2 = d2
    d3 = d3
    e1 = e1
    Events = {e1}
    Dests = {d1, d2}
    Grants <- MCGrants
    Route <- MCRoute
    Source <- MCSource
    Durable = {e1}
    None = none
    MaxConnections = 2
    Cap <- MCCap
    MaxBusyMissedPongs = 2
    PendingMaxAttempts = 1
    PendingMaxRows = 2
    CanFill = TRUE
    CanHang = TRUE
    Pings = TRUE
    MaxRestarts = 0
SPECIFICATION FairSpec
INVARIANT TypeOK
INVARIANT InFlightCovers
PROPERTY BusyNotReaped
PROPERTY QuietPeerReaped
PROPERTY DeadPeerReleased
PROPERTY DeliverReturns
CHECK_DEADLOCK FALSE
