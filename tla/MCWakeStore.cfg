CONSTANTS
    Events = {e1, e2}
    Alerts = {a1}
    Names = {n1}
    FirstName = n1
    Source <- MCSource
    Daemon = daemon
    Clis = {cli}
    None = none
    PendingTtl = 1
    PendingMaxRows = 1
    PendingMaxAttempts = 1
    ClaimLimit = 1
    DeadTtl = 0
    DeadMaxRows = 1
    MaxTime = 1
    MaxRows = 2
    MaxDead = 2
    MaxClaims = 2
SPECIFICATION Spec
SYMMETRY EventSymmetry
INVARIANT TypeOK
INVARIANT NoSilentLoss
INVARIANT QueueCap
PROPERTY KeepsCustody
