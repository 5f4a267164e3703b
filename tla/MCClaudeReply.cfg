CONSTANTS
    Events = {e1, e2, e3}
    Silent = {e1, e2}
    Replies = {r1, r2}
    MaxDeferred = 3
    MaxHanded = 2
    None = none
SPECIFICATION Spec
PROPERTY AwaitsResult
CHECK_DEADLOCK FALSE
