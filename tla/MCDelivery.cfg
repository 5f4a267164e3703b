CONSTANTS
    a1 = a1
    a2 = a2
    r1 = r1
    Alerts = {a1, a2}
    Replies = {r1}
    Daemon = daemon
    Clis = {cli}
    ChannelsOf <- MCChannels
    None = none
    MaxTries = 2
    StoreFails = FALSE
    CanCrash = TRUE
    MaxRedrives = 2
SPECIFICATION FairSpec
INVARIANT NothingUnrecorded
INVARIANT EntryTruthful
INVARIANT NoResend
PROPERTY AlertSettles
PROPERTY ShutdownEnds
CHECK_DEADLOCK FALSE
