CONSTANTS
    s1 = s1
    s2 = s2
    d1 = d1
    d2 = d2
    p1 = p1
    p2 = p2
    v1 = v1
    e1 = e1
    e2 = e2
    x = x
    y = y
    r1 = r1
    r2 = r2
    r3 = r3
    t1 = t1
    t2 = t2
    None = None
    AnySender = any
    Sources = {s1, s2}
    Peers = {"127.0.0.1"}
    Principals = {p1, p2}
    Uris = {v1, e1, e2}
    EnvUris = {e1, e2}
    EnvSet = {e1}
    Configs <- MCConfigs
    FirstConfig <- FirstC
    Reqs = {r1, r2, r3}
    Req <- MCReq
    Sessions = {t1, t2}
    AdapterOf <- MCAdapter
    Claims <- MCClaims
    Burst = 2
    MaxSize = 1
    MaxRotations = 1
    MaxReloads = 1
    MaxRefills = 1
    Ids = {i1, i2, i3, i4, i5}
    Ttl = 2
    MaxRows = 2
    PruneInterval = 2
    MaxTime = 3
SPECIFICATION WindowsSpec
INVARIANT AdmittedOnce
INVARIANT DedupeTypeOK
INVARIANT ReplayRejected
INVARIANT DedupeBounded
PROPERTY ActsOnLiveConfig
PROPERTY ReachesSubscriber
PROPERTY SourceBucketClean
PROPERTY ForgetsOldestFirst
CHECK_DEADLOCK FALSE
