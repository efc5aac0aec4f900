SPECIFICATION FairSpec
CONSTANTS
    Clients = {c1, c2, c3}
    Sessions = {s1, s2, s3}
    NoSession = NoSession
    MaxSessions = 1
    IdleTimeout = 2
    ReapInterval = 1
    Slack = 1
    UnsignedClock = TRUE
INVARIANTS CapRespected HandlesAlive EvictionDeadline
PROPERTIES ReapsOnlyIdle AbandonedIsFreed
