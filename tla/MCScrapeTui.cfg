SPECIFICATION TuiFairSpec
CONSTANTS
    a = a
    NoHost = NoHost
    NRows = 3
    Urls = {1, 2, 3}
    Hosts = {a}
    UrlOf <- Distinct
    HostOf <- OneHost
    Concurrency = 2
    Throttled = TRUE
    PerHost = 1
    Retry = 1
    Tui = TRUE
INVARIANTS DisplayAgrees FinishedIsComplete
    HostCap NoIdlePermit RetryBudget
PROPERTY FinishShown
