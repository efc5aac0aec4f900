SPECIFICATION FairSpec
CONSTANTS
    a = a
    b = b
    NoHost = NoHost
    NRows = 4
    Urls <- UrlSet
    Hosts = {a, b}
    UrlOf <- ThreeToOne
    HostOf <- HostPart
    Concurrency = 2
    Throttled = TRUE
    PerHost = 1
    Retry = 0
    Tui = FALSE
PROPERTY UrlsTimeOut
