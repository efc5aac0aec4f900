SPECIFICATION FairSpec
CONSTANTS
    Calls = {c1}
    Origins = {o1, o2}
    Blocked = {o2}
    Inputs <- Input
    MaxRedirects = 2
    RequestTimeout = 2
    NoCookie = none
    MaxCookies = 1
    MaxWaited = 7
INVARIANTS RedirectBudget RewriteCoherent
PROPERTY CallsEnd
