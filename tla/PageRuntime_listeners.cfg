SPECIFICATION Spec
CONSTANTS
    Urls = {a, b}
    Blank = blank
    NoUrl = NoUrl
    MaxNavHops = 2
    MaxScripts = 2
    MaxNodes = 2
    MaxLoads = 3
    MaxCookies = 1
    MaxListeners = 1
INVARIANT ListenersOfThisPage
