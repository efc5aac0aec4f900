SPECIFICATION Spec
CONSTANTS
    Calls = {c1, c2}
    Origins = {o1, o2}
    Blocked = {}
    Inputs <- Gets
    MaxRedirects = 1
    RequestTimeout = 0
    NoCookie = none
    MaxCookies = 2
    MaxWaited = 0
SYMMETRY Symmetry
INVARIANTS CookiesStayHome ReadsOwnCookies
