SPECIFICATION FairSpec
CONSTANTS
    Urls = {a, b, c}
    NoUrl = NoUrl
    NoNav = NoNav
    MaxNavHops = 2
    MaxEntries = 2
CHECK_DEADLOCK FALSE
INVARIANTS SuccessIsSettled NavOfThisPage
PROPERTIES HistorySpec CommandsEnd
