SPECIFICATION InspectorSpec
CONSTANTS
    r1 = r1
    r2 = r2
    Recs = {r1, r2}
    MaxEntries = 2
    MaxBodyCapture = 1
    MaxTotalBytes = 3
    EVENTS = 1
    Loads = {l1}
    HeaderBytes <- MCHeaderBytes
    Size <- MCSize
    MAX_ENTRY_ID = 3
    MAX_WATCHED = 2
INVARIANTS StoreBounded ReplayIsWhole BrowserNotStale
CHECK_DEADLOCK FALSE
