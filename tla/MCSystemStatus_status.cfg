SPECIFICATION LiveSpec
CONSTANTS
    Order <- MCOrder
    Reads <- MCReads
    Reports <- MCReports
    Handlers = {h1, h2}
    Streams = {c1}
    StaleAfter = 0
    Capacity = 1
    None = None
INVARIANTS FreshClaims CaughtUp
PROPERTIES HeartbeatsEnd OutageShown
