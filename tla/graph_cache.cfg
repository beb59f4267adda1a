SPECIFICATION FairSpec
CONSTANTS
    Jobs = {j1, j2}
    Threads = {t1, t2, t3}
    Entries = {x1, x2, x3}
    NoEntry = NoEntry
    Nobody = Nobody
    MaxSize = 1
    MaxRequests = 4
INVARIANTS LeasedHandleStands OneHandlePerFile CacheBounded
PROPERTIES PromiseSpec RequestReturns
CHECK_DEADLOCK FALSE
