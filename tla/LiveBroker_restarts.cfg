SPECIFICATION Spec
CONSTANTS
    c1 = c1  c2 = c2  k1 = k1
    NoKey = NoKey  NoEvent = NoEvent  Nil = Nil
    Clients = {c1}
    Keys <- OneKey
    Watch <- WatchAll
    Times = {1, 2}
    Cutoffs = {1, 2}
    ChanCap = 1
    QueueCap = 1
    PageSize = 1
    KeepN = 1
    ScanWindow = 2
    SubCap = 1
    MaxId = 4
    MaxBoot = 1
    CanFail = TRUE
    CanCrash = TRUE
INVARIANTS TypeOK NoSilentLoss DurableIsLastID CacheIsFresh LiveCoversLog
PROPERTIES RestartKeepsLive
ACTION_CONSTRAINT OneQuestion
CHECK_DEADLOCK FALSE
