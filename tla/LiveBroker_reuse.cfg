SPECIFICATION Spec
CONSTANTS
    c1 = c1  c2 = c2  k1 = k1
    NoKey = NoKey  NoEvent = NoEvent  Nil = Nil
    Clients = {c1}
    Keys <- NoKeys
    Watch <- WatchAll
    Times = {1}
    Cutoffs = {2}
    ChanCap = 1
    QueueCap = 4
    PageSize = 1
    KeepN = 1
    ScanWindow = 9
    SubCap = 1
    MaxId = 4
    MaxBoot = 1
    CanFail = FALSE
    CanCrash = TRUE
INVARIANTS LogIsReplayed
CHECK_DEADLOCK FALSE
