SPECIFICATION Spec
CONSTANTS
    c1 = c1  c2 = c2  k1 = k1
    NoKey = NoKey  NoEvent = NoEvent  Nil = Nil
    Clients = {c1}
    Keys <- NoKeys
    Watch <- WatchAll
    Times = {1}
    Cutoffs = {2}
    ChanCap = 1
    QueueCap = 1
    PageSize = 2
    KeepN = 1
    ScanWindow = 9
    SubCap = 1
    MaxId = 4
    MaxBoot = 0
    CanFail = TRUE
    CanCrash = FALSE
PROPERTIES PruneBlocksDuringReplay
CHECK_DEADLOCK FALSE
