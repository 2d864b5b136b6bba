SPECIFICATION FairSpec
CONSTANTS
    c1 = c1  c2 = c2  k1 = k1
    NoKey = NoKey  NoEvent = NoEvent  Nil = Nil
    Clients = {c1}
    Keys <- OneKey
    Watch <- WatchOne
    Times = {1}
    Cutoffs = {2}
    ChanCap = 1
    QueueCap = 1
    PageSize = 1
    KeepN = 1
    ScanWindow = 9
    SubCap = 1
    MaxId = 3
    MaxBoot = 0
    CanFail = TRUE
    CanCrash = FALSE
PROPERTIES ImplementsFeed StreamProgress PublishedIsSettled CloseEnds
CHECK_DEADLOCK FALSE
