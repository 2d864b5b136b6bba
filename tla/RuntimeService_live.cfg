SPECIFICATION FairSpec
CONSTANTS
    f1 = f1  f2 = f2  s1 = s1  s2 = s2  None = None
    Files = {f1}
    Sources = {s1}
    SourceOf <- OneSource
    Unclaimed = {}
    QueueCap = 1
    EmitCap = 1
    MaxWrites = 1
    MaxReloads = 2
    MaxTriggers = 0
    CanFail = TRUE
    CanStop = TRUE
INVARIANTS WatcherIsCurrent StoppedIsHandedOver
PROPERTIES RunReturns ChangeIsIngested
CHECK_DEADLOCK FALSE
