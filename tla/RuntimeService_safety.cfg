SPECIFICATION Spec
CONSTANTS
    f1 = f1  f2 = f2  s1 = s1  s2 = s2  None = None
    Files = {f1, f2}
    Sources = {s1, s2}
    SourceOf <- TwoSources
    Unclaimed = {f2}
    QueueCap = 1
    EmitCap = 1
    MaxWrites = 1
    MaxReloads = 0
    MaxTriggers = 1
    CanFail = TRUE
    CanStop = FALSE
PROPERTIES StoreNeverGoesBack ReportedFilesWait
CHECK_DEADLOCK FALSE
