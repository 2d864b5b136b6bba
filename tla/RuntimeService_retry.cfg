SPECIFICATION Spec
CONSTANTS
    f1 = f1  f2 = f2  s1 = s1  s2 = s2  None = None
    Files = {f1}
    Sources = {s1}
    SourceOf <- OneSource
    Unclaimed = {}
    QueueCap = 3
    EmitCap = 1
    MaxWrites = 1
    MaxReloads = 0
    MaxTriggers = 1
    CanFail = FALSE
    CanStop = FALSE
INVARIANTS RetryIsScheduled
CHECK_DEADLOCK FALSE
