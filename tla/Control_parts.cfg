INIT MCInit
NEXT MCNext
CONSTANTS
    Daemons = {"old", "new"}
    Tools = {"tool"}
    Stoppers = {"stop"}
    Uninstallers = {"stop"}
    Build <- MCBuild
    None = None
    NoPid = NoPid
    MaxKills = 1
    Hooks = {"a", "b", "small", "empty", "huge"}
    Length <- MCLength
    Budget = 4
    SpoolBuffer = 1
    MaxBody = 3
    MaxDays = 1
    Keys = {"redact", "interval"}
    Good = {"on", "off"}
    Bad = "bad"
    Unset = Unset
    Broken = Broken
    Nobody = Nobody
    Writers = {"api", "cli", "wrong"}
    Job <- MCJob
    InAPI = {"api"}
    Edits <- MCEdits
    MaxEdits = 1
    HookEvents = {"Stop", "Start"}
    OldEvents = {"Old"}
    Runs = {"inst", "again", "uninst"}
    Op <- MCOp
    Theirs = {"f1", "f2"}
    Owned <- MCOwned
    MaxOwner = 1
    MaxCuts = 1
    p = p  s1 = s1  s2 = s2  r = r  t = t  c = c  g = g  x = x
    NoRow = NoRow  Blanked = Blanked  Failed = Failed
    Transcripts <- MCTranscripts
    IndexFile = x
    Subagents <- MCSubagents
    ExternalID <- MCExternal
    ParentExternalID <- MCParent
    Old = {r}
    Sources = {"claude-code", "codex", "opencode"}
    SourceOf <- MCSource
    TokenSources = {"opencode"}
    TitleSource = "codex"
    SkillSource = "claude-code"
    Passes = {"daemon", "cli"}
    Daemon = "daemon"
    FileOrder <- MCOrder
    FirstFiles <- MCFirst
    Size <- MCSize
    MaxBatchBytes = 2
    Empty <- MCEmpty
    UserItems = {1}
    ProjectItems = {2}
    MaxChanges = 1
    MaxFaults = 1
    MaxPasses = 2
INVARIANT OneDaemon EpochTruthful RowsOfEpoch
INVARIANT SpoolBudget SpoolSettles
INVARIANT SettledSnapshot UpdatesKept
INVARIANT HooksKept
INVARIANT FingerprintHonest RowsAgree SearchHidesRedacted LinksComplete NeverStuck MetadataKept
PROPERTY QuietPassSettles ParentOverSibling TitleKept
CHECK_DEADLOCK FALSE
