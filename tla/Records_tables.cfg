INIT MCInit
NEXT MCNext
CONSTANTS
    ClaudeLines <- MCClaudeLines
    MaxClaudeLines = 4
    Notices <- MCNotices
    Acks <- MCAcks
    CodexRows <- MCCodexRows
    MaxCodexRows = 4
    SessionRow <- MCSessionRow
    MessageRows <- MCMessageRows
    PartRows <- MCPartRows
    MaxOpencodeRows = 4
    Transcripts <- MCTranscripts
    Grown <- MCGrown
    DeclaredMCPs <- MCDeclared
    Filters <- MCFilters
    PageLimit = 1
    Written = {"main", "mainGrown", "agent", "codex"}
    HookCalls <- MCHookCalls
    StatusFilters <- MCStatusFilters
    Watched <- MCWatched
    FirstNow = 5
    MaxTold = 3
INVARIANT ClaudeFaithful CodexFaithful OpencodeFaithful ListingsAgree WalkComplete StatusAgrees RowShowsNewest
CHECK_DEADLOCK FALSE
