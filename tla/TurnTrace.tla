------------------------------- MODULE TurnTrace -------------------------------
(***************************************************************************)
(* What the three transcript parsers share (internal/parser/shared,            *)
(* internal/parser/components, internal/trace): how a turn's status comes from  *)
(* its tool calls, how a session adds its turns up, what a tool's name and       *)
(* input say about the components it used.                                       *)
(*                                                                             *)
(* A text is the sequence of its paragraphs, a paragraph a string that names    *)
(* what the parsers tell apart. A time is a number, 0 the missing one. A tool's  *)
(* name is the sequence of its parts between "__"; a tool's input the sequence    *)
(* of the names it mentions in paths of the form skills/<name>/SKILL.md.           *)
(***************************************************************************)
EXTENDS Integers, Sequences, SequencesExt, FiniteSets, TLC

\* the line that is no JSON, and the turn that is not there
Unreadable == [type |-> "unreadable"]
None == [turn |-> 0]

\* what a has, and what b has besides
Over(a, b) == [x \in DOMAIN a \cup DOMAIN b |-> IF x \in DOMAIN a THEN a[x] ELSE b[x]]

NoTokens == [input |-> 0, output |-> 0, cacheRead |-> 0, cacheWrite |-> 0, cacheWriteLong |-> 0]
AddTokens(a, b) == [f \in DOMAIN NoTokens |-> a[f] + b[f]]
SumTokens(tokens) ==
    LET sum[n \in 0 .. Len(tokens)] == IF n = 0 THEN NoTokens ELSE AddTokens(sum[n - 1], tokens[n])
    IN sum[Len(tokens)]

\* no time is no bound
LaterTime(a, b) == IF b = 0 \/ a > b THEN a ELSE b

NoWindow == [started |-> 0, ended |-> 0]
UpdateSessionTimes(w, when) ==
    IF when = 0 THEN w
    ELSE [started |-> IF w.started = 0 \/ when < w.started THEN when ELSE w.started,
          ended |-> IF when > w.ended THEN when ELSE w.ended]

\* the slash command wrappers both claude-code and codex inject
IsLocalCommandInjection(text) == text # <<>> /\ Head(text) = "command"

ClassifyToolKind(name) == IF Len(name) >= 3 /\ Head(name) = "mcp" THEN "mcp" ELSE "builtin"
\* the server may be blank, the tool is what follows it
SplitMCPName(name) == [server |-> name[2], tool |-> SubSeq(name, 3, Len(name))]

ValidSkillName(name) == name \notin {"skills", "SKILL", "SKILL.md"}
Mentions(call) ==
    LET mcp == SplitMCPName(call.name)
        tool == IF ClassifyToolKind(call.name) # "mcp" THEN {<<"builtin_tool", call.name>>}
                ELSE IF mcp.server = "" THEN {}
                ELSE {<<"mcp_server", <<mcp.server>> >>} \cup
                     (IF mcp.tool = <<"">> THEN {} ELSE {<<"mcp_tool", <<mcp.server>> \o mcp.tool>>})
    IN tool \cup {<<"skill", <<n>> >> : n \in {m \in Range(call.input) : ValidSkillName(m)}}
\* each component once, at the first call that mentions it; those of one call have no order here
FromTools(calls) ==
    {c \in UNION {{[first |-> i, kind |-> m[1], name |-> m[2]] : m \in Mentions(calls[i])} : i \in DOMAIN calls} :
        \A j \in 1..(c.first - 1) : <<c.kind, c.name>> \notin Mentions(calls[j])}

Turn(index, when) ==
    [index |-> index, project |-> "", user |-> <<>>, final |-> <<>>, started |-> when, ended |-> when,
     invocations |-> <<>>, calls |-> <<>>, status |-> "unknown", tokens |-> NoTokens, components |-> {}]

StatusForTurn(turn) ==
    IF \E i \in DOMAIN turn.calls : turn.calls[i].status = "failed" THEN "failed"
    ELSE IF turn.final # <<>> \/ turn.invocations # <<>> THEN "success" ELSE "unknown"
\* an explicit interruption stays; a failed call beats every other status
ResolveTurnStatus(turn) ==
    LET derived == StatusForTurn(turn)
    IN IF turn.status \notin {"interrupted", "active"} /\ (turn.status = "unknown" \/ derived = "failed")
       THEN derived ELSE turn.status

TokensOf(seq) == SumTokens([i \in DOMAIN seq |-> seq[i].tokens])
FinalizeSession(session, turns) ==
    Over(session, [turns |-> turns, tokens |-> TokensOf(turns),
                   toolCalls |-> FoldLeft(LAMBDA n, t : n + Len(t.calls), 0, turns),
                   status |-> IF turns = <<>> THEN "unknown" ELSE "completed"])
=============================================================================
