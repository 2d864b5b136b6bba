------------------------------- MODULE CodexParser -------------------------------
(***************************************************************************)
(* internal/parser/codex: ParseEvents reads a rollout row by row. A turn runs    *)
(* from one turn_context to the next; a turn nothing was said or done in is       *)
(* dropped. As for claude-code, a step reads one row, and what ParseEvents        *)
(* returns is looked at after each.                                               *)
(***************************************************************************)
EXTENDS TurnTrace

CONSTANTS
    CodexRows,    \* the rows a rollout is made of
    MaxCodexRows  \* bound: how long a rollout gets

VARIABLES
    rollout,      \* the rows read so far
    codex         \* the state of ParseEvents

codexVars == <<rollout, codex>>

CodexAssumption ==
    CodexRows \subseteq {Unreadable} \cup
        [type : STRING \ {"unreadable"}, payload : STRING, when : Nat, id : STRING, cwd : STRING,
         spawnedBy : STRING, role : STRING, text : Seq(STRING), name : STRING, namespace : Seq(STRING),
         call : STRING, input : Seq(STRING), output : STRING,
         usage : [input : Nat, cached : Nat, output : Nat], window : Nat]
ASSUME CodexAssumption

\* payload: the type of a response item or of an event message
CodexRow(type, payload) ==
    [type |-> type, payload |-> payload, when |-> 0, id |-> "", cwd |-> "", spawnedBy |-> "",
     role |-> "", text |-> <<>>, name |-> "", namespace |-> <<>>, call |-> "", input |-> <<>>,
     output |-> "", usage |-> [input |-> 0, cached |-> 0, output |-> 0], window |-> 0]

LastPathSegment(dir) == IF dir \in {".", "/"} THEN "unknown" ELSE dir
NoProject == [name |-> "unknown", path |-> ""]

NewCodex ==
    [external |-> "", project |-> NoProject, parent |-> "", isSubagent |-> FALSE, window |-> NoWindow,
     turns |-> <<>>, current |-> None, errors |-> <<>>, seenTurnContext |-> FALSE, contextWindow |-> 0]

CodexTurnBuilder(c, project, when) ==
    [turn |-> [Turn(Len(c.turns) + 1, when) EXCEPT !.project = project],
     byCall |-> <<>>, userMessageSet |-> FALSE, pendingTokens |-> NoTokens, contextWindow |-> c.contextWindow]

--------------------------------------------------------------------------------
(* the turn *)

CodexEmpty(b) ==
    b.turn.user = <<>> /\ b.turn.final = <<>> /\ b.turn.invocations = <<>> /\ b.turn.calls = <<>>

\* tokens that came before any invocation are kept by a turn that ends without one
CodexFinish(b) ==
    LET t == [b.turn EXCEPT !.tokens = AddTokens(TokensOf(b.turn.invocations), b.pendingTokens)]
    IN [t EXCEPT !.status = ResolveTurnStatus(t), !.components = FromTools(t.calls)]
CodexFlush(c) ==
    IF c.current = None THEN c
    ELSE [c EXCEPT !.turns = IF CodexEmpty(c.current) THEN @ ELSE Append(@, CodexFinish(c.current)),
                   !.current = None]

--------------------------------------------------------------------------------
(* response items *)

CodexInjected(text) == text # <<>> /\ (Head(text) = "injected" \/ IsLocalCommandInjection(text))
InjectedPreTurn(r) ==
    /\ r.payload = "message"
    /\ \/ r.role \in {"developer", "system"}
       \/ r.role = "user" /\ (r.text = <<>> \/ CodexInjected(r.text))

\* the message takes the waiting usage and leaves it waiting
RecordMessageKeeping(b, r) ==
    CASE r.role = "user" ->
           IF r.text # <<>> /\ b.turn.user = <<>> /\ ~b.userMessageSet /\ ~CodexInjected(r.text)
           THEN [b EXCEPT !.turn.user = r.text] ELSE b
      [] r.role = "assistant" ->
           [b EXCEPT !.turn.final = IF r.text = <<>> THEN @ ELSE r.text,
                     !.turn.invocations = Append(@, [tokens |-> b.pendingTokens, ended |-> r.when,
                                                     status |-> "success", window |-> b.contextWindow])]
      [] OTHER -> b
RecordMessage(b, r) ==
    CASE r.role = "user" ->
           IF r.text # <<>> /\ b.turn.user = <<>> /\ ~b.userMessageSet /\ ~CodexInjected(r.text)
           THEN [b EXCEPT !.turn.user = r.text] ELSE b
      [] r.role = "assistant" ->
           [b EXCEPT !.turn.final = IF r.text = <<>> THEN @ ELSE r.text,
                     !.turn.invocations = Append(@, [tokens |-> b.pendingTokens, ended |-> r.when,
                                                     status |-> "success", window |-> b.contextWindow]),
                     !.pendingTokens = NoTokens]
      [] OTHER -> b

\* an MCP call's server comes in the namespace, "mcp__server__"
CanonicalName(name, namespace) ==
    LET ns == IF namespace # <<>> /\ namespace[Len(namespace)] = "" THEN SubSeq(namespace, 1, Len(namespace) - 1)
              ELSE namespace
    IN IF Len(ns) >= 2 /\ Head(ns) = "mcp" THEN Append(ns, name) ELSE <<name>>

CodexToolCall(b, r) ==
    LET call == [name |-> CanonicalName(r.name, IF r.payload = "function_call" THEN r.namespace ELSE <<>>),
                 use |-> r.call, input |-> r.input, invocation |-> Len(b.turn.invocations),
                 output |-> "", status |-> "pending", started |-> r.when, ended |-> 0, raw |-> <<>>]
    IN [b EXCEPT !.turn.calls = Append(@, call),
                 !.byCall = IF r.call = "" THEN @ ELSE Over([c \in {r.call} |-> Len(b.turn.calls) + 1], @)]

\* a non-zero exit code fails any tool, the patch phrase only apply_patch
OutputFails(name, output) ==
    \/ output = "exit code 1"
    \/ output = "verification failed" /\ name = <<"apply_patch">>
    \/ output # "agent id" /\ name = <<"spawn_agent">>

\* only a call that is still pending accepts an output
CodexToolOutput(c, r, raw) ==
    LET b == c.current
        open == {i \in DOMAIN b.turn.calls : b.turn.calls[i].status = "pending"}
        i == IF r.call \in DOMAIN b.byCall THEN b.byCall[r.call] ELSE 0
    IN IF i \notin open THEN [c EXCEPT !.errors = Append(@, raw)]
       ELSE [c EXCEPT !.current.turn.calls[i] =
               [@ EXCEPT !.output = r.output, !.ended = r.when, !.raw = raw,
                         !.status = IF OutputFails(b.turn.calls[i].name, r.output) THEN "failed" ELSE "success"]]

HandleResponseItem(c, r, raw) ==
    LET d == [c EXCEPT !.current.turn.ended = LaterTime(@, r.when)]
    IN CASE r.payload = "unreadable" -> [d EXCEPT !.errors = Append(@, raw)]
         [] r.payload = "message" -> [d EXCEPT !.current = RecordMessage(@, r)]
         [] r.payload \in {"function_call", "custom_tool_call"} -> [d EXCEPT !.current = CodexToolCall(@, r)]
         [] r.payload \in {"function_call_output", "custom_tool_call_output"} -> CodexToolOutput(d, r, raw)
         [] OTHER -> d

--------------------------------------------------------------------------------
(* events *)

\* what is spent since the last report, never the running total
Delta(usage) ==
    [NoTokens EXCEPT !.input = IF usage.input > usage.cached THEN usage.input - usage.cached ELSE 0,
                     !.cacheRead = usage.cached, !.output = usage.output]

ApplyEventMessage(b, r) ==
    CASE r.payload = "user_message" /\ r.text # <<>> /\ ~CodexInjected(r.text) ->
           [b EXCEPT !.turn.user = IF b.userMessageSet THEN @ \o r.text ELSE r.text,
                     !.userMessageSet = TRUE]
      [] r.payload = "token_count" ->
           LET n == Len(b.turn.invocations)
           IN IF n > 0 THEN [b EXCEPT !.turn.invocations[n].tokens = AddTokens(@, Delta(r.usage))]
              ELSE [b EXCEPT !.pendingTokens = AddTokens(@, Delta(r.usage))]
      [] r.payload = "task_complete" ->
           [b EXCEPT !.turn.status = IF @ = "unknown" THEN "success" ELSE @]
      [] r.payload = "turn_aborted" -> [b EXCEPT !.turn.status = "interrupted"]
      [] OTHER -> b

ReadEventMessage(c, r) ==
    LET started == r.payload = "task_started" /\ r.window > 0
        d == [c EXCEPT !.contextWindow = IF started THEN r.window ELSE @]
    IN IF c.current = None THEN d
       ELSE [d EXCEPT !.current =
                 ApplyEventMessage([c.current EXCEPT !.contextWindow = IF started THEN r.window ELSE @], r)]
--------------------------------------------------------------------------------
(* rows *)

\* the turns read before their session's directory was known get it now
BackfillProject(turns, project) ==
    [i \in DOMAIN turns |->
        [turns[i] EXCEPT !.project = [name |-> IF @.name = "unknown" THEN project.name ELSE @.name,
                                      path |-> IF @.path = "" THEN project.path ELSE @.path]]]

ReadSessionMeta(c, r) ==
    LET project == [name |-> LastPathSegment(r.cwd), path |-> r.cwd]
        d == [c EXCEPT !.external = IF r.id # "" THEN r.id ELSE @,
                       !.isSubagent = @ \/ r.spawnedBy # "",
                       !.parent = IF r.spawnedBy # "" THEN r.spawnedBy ELSE @]
        e == [d EXCEPT !.project = project, !.turns = BackfillProject(@, project)]
    IN CASE r.cwd = "" -> d
         [] r.cwd # "" /\ c.current = None -> e
         [] OTHER -> [e EXCEPT !.current.turn.project = project]

ReadTurnContext(c, r) ==
    LET d == CodexFlush(c)
        path == IF r.cwd # "" THEN r.cwd ELSE c.project.path
        project == [name |-> IF path = "" THEN c.project.name ELSE LastPathSegment(path), path |-> path]
    IN [d EXCEPT !.seenTurnContext = TRUE, !.current = CodexTurnBuilder(d, project, r.when)]

ReadResponseItem(c, r, raw) ==
    CASE c.current # None -> HandleResponseItem(c, r, raw)
      [] c.current = None /\ ~c.seenTurnContext /\ InjectedPreTurn(r) -> c
      [] OTHER -> HandleResponseItem([c EXCEPT !.current = CodexTurnBuilder(c, c.project, r.when)], r, raw)

ReadCodex(c, r, raw) ==
    IF r = Unreadable THEN [c EXCEPT !.errors = Append(@, raw)]
    ELSE LET d == [c EXCEPT !.window = UpdateSessionTimes(@, r.when)]
         IN CASE r.type = "session_meta" -> ReadSessionMeta(d, r)
              [] r.type = "turn_context" -> ReadTurnContext(d, r)
              [] r.type = "response_item" -> ReadResponseItem(d, r, raw)
              [] r.type = "event_msg" -> ReadEventMessage(d, r)
              [] OTHER -> d

CodexParsed(c) ==
    LET f == CodexFlush(c)
    IN FinalizeSession([external |-> f.external, parent |-> f.parent, isSubagent |-> f.isSubagent,
                        window |-> f.window, errors |-> f.errors], f.turns)

CodexInit == rollout = <<>> /\ codex = NewCodex

ReadCodexRow ==
    /\ Len(rollout) < MaxCodexRows
    /\ \E r \in CodexRows :
          /\ rollout' = Append(rollout, r)
          /\ codex' = ReadCodex(codex, r, <<Len(rollout) + 1>>)

CodexSpec == CodexInit /\ [][ReadCodexRow]_codexVars
--------------------------------------------------------------------------------
(* what a rollout rs says, read at once *)

\* kinds of rows
OfType(type) == {r \in CodexRows : r.type = type}
ContextRows == OfType("turn_context")
ItemRows == OfType("response_item")
Items(payload) == {r \in OfType("response_item") : r.payload = payload}
Events(payload) == {r \in OfType("event_msg") : r.payload = payload}
Spoken ==
    {r \in Events("user_message") \cup {i \in Items("message") : i.role = "user"} :
        r.text # <<>> /\ ~CodexInjected(r.text)}
Replies == {r \in Items("message") : r.role = "assistant"}
Called == Items("function_call") \cup Items("custom_tool_call")
Outputs == Items("function_call_output") \cup Items("custom_tool_call_output")

Among(rs, kinds) == {n \in DOMAIN rs : rs[n] \in kinds}
Contexts(rs) == Among(rs, ContextRows)
\* a turn is open from the first context, or the first item that is not an injected preamble, on
Openings(rs) == Contexts(rs) \cup {n \in Among(rs, ItemRows) : ~InjectedPreTurn(rs[n])}
InTurn(rs) ==
    {n \in DOMAIN rs : \E m \in Openings(rs) : m < n \/ (m = n /\ rs[n] \in OfType("response_item"))}
\* the rows between two contexts
Segment(rs, n) == {m \in InTurn(rs) : \A k \in Contexts(rs) : m < k <=> n < k}
\* the turns that are kept: something was said or done in them
Segments(rs) ==
    {s \in {Segment(rs, n) : n \in InTurn(rs)} : s \cap Among(rs, Spoken \cup Replies \cup Called) # {}}
\* the i-th of them
NthOf(segments, i) ==
    CHOOSE s \in segments : Cardinality({t \in segments : Min(t) < Min(s)}) = i - 1
\* what was reported as spent in some rows
SpentIn(rs, rows) ==
    SumTokens([n \in DOMAIN rs |-> IF n \in rows /\ rs[n] \in Events("token_count") THEN Delta(rs[n].usage)
                                   ELSE NoTokens])

\* an interruption is final, then a failed call, then anything said or done, then the completion
StatusSaid(rs, t, rows) ==
    IF rows \cap Among(rs, Events("turn_aborted")) # {} THEN "interrupted"
    ELSE IF \E i \in DOMAIN t.calls : t.calls[i].status = "failed" THEN "failed"
    ELSE IF rows \cap Among(rs, Events("task_complete")) # {} \/ t.invocations # <<>> THEN "success"
    ELSE "unknown"
\* the turn t is what its rows say
TurnFaithful(rs, t, rows) ==
    /\ t.status = StatusSaid(rs, t, rows) /\ t.tokens = SpentIn(rs, rows)
    /\ Len(t.invocations) = Cardinality(rows \cap Among(rs, Replies))
    /\ \A j \in DOMAIN t.calls :
          LET raw == t.calls[j].raw
          IN raw # <<>> => raw[1] \in rows \cap Among(rs, Outputs) /\ rs[raw[1]].call = t.calls[j].use

(* CodexFaithful. Whatever the order of a rollout's rows - usage before or after the     *)
(* message it is for, outputs twice, late or without a call, a completion and an abort    *)
(* of one turn, session_meta after the first turn - each turn in which something was said  *)
(* or done is stored once, with the usage reported while it was open, no usage twice, the    *)
(* status its rows add up to and the project of the session; every output completes the       *)
(* call of its id or is one parse error (parser/codex/parser.go).                               *)
CodexFaithful ==
    LET session == CodexParsed(codex)
        turns == session.turns
        segments == Segments(rollout)
    IN /\ session.tokens = SpentIn(rollout, UNION segments)
       /\ Len(turns) = Cardinality(segments)
       /\ \A i \in DOMAIN turns :
             /\ turns[i].index = i /\ turns[i].ended <= session.window.ended
             /\ TurnFaithful(rollout, turns[i], NthOf(segments, i))
             /\ (\E r \in OfType("session_meta") : r.cwd # "" /\ Among(rollout, {r}) # {}) => turns[i].project.path # ""
       /\ \A n \in Among(rollout, Outputs) \cap InTurn(rollout) :
             LET calls == {c \in UNION {{<<i, j>> : j \in DOMAIN turns[i].calls} : i \in DOMAIN turns} :
                              turns[c[1]].calls[c[2]].raw = <<n>>}
             IN Cardinality(calls) + Cardinality({i \in DOMAIN session.errors : session.errors[i] = <<n>>}) = 1
=============================================================================
