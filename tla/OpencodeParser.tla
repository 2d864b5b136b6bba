------------------------------ MODULE OpencodeParser ------------------------------
(***************************************************************************)
(* internal/collector/opencode/collect.go and internal/parser/opencode: a         *)
(* session is rows of opencode's own database, which opencode adds and updates     *)
(* in place while toktop reads. CollectSessionFile reads the parts first and the    *)
(* messages after them, in two queries; ParseEvents goes through the rows: a turn    *)
(* runs from one user message to the next.                                            *)
(***************************************************************************)
EXTENDS TurnTrace

CONSTANTS
    SessionRow,        \* the session's row
    MessageRows,       \* the messages opencode writes
    PartRows,          \* the parts it writes under them
    MaxOpencodeRows    \* bound: messages and parts together

VARIABLES
    messages,  \* the database: the messages in order, each with its parts
    loaded,    \* the parts the collector has read, by message, or NotLoaded
    opencode   \* what was collected, and what ParseEvents made of it

opencodeVars == <<messages, loaded, opencode>>

NotLoaded == <<"not loaded">>

OpencodeRows ==
    [kind : STRING, when : Nat, json : BOOLEAN, data : BOOLEAN, text : Seq(STRING), synthetic : BOOLEAN,
     usage : [DOMAIN NoTokens -> Nat], reasoning : Nat, finish : STRING, error : STRING, name : Seq(STRING),
     call : STRING, input : Seq(STRING), state : STRING \cup {"completed"}, inline : STRING, spill : STRING, exit : STRING, id : STRING,
     title : STRING, directory : STRING, parent : STRING]
OpencodeAssumption == {SessionRow} \cup MessageRows \cup PartRows \subseteq OpencodeRows
ASSUME OpencodeAssumption

\* json: whether the row's data is JSON; data: whether it has the shape of its kind;
\* exit: what a command's exit code says, if it is not 0
OpencodeRow(kind) ==
    [kind |-> kind, when |-> 0, json |-> TRUE, data |-> TRUE, text |-> <<>>, synthetic |-> FALSE, usage |-> NoTokens,
     reasoning |-> 0, finish |-> "", error |-> "", name |-> <<>>, call |-> "", input |-> <<>>,
     state |-> "", inline |-> "", spill |-> "", exit |-> "", id |-> "", title |-> "", directory |-> "", parent |-> ""]

PartKinds == {"text", "tool", "reasoning", "step-start", "step-finish", "file"}

OpencodeTurn(o, when) ==
    [turn |-> [Turn(Len(o.turns) + 1, when) EXCEPT !.project = o.project], role |-> "", userParts |-> <<>>]

NewOpencode ==
    [external |-> "", title |-> "", project |-> "unknown", parent |-> "", isSubagent |-> FALSE,
     window |-> NoWindow, turns |-> <<>>, current |-> None, errors |-> <<>>]

ApplySession(o, e) ==
    [o EXCEPT !.external = IF e.id # "" THEN e.id ELSE @, !.title = IF e.title # "" THEN e.title ELSE @,
              !.project = IF e.directory # "" THEN e.directory ELSE @,
              !.isSubagent = @ \/ e.parent # "", !.parent = IF e.parent # "" THEN e.parent ELSE @]

--------------------------------------------------------------------------------
(* the turn *)

OpencodeEmpty(b) == b.userParts = <<>> /\ b.turn.final = <<>> /\ b.turn.invocations = <<>> /\ b.turn.calls = <<>>
OpencodeFinish(b) ==
    LET t == [b.turn EXCEPT !.user = b.userParts, !.tokens = TokensOf(b.turn.invocations)]
    IN [t EXCEPT !.status = ResolveTurnStatus(t), !.components = FromTools(t.calls)]
OpencodeFlush(o) ==
    IF o.current = None THEN o
    ELSE [o EXCEPT !.turns = IF OpencodeEmpty(o.current) THEN @ ELSE Append(@, OpencodeFinish(o.current)),
                   !.current = None]

\* an error's name comes before the reason the step ended for
OpencodeInvocationStatus(finish, error) ==
    IF error = "MessageAbortedError" \/ (error = "" /\ finish \in {"aborted", "cancelled", "canceled"}) THEN "interrupted"
    ELSE IF error # "" \/ finish = "error" THEN "failed" ELSE "success"

\* reasoning is output as well
MessageTokens(e) == [e.usage EXCEPT !.output = @ + e.reasoning]
OpencodeStep(e, raw) ==
    [tokens |-> MessageTokens(e), raw |-> raw, status |-> OpencodeInvocationStatus(e.finish, e.error),
     stop |-> IF e.finish # "" THEN e.finish ELSE e.error]

OpencodeAnswering(b, e) == [b EXCEPT !.role = "assistant", !.turn.ended = LaterTime(@, e.when)]
\* an aborted step leaves its turn as it was
OpencodeAnsweredUnmarked(t, step) == [t EXCEPT !.invocations = Append(@, step)]
OpencodeAnswered(t, step) ==
    [t EXCEPT !.invocations = Append(@, step), !.status = IF step.status = "interrupted" THEN "interrupted" ELSE @]
\* a message whose data does not decode is reported and gets no invocation
StartAssistant(o, e, raw) ==
    LET d == [o EXCEPT !.current = OpencodeAnswering(@, e)]
    IN IF ~e.data THEN [d EXCEPT !.errors = Append(@, raw)]
       ELSE [d EXCEPT !.current.turn = OpencodeAnswered(@, OpencodeStep(e, raw))]

\* the file a long output was spilled to, the output in the row, the error
ResolveOutput(e) ==
    CASE e.spill = "readable" -> "spilled"
      [] e.spill # "readable" /\ e.inline = "" -> e.error
      [] OTHER -> e.inline
\* a command's exit code is its result, not a failure of the tool
ToolStatus(e) ==
    CASE e.state = "completed" -> "success" [] e.state = "error" -> "failed" [] OTHER -> "pending"
ToolError(e) ==
    CASE ToolStatus(e) # "failed" -> ""
      [] ToolStatus(e) = "failed" /\ e.error # "" -> e.error
      [] ToolStatus(e) = "failed" /\ e.error = "" /\ e.exit # "" -> e.exit
      [] OTHER -> IF ResolveOutput(e) = "" THEN "tool reported error" ELSE ResolveOutput(e)

\* the call is the last invocation's
OpencodeCall(e, raw, invocation) ==
    [name |-> e.name, use |-> e.call, input |-> e.input, invocation |-> invocation,
     output |-> ResolveOutput(e), error |-> ToolError(e), status |-> ToolStatus(e), raw |-> raw]
OpencodeToolCall(b, e, raw) ==
    [b EXCEPT !.turn.calls = Append(@, OpencodeCall(e, raw, Len(b.turn.invocations)))]

OpencodeText(b, e) ==
    IF e.text = <<>> \/ e.synthetic THEN b
    ELSE IF b.role # "user" THEN [b EXCEPT !.turn.final = e.text]
    ELSE IF IsLocalCommandInjection(e.text) THEN b ELSE [b EXCEPT !.userParts = @ \o e.text]

HandlePart(o, e, raw) ==
    LET d == [o EXCEPT !.current.turn.ended = LaterTime(@, e.when)]
    IN IF e.kind \notin {"text", "tool"} THEN d
       ELSE IF ~e.data THEN [d EXCEPT !.errors = Append(@, raw)]
       ELSE [d EXCEPT !.current = IF e.kind = "text" THEN OpencodeText(@, e) ELSE OpencodeToolCall(@, e, raw)]

--------------------------------------------------------------------------------
(* ParseEvents and CollectSessionFile *)

ReadOpencode(p, row) ==
    LET e == row.row
        raw == row.raw
        o == [p EXCEPT !.window = UpdateSessionTimes(@, e.when)]
        opened == IF o.current = None THEN [o EXCEPT !.current = OpencodeTurn(o, e.when)] ELSE o
        flushed == OpencodeFlush(o)
    IN IF e.kind = "session" THEN ApplySession(o, e)
       ELSE IF e.kind = "user"
       THEN [flushed EXCEPT !.current = [OpencodeTurn(flushed, e.when) EXCEPT !.role = "user"]]
       ELSE IF e.kind = "assistant" THEN StartAssistant(opened, e, raw)
       ELSE IF e.kind \in PartKinds /\ o.current # None THEN HandlePart(o, e, raw)
       ELSE [o EXCEPT !.errors = Append(@, raw)]

OpencodeParsed(events) ==
    LET read[i \in 0 .. Len(events)] ==
            IF i = 0 THEN NewOpencode ELSE ReadOpencode(read[i - 1], events[i])
        f == OpencodeFlush(read[Len(events)])
    IN FinalizeSession([external |-> f.external, title |-> f.title, parent |-> f.parent,
                        isSubagent |-> f.isSubagent, window |-> f.window, errors |-> f.errors], f.turns)

\* the session's row, then each message followed by those of its parts that were loaded;
\* raw: the message and the part a row is
Collected(parts) ==
    LET Message(m) ==
            <<[row |-> messages[m].row, raw |-> <<m, 0>>]>>
            \o (IF m > Len(parts) THEN <<>>
                ELSE [k \in DOMAIN parts[m] |-> [row |-> parts[m][k], raw |-> <<m, k>>]])
        rows[m \in 0 .. Len(messages)] ==
            IF m = 0 THEN <<[row |-> SessionRow, raw |-> <<0, 0>>]>> ELSE rows[m - 1] \o Message(m)
    IN rows[Len(messages)]
\* the collector reports a role it does not know, and keeps the row
UnknownRole(e) == e.raw[1] > 0 /\ e.raw[2] = 0 /\ e.row.kind \notin {"user", "assistant"}
UnknownRoles(events) ==
    LET told[i \in 0 .. Len(events)] ==
            IF i = 0 THEN <<>>
            ELSE IF UnknownRole(events[i]) THEN Append(told[i - 1], events[i].raw) ELSE told[i - 1]
    IN told[Len(events)]

Nothing == [events |-> <<>>, session |-> None, reported |-> <<>>]
OpencodeInit == messages = <<>> /\ loaded = NotLoaded /\ opencode = Nothing

\* json_extract fails its query, and the query the session, on a row that is no JSON
LoadParts ==
    /\ loaded = NotLoaded
    /\ loaded' = IF \A m \in DOMAIN messages : \A k \in DOMAIN messages[m].parts : messages[m].parts[k].json
                 THEN [m \in DOMAIN messages |-> messages[m].parts] ELSE NotLoaded
    /\ opencode' = Nothing
    /\ UNCHANGED messages
CollectSessionFile ==
    /\ loaded # NotLoaded
    /\ LET events == Collected(loaded)
       IN opencode' = IF \A m \in DOMAIN messages : messages[m].row.json
                      THEN [events |-> events, session |-> OpencodeParsed(events),
                            reported |-> UnknownRoles(events)]
                      ELSE Nothing
    /\ loaded' = NotLoaded
    /\ UNCHANGED messages

(* what opencode does: it appends, and updates the row of a part under way *)
RowsWritten == Len(messages) + FoldLeft(LAMBDA n, m : n + Len(m.parts), 0, messages)
WriteMessage ==
    /\ RowsWritten < MaxOpencodeRows
    /\ \E r \in MessageRows : messages' = Append(messages, [row |-> r, parts |-> <<>>])
    /\ UNCHANGED <<loaded, opencode>>
WritePart ==
    /\ RowsWritten < MaxOpencodeRows
    /\ \E m \in DOMAIN messages : \E r \in PartRows : messages' = [messages EXCEPT ![m].parts = Append(@, r)]
    /\ UNCHANGED <<loaded, opencode>>
UpdatePart ==
    /\ \E m \in DOMAIN messages : \E k \in DOMAIN messages[m].parts :
          /\ messages[m].parts[k].state = "running"
          /\ messages' = [messages EXCEPT ![m].parts[k].state = "completed"]
    /\ UNCHANGED <<loaded, opencode>>

OpencodeNext == LoadParts \/ CollectSessionFile \/ WriteMessage \/ WritePart \/ UpdatePart
OpencodeSpec == OpencodeInit /\ [][OpencodeNext]_opencodeVars
--------------------------------------------------------------------------------
(* what the rows es of a session say, read at once *)

Kinds(es, kinds) == {i \in DOMAIN es : es[i].row.kind \in kinds}
\* where the turn of the i-th row starts: at the user's last message, or at the first answer
\* if there is none; 0 before the first message
StartOf(es, i) ==
    LET users == {j \in Kinds(es, {"user"}) : j <= i}
        answers == {j \in Kinds(es, {"assistant"}) : j <= i}
    IN IF users # {} THEN Max(users) ELSE IF answers # {} THEN Min(answers) ELSE 0
\* the rows of a kind that decode and are in a turn
Decoded(es, kind) == {i \in Kinds(es, {kind}) : es[i].row.data /\ StartOf(es, i) # 0}
Texts(es) == {i \in Decoded(es, "text") : es[i].row.text # <<>> /\ ~es[i].row.synthetic}
\* the rows of messages of the user's
ByUser(es) ==
    {i \in DOMAIN es : /\ StartOf(es, i) \in Kinds(es, {"user"})
                       /\ \A j \in Kinds(es, {"assistant"}) : j <= i => j < StartOf(es, i)}
Said(es) == {i \in Texts(es) \cap ByUser(es) : ~IsLocalCommandInjection(es[i].row.text)}
Replied(es) == Texts(es) \ ByUser(es)
\* the rows that matter; a turn is kept if it has one
Telling(es) == Said(es) \cup Replied(es) \cup Decoded(es, "assistant") \cup Decoded(es, "tool")
Starts(es) == {StartOf(es, i) : i \in Telling(es)}
\* what is a parse error
Lost(es) ==
    {i \in DOMAIN es : \/ es[i].row.kind \notin {"session", "user", "assistant"} \cup PartKinds
                       \/ es[i].row.kind \in PartKinds /\ StartOf(es, i) = 0
                       \/ es[i].row.kind \in {"assistant", "text", "tool"} /\ ~es[i].row.data}

\* the k-th of some rows, and the items that are rows, in their order
NthRow(rows, k) == CHOOSE i \in rows : Cardinality({j \in rows : j < i}) = k - 1
ListsRows(es, raws, rows) ==
    Len(raws) = Cardinality(rows) /\ \A k \in DOMAIN raws : raws[k] = es[NthRow(rows, k)].raw
RawsOf(items) == [k \in DOMAIN items |-> items[k].raw]

Aborted(e) == e.error = "MessageAbortedError" \/ (e.error = "" /\ e.finish \in {"aborted", "cancelled", "canceled"})
OpencodeOutcome(es, steps, tools, answers) ==
    IF \E i \in steps : Aborted(es[i].row) THEN "interrupted"
    ELSE IF \E i \in tools : es[i].row.state = "error" THEN "failed"
    ELSE IF steps \cup answers # {} THEN "success" ELSE "unknown"
\* the turn t is what the rows that start at s say
StretchFaithful(es, t, s) ==
    LET Here(rows) == {i \in rows : StartOf(es, i) = s}
        steps == Here(Decoded(es, "assistant"))
        tools == Here(Decoded(es, "tool"))
        answers == Here(Replied(es))
    IN /\ ListsRows(es, RawsOf(t.invocations), steps) /\ ListsRows(es, RawsOf(t.calls), tools)
       /\ \A k \in DOMAIN t.invocations : t.invocations[k].tokens = MessageTokens(es[NthRow(steps, k)].row)
       /\ \A k \in DOMAIN t.calls : t.calls[k].invocation = Cardinality({i \in steps : i < NthRow(tools, k)})
       /\ t.status = OpencodeOutcome(es, steps, tools, answers)
       /\ Range(t.user) = UNION {Range(es[i].row.text) : i \in Here(Said(es))}
       /\ t.final = IF answers = {} THEN <<>> ELSE es[Max(answers)].row.text
\* what a row costs
CostOf(e) == IF e.kind = "assistant" /\ e.data THEN MessageTokens(e) ELSE NoTokens

(* OpencodeFaithful. A session read while opencode writes to it, its parts and its        *)
(* messages in two queries, accounts for every row it was read from: each turn in which     *)
(* something was said or done is stored once, in its order; each message that decodes is one  *)
(* invocation with its usage, each tool part one call under the last invocation before it;     *)
(* an aborted step makes its turn interrupted, whatever the tools of the turn did; what the      *)
(* user said is all there and no text opencode injected counts as said.  The parser reports       *)
(* once each row of the wrong shape, with no message, or of no kind it knows; the collector        *)
(* once each message of a role it does not know, so that such a message is two parse errors.        *)
(* A session with a row that is no JSON is not collected at all                                      *)
(* (collector/opencode/collect.go, parser/opencode/parser.go).                                       *)
OpencodeFaithful ==
    opencode # Nothing =>
    LET es == opencode.events
        session == opencode.session
        starts == Starts(es)
    IN /\ session.tokens = SumTokens([i \in DOMAIN es |-> CostOf(es[i].row)])
       /\ Len(session.turns) = Cardinality(starts)
       /\ \A t \in DOMAIN session.turns :
             session.turns[t].index = t /\ StretchFaithful(es, session.turns[t], NthRow(starts, t))
       /\ ListsRows(es, session.errors, Lost(es))
       /\ ListsRows(es, opencode.reported, {i \in DOMAIN es : UnknownRole(es[i])})

(* UnknownRoleIgnored. collect.go:110-111 says that the parser ignores a message kind it     *)
(* does not recognize: the turns are those of the rows without such messages and their       *)
(* parts.  They are not: their texts and calls go to the turn of the message before them.      *)
UnknownRoleIgnored ==
    opencode # Nothing =>
    LET es == opencode.events
        unknown == {es[i].raw[1] : i \in {j \in DOMAIN es : UnknownRole(es[j])}}
        known == SelectSeq(es, LAMBDA e : e.raw[1] \notin unknown)
    IN opencode.session.turns = OpencodeParsed(known).turns
=============================================================================
