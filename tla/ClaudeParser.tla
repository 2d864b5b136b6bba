------------------------------ MODULE ClaudeParser ------------------------------
(***************************************************************************)
(* internal/parser/claudecode: ParseEvents reads a transcript line by line and  *)
(* builds the session's turns. A step reads one line; the session file grows     *)
(* while the agent works and is parsed again from its start each time, so what    *)
(* ParseEvents returns (ClaudeParsed) is looked at after every line.                    *)
(***************************************************************************)
EXTENDS TurnTrace

CONSTANTS
    ClaudeLines,    \* the lines a transcript is made of: the unreadable one and the events
    MaxClaudeLines, \* bound: how long a transcript gets
    Notices,        \* what the task notifications say, by the paragraph that holds them
    Acks            \* the task id in the output of a background launch, "" when it has none

VARIABLES
    lines,          \* the transcript read so far
    claude          \* the state of ParseEvents

claudeVars == <<lines, claude>>

ClaudeAssumption ==
    /\ ClaudeLines \subseteq {Unreadable} \cup
         [type : STRING \ {"unreadable"}, session : STRING, when : Nat, meta : BOOLEAN, content : Seq(STRING),
          title : STRING, id : STRING, text : Seq(STRING), stop : STRING, usage : [DOMAIN NoTokens -> Nat],
          uses : Seq([name : Seq(STRING), use : STRING, input : Seq(STRING)]),
          results : Seq([use : STRING, output : STRING, error : BOOLEAN])]
    /\ Notices \in [DOMAIN Notices -> [use : STRING, status : STRING]]
    /\ Acks \in [DOMAIN Acks -> STRING]
ASSUME ClaudeAssumption

ClaudeEvent(type) ==
    [type |-> type, session |-> "s", when |-> 0, meta |-> FALSE, content |-> <<>>, title |-> "",
     id |-> "", text |-> <<>>, uses |-> <<>>, results |-> <<>>, usage |-> NoTokens, stop |-> ""]

ClaudeTurnBuilder(index, user, when) ==
    [turn |-> [Turn(index, when) EXCEPT !.user = user], byUse |-> <<>>, pending |-> <<>>]

NewClaude(isSubagent) ==
    [external |-> "", window |-> NoWindow, turns |-> <<>>, current |-> None, errors |-> <<>>,
     seenMsg |-> <<>>, completions |-> <<>>, aiTitle |-> "", customTitle |-> "", isSubagent |-> isSubagent]

--------------------------------------------------------------------------------
(* tool results *)

PendingCalls(b) == {i \in DOMAIN b.turn.calls : b.turn.calls[i].status = "pending"}
\* a call that has its result takes another
ResolveAnyCall(b, use) ==
    LET fits == IF use = "" THEN PendingCalls(b)
                ELSE {i \in DOMAIN b.turn.calls : use \in DOMAIN b.byUse /\ b.byUse[use] = i}
    IN IF fits = {} THEN 0 ELSE Min(fits)
\* the pending call of that use id; without one, the first pending call; 0 for none
ResolveToolCall(b, use) ==
    LET fits == IF use = "" THEN PendingCalls(b)
                ELSE {i \in PendingCalls(b) : use \in DOMAIN b.byUse /\ b.byUse[use] = i}
    IN IF fits = {} THEN 0 ELSE Min(fits)

ApplyResult(b, i, r) ==
    [b EXCEPT !.turn.calls[i] =
        [@ EXCEPT !.output = r.output, !.ended = r.when, !.raw = r.raw,
                  !.status = IF ~r.error THEN "success"
                             ELSE IF r.output = "declined" THEN "rejected" ELSE "failed"]]

AttachToolResult(p, r) ==
    LET i == ResolveToolCall(p.current, r.use)
    IN CASE i > 0 -> [p EXCEPT !.current = ApplyResult(@, i, r)]
         [] i = 0 /\ r.use # "" /\ r.use \notin DOMAIN p.current.byUse ->
              [p EXCEPT !.current.pending = Append(@, r)]
         [] OTHER -> [p EXCEPT !.errors = Append(@, r.raw)]

\* at the end of the turn every call it will have is there
ResolvePendingResult(p, r) ==
    LET i == ResolveToolCall(p.current, r.use)
    IN IF i > 0 THEN [p EXCEPT !.current = ApplyResult(@, i, r)]
       ELSE [p EXCEPT !.errors = Append(@, r.raw)]

ResolvePending(p) ==
    LET rs == p.current.pending
        after[k \in 0 .. Len(rs)] == IF k = 0 THEN p ELSE ResolvePendingResult(after[k - 1], rs[k])
    IN after[Len(rs)]

ClaudeFinish(p) ==
    LET q == ResolvePending(p)
        t == q.current.turn
    IN [q EXCEPT !.turns = Append(@, [t EXCEPT !.status = ResolveTurnStatus(t),
                                               !.components = FromTools(t.calls)]),
                 !.current = None]
ClaudeFlush(p) == IF p.current = None THEN p ELSE ClaudeFinish(p)

--------------------------------------------------------------------------------
(* assistant messages *)

ClaudeInvocationStatus(stop) ==
    CASE stop \in {"end_turn", "stop_sequence", "tool_use"} -> "success"
      [] stop = "max_tokens" -> "interrupted"
      [] OTHER -> "unknown"

\* the long-lived part of what was written to the cache is never more than the whole
Usage(u) ==
    [u EXCEPT !.cacheWriteLong = IF @ < u.cacheWrite THEN @ ELSE u.cacheWrite]

\* one message is one invocation, over however many lines, and its usage counts once
RecordAssistantMessage(p, e) ==
    LET b == p.current
        t == b.turn
        dup == e.id \in DOMAIN p.seenMsg
        continuation == dup /\ p.seenMsg[e.id].turn = t.index
        at == IF continuation THEN p.seenMsg[e.id].invocation ELSE Len(t.invocations) + 1
        tokens == IF dup THEN NoTokens ELSE Usage(e.usage)
        calls == [k \in DOMAIN e.uses |->
                    [name |-> e.uses[k].name, use |-> e.uses[k].use, input |-> e.uses[k].input,
                     invocation |-> at, output |-> "", status |-> "pending",
                     started |-> e.when, ended |-> 0, raw |-> <<>>]]
        LastCall(u) == Len(t.calls) + Max({k \in DOMAIN calls : calls[k].use = u})
        used == {calls[k].use : k \in DOMAIN calls} \ {""}
        byUse == Over([u \in used |-> LastCall(u)], b.byUse)
        lasted == [t.invocations EXCEPT ![at].ended = LaterTime(@, e.when)]
        turn == [t EXCEPT !.ended = LaterTime(@, e.when),
                          !.final = IF e.text = <<>> THEN @ ELSE e.text,
                          !.invocations =
                              IF continuation THEN lasted
                              ELSE Append(@, [tokens |-> tokens, ended |-> e.when,
                                              status |-> ClaudeInvocationStatus(e.stop)]),
                          !.tokens = AddTokens(@, tokens),
                          !.calls = @ \o calls]
    IN [p EXCEPT !.current = [b EXCEPT !.turn = turn, !.byUse = byUse],
                 !.seenMsg = IF e.id = "" \/ continuation THEN @
                             ELSE Over([x \in {e.id} |-> [turn |-> t.index, invocation |-> at]], @)]

--------------------------------------------------------------------------------
(* background tasks *)

IsNotice(text) == text # <<>> /\ Head(text) \in DOMAIN Notices
\* the message's text, or the payload of the queue operation; the later notice wins
ParseTaskNotification(p, e, raw) ==
    LET text == IF IsNotice(e.text) THEN e.text ELSE e.content
        notice == Notices[Head(text)]
    IN IF ~IsNotice(text) \/ notice.use = "" THEN p
       ELSE [p EXCEPT !.completions =
                Over([u \in {notice.use} |-> [status |-> notice.status, when |-> e.when, raw |-> raw]], @)]

AsyncCompletionStatus(status) ==
    CASE status = "completed" -> "success"
      [] status = "failed" -> "failed"
      [] status = "killed" -> "interrupted"
      [] OTHER -> "active"

IsAsyncLaunchAck(output) == output \in DOMAIN Acks
\* TaskStop names the task it stopped in its input
StoppedTaskIDs(turns) ==
    UNION {{Head(c.input) : c \in {d \in Range(turns[i].calls) :
                                      d.name = <<"TaskStop">> /\ d.status = "success" /\ d.input # <<>>}} :
             i \in DOMAIN turns}

Reconciled(call, completions, stopped) ==
    IF call.use \in DOMAIN completions
    THEN LET comp == completions[call.use]
             status == AsyncCompletionStatus(comp.status)
         IN [call EXCEPT !.output = "notified", !.status = status, !.raw = comp.raw,
                         !.ended = IF status = "active" THEN @ ELSE comp.when]
    ELSE IF call.status = "success" /\ IsAsyncLaunchAck(call.output) /\ Acks[call.output] # ""
    THEN [call EXCEPT !.status = IF Acks[call.output] \in stopped THEN "interrupted" ELSE "active"]
    ELSE call
\* a turn none of whose calls changed keeps its status: it follows from the same calls
ApplyAsyncCompletions(turns, completions) ==
    LET stopped == StoppedTaskIDs(turns)
        After(t) == [t EXCEPT !.calls = [i \in DOMAIN @ |-> Reconciled(@[i], completions, stopped)]]
    IN [i \in DOMAIN turns |-> [After(turns[i]) EXCEPT !.status = ResolveTurnStatus(After(turns[i]))]]
--------------------------------------------------------------------------------
(* lines *)

ClaudeInjected(text) == text # <<>> /\ (Head(text) = "injected" \/ IsLocalCommandInjection(text))

ResultOf(e, raw, k) == Over([when |-> e.when, raw |-> Append(raw, k)], e.results[k])
AttachAll(p, e, raw) ==
    LET after[k \in 0 .. Len(e.results)] ==
            IF k = 0 THEN p ELSE AttachToolResult(after[k - 1], ResultOf(e, raw, k))
    IN after[Len(e.results)]
AttachResults(p, e, raw) ==
    CASE e.results = <<>> -> p
      [] e.results # <<>> /\ p.current = None ->
           [p EXCEPT !.errors = @ \o [k \in DOMAIN e.results |-> Append(raw, k)]]
      [] OTHER -> AttachAll([p EXCEPT !.current.turn.ended = LaterTime(@, e.when)], e, raw)

\* a notice opens a turn, but is no prompt
ReadUser(p, e, raw) ==
    LET q == AttachResults(p, e, raw)
        prompt == IF IsNotice(e.text) THEN <<>> ELSE e.text
    IN IF ~IsNotice(e.text) /\ (e.text = <<>> \/ e.meta \/ ClaudeInjected(e.text)) THEN q
       ELSE LET f == ClaudeFlush(q)
            IN [f EXCEPT !.current = ClaudeTurnBuilder(Len(f.turns) + 1, prompt, e.when)]

ReadAssistant(p, e) ==
    RecordAssistantMessage(IF p.current # None THEN p
                           ELSE [p EXCEPT !.current = ClaudeTurnBuilder(Len(p.turns) + 1, <<>>, e.when)],
                           e)

ReadClaude(p, e, raw) ==
    IF e = Unreadable THEN [p EXCEPT !.errors = Append(@, raw)]
    ELSE LET seen == [p EXCEPT !.external = IF @ = "" THEN e.session ELSE @,
                               !.window = UpdateSessionTimes(@, e.when)]
             q == ParseTaskNotification(seen, e, raw)
         IN CASE e.type = "user" -> ReadUser(q, e, raw)
              [] e.type = "assistant" -> ReadAssistant(q, e)
              [] e.type = "ai-title" /\ e.title # "" -> [q EXCEPT !.aiTitle = e.title]
              [] e.type = "custom-title" /\ e.title # "" -> [q EXCEPT !.customTitle = e.title]
              [] OTHER -> q

\* what ParseEvents returns at the end of the transcript
ClaudeParsed(p) ==
    LET f == ClaudeFlush(p)
        title == IF f.customTitle # "" THEN f.customTitle ELSE f.aiTitle
    IN FinalizeSession([external |-> f.external, window |-> f.window, errors |-> f.errors,
                        title |-> IF f.isSubagent THEN "" ELSE title],
                       ApplyAsyncCompletions(f.turns, f.completions))

ClaudeInit ==
    /\ lines = <<>>
    /\ claude \in {NewClaude(b) : b \in BOOLEAN}

ReadClaudeLine ==
    /\ Len(lines) < MaxClaudeLines
    /\ \E e \in ClaudeLines :
          /\ lines' = Append(lines, e)
          /\ claude' = ReadClaude(claude, e, <<Len(lines) + 1>>)

ClaudeSpec == ClaudeInit /\ [][ReadClaudeLine]_claudeVars
--------------------------------------------------------------------------------
(* what a transcript ls says, read at once *)

Of(ls, type) == {n \in DOMAIN ls : ls[n].type = type}
ResultsRead(ls) == UNION {{<<n, k>> : k \in DOMAIN ls[n].results} : n \in Of(ls, "user")}
CallsOf(turns) == UNION {{<<t, i>> : i \in DOMAIN turns[t].calls} : t \in DOMAIN turns}
\* the first line of each message, and every line that has no message id
Billed(ls) ==
    {n \in Of(ls, "assistant") :
        ls[n].id = "" \/ \A m \in Of(ls, "assistant") : ls[m].id = ls[n].id => n <= m}
NoticeIn(e) == IF IsNotice(e.text) THEN e.text ELSE e.content
NoticesOf(ls, use) ==
    {n \in DOMAIN ls \ Of(ls, "unreadable") :
        IsNotice(NoticeIn(ls[n])) /\ use # "" /\ Notices[Head(NoticeIn(ls[n]))].use = use}
LastNotice(ls, use) == Notices[Head(NoticeIn(ls[Max(NoticesOf(ls, use))]))].status
LastTitle(ls, type) ==
    LET titled == {n \in Of(ls, type) : ls[n].title # ""}
    IN IF titled = {} THEN "" ELSE ls[Max(titled)].title

\* every tool result completes one call, of its own use id, or is reported as one parse error
ResultsKept(ls, turns, errors) ==
    /\ \A r \in ResultsRead(ls) :
          LET calls == {c \in CallsOf(turns) : turns[c[1]].calls[c[2]].raw = r}
              reports == {i \in DOMAIN errors : errors[i] = r}
          IN /\ Cardinality(calls) + Cardinality(reports) = 1
             /\ \A c \in calls : ls[r[1]].results[r[2]].use \in {"", turns[c[1]].calls[c[2]].use}
    /\ \A c \in CallsOf(turns) : LET call == turns[c[1]].calls[c[2]]
                                  IN call.raw = <<>> <=> call.status = "pending"

\* a background task counts as done only when a notice said so, and as running only while
\* neither a notice nor TaskStop ended it
TasksHonest(ls, before, after) ==
    \A c \in CallsOf(after) :
        LET was == before[c[1]].calls[c[2]]
            call == after[c[1]].calls[c[2]]
            told == NoticesOf(ls, call.use) # {}
            last == LastNotice(ls, call.use)
            launched == was.status = "success" /\ was.output \in {o \in DOMAIN Acks : Acks[o] # ""}
            stopped == \E d \in CallsOf(before) :
                          LET stop == before[d[1]].calls[d[2]]
                          IN /\ stop.name = <<"TaskStop">> /\ stop.status = "success"
                             /\ stop.input # <<>> /\ Head(stop.input) = Acks[was.output]
        IN CASE told /\ last = "completed" -> call.status = "success"
             [] told /\ last = "failed" -> call.status = "failed"
             [] told /\ last = "killed" -> call.status = "interrupted"
             [] told /\ last \notin {"completed", "failed", "killed"} -> call.status = "active"
             [] ~told /\ launched -> call.status = IF stopped THEN "interrupted" ELSE "active"
             [] OTHER -> call.status = was.status

(* ClaudeFaithful. However the lines of a transcript are interleaved - results before *)
(* their calls, twice or for another turn, one message over several lines or replayed  *)
(* in a later turn, notices before, after or without their launch - the session that    *)
(* is stored accounts for all of it: every result completes one call or is one parse      *)
(* error, every message's usage counts once, a background task has the outcome it was      *)
(* last said to have, the user's title beats the generated one, no turn ends after its      *)
(* session does (parser/claudecode/parser.go).                                               *)
ClaudeFaithful ==
    LET session == ClaudeParsed(claude)
        flushed == ClaudeFlush(claude)
    IN /\ ResultsKept(lines, flushed.turns, session.errors)
       /\ session.tokens = SumTokens([n \in DOMAIN lines |-> IF n \in Billed(lines) THEN Usage(lines[n].usage)
                                                             ELSE NoTokens])
       /\ session.tokens.cacheWriteLong <= session.tokens.cacheWrite
       /\ \A i \in DOMAIN session.turns :
             /\ session.turns[i].index = i
             /\ session.turns[i].tokens = TokensOf(session.turns[i].invocations)
             /\ session.turns[i].ended <= session.window.ended
       /\ TasksHonest(lines, flushed.turns, session.turns)
       /\ session.title = IF claude.isSubagent THEN ""
                          ELSE IF LastTitle(lines, "custom-title") # "" THEN LastTitle(lines, "custom-title")
                          ELSE LastTitle(lines, "ai-title")
=============================================================================
