------------------------------- MODULE MCRecords -------------------------------
(***************************************************************************)
(* From a line of a transcript to a row of a listing, checked side by side:    *)
(* each parser over the short transcripts of an alphabet of lines, the           *)
(* listings over a catalogue of parsed transcripts, and the status of some of      *)
(* them.  A scene picks the part that moves; state spaces add up.                   *)
(***************************************************************************)
EXTENDS ClaudeParser, CodexParser, OpencodeParser, StatusOverlay

VARIABLE scene

MCNotices ==
    [done |-> [use |-> "u", status |-> "completed"], running |-> [use |-> "u", status |-> "running"],
     killed |-> [use |-> "v", status |-> "killed"], nobody |-> [use |-> "", status |-> "completed"]]
MCAcks == [launched |-> "task", started |-> ""]
Use(name, use, input) == [name |-> name, use |-> use, input |-> input]
Result(use, output, error) == [use |-> use, output |-> output, error |-> error]
Spent(input, written, long) == [NoTokens EXCEPT !.input = input, !.cacheWrite = written, !.cacheWriteLong = long]
Bash(use) == Use(<<"Bash">>, use, <<>>)

Prompt == [ClaudeEvent("user") EXCEPT !.text = <<"ask">>, !.when = 2]
Results(rs) == [ClaudeEvent("user") EXCEPT !.results = rs, !.when = 3]
Says(id, uses) == [ClaudeEvent("assistant") EXCEPT !.id = id, !.uses = uses, !.usage = Spent(1, 1, 0), !.when = 1]
MCClaudeLines ==
    {Unreadable, Prompt, [Prompt EXCEPT !.meta = TRUE, !.results = <<Result("", "ok", FALSE)>>],
     [Prompt EXCEPT !.text = <<"done">>], [ClaudeEvent("queue-operation") EXCEPT !.content = <<"running">>],
     [Prompt EXCEPT !.text = <<"killed">>, !.results = <<Result("v", "declined", TRUE)>>],
     Says("m", <<Bash("u")>>), Says("m", <<Bash("v"), Bash("")>>),
     [Says("", <<Use(<<"TaskStop">>, "v", <<"task">>)>>) EXCEPT !.usage = Spent(2, 1, 3)],
     [Says("", <<>>) EXCEPT !.text = <<"answer">>, !.usage = Spent(4, 0, 0)],
     Results(<<Result("u", "launched", FALSE)>>), Results(<<Result("v", "ok", FALSE), Result("u", "ok", TRUE)>>),
     [ClaudeEvent("ai-title") EXCEPT !.title = "ai"], [ClaudeEvent("custom-title") EXCEPT !.title = "own"]}

Item(payload) == CodexRow("response_item", payload)
Msg(payload) == CodexRow("event_msg", payload)
MCCodexRows ==
    {Unreadable, [CodexRow("session_meta", "") EXCEPT !.id = "c", !.cwd = "repo", !.spawnedBy = "parent"],
     [CodexRow("turn_context", "") EXCEPT !.when = 1], [CodexRow("turn_context", "") EXCEPT !.cwd = "/", !.when = 3],
     [Item("message") EXCEPT !.role = "user", !.text = <<"injected">>],
     [Item("message") EXCEPT !.role = "user", !.text = <<"ask">>],
     [Item("message") EXCEPT !.role = "assistant", !.text = <<"answer">>, !.when = 2],
     [Item("function_call") EXCEPT !.name = "js", !.namespace = <<"mcp", "repl", "">>, !.call = "u"],
     [Item("custom_tool_call") EXCEPT !.name = "apply_patch", !.call = "v"],
     [Item("function_call_output") EXCEPT !.call = "u", !.output = "exit code 1"],
     [Item("custom_tool_call_output") EXCEPT !.call = "v", !.output = "verification failed"],
     Item("unreadable"),
     [Msg("token_count") EXCEPT !.usage = [input |-> 3, cached |-> 1, output |-> 1]],
     [Msg("user_message") EXCEPT !.text = <<"ask">>],
     [Msg("task_started") EXCEPT !.window = 8], Msg("task_complete"), Msg("turn_aborted")}

Part(kind) == OpencodeRow(kind)
MCSessionRow == [OpencodeRow("session") EXCEPT !.id = "o", !.directory = "repo", !.title = "t", !.parent = "p"]
MCMessageRows ==
    {[OpencodeRow("user") EXCEPT !.when = 2], OpencodeRow("tool-result"),
     [OpencodeRow("assistant") EXCEPT !.usage = Spent(1, 0, 0), !.reasoning = 1, !.finish = "stop", !.when = 1],
     [OpencodeRow("assistant") EXCEPT !.usage = Spent(2, 0, 0), !.error = "MessageAbortedError"],
     [OpencodeRow("assistant") EXCEPT !.data = FALSE], [OpencodeRow("assistant") EXCEPT !.json = FALSE]}
Tool(state) == [Part("tool") EXCEPT !.name = <<"read">>, !.call = "u", !.state = state]
MCPartRows ==
    {Tool("running"), [Tool("error") EXCEPT !.error = "denied", !.spill = "outside"],
     [Tool("completed") EXCEPT !.spill = "readable"], [Tool("completed") EXCEPT !.data = FALSE],
     [Part("text") EXCEPT !.text = <<"ask">>], [Part("text") EXCEPT !.text = <<"injected">>, !.synthetic = TRUE],
     [Part("text") EXCEPT !.text = <<"command">>], [Part("text") EXCEPT !.data = FALSE], Part("patch"),
     [Part("text") EXCEPT !.json = FALSE], [Tool("error") EXCEPT !.exit = "exit code 1", !.inline = "out"]}

PathOf == [a |-> "a.jsonl", b |-> "b.jsonl", c |-> "c.jsonl", d |-> "d.jsonl"]
\* a subagent has its parent's uuid, and another provider may use the same
Session(id, source, project, external) ==
    [id |-> id, path |-> PathOf[id], source |-> source, project |-> project, external |-> external,
     status |-> "completed", subagent |-> id = "b", started |-> 1, ended |-> 2, created |-> 5, raws |-> <<2, 0>>, errors |-> <<0>>]
Step(provider, model, at) == [provider |-> provider, model |-> model, at |-> at, tokens |-> Spent(1, 0, 0)]
ToolUse(name, status, at) == [name |-> name, status |-> status, at |-> at, input |-> <<"skill">>]
Mcp(status, at) == ToolUse(<<"mcp", "server", "tool">>, status, at)
Stored(status, started, ended, calls, steps, spent) ==
    [status |-> status, started |-> started, ended |-> ended, calls |-> calls,
     invocations |-> steps, tokens |-> Spent(spent, 0, 0)]
First == Stored("failed", 2, 0, <<ToolUse(<<"Read">>, "failed", 2), Mcp("success", 4)>>, <<Step("claude-code", "m", 2), Step("claude-code", "n", 4)>>, 2)
MCTranscripts ==
    [main |-> [session |-> Session("a", "claude-code", "p", "u"), turns |-> <<First>>],
     mainGrown |-> [session |-> Session("a", "claude-code", "p", "u"),
                    turns |-> <<First, Stored("success", 6, 7, <<Mcp("rejected", 6), Mcp("success", 7)>>, <<Step("claude-code", "m", 6)>>, 1)>>],
     agent |-> [session |-> Session("b", "claude-code", "q", "u"),
                turns |-> <<Stored("success", 3, 3, <<ToolUse(<<"mcp", "idle", "t">>, "success", 3)>>, <<Step("claude-code", "m", 3)>>, 1)>>],
     codex |-> [session |-> Session("c", "codex", "r", "u"),
                turns |-> <<Stored("interrupted", 0, 5, <<>>, <<>>, 3), Stored("unknown", 0, 0, <<ToolUse(<<"Read">>, "pending", 0)>>, <<>>, 0)>>],
     \* its turn ties with that of another session
     older |-> [session |-> Session("d", "codex", "unknown", "v"), turns |-> <<Stored("success", 2, 2, <<Mcp("failed", 2)>>, <<Step("codex", "m", 1)>>, 1)>>]]
MCGrown == {<<"main", "mainGrown">>}
MCDeclared ==
    {[source |-> "claude-code", name |-> "idle", rank |-> 1], [source |-> "claude-code", name |-> "idle", rank |-> 2],
     [source |-> "codex", name |-> "server", rank |-> 1]}
MCFilters ==
    {NoFilter, [NoFilter EXCEPT !.since = 2, !.until = 7], [NoFilter EXCEPT !.until = 5],
     [NoFilter EXCEPT !.sources = {"codex"}], [NoFilter EXCEPT !.projects = {"q"}, !.since = 1, !.subagents = TRUE],
     [NoFilter EXCEPT !.sessions = {"a", "v"}], [NoFilter EXCEPT !.statuses = {"success"}],
     [NoFilter EXCEPT !.sessions = {"b", "d"}], [NoFilter EXCEPT !.projects = {"p"}],
     [NoFilter EXCEPT !.statuses = {"completed"}]}

MCHookCalls ==
    {[of |-> "main", event |-> "Notification", at |-> 0, path |-> TRUE], [of |-> "main", event |-> "Stop", at |-> 4, path |-> FALSE],
     [of |-> "codex", event |-> "PermissionRequest", at |-> 0, path |-> FALSE], [of |-> "codex", event |-> "tool", at |-> 6, path |-> TRUE],
     [of |-> "main", event |-> "SubagentStop", at |-> 0, path |-> TRUE]}
MCStatusFilters ==
    {[NoFilter EXCEPT !.limit = 1, !.subagents = TRUE], [NoFilter EXCEPT !.limit = 2, !.sources = {"codex"}]}
Target(source, session) == [source |-> source, session |-> session]
MCWatched == {Target("claude-code", "u"), Target("codex", "u")}

MCInit ==
    /\ scene \in {"claude", "codex", "opencode", "lists", "status"}
    /\ ClaudeInit /\ CodexInit /\ OpencodeInit /\ StatusInit
    \* nobody walks through the turns while statuses are told
    /\ IF scene = "status" THEN stored = {} /\ walk = [Idle EXCEPT !.stage = "done"] ELSE ListInit
    /\ scene # "claude" => ~claude.isSubagent

AllJSON(ms) == \A m \in DOMAIN ms : ms[m].row.json /\ \A k \in DOMAIN ms[m].parts : ms[m].parts[k].json

MCNext ==
    \/ /\ scene = "claude" /\ (claude.isSubagent => Len(lines) < 2)
       /\ ReadClaudeLine /\ UNCHANGED <<scene, codexVars, opencodeVars, listVars, statusVars>>
    \/ /\ scene = "codex" /\ ReadCodexRow /\ UNCHANGED <<scene, claudeVars, opencodeVars, listVars, statusVars>>
    \* of a session with a row that is no JSON nothing is collected, whatever else is written
    \/ /\ scene = "opencode" /\ (AllJSON(messages) \/ messages' = messages)
       /\ OpencodeNext /\ UNCHANGED <<scene, claudeVars, codexVars, listVars, statusVars>>
    \* nothing is promised of a walk that a deletion has met
    \/ /\ scene = "lists" /\ ~walk.removed /\ ListNext /\ UNCHANGED <<scene, claudeVars, codexVars, opencodeVars, statusVars>>
    \/ /\ scene = "status" /\ StatusNext /\ "older" \notin stored'
       /\ UNCHANGED <<scene, claudeVars, codexVars, opencodeVars>>
=============================================================================
