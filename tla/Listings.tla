-------------------------------- MODULE Listings --------------------------------
(***************************************************************************)
(* internal/store/sqlite/listings.go with internal/query: what the read API and    *)
(* the CLI list, and how often. The rows follow from the transcripts that are        *)
(* stored; a transcript is stored, stored again when it has grown, and deleted in      *)
(* one transaction. A page of turns is two reads, the rows and their count, and a       *)
(* client walks the pages while the daemon stores.                                       *)
(*                                                                                       *)
(* A listing is the set of its rows; a time is a number, 0 the missing one, which          *)
(* no lower bound admits and every upper bound does.                                         *)
(***************************************************************************)
EXTENDS TurnTrace

CONSTANTS
    Transcripts,   \* what can be stored, by name: a session with its turns and their calls
    Grown,         \* pairs of names: the second is the first, grown
    DeclaredMCPs,  \* the MCP servers the agents' settings declare
    Filters,       \* the filters asked with
    PageLimit      \* the size of the pages of a walk

VARIABLES
    stored,        \* the transcripts in the store
    walk           \* a client's walk through the pages of ListTurns, newest first

listVars == <<stored, walk>>

\* Transcripts are appended to: a session has one later version or the other, which keeps the
\* turns there were and makes none of them earlier.  A time is a number.
ASSUME ListAssumption ==
    /\ PageLimit \in Nat \ {0}
    /\ \A x \in DOMAIN Transcripts :
          /\ DOMAIN Transcripts[x].turns \subseteq Nat
          /\ \A i \in DOMAIN Transcripts[x].turns :
                /\ {"started", "ended"} \subseteq DOMAIN Transcripts[x].turns[i]
                /\ Transcripts[x].turns[i].started \in Nat /\ Transcripts[x].turns[i].ended \in Nat
    /\ \A x, y \in DOMAIN Transcripts :
          x # y /\ Transcripts[x].session.id = Transcripts[y].session.id =>
             <<x, y>> \in Grown \/ <<y, x>> \in Grown

maxPageSize == 500
NoFilter ==
    [sources |-> {}, projects |-> {}, sessions |-> {}, statuses |-> {}, since |-> 0, until |-> 0,
     subagents |-> FALSE, limit |-> 0, offset |-> 0]

--------------------------------------------------------------------------------
(* the rows *)

RowOf(row, other) ==
    [f \in DOMAIN row \cup DOMAIN other |-> IF f \in DOMAIN row THEN row[f] ELSE other[f]]
SessionAt(x) == RowOf([turns |-> Len(Transcripts[x].turns)], Transcripts[x].session)
Sessions(db) == {SessionAt(x) : x \in db}
\* a turn's row has its session's project and mark, and is read with its session
TurnRow(x, i) ==
    RowOf([id |-> <<Transcripts[x].session.id, i>>, session |-> SessionAt(x), index |-> i,
           project |-> Transcripts[x].session.project, subagent |-> Transcripts[x].session.subagent],
          Transcripts[x].turns[i])
Turns(db) == UNION {{TurnRow(x, i) : i \in DOMAIN Transcripts[x].turns} : x \in db}
CallRow(t, k) ==
    RowOf([turn |-> t, index |-> k, kind |-> ClassifyToolKind(t.calls[k].name)], t.calls[k])
Calls(db) == UNION {{CallRow(t, k) : k \in DOMAIN t.calls} : t \in Turns(db)}
InvocationRow(t, k) == RowOf([turn |-> t, index |-> k], t.invocations[k])
Invocations(db) == UNION {{InvocationRow(t, k) : k \in DOMAIN t.invocations} : t \in Turns(db)}
Components(db) == UNION {{RowOf([turn |-> t], c) : c \in FromTools(t.calls)} : t \in Turns(db)}
\* raw events and parse errors, with their session's mark; one without a time of its own has
\* that of its import
Lines(db, kind) ==
    UNION {{[line |-> k, source |-> s.source, external |-> s.external, subagent |-> s.subagent,
             at |-> IF s[kind][k] # 0 THEN s[kind][k] ELSE s.created] : k \in DOMAIN s[kind]} : s \in Sessions(db)}

\* what adds up a number of each row: the row once for each unit of it
Units(weight) == UNION {{<<row, n>> : n \in 1..weight[row]} : row \in DOMAIN weight}
Total(Of(_), S) == Cardinality(Units([row \in S |-> Of(row)]))

FirstTime(started, ended, otherwise) == IF started # 0 THEN started ELSE IF ended # 0 THEN ended ELSE otherwise
ActivityTime(row) == FirstTime(row.started, row.ended, 0)
EffectiveTime(session) == FirstTime(session.started, session.ended, session.created)

ASSUME GrownAssumption ==
    /\ IsFiniteSet(Turns(DOMAIN Transcripts))
    /\ \A x, y \in DOMAIN Transcripts : <<x, y>> \in Grown =>
          /\ Transcripts[x].session.id = Transcripts[y].session.id
          /\ Transcripts[x].session.subagent = Transcripts[y].session.subagent
          /\ DOMAIN Transcripts[x].turns \subseteq DOMAIN Transcripts[y].turns
          /\ \A i \in DOMAIN Transcripts[x].turns :
                ActivityTime(Transcripts[x].turns[i]) <= ActivityTime(Transcripts[y].turns[i])

\* What is stored of a transcript. A turn has the tokens of its invocations, and may have more.
IsList(s) == s \in Seq(Range(s))
ASSUME RowAssumption ==
    \A x \in DOMAIN Transcripts :
       /\ IsList(Transcripts[x].turns)
       /\ {"id", "source", "project", "external", "subagent"} \subseteq DOMAIN Transcripts[x].session
       /\ Transcripts[x].session.subagent \in BOOLEAN
       /\ \A i \in DOMAIN Transcripts[x].turns :
             LET turn == Transcripts[x].turns[i]
                 SpentBy(k) == turn.invocations[k].tokens.input
             IN /\ {"status", "calls", "invocations", "tokens"} \subseteq DOMAIN turn
                /\ IsList(turn.calls) /\ IsList(turn.invocations) /\ turn.tokens.input \in Nat
                /\ \A k \in DOMAIN turn.calls : {"name", "status"} \subseteq DOMAIN turn.calls[k]
                /\ \A k \in DOMAIN turn.invocations : "tokens" \in DOMAIN turn.invocations[k] /\ SpentBy(k) \in Nat
                /\ Total(SpentBy, DOMAIN turn.invocations) <= turn.tokens.input

--------------------------------------------------------------------------------
(* the filters *)

Allows(ids, id) == ids = {} \/ id \in ids
InWindow(f, t) == (f.since = 0 \/ t >= f.since) /\ (f.until = 0 \/ t < f.until)
Names(f, session) == f.sessions = {} \/ session.id \in f.sessions \/ session.external \in f.sessions
SubagentExclude(f, row) == f.subagents \/ ~row.subagent

SessionWhere(db, f) ==
    {s \in Sessions(db) : Allows(f.sources, s.source) /\ Allows(f.projects, s.project) /\ Names(f, s)
                          /\ Allows(f.statuses, s.status) /\ SubagentExclude(f, s) /\ InWindow(f, EffectiveTime(s))}
TurnWhere(db, f) ==
    {t \in Turns(db) : Allows(f.sources, t.session.source) /\ Allows(f.projects, t.project)
                       /\ Names(f, t.session) /\ Allows(f.statuses, t.status)
                       /\ SubagentExclude(f, t) /\ InWindow(f, ActivityTime(t))}
\* neither a project nor a status restricts them
RawEventWhere(db, f) ==
    {e \in Lines(db, "raws") :
        /\ Allows(f.sources, e.source) /\ SubagentExclude(f, e) /\ InWindow(f, e.at)
        /\ \/ f.sessions = {} \/ e.external \in f.sessions
           \/ \E s \in Sessions(db) : s.id \in f.sessions /\ s.external = e.external}
\* nor does a session
ParseErrorWhere(db, f) ==
    {e \in Lines(db, "errors") : Allows(f.sources, e.source) /\ SubagentExclude(f, e) /\ InWindow(f, e.at)}
\* the one of the four filters that forgets the subagents
JoinedTurnUnmarked(db, f, t, time) ==
    /\ Allows(f.sources, t.session.source) /\ Allows(f.projects, t.project) /\ Names(f, t.session)
    /\ Allows(f.statuses, t.status) /\ InWindow(f, time)
\* for what is joined with its turn and its session; the time is the listed row's own
JoinedTurnWhere(db, f, t, time) ==
    /\ Allows(f.sources, t.session.source) /\ Allows(f.projects, t.project) /\ Names(f, t.session)
    /\ Allows(f.statuses, t.status) /\ SubagentExclude(f, t.session) /\ InWindow(f, time)

ASSUME FilterAssumption ==
    \A f \in Filters :
       DOMAIN f = DOMAIN NoFilter /\ f.subagents \in BOOLEAN /\ f.since \in Nat /\ f.until \in Nat

HasRuntimeConstraint(f) ==
    f.sources # {} \/ f.projects # {} \/ f.sessions # {} \/ f.statuses # {} \/ f.since # 0 \/ f.until # 0

--------------------------------------------------------------------------------
(* the listings *)

Size(t) == Len(t.calls)
Input(t) == t.tokens.input

Summary(db, f) ==
    LET turns == TurnWhere(db, f)
    IN [turns |-> Cardinality(turns), tokens |-> Total(Input, turns), toolCalls |-> Total(Size, turns),
        invocations |-> Total(LAMBDA t : Len(t.invocations), turns),
        sessions |-> Cardinality(SessionWhere(db, f)), raws |-> Cardinality(RawEventWhere(db, f)),
        errors |-> Cardinality(ParseErrorWhere(db, f))]

\* at the grain of turns in a window, where only the projects active in it are listed
ListProjectsWindowed(db, f) ==
    LET turns == {t \in Turns(db) : JoinedTurnWhere(db, f, t, ActivityTime(t))}
        Mine(p) == {t \in turns : t.project = p}
    IN {[project |-> p, sessions |-> Cardinality({t.session : t \in Mine(p)}), turns |-> Cardinality(Mine(p)),
         toolCalls |-> Total(Size, Mine(p))] : p \in {t.project : t \in turns}}
\* at the grain of sessions otherwise; a project stays in the store without sessions, and is
\* listed with a zero count unless another filter than the subagents' drops it
ListProjects(db, f, projects) ==
    LET Joined(p) == {s \in Sessions(db) : s.project = p /\ SubagentExclude(f, s)}
        Mine(p) == Joined(p) \cap SessionWhere(db, [f EXCEPT !.subagents = TRUE])
        CallsIn(s) == Total(Size, {t \in Turns(db) : t.session.id = s.id})
        listed == {p \in projects : Mine(p) # {} \/ (Joined(p) = {} /\ ~HasRuntimeConstraint(f))}
    IN IF f.since # 0 \/ f.until # 0 THEN ListProjectsWindowed(db, f)
       ELSE {[project |-> p, sessions |-> Cardinality(Mine(p)), turns |-> Total(LAMBDA s : s.turns, Mine(p)),
              toolCalls |-> Total(CallsIn, Mine(p))] : p \in listed}

ListModels(db, f) ==
    LET rows == {v \in Invocations(db) : JoinedTurnWhere(db, f, v.turn, v.at)}
        Key(v) == <<v.provider, v.model>>
        Mine(k) == {v \in rows : Key(v) = k}
    IN {[key |-> k, calls |-> Cardinality(Mine(k)), turns |-> Cardinality({v.turn : v \in Mine(k)}),
         tokens |-> Total(LAMBDA v : v.tokens.input, Mine(k))] : k \in {Key(v) : v \in rows}}

\* a turn without a time is in no bucket
ActivitySeries(db, f, width) ==
    LET rows == {t \in Turns(db) : ActivityTime(t) # 0 /\ JoinedTurnWhere(db, f, t, ActivityTime(t))}
        Bucket(t) == (ActivityTime(t) \div width) * width
        Mine(b) == {t \in rows : Bucket(t) = b}
    IN {[bucket |-> b, sessions |-> Cardinality({t.session : t \in Mine(b)}), turns |-> Cardinality(Mine(b)),
         toolCalls |-> Total(Size, Mine(b)), tokens |-> Total(Input, Mine(b))] : b \in {Bucket(t) : t \in rows}}

CallRows(db, f) == {c \in Calls(db) : JoinedTurnWhere(db, f, c.turn, c.at)}
ListTools(db, f) ==
    LET rows == CallRows(db, f)
        Key(c) == <<c.kind, c.name>>
        Mine(k) == {c \in rows : Key(c) = k}
    IN {[key |-> k, calls |-> Cardinality(Mine(k)), turns |-> Cardinality({c.turn : c \in Mine(k)}),
         failed |-> Cardinality({c \in Mine(k) : c.status = "failed"}),
         rejected |-> Cardinality({c \in Mine(k) : c.status = "rejected"})] : k \in {Key(c) : c \in rows}}
\* the calls behind one row of ListTools, all of them below the default limit
ListToolCalls(db, f, key, statuses) ==
    {c \in CallRows(db, f) : c.kind = key[1] /\ c.name = key[2] /\ Allows(statuses, c.status)}

Server(c) == SplitMCPName(c.name).server
\* the first declaration, by scope and file, of each source and name
Declared ==
    {d \in DeclaredMCPs : \A e \in DeclaredMCPs : (e.source = d.source /\ e.name = d.name) => d.rank <= e.rank}
ListMCPsCore(db, f) ==
    LET rows == {c \in CallRows(db, f) : c.kind = "mcp"}
        Key(c) == <<c.turn.session.source, Server(c)>>
        Mine(k) == {c \in rows : Key(c) = k}
        declared == {<<d.source, d.name>> : d \in Declared}
        keys == {Key(c) : c \in rows} \cup (IF HasRuntimeConstraint(f) THEN {} ELSE declared)
    IN {[key |-> k, calls |-> Cardinality(Mine(k)), turns |-> Cardinality({c.turn : c \in Mine(k)}),
         tools |-> Cardinality({c.name : c \in Mine(k)}), declared |-> k \in declared] : k \in keys}
ComponentAvailability(db, f, kind, key) ==
    Cardinality({c \in Components(db) : c.kind = kind /\ <<c.turn.session.source, Head(c.name)>> = key
                                        /\ JoinedTurnWhere(db, f, c.turn, ActivityTime(c.turn))})
ListMCPs(db, f) ==
    {RowOf([availability |-> ComponentAvailability(db, f, "mcp_server", m.key)], m) : m \in ListMCPsCore(db, f)}
ListUnusedMCPs(db) == {m \in ListMCPsCore(db, NoFilter) : m.declared /\ m.calls = 0}

--------------------------------------------------------------------------------
(* pages *)

AtMost(n, bound) == IF n < bound THEN n ELSE bound
Pagination(f, default) ==
    LET limit == IF f.limit <= 0 THEN default ELSE f.limit
    IN [limit |-> IF limit > maxPageSize THEN maxPageSize ELSE limit, offset |-> IF f.offset > 0 THEN f.offset ELSE 0]
\* the offset of the page's last row, counted from one
NextOffsetSkipping(offset, count, total) ==
    IF offset >= total THEN total ELSE AtMost(offset + count + 1, total)
NextOffset(offset, count, total) ==
    IF offset >= total THEN total ELSE IF offset + count < total THEN offset + count ELSE total
\* the default order: the latest first, and by their index at one time
TurnOrder(a, b) == ActivityTime(a) > ActivityTime(b) \/ (ActivityTime(a) = ActivityTime(b) /\ a.index < b.index)

\* the rows of a page, in the set of all; those that tie come in any order
InOrder(S, T) == \A s \in S, t \in T : ~TurnOrder(t, s)
IsPage(page, rows, p) ==
    \E skipped \in SUBSET (rows \ page) :
       /\ Cardinality(skipped) = AtMost(p.offset, Cardinality(rows))
       /\ Cardinality(page) = AtMost(p.limit, Cardinality(rows) - Cardinality(skipped))
       /\ InOrder(skipped, rows \ skipped) /\ InOrder(page, rows \ (skipped \cup page))

Idle == [stage |-> "idle", offset |-> 0, page |-> {}, seen |-> {}, first |-> {}, removed |-> FALSE]
PageFilter == [NoFilter EXCEPT !.limit = PageLimit, !.offset = walk.offset]
Known(db) == {t.id : t \in TurnWhere(db, NoFilter)}

ListInit == stored = {} /\ walk = Idle

\* first, removed: what there was when the walk began, and whether a deletion met the walk
StartWalk ==
    /\ walk.stage = "idle"
    /\ walk' = [Idle EXCEPT !.stage = "rows", !.first = Known(stored)]
    /\ UNCHANGED stored
ListTurnsRows ==
    /\ walk.stage = "rows"
    /\ LET rows == TurnWhere(stored, PageFilter)
       IN \E page \in SUBSET rows :
             /\ IsPage(page, rows, Pagination(PageFilter, 50))
             /\ walk' = [walk EXCEPT !.stage = "count", !.page = {t.id : t \in page}]
    /\ UNCHANGED stored
ListTurnsCount ==
    /\ walk.stage = "count"
    /\ LET total == Cardinality(TurnWhere(stored, PageFilter))
           next == NextOffset(Pagination(PageFilter, 50).offset, Cardinality(walk.page), total)
       IN walk' = [walk EXCEPT !.stage = IF next < total THEN "rows" ELSE "done", !.offset = next,
                               !.seen = @ \cup walk.page, !.page = {}]
    /\ UNCHANGED stored

\* what is stored again replaces the version there was
Save(x) ==
    /\ \A y \in stored : <<x, y>> \notin Grown
    /\ stored' = {y \in stored : <<y, x>> \notin Grown} \cup {x}
SaveSession == (\E x \in DOMAIN Transcripts \ stored : Save(x)) /\ UNCHANGED walk
DeleteSession ==
    /\ \E x \in stored : stored' = stored \ {x}
    /\ walk' = [walk EXCEPT !.removed = @ \/ walk.stage \in {"rows", "count"}]

ListNext == StartWalk \/ ListTurnsRows \/ ListTurnsCount \/ SaveSession \/ DeleteSession
ListSpec == ListInit /\ [][ListNext]_listVars
--------------------------------------------------------------------------------
(* TotalsAgree. The listings are counted by different queries over different tables, with   *)
(* the filter written four times (store/sqlite/listings.go). For every filter the projects,  *)
(* each and in all, count the turns and calls of one set of turns: in a window the turns in   *)
(* it, without one all turns of the sessions that the filter admits. That is the summary's set,*)
(* unless a status is asked for without a window: it is then the session's for the projects     *)
(* and the turn's for the summary. For every filter the activity adds up to the summary, a row   *)
(* of ListTools is the calls it drills down to, the servers are called as often as ListTools says,*)
(* the windows of a period partition its turns, and subagents count nowhere unless they are asked *)
(* for. The tools and the models add up to the summary, and a server was available in the turns    *)
(* that called it, only without a window: in one, a call is there by its own time.                  *)
Windowed(f) == f.since # 0 \/ f.until # 0
Timeless(f) == {t \in TurnWhere(stored, f) : ActivityTime(t) = 0}
SummaryOf(f) == Summary(stored, f)
Alone == {x \in stored : ~Transcripts[x].session.subagent}

TurnCount(row) == row.turns
CallCount(row) == row.calls
ToolCallCount(row) == row.toolCalls
TokenCount(row) == row.tokens
McpCallCount(tool) == IF tool.key[1] = "mcp" THEN tool.calls ELSE 0

\* no row of a project is ever deleted
Projects == {Transcripts[x].session.project : x \in DOMAIN Transcripts}
CountedTurns(f) ==
    IF Windowed(f) THEN TurnWhere(stored, f)
    ELSE {t \in Turns(stored) : t.session \in SessionWhere(stored, f)}
CountsMatch(listed, counted) ==
    /\ \A r \in listed : LET mine == {t \in counted : t.project = r.project}
                       IN r.turns = Cardinality(mine) /\ r.toolCalls = Total(Size, mine)
    /\ Total(TurnCount, listed) = Cardinality(counted)
ProjectsAddUp(f) ==
    /\ CountsMatch(ListProjects(stored, f, Projects), CountedTurns(f))
    /\ Windowed(f) \/ f.statuses = {} => CountedTurns(f) = TurnWhere(stored, f)
ActivityMatches(summary, activity, timeless) ==
    /\ summary.turns = Total(TurnCount, activity) + Cardinality(timeless)
    /\ summary.toolCalls = Total(ToolCallCount, activity) + Total(Size, timeless)
ActivityAddsUp(f, width) == ActivityMatches(SummaryOf(f), ActivitySeries(stored, f, width), Timeless(f))
CallsMatch(summary, tools, models) ==
    /\ summary.toolCalls = Total(CallCount, tools)
    /\ summary.invocations = Total(CallCount, models) /\ summary.tokens >= Total(TokenCount, models)
CallsAddUp(f) == ~Windowed(f) => CallsMatch(SummaryOf(f), ListTools(stored, f), ListModels(stored, f))
DrillDownsAgree(f) ==
    \A t \in ListTools(stored, f) :
       /\ t.calls = Cardinality(ListToolCalls(stored, f, t.key, {}))
       /\ t.failed = Cardinality(ListToolCalls(stored, f, t.key, {"failed"}))
\* a call of a server without a name is a call of no component
ServersMatch(tools, mcps, windowed) ==
    /\ Total(McpCallCount, tools) = Total(CallCount, mcps)
    /\ windowed \/ \A m \in mcps : m.key[2] # "" => m.availability = m.turns
ServersAgree(f) == ServersMatch(ListTools(stored, f), ListMCPs(stored, f), Windowed(f))
WindowsPartition(f) ==
    \A cut \in (f.since + 1)..(f.until - 1) :
       SummaryOf(f).turns = SummaryOf([f EXCEPT !.until = cut]).turns + SummaryOf([f EXCEPT !.since = cut]).turns
\* A subagent has its parent's external id, and asking for the raw events of a subagent's session
\* finds the parent's.
SameSummary(one, other, raws) ==
    [one EXCEPT !.raws = 0] = [other EXCEPT !.raws = 0] /\ (raws => one.raws = other.raws)
SubagentsNowhere(f, width) ==
    LET all == [f EXCEPT !.subagents = TRUE]
        asked == \E x \in stored \ Alone : Transcripts[x].session.id \in f.sessions
    IN ~f.subagents =>
          /\ SameSummary(SummaryOf(f), Summary(Alone, all), ~asked)
          /\ ActivitySeries(stored, f, width) = ActivitySeries(Alone, all, width)
          /\ ListModels(stored, f) = ListModels(Alone, all)
          /\ ListTools(stored, f) = ListTools(Alone, all)
          /\ ListMCPs(stored, f) = ListMCPs(Alone, all)
UnusedIsUnused ==
    \A m \in ListUnusedMCPs(stored) : \A c \in Calls(Alone) :
       c.kind = "mcp" => m.key # <<c.turn.session.source, Server(c)>>

TotalsAgree ==
    /\ UnusedIsUnused
    /\ \A f \in Filters :
          /\ ProjectsAddUp(f) /\ ActivityAddsUp(f, 4) /\ CallsAddUp(f) /\ DrillDownsAgree(f)
          /\ ServersAgree(f) /\ WindowsPartition(f) /\ SubagentsNowhere(f, 4)

\* GrainsAgree. "Without a window, session/turn grain give identical totals": the turns that the
\* projects count by their sessions are those they would count by turns (listings.go:342).
GrainsAgree ==
    walk = Idle => \A f \in Filters : ~Windowed(f) =>
       Total(TurnCount, ListProjects(stored, f, Projects)) = Total(TurnCount, ListProjectsWindowed(stored, f))

\* a turn that has one time in all versions of its session, and whose place no other can have
Fixed(id) ==
    \A t \in Turns(DOMAIN Transcripts), u \in Turns(DOMAIN Transcripts) :
       t.id = id => /\ u.id = id => ActivityTime(u) = ActivityTime(t)
                    /\ u.id # id => <<ActivityTime(u), u.index>> # <<ActivityTime(t), t.index>>

\* WalkComplete. A client that pages through the turns, newest first, while transcripts are stored and grow
\* sees every turn there was when it began, if none was deleted meanwhile: rows that arrive
\* move others back, never forward past the offset (Filter.pagination, NextOffset, makePage).
\* Of turns of several sessions with one time and index any order is the default one, so
\* that they may change places between two pages and one of them be passed over.
WalkComplete ==
    walk.stage = "done" /\ ~walk.removed => {id \in walk.first : Fixed(id)} \subseteq walk.seen

ListingsAgree == walk = Idle /\ stored # {} => TotalsAgree
=============================================================================
