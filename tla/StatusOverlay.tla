----------------------------- MODULE StatusOverlay -----------------------------
(***************************************************************************)
(* GET /v1/status (internal/httpapi/live.go): the page of stored sessions that   *)
(* ListLiveSessions answers, with the live table laid over it.  What is told of    *)
(* a session names it differently: a hook by the provider's uuid, a write to its    *)
(* transcript by the path, an ingest by the row's id as well.  So one session may     *)
(* have several entries in the table, and each must find the row it is about.          *)
(*                                                                                        *)
(* The store is that of Listings; a page is the set of its rows.                            *)
(***************************************************************************)
EXTENDS Listings

CONSTANTS
    Written,        \* the transcripts that are written to
    HookCalls,      \* what the agents' hooks report, and with which fields
    StatusFilters,  \* the filters asked with
    Watched,        \* the targets that can be watched, by id or uuid
    FirstNow,       \* the time at the start
    MaxTold         \* bound: events

VARIABLES
    live,           \* liveSessions, an event for each key
    clock,          \* events emitted, which is the time as well
    told            \* history: what was emitted within the retention window

statusVars == <<live, clock, told>>

Now == FirstNow + clock

--------------------------------------------------------------------------------
(* what is told of a session; "of" is the session it is about *)

Working == [e \in {"SessionStart", "UserPromptSubmit", "PreToolUse", "PostToolUse", "PreCompact", "PostCompact",
                   "SubagentStart"} |-> "active"] @@ [e \in {"Stop", "SubagentStop"} |-> "success"]
EventStatusFor(provider) ==
    CASE provider = "claude-code" -> [StopFailure |-> "failed", Notification |-> "awaiting_confirmation"] @@ Working
      [] provider = "codex" -> [PermissionRequest |-> "awaiting_confirmation"] @@ Working
      [] OTHER -> ("permission.asked" :> "awaiting_confirmation") @@ ("permission.replied" :> "active")
                  @@ ("session.error" :> "failed") @@ [e \in {"session.idle", "session.status.idle"} |-> "success"]
                  @@ [e \in {"session.status.busy", "session.status.retry"} |-> "active"]
\* an event that no provider maps stands for the word its name contains
LiveStatusForType(word) ==
    CASE word \in {"approval", "confirm", "permission", "waiting", "needs_input"} -> "awaiting_confirmation"
      [] word \in {"fail", "error", "denied"} -> "failed"
      [] word \in {"success", "complete", "stop"} -> "success"
      [] word \in {"start", "submit", "tool", "compact", "running", "active"} -> "active"
      [] OTHER -> "unknown"
LiveStatusFromTrace(status) ==
    IF status \in {"completed", "success"} THEN "success"
    ELSE IF status \in {"failed", "pending", "active", "awaiting_confirmation"} THEN status ELSE "unknown"

\* normalizeLiveEvent: no time is now
Told(type, session, at) ==
    [type |-> type, source |-> session.source, id |-> "", external |-> "", path |-> session.path, project |-> "",
     status |-> "active", at |-> IF at = 0 THEN Now ELSE at, n |-> clock, of |-> session]
LiveEventFromHook(h) ==
    LET session == Transcripts[h.of].session
        mapped == EventStatusFor(session.source)
    IN [Told("hook", session, h.at) EXCEPT
          !.id = session.external, !.path = IF h.path THEN @ ELSE "",
          !.status = IF h.event \in DOMAIN mapped THEN mapped[h.event] ELSE LiveStatusForType(h.event)]
LiveEventForActivity(x) == Told("session.activity", Transcripts[x].session, 0)

LatestSessionActivity(x) ==
    Max({Transcripts[x].session.ended, Transcripts[x].session.started}
        \cup UNION {{t.started, t.ended} : t \in Range(Transcripts[x].turns)})
LiveEventForSessionIngest(x) ==
    LET session == Transcripts[x].session
    IN [Told("ingest.session", session, LatestSessionActivity(x)) EXCEPT
          !.id = session.id, !.external = session.external, !.project = session.project,
          !.status = LiveStatusFromTrace(session.status)]

\* A row's id stands for a provider and a path, the uuid for one session and its subagents,
\* no name is another kind's, and a hook has its main session's uuid.
SessionOf(x) == Transcripts[x].session
NamesApart(s, t) ==
    /\ s.id \notin {t.external, t.path} /\ s.external # t.path
    /\ (s.id = t.id) <=> (s.source = t.source /\ s.path = t.path)
    /\ s.id = t.id => s.external = t.external
    /\ s.source = t.source /\ s.external = t.external /\ ~s.subagent /\ ~t.subagent => s.id = t.id
ASSUME StatusAssumption ==
    /\ FirstNow \in Nat
    /\ \A x \in DOMAIN Transcripts :
          /\ {"id", "source", "external", "path"} \subseteq DOMAIN SessionOf(x)
          /\ SessionOf(x).subagent \in BOOLEAN /\ "" \notin {SessionOf(x).id, SessionOf(x).external, SessionOf(x).path}
          /\ SessionOf(x).started \in Nat /\ SessionOf(x).ended \in Nat
    /\ \A x, y \in DOMAIN Transcripts : NamesApart(SessionOf(x), SessionOf(y))
    /\ \A h \in HookCalls : h.of \in DOMAIN Transcripts /\ ~SessionOf(h.of).subagent /\ h.at \in Nat
    /\ \A x \in Written : x \in DOMAIN Transcripts /\ LatestSessionActivity(x) \in Nat
    /\ \A f \in StatusFilters : DOMAIN f = DOMAIN NoFilter /\ f.limit \in Int

--------------------------------------------------------------------------------
(* the table *)

Key(e) == <<e.source, IF e.id # "" THEN e.id ELSE IF e.external # "" THEN e.external ELSE e.path>>
Supersedes(e, d) == e.at > d.at \/ (e.at = d.at /\ e.n > d.n)
Newest(events) == CHOOSE e \in events : \A d \in events \ {e} : Supersedes(e, d)

\* what comes last is kept, whatever its time
TellLatest(e) ==
    /\ clock < MaxTold /\ clock' = clock + 1
    /\ live' = {d \in live : Key(d) # Key(e)} \cup {e}
    /\ told' = told \cup {e}
Tell(e) ==
    /\ clock < MaxTold /\ clock' = clock + 1
    /\ live' = LET same == {d \in live : Key(d) = Key(e)}
               IN IF \A d \in same : Supersedes(e, d) THEN (live \ same) \cup {e} ELSE live
    /\ told' = told \cup {e}

StatusInit == live = {} /\ told = {} /\ clock = 0

HookIntake == \E h \in HookCalls : Tell(LiveEventFromHook(h)) /\ UNCHANGED listVars
Activity == \E x \in Written : Tell(LiveEventForActivity(x)) /\ UNCHANGED listVars
\* runFileForAnySource saves the transcript and tells of it
IngestFile ==
    \E x \in Written :
       LatestSessionActivity(x) <= Now /\ Save(x) /\ Tell(LiveEventForSessionIngest(x)) /\ UNCHANGED walk
\* what a full pass tells names no session, and has no key
FullPass == SaveSession /\ UNCHANGED statusVars
Vanish == DeleteSession /\ UNCHANGED statusVars
PruneLiveSessions ==
    /\ \E cutoff \in 1..Now :
          /\ live' = {e \in live : e.at >= cutoff} /\ told' = {e \in told : e.at >= cutoff}
    /\ UNCHANGED <<clock, listVars>>

StatusNext == HookIntake \/ Activity \/ IngestFile \/ FullPass \/ Vanish \/ PruneLiveSessions
StatusSpec == StatusInit /\ ListInit /\ [][StatusNext]_<<statusVars, listVars>>

--------------------------------------------------------------------------------
(* the request *)

CurrentStatus(session, lastTurn) ==
    IF "failed" \in {session, lastTurn} THEN "failed"
    ELSE IF "active" \in {session, lastTurn} THEN "active"
    ELSE IF lastTurn # "" THEN lastTurn ELSE IF session # "" THEN session ELSE "unknown"
LiveItem(x) ==
    LET s == Transcripts[x].session
        t == IF Transcripts[x].turns = <<>> THEN [status |-> "", started |-> 0, ended |-> 0] ELSE Last(Transcripts[x].turns)
        turnAt == FirstTime(t.ended, t.started, 0)
    IN [row |-> s.id, source |-> s.source, id |-> s.id, external |-> s.external, path |-> s.path,
        current |-> CurrentStatus(s.status, t.status), activity |-> FirstTime(turnAt, s.ended, s.started)]
\* the row of no stored session
LiveOnlyItem(e) ==
    [row |-> "", source |-> e.source, id |-> e.id, external |-> e.external, path |-> e.path,
     current |-> e.status, activity |-> e.at]

\* latest first; the order of ids, which settles a tie, is any
SortedByActivity(items) ==
    CHOOSE sorted \in Bijection(1..Cardinality(items), items) :
       \A i, j \in DOMAIN sorted : i < j => sorted[i].activity >= sorted[j].activity
ListLiveSessions(db, f) ==
    SortedByActivity({LiveItem(x) : x \in {y \in db : SessionAt(y) \in SessionWhere(db, f)}})

\* a hook without the path of a stored session is not recognised by its uuid
CorrelatesByOwnFields(e, row) ==
    /\ e.source = row.source
    /\ \/ e.id # "" /\ e.id = row.id
       \/ e.external # "" /\ e.external = row.external
       \/ e.path # "" /\ e.path = row.path
\* the provider's uuid is a hook's session id and a row's external one
Correlates(e, row) ==
    /\ e.source = row.source
    /\ \/ e.id # "" /\ e.id \in {row.id, row.external}
       \/ e.external # "" /\ e.external = row.external
       \/ e.path # "" /\ e.path = row.path

LiveEventMatchesFilter(e, f) ==
    /\ Allows(f.sources, e.source) /\ Allows(f.projects, e.project) /\ Allows(f.statuses, e.status)
    /\ f.sessions = {} \/ {e.id, e.external, e.path} \cap f.sessions # {}
    /\ InWindow(f, e.at)

ApplyLiveEvent(row, e) == [row EXCEPT !.current = e.status, !.activity = IF e.at > @ THEN e.at ELSE @]
About(row) == {e \in live : Correlates(e, row)}
Laid(row) == IF About(row) = {} THEN row ELSE ApplyLiveEvent(row, Newest(About(row)))
OverlayLiveSessions(rows, f, overflow) ==
    LET unused == {e \in live : LiveEventMatchesFilter(e, f) /\ \A row \in rows : ~Correlates(e, row)}
    IN {Laid(row) : row \in rows}
       \cup IF overflow \/ f.offset = 0 THEN {LiveOnlyItem(e) : e \in unused} ELSE {}

\* pairs would become products, so that only one target narrows the query
ApplyWatchTargetsToFilter(f, targets) ==
    IF Cardinality(targets) # 1 THEN f
    ELSE LET t == CHOOSE t \in targets : TRUE
         IN [f EXCEPT !.sources = @ \cup {t.source}, !.sessions = @ \cup {t.session}]
Matches(t, item) == t.source = item.source /\ t.session \in {item.id, item.external, item.path}

ListedAt(sorted, p) == {sorted[i] : i \in p.offset + 1..AtMost(p.offset + p.limit, Len(sorted))}
\* watching, the page is what is left; else rows of no stored session count, but move no offset
WatchPage(kept, offset) ==
    [items |-> kept, total |-> Cardinality(kept), next |-> NextOffset(offset, Cardinality(kept), Cardinality(kept))]
LivePage(items, offset, rows, total) ==
    [items |-> items, total |-> total, next |-> NextOffset(offset, rows, total)]

HandleStatus(filter, targets) ==
    LET f == ApplyWatchTargetsToFilter([filter EXCEPT !.subagents = FALSE], targets)
        p == Pagination(f, 100)
        sorted == ListLiveSessions(stored, f)
        rows == ListedAt(sorted, p)
        items == OverlayLiveSessions(rows, f, targets # {})
    IN IF targets # {} THEN WatchPage({i \in items : \E t \in targets : Matches(t, i)}, p.offset)
       ELSE LivePage(items, p.offset, Cardinality(rows), Max({Len(sorted), p.offset + Cardinality(items)}))

--------------------------------------------------------------------------------
(* A client reads page after page, until one has no next. *)
Pages(f) == [o \in 0..Cardinality(stored) |-> HandleStatus([f EXCEPT !.offset = o], {})]
Following(page, offset) == IF page.next < page.total THEN page.next ELSE offset
Walk(pages) ==
    LET read[k \in DOMAIN pages] == IF k = 0 THEN 0 ELSE Following(pages[read[k - 1]], read[k - 1])
    IN Range(read)
Shown(pages) == UNION {{<<o, i>> : i \in pages[o].items} : o \in Walk(pages)}

\* what a row's status comes from: a subagent's ingest has its parent's uuid and speaks for it
AboutSession(s) ==
    {e \in told : \/ e.of.id = s.id
                  \/ e.type = "ingest.session" /\ e.of.source = s.source /\ e.of.external = s.external}
Unseen(e) == \A x \in stored : <<e.of.source, e.of.external>> # <<SessionAt(x).source, SessionAt(x).external>>

Expected(x) ==
    LET about == AboutSession(SessionAt(x)) IN IF about = {} THEN LiveItem(x).current ELSE Newest(about).status
RowAgrees(x, rows) == Cardinality(rows) = 1 /\ \A r \in rows : r[2].current = Expected(x)
PagesAgree(f, shown) ==
    /\ \A x \in {y \in stored : SessionAt(y) \in SessionWhere(stored, [f EXCEPT !.subagents = FALSE])} :
          RowAgrees(x, {r \in shown : r[2].row = SessionAt(x).id})
    /\ \A r \in shown : r[1] # 0 => r[2].row # ""
    /\ \A e \in live : Unseen(e) /\ LiveEventMatchesFilter(e, f) => <<0, LiveOnlyItem(e)>> \in shown

\* A target names a main session by its row, or a session by its uuid. A query by a path finds no row,
\* and what a subagent's ingest tells has a row of its own only if that subagent is watched alone.
NamesSession(t) ==
    \A x \in DOMAIN Transcripts :
       t.session \notin {"", SessionOf(x).path} /\ (t.session = SessionOf(x).id => ~SessionOf(x).subagent)
Watching(targets) == HandleStatus(NoFilter, targets).items
\* a page of one narrowed query, of all of them else
WatchesAgree ==
    Cardinality(stored) <= 100 =>
       \A targets \in SUBSET {t \in Watched : NamesSession(t)} :
          Cardinality(targets) > 1 => Watching(targets) = UNION {Watching({t}) : t \in targets}

\* RowShowsNewest. What was told of a session last, by whichever of its names, is in the table and is what
\* its row shows (Server.Emit, overlayLiveSessions).
RowShowsNewest ==
    \A x \in stored : ~Transcripts[x].session.subagent => Laid(LiveItem(x)).current = Expected(x)

\* StatusAgrees. Whatever was told of a session, by whichever of its names, in whichever order
\* and before or after it was stored, its row shows the newest of it, else what its transcript
\* says. A client that reads all pages passes over no stored session and sees none twice; one
\* that is not stored yet is on the first page, and such rows are on no other. With no more
\* sessions stored than a page has room for, watching several shows what watching each of them shows
\* (overlayLiveSessions, handleStatus, applyWatchTargetsToFilter).  Before anything is told there is
\* nothing to lay over the rows.
StatusAgrees ==
    clock > 0 =>
       /\ \A f \in StatusFilters : \A pages \in {Pages(f)} : \A shown \in {Shown(pages)} : PagesAgree(f, shown)
       /\ WatchesAgree
=============================================================================
