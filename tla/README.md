# A TLA+ model of toktop

toktop is a local daemon that ingests the transcripts of coding agents into SQLite,
keeps track of which sessions are live, and streams their transitions to consumers. This
directory holds TLA+ models of its concurrent core, TLC configurations that check them
on small instances, and TLAPS proofs about them. The modules are written from the Go
source; `PROJECT.json` maps each definition to the lines it stands for.

Paths below are relative to the repository; `httpapi/` means `internal/httpapi/`, and so on.

## 1. The system

One process, the daemon (`toktop daemon`), and short-lived CLI processes that talk to it
over HTTP or open the same SQLite file.

| Part | State it keeps | Operations | Modelled by |
|---|---|---|---|
| **Event log** `eventlog/` | bbolt bucket of events by id, one live snapshot | AppendWithID, LastID, MinID, ReplayRange, Prune, Save/LoadLiveSnapshot | `EventLog` |
| **Live event broker** `httpapi/{server,sse,live}.go` | `eventSeq`, `lastPublishedID`, `durableID`, `replayGap`, queue of events to persist, subscribers, `liveSessions` and its read index | Emit, persister, `GET /v1/stream`, `/v1/status` index, GC, retention prune, Close, NewServer | `LiveBroker` |
| **Ingest service** `runtime/` | job queue, semaphore, pending and dirty files, watcher, state, emit channel | Run, Pause, Resume, TriggerIngest, RunOnce, worker, flusher | `RuntimeService` |
| **Config loader** `config/` | snapshot, callbacks, config.json | Reload, Watch, Set | `ConfigStore`; Reload's publish-then-notify order in `RuntimeService` |
| **Ingest pipeline** `ingest/`, `collector/` | fingerprints of ingested files | RunFull, RunFile, StreamSessions, purgeVanished, metadata and title rounds | `IngestReconcile`; one abstract pass in `RuntimeService` |
| **SQLite store** `store/sqlite/` | sessions, turns, calls, search documents, raw events, offsets, parse errors, schema version | SaveIngest, SaveSessionIngest, resolveSubagentParents, migrate, prune, redact; listings | `SessionStore`, `DaemonLifecycle` (epoch), `Listings` |
| **Daemon lifecycle** `cli/` | flock, pid file, socket, init lock | start, autostart, stop, serve, uninstall | `DaemonLifecycle` |
| **Hook intake and spool** `httpapi/hook.go` | spool queue and byte budget | intake, spool, drop, Close | `HookSpool`; the event a hook becomes in `StatusOverlay` |
| **Hook installation** `cli/hooks_cmds.go` | an agent's settings file | install, uninstall | `HookSettings` |
| **Status overlay** `httpapi/live.go` | – | live table laid over stored sessions, pages, watch targets | `StatusOverlay` |
| **Transcript parsers** `parser/` | one pass over a transcript | ParseEvents of three providers | `TurnTrace`, `ClaudeParser`, `CodexParser`, `OpencodeParser` |
| **Read API** `store/sqlite/listings.go`, `query/` | – | listings, totals, pages | `Listings` |
| **Retention** `retention/` | – | prune of store and log, redaction | `IngestReconcile`, `LiveBroker` |
| Rules, handoff, redaction, search, output, diagnostics, web pages | – | text, I/O | not modelled |

How they meet: a hook, a `POST /v1/events` or the ingest service's *emit flusher* calls
`Server.Emit`; Emit assigns the id, updates the live table, fans out to the subscribers'
channels and queues the event for the persister. A stream handler replays from the log
and then reads its channel. The ingest service's run loop turns file events, ticks and
triggers into jobs; its worker runs them and emits; the loader's callback makes the loop
rebuild its watcher.

What is hard: an SSE client reconnects while events are between publish and persist, while
appends fail and prunes run; slow subscribers are cut off by the publisher; the process
dies with unpersisted events whose ids are used again; three goroutines ingest the same
files; queues are bounded and drop; `Run` must return from every path and still hand over
its last event; a reload may land while the watcher is being rebuilt. Around that core:
files change while a pass of either process reads them; daemons of different builds meet at
one database; people, editors and other runs write the same settings files; transcripts
are parsed while they grow, their lines in an order nobody promised; and one session is
named three ways before its row exists. `PROJECT.json` lists every hazard with its line and
the property that watches it.

## 2. Modules

* `EventLog` – the log as a set of events with distinct ids, and the store's operations as
  operators on it. `Prune` removes what the ascending walk passes: an event goes only when
  every older one does.
* `StreamFeed` – what a stream promises, with no machinery: numbered events, an attached
  consumer that advances one by one in order or is told to resync, at most once per
  connection. An abstract specification, not a translation.
* `LiveBroker` – the broker. `conn[c]` is the state of client c's handler goroutine
  (`phase`: hello, check, wait, page, tail), `cursor[c]` the Last-Event-ID the client holds.
  Emit is three steps (`EmitAssign`, `EmitPublish`, `EmitEnqueue`): it holds `emitMu`
  throughout, but handlers, the persister and GC run between the steps. `Persist` and
  `PersistFail` are the loop of `runEventPersister`; `ReplayCheck` … `ReplayRecord` follow
  `writeReplayEvents`; `Tailing`, `TailClosed` the tail loop; `Drop` every way a handler
  returns early. `CloseBegin` – `CloseFinish` are `Server.Close`; `Crash` and `NewServer` a
  restart.
* `MCLiveBroker`, `MCLiveScenes` – instances for TLC; the second has the steps of two questions about
  restarts, an action constraint that leaves out those of a connected client and of named
  events at once.
* `RuntimeService` – the ingest service. `pc` is where `Run` is; each select case is an
  action (`SelectReconcile`, `HandlePause`, `HandleResume`, `WatchEvent`, `DebounceFire`,
  `Tick`, `SelectDone`), and a case that sends several jobs goes through `Enqueue` one
  non-blocking send at a time. The worker takes a job, takes the semaphore and reads
  (`WorkerBegin`), and saves later (`WorkerEnd`). The deferred block is `Stop`,
  `EmitStopped`, `JoinFlusher`, `JoinWorker`.
* `MCRuntimeService` – instances for TLC.
* `SessionStore` – the database as a record of tables, and every write of ingest and
  retention as an operator on it: replace a file's rows, insert, resolve subagent parents
  until nothing changes, reconcile metadata, keep titles, prune, redact. Operators, no
  variables; a transaction is one application. The UPDATE that links subagents is repeated
  until it changes no row: its outcomes are the tables reached by linking children in some
  order of turns (`InTurns`) that leave none to link (`ResolveSubagentParents`).
* `IngestReconcile` – passes over one source in two processes, the daemon and `toktop
  ingest`: load fingerprints, walk, take fingerprints, read, batch, hand to the writer
  goroutine, the title round, metadata, purge; files change, scans hide, reads and saves fail
  and processes crash in between. It uses `SessionStore`.
* `DaemonLifecycle` – processes of two builds around the daemon lock, the pid file, the
  socket, the store's init lock and the stamped schema epoch; `daemon serve` opens the store
  twice (once to probe, once to serve), a wipe asks the guard first and runs under the init
  lock, and may be killed between its steps. The pid file is created (`TruncatePid`) and then
  written (`WritePid`); a stop that reads no pid in it (`NoPid`) goes straight to removing it, one
  that reads a pid asks the lock first (`ReadPid`, `ProbeStop`, `MatchPid`, `CleanPidfile`).
* `HookSpool` – the spool's counter (load, compare-and-swap), channel, writer and Close; a
  handler answers and emits its event after the spool took or dropped the body.
* `ConfigStore` – read-modify-rename by writers without a lock, edits in place, `Loader`
  with its mutex, watch and debounce.
* `HookSettings` – `hooks install` / `uninstall` against the owner of the file, who may put
  anything under an event, merge a handler into toktop's entry or leave lists empty. `FailToRead` is
  a file that is there and cannot be read.
* `MCControl` – the four above and the passes of `MCReconcile` side by side, one at a time.
* `TurnTrace` – what the parsers share: a turn's status, totals, names and components.
  `ClaudeParser`, `CodexParser`, `OpencodeParser` – the state of each `ParseEvents`; a step
  reads one line, and what would be returned is looked at after each, since a growing file
  is parsed whole each time. opencode's rows are also written while they are read, and a row that
  is no JSON fails the query that reads it.
  `ClaudeFaithful` and its siblings say what the session must be from the lines alone, and
  never mention the parser's state.
* `Listings` – the rows that follow from the stored transcripts, every listing with its four
  renderings of one filter, and a client that walks the pages while sessions are stored. A sum
  over rows (`Total`) is the number of its `Units`, each row paired with 1 .. its weight: that is
  a cardinality, about which one can argue without induction. `TotalsAgree` is the conjunction
  of named parts, one for each pair of queries that must agree.
* `StatusOverlay` – what hooks, file activity and ingests tell of a session, the table, and
  `handleStatus`. It extends `Listings`.
* `MCReconcile`, `MCRecords` – instances.
* `LiveBrokerProofs`, `RuntimeServiceProofs`, `IngestReconcileProofs` – theorems, each about
  the module it is named after; `DaemonProofs` about `DaemonLifecycle`, `HookSpool`, `ConfigStore` and `HookSettings`,
  `RecordsProofs` about `Listings` and `StatusOverlay`, `TranscriptProofs` about `TurnTrace` and
  `ClaudeParser`, `CodexOpencodeProofs` about `CodexParser` and `OpencodeParser`. `Recursion` –
  lemmas about recursive functions over 0 .. n, and induction, stated for sets.

`LiveBroker` extends `EventLog` and instantiates `StreamFeed` under the refinement mapping
`FeedOf`. Operators named for what they get wrong (`FanOutSkipping`, `AcquireUnguarded`,
…) are not part of any behaviour: each is a plausible bug that replaces one definition, and
some property then fails. They are listed as mutants in `PROJECT.json`.

### Abstractions

* **Data.** In the broker an event is an id, a session key and a time; payloads, types and
  statuses are left out. A client's filter (`watch`, `status_only`) is a set of keys. A transcript is
  its version number. History variables (`last`, `missed`, `tailLost`, `boot`,
  `lostChange`, `stopTimedOut`) belong to the model only.
* **Network.** A frame lost on the wire is a `Drop` before its write, since the client's
  cursor moves only with frames it receives. A client without a cursor adopts the id of
  the hello frame.
* **Merged steps.** `Persist` appends to the log and moves `durableID` in one step
  (`server.go:411`, `:422`): a handler that finds the log ahead of `durableID` waits, as it does before
  the append. `EmitAssign` leaves out the error of `json.Marshal` (`live.go:243-246`), which would
  skip an id: all fields of an event are strings, numbers and a time that was parsed, so it encodes.
* **Locks.** Code under one mutex that nobody can observe half done is one step (a replay
  page is read under `replayMu.RLock`, a subscription under `eventsMu`).
* **Time.** Cutoffs, timeouts and tickers may fall at any moment; `waitDurable` gives up at
  once or finds the log durable. The one-minute limit on unmapped-file passes is a choice.
* **An ingest pass** reads the versions of its files when it has taken the semaphore and
  saves them at its end; a failed pass keeps any subset of its batches. It saves and emits
  in one step, before it gives the semaphore back.
* **Order of sources.** The code goes through them in a fixed order, the model in any.
* **fsnotify** reports a write or not: it may coalesce, overflow, or have no watcher yet.
* Left out: counters, logging, status text, pings.
* **Ingest passes** (`IngestReconcile`). A transcript is its version, a title the version of
  the index it was read from, a size a number of batch units. One behaviour ingests one
  source, since sources share no row. Skills and MCP servers are scanned for claude-code
  only, thread titles exist for codex only, and opencode's fingerprint is a revision read at
  discovery.
* **Control.** A process is its own pid and pids are not reused. Removing the home beneath a
  running process sets `orphaned`, and that behaviour ends there. A hook body is its
  length. A config file is two keys; a settings file is what it has under each event (a list of
  entries or something else) and one bit for all other keys. An uninstalled plugin is a file removed whole.
* **Records.** A text is a sequence of named paragraphs, a tool's output one of the classes
  the parser tells apart, a tool's name its parts between `__`. Times are small numbers, 0
  the missing one. A catalogue of parsed transcripts stands for what can be stored; one of
  them has a grown version.
* **Status.** A page is a set of rows, the time the count of events. Rows and table are read
  at one moment; the code reads the rows first, and an event in between is like one a moment
  later. Ties of the order fall either way. `told` keeps what was emitted within the
  retention window. Every event has a source (one without would match any), and watch
  targets name an id or a uuid.

## 3. What TLC checks

`CHECK_DEADLOCK FALSE` everywhere: the daemon may stop and stay stopped, inputs run out.

| Run | Shows | Instance |
|---|---|---|
| `stream` | `ImplementsFeed` (safety refinement of `StreamFeed`: nothing is passed over without a resync), and under fairness `StreamProgress`, `PublishedIsSettled`, `CloseEnds` | one client with a filter, three ids, channel, queue and page of one, failing appends, all prunes |
| `restarts` | `NoSilentLoss` through a crash or a shutdown, `DurableIsLastID`, `TypeOK`; `CacheIsFresh`, `LiveCoversLog`, `RestartKeepsLive` | one restart, and steps in which either nobody is connected (one key, four ids, times that go backwards, a scan window of two, GC and retention) or no event names a session (three ids and a client) |
| `ingest_safety` | `StoreNeverGoesBack`, `ReportedFilesWait` | two sources, two files, one of which no source claims, queue of one, failures, one trigger |
| `ingest_live` | `ChangeIsIngested`, `RunReturns`, `StoppedIsHandedOver`, `WatcherIsCurrent` | one source, one file, two reloads, failures, cancellation |
| `parts` | `FingerprintHonest`, `RowsAgree`, `SearchHidesRedacted`, `LinksComplete`, `ParentOverSibling`, `TitleKept`, `MetadataKept`, `NeverStuck`, `QuietPassSettles`; `OneDaemon`, `EpochTruthful`, `RowsOfEpoch`; `SpoolBudget`, `SpoolSettles`; `SettledSnapshot`, `UpdatesKept`; `HooksKept` | scenes: passes over each source in turn (a parent with two subagents found child first, one rollout with its title index, a session with child and grandchild; two processes, two passes, one change, one fault, retention); two daemons of two builds, a tool, a stop that uninstalls, one kill; five hooks over a budget that does not hold them all; three writers, one edit in place; two installs and an uninstall over nine shapes of settings, one edit by the owner, one kill, reads that fail |
| `records` | `ClaudeFaithful`, `CodexFaithful`, `OpencodeFaithful`; `ListingsAgree`, `WalkComplete`; `StatusAgrees`, `RowShowsNewest` | scenes: transcripts of up to four lines out of 14 or 17 kinds, four rows of opencode; all stores of five transcripts under ten filters, two with turns that tie, a walk with pages of one; three events told of three sessions, a parent and its subagent with one uuid and a session of another provider that happens to have the same |
| `prunelock`, `reuse`, `ingest_lostevent`, `ingest_retry`, `unknownrole`, `grains` | violated: see *Findings* | as small as shows it |

The types of the ingest service and of the passes (`TypeOK` of `RuntimeService` and
`IngestReconcile`) are proved, and need no run.

**Bounds.** `MaxId`, `MaxBoot`, `MaxWrites`, `MaxReloads`, `MaxTriggers` bound counters and
stand in the guards of `EmitAssign`, `NewServer`, `Write`, `ReloadStore`, `TriggerCheck`
and `OnceStart`. Capacities of one make every queue overflow. Three ids with pages of one
are enough for a replay of several pages with a prune or a failed append between two of
them and an overflow behind it; two reloads for one that lands while the watcher is being
rebuilt for the other; two versions for a stale save. `ingest_live` has one source: with
several and a queue as small as this, the first source of every tick could crowd the last
one out for ever. The code has a queue of 64 for three sources, so a starvation of that
kind needs a worker that is slower than the ticker for a long time.

In the passes of `parts`, one fault and one change meet every step of a pass, and two passes are
the least in which one can see what another recorded; `MaxBatchBytes` makes batches of one and of
two files. A file that vanishes and comes back needs two changes and is left to the theorem. In the
other scenes, one kill at every step of a wipe or a write is the crash that matters.
In `records`, four lines hold a call, its launch, its notice and its result in any order,
with one left for a second turn; a session of opencode with a row that is no JSON is not
lengthened, as nothing of it is collected. The scenes of a run share no step, so their state spaces
add up; each property speaks of its own scene's variables and is true of the initial
states the others stay in.

Three events suffice to tell a session's status by each of its names. A walk that a
deletion has met is not followed further, since nothing is promised of it.

**Fairness.** `parts` and `records` state none: `NeverStuck` says of every
state that the pass or its writer can go on, and `QuietPassSettles` speaks of the step that
ends a pass. In `LiveBroker`: the persister, an Emit that holds the lock, each handler
(its waits are bounded, its writes have deadlines) and a Close that has begun go on.
Nobody has to emit, connect, leave, prune or stop. In `RuntimeService`: goroutines go on;
Go's `select` picks at random among ready cases, so a case ready again and again is taken
(strong fairness of cancellation, of the ticker, of the worker's exit); and a pass that is
tried for ever is not refused by the disk for ever. That last one is an assumption about
the environment and only `ChangeIsIngested` rests on it. `ChangeIsIngested` is
conditional on the service not being paused for good.

**What is excluded by name.** `NoSilentLoss` excuses a restart that found the log shorter
than what a client had seen (`tailLost`); `reuse` shows what happens then. `WatcherIsCurrent`
excuses a reload between reading the roots of the first watcher and registering the
callback, and a failed rebuild (`lostChange`). `StoppedIsHandedOver` excuses an emit channel
that stays full for two seconds. `QuietPassSettles` speaks of passes without a fault or
change (`calm`), `MetadataKept` excuses a scan that missed an item and passed for complete
(`hidden`). `SettledSnapshot` excuses an edit before the watch was up (`missed`),
`UpdatesKept` two updates that overlap (`overlapped`), `HooksKept` a kill between truncation
and write (`cut`) and two writers that did not read each other (`crossed`): the code guards
against none of these, and the properties show that nothing else goes wrong. What the code loses
of an owner's settings without any of that is no exception of `HooksKept` but what it says:
`Kept` names a value that is no list, a merged handler, empty lists, and (`unread`) all of a file that
an install could not read. `OneDaemon` excuses a home removed beneath a running process, and a
serving daemon may lack a pid file, but only if a stop removed it after this daemon had created it
(`stole`): having read no pid in it, or having judged an earlier daemon gone.

### Findings

* `prunelock` – comments on `replayMu` say a replay holds it for the whole walk; it is
  taken per page. The replay detects what a prune removed, so the comment is at fault.
* `reuse` – after a crash ids are reused, and a client whose cursor is at or past the new
  watermark is not replayed events that are in the log and gets no `resync_required`; only
  a consumer that compares the hello frame's id with its own can tell.
* `ingest_lostevent` – `Run` drains and joins the flusher before it cancels the worker; a
  pass that finishes in between emits to nobody.
* `ingest_retry` – a resume that finds the queue full leaves files in the dirty set with
  the timer stopped, against the comment; they wait for the next file event or tick.
* `unknownrole` – a message of opencode of a role that is neither user nor assistant is not ignored,
  as `collect.go:110-111` says the parser does: it is reported a second time, and what its parts say
  and do counts as the turn before. `OpencodeFaithful` says that the two reports are all there are.
* `grains` – without a window and with a status filter, `ListProjects` counts all turns of the sessions
  with that status, not the turns with it: `listings.go:342` says the grains agree.

### Seen while reading, without a run

*Broker.* `useStream.ts` says hello marks the end of the replay, but the hello frame is written
before it.

*Ingest.* A file emptied on disk keeps its old rows after `RunFile` and loses them in a full
pass. The parse-error row of a vanished file is never purged.

*Control.* A stop that reads the pid file between its creation and its content takes it for stale
and removes it without asking who has the lock (`daemon_cmds.go:219-224`); the daemon serves on, and
a later stop says that none runs. `config set` runs that overlap lose one update, against `write.go:33` ("preserving
other keys"). A reload that reads a file an editor has truncated runs with the defaults until
the next file event. `hooks install` replaces an event's value that is no list, drops a foreign
handler that was merged into toktop's entry, and writes into a nil map when the settings are
JSON `null`; it takes any error of reading the file for an empty one and writes over it
(`hooks_cmds.go:256`). `uninstall` deletes empty lists of others.

*Parsers.* `trace/types.go:50-60` says pending, active and interrupted never apply to a tool
call; the claude parser assigns them. A turn failed by a call whose completion later says
success stays failed. A "running" notice after "completed" reopens its call. Of two results for
a call not seen yet, the later is attached and the earlier becomes the error. codex: usage
reported in a turn that is dropped as empty is lost from the totals. The project the parsers give a
turn is never stored: its row has its session's (`store/sqlite/ingest.go:669`).

*Listings.* Servers and skills used only by subagents are listed as unused. The comment near
`listings.go:338` (in a window the projects match the grain of the tools) does not hold for a tool
called outside the window its turn lies in: a call is there by its own time, so `CallsAddUp` and
the availability in `ServersAgree` speak of filters without a window. No order of turns has a full tie-breaker: by tokens or duration none,
by time the index in the session, which turns of two sessions may share, as all first turns
without a time do. Such turns may change places between two pages, so that a client gets one
twice and misses the other; `IsPage` therefore leaves their order open, and `WalkComplete`
speaks of the turns that tie with no other (`Fixed`). Turns without any activity time pass a filter
with only an upper bound and are in no bucket. A subagent's session has its parent's external id,
and the raw events of sessions named by id are found through it (`listings.go:1060`): asked for a
subagent's session, with subagents left out, a summary counts the raw events of its parent. An MCP
call whose server is blank is a row of `ListMCPs`, but of no component, so that server was
available in no turn that called it. `SubagentsNowhere` and `ServersAgree` leave these two out.

*Status.* Activity of a subagent's transcript is shown as a live-only row, although `live.go:152`
says live status is top-level only; a subagent's ingest carries its parent's uuid and sets the
parent's status. A live state whose stored row is on a later page, or filtered out, is a
live-only row of page one, and `Total` counts live-only rows only where the page is not full. A
watch of several targets looks at the first hundred stored rows, and of one target by the path of
a transcript at none: the query narrows by id and uuid. What a subagent's ingest tells is a live-only
row for who watches that subagent alone, and is laid over its parent for who watches another as well. Without hooks
`session.activity`, stamped with the present, beats `ingest.session`, stamped with the
transcript's time, so a finished session stays active until it is evicted. Before it is ingested
a session may have several live-only rows. `StatusAgrees` is stated so that all of these are
behaviours it allows (`NamesSession` and the hundred rows of `WatchesAgree`).

## 4. What is proved

With TLAPS, for any clients, keys, filters, capacities and bounds that satisfy
`ConstantsAssumption` and `MarkersAssumption` (the markers `NoEvent` and `Nil` are not
events or snapshots).

*About the log* (first part of `LiveBrokerProofs`): `LastID` is the id of a newest event when ids are
natural and a newest event exists; appending above it makes the new id the last one; a
prune with a floor of at least one event keeps the last id and removes only a prefix; a
replay page lies in its range.

*About the broker* (`LiveBrokerProofs`):

* `Invariance`: `Spec => []IInv`. `TypeOK` and `DurableIsLastID` are not inductive alone. To
  see that an append keeps "durable id = last id" one must know that what is queued is
  newer than everything in the log; to see that a stream never skips, that its channel
  holds exactly the ids after its position. `IInv` adds: the log has a newest event
  (`HasNewest`); durable ≤ published ≤ assigned with an Emit in progress one ahead
  (`SeqInv`); the queue ascends strictly between them (`QueueInv`); each handler stands at
  or before its watermark and its channel continues it without a hole (`ConnsInv`). One
  lemma per action shows that the action preserves it.
* `TypeCorrect`, `DurableWatermark`: two conjuncts of it.
* `StreamImplementsFeed`: every step of `LiveBroker` is a step of `StreamFeed` or a stutter
  under `FeedOf`. It rests on `ConnsInv`: a record that is next on a channel or a page is
  the one after the handler's position.
* `StatusIsFresh`: the read index is the session table whenever valid.
* `RestartNeverGoesBack`: the fold at start-up never takes a key behind the snapshot.

*About the ingest service* (`RuntimeServiceProofs`), for any sources, files, capacities and
bounds (`ConstantsAssumption`, and `NoneAssumption`: the marker `None` is not a job):

* `ServiceInvariance`: `Spec => []IInv`, where `IInv` is `TypeOK` and three parts, each what
  a property needs to be inductive. `IngestInv`: whoever ingests holds the semaphore alone,
  and what it read lies between the store and the disk. `StopInv`: from the blocking emit
  on, "stopped" is in the channel or was taken from it, and a flusher that is done has
  emptied the channel. `WatchInv`: the loop runs with its callback registered, and roots
  older than the config have left a signal, also while a rebuild has read its roots but is
  not in use yet. For each part a lemma sorts the steps into those that touch its variables
  and those that do not (`IngestSteps`, `EmitSteps`, `WatchSteps`), and only the first are
  argued one by one.
* `StoreMonotone`, `LastTransitionHandedOver`, `WatcherCurrent`: consequences of it.
* `NoReportDropped`: a flush moves every pending and dirty file into one job or keeps it
  dirty, an append keeps what is queued, and only the worker's take removes a job.
* `ServiceTypeCorrect`: types and the capacities of the two channels.

*About what the broker remembers* (last part of `LiveBrokerProofs`), from the assumptions of the broker:

* `StatusCoversLog`: `Spec => []LiveCoversLog`, the live table shows every session of the log
  that no cutoff reaches, after a restart too. Its inductive invariant `LiveInv` also speaks of
  events that are not in the log yet: an event enters the table when it is published and the
  log when it is persisted, so the table must cover the queue and the event an Emit holds. And
  it says of the snapshot what a restart relies on: it covers the window below its watermark,
  and the fold at start-up reads what is above. A finite set of events of one key has one that
  none supersedes; the proof takes it from the well-founded order of the subsets of a finite set.
* `NothingLostInSilence`: `Spec => []NoSilentLoss`. `missed` holds what a client should have got
  and has not. `LossInv` says where such an event still is: above the client's cursor, its
  stream's position and the last event it got, and nothing that somebody may still write
  to that client (log, queue, channels, pages) has its id without being it. So the moment
  a client gets a newer event or a replay ends, the skipped one would have come first or its
  absence was told by a resync.

*About the hook spool* (`DaemonProofs`, from `HookSpoolAssumption`: lengths and budget are
numbers, the channel has room for one): `SpoolInvariance`, `BudgetKept`, `SpoolDrains`. The
counter is the size of a set, the bytes of all bodies between reservation and release
(`Counted`), which turns a sum over the requests in flight into cardinalities. That a body is
in one place at a time (`OnePlace`) is what keeps the writer from giving bytes back twice, and that
no handler is inside once Close has the lock (`Closed`) what keeps the channel from being sent on
after it was closed.

*About the daemon* (`DaemonProofs`, from `LifecycleAssumption`: builds are numbered from
1, daemons, tools and stops are different processes): `OneDaemonServes`, `StampIsTruthful`,
`RowsMatchEpoch`. Unless the home was removed beneath a process, the program counters say who
holds the daemon lock and the init lock, the socket leads to that daemon and the pid file names it, is
empty while it is being written, or was removed by a stop (`FilesLead`, `stole`), and a daemon that has opened the store finds its epoch there for as long as it
runs, because no process gets past the wipe guard meanwhile (`ReadyStays`). A stamped epoch is
truthful also without that condition.

*About the configuration* (`DaemonProofs`, from `ConfigAssumption`): `SnapshotSettles` and
`SettingsKept`. The inductive part is `ReloadComes`: a stale snapshot, or a reload that read an
older file, leaves an event, a timer or a reload behind that reads again; and `CopiesCurrent`: a
writer that nobody overtook has the file in its hands, but for its own key.

*About hook settings* (`DaemonProofs`, from `HookAssumption`: the owner writes settings, every
run installs or uninstalls): `HookSettingsKept` (`HooksKept`). `DraftsGood` says of a run between
reading and writing that its draft is what its operation makes of settings that have lost no more
than the operations completed since the owner wrote take – or of none, when the run could not read
(`BlindOnes`) – unless the draft is stale or another run has truncated the file. One more operation
then takes what `Kept` allows it. That installs and uninstalls repeat without harm rests on the
filter of a list, a recursive function: `FilteredAppend` and `FilteredTwice`, for lists of any
length, by induction (`UpTo`).

*About ingest passes* (`IngestReconcileProofs`), for any transcripts, nesting, batches, processes,
faults and changes that satisfy `StoreAssumption` and `PassAssumption`:

* `ReconcileInvariance`: `Spec => []ReconcileInv`. `FingerprintHonest` speaks of the present disk, but a
  file may change between taking its fingerprint and reading it. `Running` therefore says of
  every result on its way – in a pass, handed over, with the writer – that fingerprints are no
  newer than the files, and that what was read under a fingerprint the file still has is the file
  (`Truthful`); `OffsetsTrue` says the same of the store, whether the file is still there or
  not. The store's transactions are covered by lemmas of their own: `SavedRows` for what a
  batch leaves in each table, and others for the links, the titles, pruning and redaction.
* `PassTypeCorrect`, `SkippedIsShown` (`FingerprintHonest`), `TablesAgree`, `RedactedIsHidden`,
  `NoneUnlinked` (`LinksComplete`: nothing is resolvable when a batch commits, and neither a purge
  nor a title makes anything so), `FailedScanDeletesNothing`, `TitlesSurvive` and
  `ParentPreferred`, which are action properties.
* `QuietPassesSettle` (`QuietPassSettles`), by `CalmInv`, which says at every step of a pass
  that met no fault and no change what its record is worth: the fingerprints it knows and the
  ones it took are those of the store and the disk, every file there is shown by the store or
  in a batch that is still to be saved (`Due`), and what is recorded of vanished files is among
  what it will purge (`Leftover`). The store is shared: the other process either leaves it
  alone, or its commit ends the calm of this pass (`Apart`), or it is a metadata round, which
  shows no file less. That no changed file is missing from the batches (`BatchesCover`) is a
  fact about a recursive function, the running size of a batch.
* `WriterNeverSilent`: `Spec => []WriterAnswers`, which is `NeverStuck` in the guards of the steps, in
  place of ENABLED: the writer of a pass that sends or joins can take the batch or answer, or is
  saving, and the transaction has an outcome. That it has one (`SaveHasOutcome`) is a fact about
  the links, since a transaction is a set of tables: children are linked one after the other for as
  long as one has a candidate (`OneMoreTurn`), and there are finitely many (`LinkingEnds`). The
  same holds of the transactions for titles and for a single file.

*About the records* (`RecordsProofs`):

* `WalkMissesNothing`: `ListSpec => []WalkComplete`, from `ListAssumption` and `GrownAssumption`
  (a later version of a transcript keeps the turns there were and makes none earlier, which is
  what appending to it does: a turn's start is set once and its end only moves on). The
  invariant `Ahead` says that a turn the client has still to see has at least as many rows
  before it as the offset the client goes on from. A page moves the offset past rows that are
  before it, all of which are before the turn (`PagePasses`); what is stored meanwhile only adds
  rows before it or moves some of them further up (`SaveKeepsPlace`), which would fail for a turn
  that changes its own time or ties with another.
* `ListingsAgreeAlways`: `ListSpec => []ListingsAgree`, for any transcripts, filters and declared
  servers, from the invariant of the walk (what is stored is of the catalogue, each session in
  one version) and two assumptions. `RowAssumption` gives a stored transcript its columns, turns
  and calls in lists, and a turn at least the tokens of its invocations: a turn's are the sum of
  theirs, to which codex adds what was reported before any.
  `FilterAssumption` gives a filter its fields. The listings are groupings, each by its own query.
  What is counted over groups is one count over what is grouped: rows that differ by name, every
  counted thing bearing the name of one row, have together as many units as there are things
  (`Fibres`, `Grouped`, and `GroupedSum` for weights), by a bijection that numbers each group. So
  each query comes down to the set it groups: `SeriesCounts`, `ToolCounts`, `ModelCounts`,
  `ServerCounts` and `ProjectCounts` say how much its rows count, and `JoinedTurns`,
  `JoinedAnytime`, `CallsOfTurns` and `InvocationsOfTurns` that these sets are the turns of the
  summary, and their calls and steps (`CallsCounted`, `InvocationsCounted`), the filter written
  otherwise. A project's own count is taken at either grain (`SameGrain`), and at that of sessions needs
  that a session is stored once (`SessionTurns`). Which set the projects count is part of the property
  (`CountedTurns`); that it is not the summary's under a status filter is the run `grains`. A
  component stands at the first call that mentions it, so a server has one in each turn that
  calls it (`FirstMention`, `OneComponent`, `AvailableWhereCalled`). `SameRows`, `SameLines` and
  `SameCalls` say that what is asked of the top level is what is asked of all in a store without
  subagents.
* `NewestStatusShown`: `StatusSpec => []RowShowsNewest`, from `StatusAssumption`: a row's id
  stands for a provider and a path, a uuid for a main session and its subagents, no name is one
  of another kind, and hooks speak with the uuid of a main session. The table keeps one event
  for each key, so that one session may have three; what was told is in the table or something
  newer under the same key is (`TableCovers`), one key is one name of one session (`SameKey`), and
  an event finds a main session's row exactly when it is about that session (`FindsItsRow`).
* `StatusAgreesAlways`: `StatusSpec => []StatusAgrees`, for any number of stored sessions, any
  filters and sizes of pages. It adds to the invariant that a session is stored once and that store
  and table are finite. The listing can be put in order (`OrderExists`), each of its rows once
  (`SortedIs`), and a page is a stretch of it (`PageRead`). The offsets a client reads at are a recursive
  function of the pages (`OffsetsRead`); by induction along it, each page starts where an earlier one
  ended, the pages read so far have no gap, and each goes a page further until the end is reached, so that
  every place is on exactly one (`WalkCovers`). Rows without a stored session do not move the offset, whatever
  they add to the total. For watches, a target asks for the row of every session that an event found by
  it may be laid over (`AsksForItsRow`), so that the narrow query leaves over what the wide one does.

*About transcripts of claude-code* (`TranscriptProofs`, from `ClaudeAssumption`, which only gives
types: a line is the unreadable one or a decoded event, whose times and token counts are numbers;
a notice names a use and a status; lines come in any order, with any times):

* `ClaudeFaithfulAlways`: `ClaudeSpec => []ClaudeFaithful`, for transcripts of any length. The
  property compares what the parser returns with the lines alone; `Standing` says what its state
  is worth before every line, in parts. `Kept`: types, and that a use id leads to a call of that
  id. `Accounts`: every result read so far is in exactly one place – it completes a call, it is
  counted as an error, or it waits for a call still to come. `Billing`: what the turns cost is
  what the lines with a new message id bill, and `SeenIn` that the ids remembered are those of
  the lines. `Told`: the notices that ended background tasks are kept with the last status told.
  `Titled`: the titles are those of the last lines that set them. One lemma for each kind of
  line shows that it leaves `Standing`; a line's results, and the results that waited for a call,
  are taken one at a time by recursive functions, along which `Accounts` is kept result by
  result (an induction over `UpTo`).
* The end of the file adds three steps: a flush of the open turn, the results nobody called for
  as errors (`Closed`), and the reconciliation of background tasks, which changes outcomes and nothing
  that was accounted for (`Outcome`).

*About rollouts of codex* (`CodexOpencodeProofs`, from `CodexAssumption`, which likewise only gives types:
a row is the unreadable one or a decoded row):

* `CodexFaithfulAlways`: `CodexSpec => []CodexFaithful`, for rollouts of any rows, any length and
  any order. The property cuts the rollout into segments by its `turn_context` rows, looking at
  all of it at once; the parser sees one row at a time and decides at a flush whether a turn is
  kept. `CodexStanding` says what the parser's state is worth between two rows. `Heard`: the
  stored turns are the kept segments closed so far, numbered in their order, each with what its
  rows say (`TurnsStored`), and the open turn is what its rows so far say (`Building`), down to
  the usage, the outcome and the replies. `Located`: every output read inside a turn is at one
  place, in a call or among the errors, and no row still to come is at any (`Sites`); together
  these keep an output from being attached twice or dropped when its call comes late. `Homed`:
  once a `session_meta` row named a directory, every turn has a project, also those stored before it.
* Each kind of row has a lemma that it leaves `CodexStanding` (`UnreadableReads`, `MetaReads`,
  `ContextReads`, `ItemReads`, `EventReads`, `QuietReads`, joined in `RowStands`). The end of the
  file is a last flush (`EndStored`); then the i-th stored turn is the i-th kept segment, by
  counting the segments before it (`NthIs`), and one place for an output is a count of one
  (`OneSiteCounts`). What was spent adds up over disjoint rows by a recursive function.

*About sessions of opencode* (`CodexOpencodeProofs`, from `OpencodeAssumption`, types again: the session's
row, the messages and the parts are rows):

* `OpencodeFaithfulAlways`: `OpencodeSpec => []OpencodeFaithful`, for sessions of any messages and
  parts and for every way in which opencode writes between the two reads. The property looks at
  all rows that were collected at once: the turn of a row starts at the last message of the
  user's before it, or at the first answer (`StartOf`); a turn is kept if a row in it matters
  (`Starts`). `OpencodeStanding` says what `ParseEvents` stands at after n rows: the turns
  stored are the starts before the open one, numbered in their order (`TurnsTold`); the open
  turn has the steps, calls, texts and status of its rows so far (`OpenAs`); what both cost is
  what the n rows cost (`BilledTo`); and the errors are the rows that nothing could be made of
  (`ErrorsTold`). What the collector reports is a recursive filter of the rows (`UnknownRoles`). One lemma for each kind of row shows that it goes from n - 1 to n
  (`UserTold`, `AnswerTold`, `PartTold`, `SessionIsAside`, joined in `OpencodeRowTold`), and `FlushTold`
  what the end of a turn does. A list of rows is given by the numbers of its rows in ascending
  order (`InRowOrder`), from which `NthRowIs` gets the k-th.
* What is left is that the events are rows whatever was read when (`OpencodeStored`,
  `CollectedAre`): a message may have come after its parts were read, and then has none.

*About recursive functions* (`Recursion`): induction up to n over the set of the numbers with a
property, from the well-founded order of the numbers, and that a recursive function with a given
first value and step exists. Stated with sets and functions instead of operators, both can be cited.

Only model-checked: `NeverStuck` itself, which speaks of ENABLED, and every liveness property
(`StreamProgress`, `PublishedIsSettled`, `CloseEnds`, `RunReturns`, `ChangeIsIngested`). Every other
property of a passing run is a theorem.

## 5. Not modelled

Rules, handoff and redaction are functions of text (regular expressions over one value, prose
under a character budget, substrings replaced): with text abstracted to classes nothing is
left that a run could refute. Search, single-row reads, formatting, diagnostics and the web
pages are I/O. Path rules and the provider table of discovery are left out; what a walk finds,
misses or cannot read is in. A tool or stop that is refused is an answer and nothing more.

## 6. Plan

Every safety and action property is proved, `NeverStuck` in its form without ENABLED. What is left is
coverage: formatting of the read API, search and single-row reads, and the functions of text of
section 5 would need a model in which text is more than a class.
