----------------------------- MODULE LiveBroker -----------------------------
(***************************************************************************)
(* The live event broker of the daemon (internal/httpapi): Emit assigns an   *)
(* id, updates the live session table, fans the event out to the SSE         *)
(* subscribers and hands it to a background persister; a stream handler      *)
(* replays what a reconnecting client missed from the event log and then     *)
(* tails its channel; GC and retention prune the log underneath; Close       *)
(* drains, and a crash loses everything but the log and the last snapshot.   *)
(***************************************************************************)
EXTENDS EventLog, Integers, Sequences

CONSTANTS
    Clients,     \* consumers of GET /v1/stream
    Keys,        \* session keys (liveEventKey)
    NoKey,       \* an event without one (daemon.state, ingest.full, ...)
    NoEvent,     \* no entry
    Nil,         \* no live snapshot on disk, no valid read index in memory
    Watch,       \* Watch[c]: the keys client c filters for, {} for everything
    Times,       \* the timestamps (At) of events, a subset of Nat \ {0}
    Cutoffs,     \* the retention cutoffs a prune may compute
    ChanCap,     \* sseSubscriberBuffer
    QueueCap,    \* eventPersistBuffer
    PageSize,    \* eventlog.DefaultReplayBatchSize
    KeepN,       \* eventLogMaxEvents
    ScanWindow,  \* recentLiveEventScan
    SubCap,      \* maxSSESubscribers
    MaxId,       \* bound: ids assigned
    MaxBoot,     \* bound: restarts
    CanFail,     \* may an append to the log, or a snapshot write, fail?
    CanCrash     \* may the process die without Close?

ASSUME ConstantsAssumption ==
    /\ NoKey \notin Keys
    /\ Watch \in [Clients -> SUBSET Keys]
    /\ Times \subseteq Nat \ {0}
    /\ Cutoffs \subseteq Nat \ {0}
    /\ ChanCap \in Nat /\ QueueCap \in Nat /\ ScanWindow \in Nat /\ SubCap \in Nat
    /\ PageSize \in Nat \ {0} /\ KeepN \in Nat \ {0}
    /\ MaxId \in Nat /\ MaxBoot \in Nat
    /\ CanFail \in BOOLEAN /\ CanCrash \in BOOLEAN

(* boot is not in the program: it tells apart two events that get the same id *)
(* before and after a restart.                                                *)
Event == [id : Nat, boot : Nat, key : Keys \cup {NoKey}, at : Times]

ASSUME MarkersAssumption ==
    /\ NoEvent \notin Event
    /\ NoEvent \notin [step : {"publish", "enqueue"}, ev : Event]
    /\ Nil \notin [watermark : Nat, entries : [Keys -> Event \cup {NoEvent}]]

VARIABLES
    \* on disk
    log,              \* the event log
    snapshot,         \* the live snapshot of the last clean shutdown
    \* in the server's memory
    stage,            \* "up", "draining", "closing" (inside Close), "down"
    boot,             \* which run of the daemon this is
    eventSeq,         \* the last id assigned
    lastPublishedID,  \* the last id fanned out: the reconnect watermark
    durableID,        \* the last id the persister wrote
    persistCh,        \* queue of events to persist
    replayGap,        \* smallest id known absent from the log, 0 for none
    emitting,         \* the Emit that holds emitMu: [step, ev], or NoEvent
    liveSessions,     \* key -> newest live event
    liveCache,        \* the read index over liveSessions, Nil when invalid
    gc,               \* cutoff of a GC pass between its two halves, 0 for none
    conn,             \* per client, its stream handler
    \* on the client's side
    cursor,           \* per client, the Last-Event-ID it would present (0: none)
    \* history, for the properties
    last,             \* per client, the last event delivered to it
    missed,           \* per client, published events it has neither got nor
                      \* been told to resync for
    tailLost          \* has a restart found the log short of an event that a
                      \* client had seen or was waiting for?

diskVars   == <<log, snapshot>>
seqVars    == <<eventSeq, lastPublishedID, durableID, persistCh, replayGap>>
liveVars   == <<liveSessions, liveCache>>
clientVars == <<cursor, last, missed, tailLost>>
vars == <<diskVars, stage, boot, seqVars, emitting, liveVars, gc, conn, clientVars>>

-----------------------------------------------------------------------------
(* Live sessions *)

Supersedes(e, prev) == e.at > prev.at \/ (e.at = prev.at /\ e.id > prev.id)

NoLive == [k \in Keys |-> NoEvent]

SetLiveStaleCache(table) == liveSessions' = table /\ UNCHANGED liveCache

(* A write to the table invalidates the read index. *)
SetLive(table) ==
    /\ liveSessions' = table
    /\ liveCache' = IF table = liveSessions THEN liveCache ELSE Nil

WinsAlways(live, e) == e.key \in Keys

(* What one event does to the table: an event without a key, or one the       *)
(* present entry supersedes, leaves it alone.                                 *)
Wins(live, e) ==
    /\ e.key \in Keys
    /\ live[e.key] = NoEvent \/ Supersedes(e, live[e.key])

(* Folding a set of events in id order into a table: per key the newest of    *)
(* those that beat the entry already there.                                   *)
FoldLive(live, events) ==
    [k \in Keys |->
        LET better == {e \in events : e.key = k /\ Wins(live, e)}
            newest == {e \in better : \A f \in better : ~Supersedes(f, e)}
        IN  IF newest = {} THEN live[k] ELSE CHOOSE e \in newest : TRUE]

(* loadLiveState: seed from the snapshot, then replay what follows its        *)
(* watermark, but never more than the ScanWindow newest ids.  On an empty log  *)
(* the snapshot is not even read.                                             *)
LoadAfter ==
    LET lastID == LastID(log)
        floor == IF lastID > ScanWindow THEN lastID - ScanWindow ELSE 0
        mark == IF snapshot = Nil THEN 0 ELSE snapshot.watermark
    IN  IF mark > floor THEN mark ELSE floor

LoadLiveStateNoSnapshot ==
    IF log = {} THEN NoLive ELSE FoldLive(NoLive, {e \in log : e.id > LoadAfter})

LoadLiveState ==
    IF log = {} THEN NoLive
    ELSE FoldLive(IF snapshot = Nil THEN NoLive ELSE snapshot.entries,
                  {e \in log : e.id > LoadAfter})

-----------------------------------------------------------------------------
(* Streams *)

(* A handler: what it is doing; the id it has processed up to; the watermark   *)
(* it read when it subscribed; the records of the replay page still to write;  *)
(* its channel, whether it is open (registered in s.events) and whether it was *)
(* closed because it overflowed; whether resync_required was written.          *)
Closed == [phase |-> "off", pos |-> 0, until |-> 0, page |-> {}, ch |-> << >>,
           open |-> FALSE, overflowed |-> FALSE, told |-> FALSE]

Replaying == {"check", "wait", "page"}
Phases == {"off", "hello", "tail"} \cup Replaying

Subscribers == {c \in Clients : conn[c].open}

Matches(c, e) == Watch[c] = {} \/ e.key \in Watch[c]

Following(c) == cursor[c] > 0 \/ conn[c].phase # "off"

(* replayGapInRange *)
GapIn(after, until) == replayGap > after /\ replayGap <= until

-----------------------------------------------------------------------------
VolatileUnseeded(seq) ==
    /\ eventSeq' = seq
    /\ lastPublishedID' = 0
    /\ durableID' = seq
    /\ persistCh' = << >>
    /\ replayGap' = 0
    /\ emitting' = NoEvent
    /\ gc' = 0
    /\ conn' = [c \in Clients |-> Closed]

(* The server's memory when it starts with seq as the last id of the log, and *)
(* (with 0) when it is not running.                                           *)
Volatile(seq) ==
    /\ eventSeq' = seq
    /\ lastPublishedID' = seq
    /\ durableID' = seq
    /\ persistCh' = << >>
    /\ replayGap' = 0
    /\ emitting' = NoEvent
    /\ gc' = 0
    /\ conn' = [c \in Clients |-> Closed]

Init ==
    /\ log = {} /\ snapshot = Nil
    /\ stage = "up" /\ boot = 0
    /\ eventSeq = 0 /\ lastPublishedID = 0 /\ durableID = 0
    /\ persistCh = << >> /\ replayGap = 0
    /\ emitting = NoEvent /\ gc = 0
    /\ liveSessions = NoLive /\ liveCache = Nil
    /\ conn = [c \in Clients |-> Closed]
    /\ cursor = [c \in Clients |-> 0]
    /\ last = [c \in Clients |-> NoEvent]
    /\ missed = [c \in Clients |-> {}]
    /\ tailLost = FALSE

-----------------------------------------------------------------------------
(* Emit, in the order of its steps under emitMu.  The lock is held throughout, *)
(* so one Emit at a time; other goroutines run between the steps.             *)

(* The id and the live session entry. *)
EmitAssign(k, t) ==
    /\ stage = "up" /\ emitting = NoEvent
    /\ eventSeq < MaxId
    /\ LET ev == [id |-> eventSeq + 1, boot |-> boot, key |-> k, at |-> t]
       IN  /\ emitting' = [step |-> "publish", ev |-> ev]
           /\ SetLive(IF Wins(liveSessions, ev) THEN [liveSessions EXCEPT ![k] = ev]
                      ELSE liveSessions)
    /\ eventSeq' = eventSeq + 1
    /\ UNCHANGED <<diskVars, stage, boot, lastPublishedID, durableID, persistCh,
                   replayGap, gc, conn, clientVars>>

FanOutSkipping(s, ev) ==
    IF s.open /\ Len(s.ch) < ChanCap THEN [s EXCEPT !.ch = Append(@, ev)] ELSE s

(* publishEvent: a subscriber whose channel is full is dropped and closed. *)
FanOut(s, ev) ==
    CASE ~s.open -> s
      [] s.open /\ Len(s.ch) < ChanCap -> [s EXCEPT !.ch = Append(@, ev)]
      [] s.open /\ Len(s.ch) >= ChanCap -> [s EXCEPT !.open = FALSE, !.overflowed = TRUE]

EmitPublish ==
    /\ emitting # NoEvent /\ emitting.step = "publish"
    /\ LET ev == emitting.ev
       IN  /\ lastPublishedID' = IF ev.id > lastPublishedID THEN ev.id ELSE lastPublishedID
           /\ conn' = [c \in Clients |-> FanOut(conn[c], ev)]
           /\ missed' = [c \in Clients |->
                            IF Following(c) /\ Matches(c, ev)
                            THEN missed[c] \cup {ev} ELSE missed[c]]
    /\ emitting' = [emitting EXCEPT !.step = "enqueue"]
    /\ UNCHANGED <<diskVars, stage, boot, eventSeq, durableID, persistCh, replayGap,
                   liveVars, gc, cursor, last, tailLost>>

MarkGapNewest(id) == id

(* markReplayGap keeps the smallest id. *)
MarkGap(id) == IF replayGap # 0 /\ replayGap <= id THEN replayGap ELSE id

(* enqueueEventPersistLocked, without blocking. *)
EmitEnqueue ==
    /\ emitting # NoEvent /\ emitting.step = "enqueue"
    /\ IF Len(persistCh) < QueueCap
       THEN persistCh' = Append(persistCh, emitting.ev) /\ UNCHANGED replayGap
       ELSE replayGap' = MarkGap(emitting.ev.id) /\ UNCHANGED persistCh
    /\ emitting' = NoEvent
    /\ UNCHANGED <<diskVars, stage, boot, eventSeq, lastPublishedID, durableID,
                   liveVars, gc, conn, clientVars>>

-----------------------------------------------------------------------------
(* runEventPersister *)

Persist ==
    /\ stage \in {"up", "draining"} /\ persistCh # << >>
    /\ log' = AppendWithID(log, Head(persistCh))
    /\ durableID' = Head(persistCh).id
    /\ persistCh' = Tail(persistCh)
    /\ UNCHANGED <<snapshot, stage, boot, eventSeq, lastPublishedID, replayGap,
                   emitting, liveVars, gc, conn, clientVars>>

PersistFailAdvances ==
    /\ CanFail
    /\ stage \in {"up", "draining"} /\ persistCh # << >>
    /\ replayGap' = MarkGap(Head(persistCh).id)
    /\ durableID' = Head(persistCh).id
    /\ persistCh' = Tail(persistCh)
    /\ UNCHANGED <<diskVars, stage, boot, eventSeq, lastPublishedID,
                   emitting, liveVars, gc, conn, clientVars>>

PersistFail ==
    /\ CanFail
    /\ stage \in {"up", "draining"} /\ persistCh # << >>
    /\ replayGap' = MarkGap(Head(persistCh).id)
    /\ persistCh' = Tail(persistCh)
    /\ UNCHANGED <<diskVars, stage, boot, eventSeq, lastPublishedID, durableID,
                   emitting, liveVars, gc, conn, clientVars>>

-----------------------------------------------------------------------------
(* handleStream *)

(* A new request, with the client's Last-Event-ID (resume) or without; id 0   *)
(* never resumes.  subscribeEvents registers the channel and reads the        *)
(* watermark under one lock; a full table is answered 503.                    *)
Subscribe(c, resume) ==
    /\ stage # "down" /\ conn[c].phase = "off"
    /\ Cardinality(Subscribers) < SubCap
    /\ resume => cursor[c] > 0
    /\ conn' = [conn EXCEPT ![c] = [Closed EXCEPT
                  !.phase = "hello", !.open = TRUE, !.until = lastPublishedID,
                  !.pos = IF resume /\ cursor[c] < lastPublishedID
                          THEN cursor[c] ELSE lastPublishedID]]
    /\ IF resume THEN UNCHANGED clientVars
       ELSE /\ cursor' = [cursor EXCEPT ![c] = 0]
            /\ last' = [last EXCEPT ![c] = NoEvent]
            /\ missed' = [missed EXCEPT ![c] = {}]
            /\ UNCHANGED tailLost
    /\ UNCHANGED <<diskVars, stage, boot, seqVars, emitting, liveVars, gc>>

(* The hello frame names the watermark; a client without a cursor of its own   *)
(* starts from it.                                                            *)
Hello(c) ==
    /\ conn[c].phase = "hello"
    /\ conn' = [conn EXCEPT ![c].phase =
                   IF conn[c].pos < conn[c].until THEN "check" ELSE "tail"]
    /\ cursor' = [cursor EXCEPT ![c] = IF @ = 0 THEN conn[c].until ELSE @]
    /\ UNCHANGED <<diskVars, stage, boot, seqVars, emitting, liveVars, gc, last, missed,
                   tailLost>>

(* A replay that cannot be proved contiguous: resync_required, then tail. *)
Resync(c) ==
    /\ conn' = [conn EXCEPT ![c] = [conn[c] EXCEPT !.phase = "tail", !.pos = conn[c].until,
                                                    !.page = {}, !.told = TRUE]]
    /\ missed' = [missed EXCEPT ![c] = {}]
    /\ UNCHANGED <<cursor, last, tailLost>>

Goto(c, phase) == conn' = [conn EXCEPT ![c].phase = phase] /\ UNCHANGED clientVars

ReplayCheck(c) ==
    /\ conn[c].phase = "check"
    /\ IF GapIn(conn[c].pos, conn[c].until) THEN Resync(c) ELSE Goto(c, "wait")
    /\ UNCHANGED <<diskVars, stage, boot, seqVars, emitting, liveVars, gc>>

ReplayWaitForever(c) ==
    /\ conn[c].phase = "wait" /\ durableID >= conn[c].until
    /\ Goto(c, "page")
    /\ UNCHANGED <<diskVars, stage, boot, seqVars, emitting, liveVars, gc>>

(* waitDurable: either the log reaches the watermark, or the bounded wait ends. *)
ReplayWait(c) ==
    /\ conn[c].phase = "wait"
    /\ IF durableID >= conn[c].until THEN Goto(c, "page") ELSE Resync(c)
    /\ UNCHANGED <<diskVars, stage, boot, seqVars, emitting, liveVars, gc>>

(* One page, read under replayMu.RLock. *)
ReplayPage(c) ==
    /\ conn[c].phase = "page" /\ conn[c].page = {}
    /\ LET after == conn[c].pos
           until == conn[c].until
           batch == ReplayRange(log, after, until, PageSize)
       IN  IF GapIn(after, until) \/ MinID(log) > after + 1 \/ batch = {}
           THEN Resync(c)
           ELSE conn' = [conn EXCEPT ![c].page = batch] /\ UNCHANGED clientVars
    /\ UNCHANGED <<diskVars, stage, boot, seqVars, emitting, liveVars, gc>>

(* Writing ev: the client sees it and moves its cursor, unless the filter of   *)
(* the stream leaves it out.                                                   *)
Deliver(c, ev) ==
    IF Matches(c, ev)
    THEN /\ cursor' = [cursor EXCEPT ![c] = ev.id]
         /\ last' = [last EXCEPT ![c] = ev]
         /\ missed' = [missed EXCEPT ![c] = @ \ {ev}]
         /\ UNCHANGED tailLost
    ELSE UNCHANGED clientVars

(* The next record of the page, outside any lock.  A hole stops the replay;    *)
(* the last record of the range ends it, the last of the page asks for more.   *)
ReplayRecord(c) ==
    /\ conn[c].phase = "page"
    /\ \E ev \in conn[c].page :
          /\ \A f \in conn[c].page : ev.id <= f.id
          /\ IF ev.id # conn[c].pos + 1 THEN Resync(c)
             ELSE /\ Deliver(c, ev)
                  /\ conn' = [conn EXCEPT ![c] = [conn[c] EXCEPT
                        !.page = conn[c].page \ {ev}, !.pos = ev.id,
                        !.phase = IF ev.id >= conn[c].until THEN "tail" ELSE "page"]]
    /\ UNCHANGED <<diskVars, stage, boot, seqVars, emitting, liveVars, gc>>

Tailing(c) ==
    /\ conn[c].phase = "tail" /\ conn[c].ch # << >>
    /\ LET ev == Head(conn[c].ch)
       IN  /\ Deliver(c, ev)
           /\ conn' = [conn EXCEPT ![c] = [conn[c] EXCEPT !.ch = Tail(conn[c].ch), !.pos = ev.id]]
    /\ UNCHANGED <<diskVars, stage, boot, seqVars, emitting, liveVars, gc>>

(* The channel was closed and is drained: an overflow is reported before the   *)
(* handler returns, a shutdown is not.                                         *)
TailClosed(c) ==
    /\ conn[c].phase = "tail" /\ conn[c].ch = << >> /\ ~conn[c].open
    /\ conn' = [conn EXCEPT ![c] = Closed]
    /\ IF conn[c].overflowed THEN missed' = [missed EXCEPT ![c] = {}] ELSE UNCHANGED missed
    /\ UNCHANGED <<diskVars, stage, boot, seqVars, emitting, liveVars, gc, cursor, last,
                   tailLost>>

(* The client goes away, a write fails or times out, or a replay read fails:   *)
(* the handler returns and its deferred unsubscribeEvents runs.                *)
Drop(c) ==
    /\ conn[c].phase # "off"
    /\ conn' = [conn EXCEPT ![c] = Closed]
    /\ UNCHANGED <<diskVars, stage, boot, seqVars, emitting, liveVars, gc, clientVars>>

-----------------------------------------------------------------------------
(* GC, retention, status *)

(* gcPass, first half: PruneEventLog under replayMu.Lock. *)
GCPrune(before) ==
    /\ stage # "down" /\ gc = 0
    /\ log' = Prune(log, before, KeepN)
    /\ gc' = before
    /\ UNCHANGED <<snapshot, stage, boot, seqVars, emitting, liveVars, conn, clientVars>>

(* gcPass, second half: pruneLiveSessions with a cutoff taken later. *)
GCLive(before) ==
    /\ gc # 0 /\ before >= gc
    /\ SetLive([k \in Keys |-> IF liveSessions[k] # NoEvent /\ liveSessions[k].at < before
                               THEN NoEvent ELSE liveSessions[k]])
    /\ gc' = 0
    /\ UNCHANGED <<diskVars, stage, boot, seqVars, emitting, conn, clientVars>>

(* The retention endpoints prune the log through replayGuardedStore. *)
RetentionPrune(before) ==
    /\ stage # "down"
    /\ log' = Prune(log, before, KeepN)
    /\ UNCHANGED <<snapshot, stage, boot, seqVars, emitting, liveVars, gc, conn, clientVars>>

(* liveSnapshotForRead, on every GET /v1/status. *)
ReadStatus ==
    /\ stage # "down" /\ liveCache = Nil
    /\ liveCache' = liveSessions
    /\ UNCHANGED <<diskVars, stage, boot, seqVars, emitting, liveSessions, gc, conn, clientVars>>

-----------------------------------------------------------------------------
(* Close, crash and restart *)

(* lifecycleMu.Lock waits for a running Emit; persistCh is closed. *)
CloseBegin ==
    /\ stage = "up" /\ emitting = NoEvent
    /\ stage' = "draining"
    /\ UNCHANGED <<diskVars, boot, seqVars, emitting, liveVars, gc, conn, clientVars>>

CloseSubscribersJoined ==
    /\ stage = "draining" /\ persistCh = << >> /\ Subscribers = {}
    /\ stage' = "closing"
    /\ UNCHANGED <<diskVars, boot, seqVars, emitting, liveVars, gc, conn, clientVars>>

(* The persister has drained: every subscriber channel is closed. *)
CloseSubscribers ==
    /\ stage = "draining" /\ persistCh = << >>
    /\ stage' = "closing"
    /\ conn' = [c \in Clients |-> [conn[c] EXCEPT !.open = FALSE]]
    /\ UNCHANGED <<diskVars, boot, seqVars, emitting, liveVars, gc, clientVars>>

(* saveLiveSnapshot, whose failure is only logged, then the stores close and   *)
(* the process exits, which ends what handlers are left.                       *)
CloseFinish ==
    /\ stage = "closing"
    /\ \/ snapshot' = [watermark |-> durableID, entries |-> liveSessions]
       \/ CanFail /\ UNCHANGED snapshot
    /\ stage' = "down"
    /\ Volatile(0)
    /\ liveSessions' = NoLive /\ liveCache' = Nil
    /\ UNCHANGED <<log, boot, clientVars>>

Crash ==
    /\ CanCrash /\ stage # "down"
    /\ stage' = "down"
    /\ Volatile(0)
    /\ liveSessions' = NoLive /\ liveCache' = Nil
    /\ UNCHANGED <<diskVars, boot, clientVars>>

(* NewServer: everything is seeded from what the log holds. *)
NewServer ==
    /\ stage = "down" /\ boot < MaxBoot
    /\ stage' = "up" /\ boot' = boot + 1
    /\ Volatile(LastID(log))
    /\ liveSessions' = LoadLiveState /\ liveCache' = Nil
    /\ tailLost' = (tailLost \/ \E c \in Clients : \/ cursor[c] > LastID(log)
                                                  \/ \E e \in missed[c] : e.id > LastID(log))
    /\ UNCHANGED <<diskVars, cursor, last, missed>>

-----------------------------------------------------------------------------
Emit == (\E k \in Keys \cup {NoKey}, t \in Times : EmitAssign(k, t)) \/ EmitPublish \/ EmitEnqueue

Handler(c) ==
    \/ Hello(c) \/ ReplayCheck(c) \/ ReplayWait(c) \/ ReplayPage(c) \/ ReplayRecord(c)
    \/ Tailing(c) \/ TailClosed(c)

Next ==
    \/ Emit
    \/ Persist \/ PersistFail
    \/ \E c \in Clients : (\E resume \in BOOLEAN : Subscribe(c, resume)) \/ Handler(c) \/ Drop(c)
    \/ \E before \in Cutoffs : GCPrune(before) \/ GCLive(before) \/ RetentionPrune(before)
    \/ ReadStatus
    \/ CloseBegin \/ CloseSubscribers \/ CloseFinish
    \/ Crash \/ NewServer

Spec == Init /\ [][Next]_vars

(* Goroutines that are running keep running: the persister, the Emit that      *)
(* holds the lock, every stream handler (its waits are bounded and its writes  *)
(* have deadlines), and Close once it has begun.  Nothing obliges anyone to    *)
(* emit, to connect, to disconnect, to prune or to stop the daemon.            *)
Fairness ==
    /\ WF_vars(EmitPublish) /\ WF_vars(EmitEnqueue)
    /\ WF_vars(Persist \/ PersistFail)
    /\ \A c \in Clients : WF_vars(Handler(c))
    /\ WF_vars(CloseSubscribers) /\ WF_vars(CloseFinish)

FairSpec == Spec /\ Fairness

-----------------------------------------------------------------------------
(* Properties *)

Conn == [phase : Phases, pos : Nat, until : Nat, page : SUBSET Event, ch : Seq(Event),
         open : BOOLEAN, overflowed : BOOLEAN, told : BOOLEAN]

LiveTable == [Keys -> Event \cup {NoEvent}]

(* Every variable has its type. *)
TypeOK ==
    /\ log \in SUBSET Event
    /\ snapshot \in [watermark : Nat, entries : LiveTable] \cup {Nil}
    /\ stage \in {"up", "draining", "closing", "down"}
    /\ boot \in Nat /\ eventSeq \in Nat /\ lastPublishedID \in Nat /\ durableID \in Nat
    /\ persistCh \in Seq(Event) /\ replayGap \in Nat
    /\ emitting \in [step : {"publish", "enqueue"}, ev : Event] \cup {NoEvent}
    /\ liveSessions \in LiveTable /\ liveCache \in LiveTable \cup {Nil}
    /\ gc \in Nat
    /\ conn \in [Clients -> Conn]
    /\ cursor \in [Clients -> Nat]
    /\ last \in [Clients -> Event \cup {NoEvent}]
    /\ missed \in [Clients -> SUBSET Event]
    /\ tailLost \in BOOLEAN

(* The stream endpoint implements the feed it promises: a connection processes *)
(* the ids one after the other, whatever prunes, failed or dropped appends and *)
(* channel overflows do meanwhile; it never moves past an event it has neither *)
(* written nor filtered out unless it writes resync_required in that step.  In *)
(* particular nothing is lost or sent twice where a replay ends and the        *)
(* channel begins.                                                             *)
FeedOf(s) == [on |-> s.phase # "off", at |-> s.pos, told |-> s.told]
Feed == INSTANCE StreamFeed WITH head <- lastPublishedID,
                                 feed <- [c \in Clients |-> FeedOf(conn[c])]
ImplementsFeed == Feed!Spec

Before(e, f) == e.boot < f.boot \/ (e.boot = f.boot /\ e.id < f.id)

(* Across connections: a client that reconnects with its Last-Event-ID has, at *)
(* every event it receives, received all the earlier ones its filter wants, or *)
(* has been told to resync since they were published.                          *)
NothingLost ==
    \A c \in Clients : last[c] # NoEvent =>
        \A e \in missed[c] : ~Before(e, last[c])

(* The one way to lose an event silently is a restart that lost the log's tail *)
(* (by a crash, or because its last appends had failed).                       *)
NoSilentLoss == ~tailLost => NothingLost

(* The durable watermark a replay waits for, and a snapshot is stamped with,   *)
(* is the last id of the log: it survives failed appends and prunes.           *)
DurableIsLastID == stage # "down" => durableID = LastID(log)

(* The read index of GET /v1/status is the session table. *)
CacheIsFresh == liveCache # Nil => liveCache = liveSessions

(* Live status never lags behind the log, also right after a restart from a    *)
(* stale snapshot: an event within the scan window and inside retention is     *)
(* reflected in the table or superseded there.                                 *)
LiveCoversLog ==
    stage # "down" =>
        \A e \in log :
            (/\ e.key \in Keys
             /\ e.id + ScanWindow > LastID(log)
             /\ \A before \in Cutoffs : e.at >= before)
            => /\ liveSessions[e.key] # NoEvent
               /\ ~Supersedes(e, liveSessions[e.key])

(* A restart on a log that is not empty never takes a session back behind the  *)
(* state its last clean shutdown saved.                                        *)
RestartKeepsLive ==
    [][(stage = "down" /\ stage' = "up" /\ snapshot # Nil /\ log # {})
       => \A k \in Keys : snapshot.entries[k] # NoEvent
             => /\ liveSessions'[k] # NoEvent
                /\ ~Supersedes(snapshot.entries[k], liveSessions'[k])]_vars

(* A stream that is behind the newest event moves on, is told to resync or     *)
(* ends: no replay hangs, no overflowed subscriber stays attached.             *)
StreamProgress == Feed!Progress

(* A published event ends in the log or behind the gap mark. *)
PublishedIsSettled ==
    \A i \in 1..MaxId :
        (stage = "up" /\ lastPublishedID >= i)
        ~> \/ durableID >= i
           \/ replayGap # 0 /\ replayGap <= i
           \/ stage = "down"

(* Close ends, whatever the handlers and the persister are doing. *)
CloseEnds == stage = "draining" ~> stage = "down"

(* server.go on replayMu: "Replay holds RLock for the whole walk"; sse.go on   *)
(* PruneEventLog: "Block while any reconnect replay is in flight".  A prune    *)
(* would never remove anything between two frames of a client's replay.        *)
PruneBlocksDuringReplay ==
    [][(\E e \in log : e \notin log') => \A c \in Clients : conn[c].page = {}]_vars

(* README.md: "On reconnect the daemon replays missed events from its          *)
(* append-only event log, so a consumer never silently loses a transition".    *)
(* An event that is in the log would never be passed over in silence.          *)
LogIsReplayed ==
    \A c \in Clients : last[c] # NoEvent =>
        \A e \in missed[c] \cap log : ~Before(e, last[c])

=============================================================================
