-------------------------- MODULE LiveBrokerProofs --------------------------
(***************************************************************************)
(* Theorems about LiveBroker, for any clients, keys, capacities and bounds:  *)
(* its types, the durable watermark, and that the stream endpoint implements *)
(* StreamFeed.  All rest on one inductive invariant, IInv.                    *)
(* Then about what it remembers: the live session table covers the event     *)
(* log, also right after a restart, and a client that follows the stream      *)
(* loses nothing in silence.  Both need to know what is on its way between     *)
(* the actors, which LiveInv and LossInv say; they stand on IInv.               *)
(***************************************************************************)
EXTENDS LiveBroker, FiniteSetTheorems, TLAPS

-----------------------------------------------------------------------------
(* What the operations of the event log preserve.  The log is a set of events *)
(* with natural ids; HasNewest is what finiteness gives it.                    *)

(* A log that is not empty has a newest event. *)
HasNewest(events) == events = {} \/ \E e \in events : \A f \in events : f.id <= e.id

NaturalIds(events) == \A e \in events : e.id \in Nat

(* LastID is the id of an event no other one is newer than, 0 on an empty log. *)
LEMMA LastIDIsNewest ==
    ASSUME NEW events, NaturalIds(events), HasNewest(events)
    PROVE  /\ LastID(events) \in Nat
           /\ events = {} => LastID(events) = 0
           /\ events # {} => \E e \in events : e.id = LastID(events)
           /\ \A f \in events : f.id <= LastID(events)
<1>1. CASE events = {}
  BY <1>1 DEF LastID
<1>2. CASE events # {}
  <2> DEFINE Newest(e) == \A f \in events : f.id <= e.id
             top == CHOOSE e \in events : Newest(e)
  <2>1. \E e \in events : Newest(e)
    BY <1>2 DEF HasNewest
  <2>2. top \in events /\ Newest(top)
    BY <2>1
  <2>3. LastID(events) = top.id
    BY <1>2 DEF LastID
  <2> QED
    BY <1>2, <2>2, <2>3 DEF NaturalIds
<1> QED
  BY <1>1, <1>2

(* Whoever is the newest event, its id is LastID. *)
LEMMA NewestHasLastID ==
    ASSUME NEW events, NaturalIds(events), NEW e \in events, \A f \in events : f.id <= e.id
    PROVE  HasNewest(events) /\ LastID(events) = e.id
<1>1. HasNewest(events)
  BY DEF HasNewest
<1>2. PICK g \in events : g.id = LastID(events)
  BY <1>1, LastIDIsNewest
<1>3. e.id <= g.id /\ g.id <= e.id
  BY <1>1, <1>2, LastIDIsNewest
<1> QED
  BY <1>1, <1>2, <1>3 DEF NaturalIds

(* Appending an event newer than the log makes it the last one. *)
LEMMA AppendMakesLast ==
    ASSUME NEW events, NaturalIds(events), HasNewest(events),
           NEW e, e.id \in Nat, LastID(events) < e.id
    PROVE  /\ NaturalIds(AppendWithID(events, e))
           /\ HasNewest(AppendWithID(events, e))
           /\ LastID(AppendWithID(events, e)) = e.id
<1> DEFINE new == AppendWithID(events, e)
<1>1. NaturalIds(new) /\ e \in new
  BY DEF AppendWithID, NaturalIds
<1>2. \A f \in events : f.id <= e.id
  BY LastIDIsNewest DEF NaturalIds
<1>3. \A f \in new : f.id <= e.id
  BY <1>2 DEF AppendWithID
<1> HIDE DEF new
<1>4. HasNewest(new) /\ LastID(new) = e.id
  BY <1>1, <1>3, NewestHasLastID
<1> QED
  BY <1>1, <1>4 DEF new

(* Prune never removes the newest event while at least one is to be kept, so   *)
(* the last id, from which a restart seeds its counters, survives any prune.   *)
LEMMA PruneKeepsLast ==
    ASSUME NEW events, NaturalIds(events), HasNewest(events),
           NEW before \in Nat, NEW keepN \in Nat \ {0}
    PROVE  /\ Prune(events, before, keepN) \subseteq events
           /\ HasNewest(Prune(events, before, keepN))
           /\ LastID(Prune(events, before, keepN)) = LastID(events)
<1> DEFINE new == Prune(events, before, keepN)
<1>1. new \subseteq events
  BY DEF Prune
<1>2. CASE events = {}
  BY <1>1, <1>2 DEF HasNewest, LastID
<1>3. CASE events # {}
  <2>1. PICK e \in events : \A f \in events : f.id <= e.id
    BY <1>3 DEF HasNewest
  <2>2. {f \in events : f.id > e.id} = {}
    BY <2>1 DEF NaturalIds
  <2>3. AboveFloor(events, keepN, e)
    <3>1. Cardinality({}) = 0
      BY FS_EmptySet
    <3> QED
      BY <2>2, <3>1 DEF AboveFloor
  <2>4. e \notin Victims(events, before, keepN)
    BY <2>3 DEF Victims, Expendable, NaturalIds
  <2>5. e \in new
    BY <2>4 DEF Prune
  <2>6. NaturalIds(new) /\ \A f \in new : f.id <= e.id
    BY <1>1, <2>1 DEF NaturalIds
  <2> HIDE DEF new
  <2>7. HasNewest(new) /\ LastID(new) = e.id
    BY <2>5, <2>6, NewestHasLastID
  <2>8. LastID(events) = e.id
    BY <2>1, NewestHasLastID
  <2> QED
    BY <1>1, <2>7, <2>8 DEF new
<1> QED
  BY <1>2, <1>3

(* Prune removes a prefix: everything newer than a surviving event survives, so *)
(* a replay that finds the first id it needs finds no hole a prune has made.    *)
LEMMA PruneRemovesPrefix ==
    ASSUME NEW events, NaturalIds(events), NEW before, NEW keepN,
           NEW e \in Prune(events, before, keepN), NEW f \in events, e.id <= f.id
    PROVE  f \in Prune(events, before, keepN)
<1>1. CASE before = 0 /\ keepN = 0
  BY <1>1 DEF Prune
<1>2. CASE ~(before = 0 /\ keepN = 0)
  <2>1. e \in events /\ e \notin Victims(events, before, keepN)
    BY <1>2 DEF Prune
  <2>2. PICK g \in events : g.id <= e.id /\ ~Expendable(events, before, keepN, g)
    BY <2>1 DEF Victims
  <2>3. g.id <= f.id
    BY <2>1, <2>2 DEF NaturalIds
  <2>4. f \notin Victims(events, before, keepN)
    BY <2>2, <2>3 DEF Victims
  <2> QED
    BY <1>2, <2>4 DEF Prune
<1> QED
  BY <1>1, <1>2

(* A page of a replay lies within the range it was asked for. *)
LEMMA ReplayRangeInRange ==
    ASSUME NEW events, NEW after, NEW until, NEW limit, NEW e \in ReplayRange(events, after, until, limit)
    PROVE  e \in events /\ e.id > after /\ (until = 0 \/ e.id <= until)
BY DEF ReplayRange

-----------------------------------------------------------------------------
(* The inductive invariant *)

(* Ids are assigned one by one, and published before the next is assigned. *)
SeqInv ==
    /\ emitting = NoEvent => eventSeq = lastPublishedID
    /\ emitting # NoEvent =>
          /\ emitting.ev.id = eventSeq
          /\ emitting.step = "publish" => eventSeq = lastPublishedID + 1
          /\ emitting.step = "enqueue" => eventSeq = lastPublishedID

(* What waits to be persisted has ascending ids, all newer than the log and    *)
(* older than the event an Emit has yet to queue.                             *)
QueueInv ==
    /\ durableID <= eventSeq
    /\ \A i \in 1..Len(persistCh) :
          /\ durableID < persistCh[i].id
          /\ persistCh[i].id <= eventSeq
          /\ emitting # NoEvent => persistCh[i].id < eventSeq
    /\ \A i, j \in 1..Len(persistCh) : i < j => persistCh[i].id < persistCh[j].id
    /\ emitting # NoEvent => durableID < eventSeq

(* Where the events in the channel of a handler begin: at its position once it *)
(* tails, before that at the watermark read when it subscribed.                *)
Base(s) == IF s.phase = "tail" THEN s.pos ELSE s.until

(* A handler and its channel, given the watermark: the channel holds the ids   *)
(* right after its base, all of them up to the watermark while it is open, and *)
(* the replay, which stays below its own watermark, has reported nothing yet.  *)
ConnInv(s, watermark) ==
    /\ \A i \in 1..Len(s.ch) : s.ch[i].id = Base(s) + i
    /\ Base(s) + Len(s.ch) <= watermark
    /\ s.open => Base(s) + Len(s.ch) = watermark
    /\ s.phase # "tail" => ~s.told /\ s.pos <= s.until /\ \A f \in s.page : f.id <= s.until
    /\ s.phase \in Replaying => s.pos < s.until

ConnsInv == \A c \in Clients : ConnInv(conn[c], lastPublishedID)

IInv ==
    /\ TypeOK
    /\ HasNewest(log)
    /\ SeqInv
    /\ DurableIsLastID
    /\ QueueInv
    /\ ConnsInv

-----------------------------------------------------------------------------
(* Types *)

(* The ids of the log are natural numbers, and so is the last one. *)
LEMMA LogIds ==
    ASSUME TypeOK, HasNewest(log)
    PROVE  NaturalIds(log) /\ LastID(log) \in Nat
<1>1. NaturalIds(log)
  BY DEF TypeOK, NaturalIds, Event
<1> QED
  BY <1>1, LastIDIsNewest

(* Folding events into a session table gives a session table. *)
LEMMA FoldLiveType ==
    ASSUME NEW live \in LiveTable, NEW events \in SUBSET Event
    PROVE  FoldLive(live, events) \in LiveTable
<1> SUFFICES ASSUME NEW k \in Keys
             PROVE  FoldLive(live, events)[k] \in Event \cup {NoEvent}
  BY DEF FoldLive, LiveTable
<1> DEFINE better == {e \in events : e.key = k /\ Wins(live, e)}
           newest == {e \in better : \A f \in better : ~Supersedes(f, e)}
<1>1. FoldLive(live, events)[k] = IF newest = {} THEN live[k] ELSE CHOOSE e \in newest : TRUE
  BY DEF FoldLive
<1>2. newest \subseteq Event
  OBVIOUS
<1>3. live[k] \in Event \cup {NoEvent}
  BY DEF LiveTable
<1>4. newest # {} => (CHOOSE e \in newest : TRUE) \in newest
  OBVIOUS
<1> HIDE DEF newest
<1> QED
  BY <1>1, <1>2, <1>3, <1>4

(* So what a restart loads is one. *)
LEMMA LoadLiveStateType ==
    ASSUME TypeOK
    PROVE  LoadLiveState \in LiveTable
<1>1. NoLive \in LiveTable
  BY DEF NoLive, LiveTable
<1>2. {e \in log : e.id > LoadAfter} \in SUBSET Event
  BY DEF TypeOK
<1>3. snapshot # Nil => snapshot.entries \in LiveTable
  BY DEF TypeOK
<1> QED
  BY <1>1, <1>2, <1>3, FoldLiveType DEF LoadLiveState

(* No handler is a handler state. *)
LEMMA ClosedType == Closed \in Conn
<1>1. << >> \in Seq(Event) /\ {} \in SUBSET Event
  OBVIOUS
<1> QED
  BY <1>1 DEF Closed, Conn, Phases, Replaying

(* The server's memory when it starts, or is gone. *)
LEMMA VolatileType ==
    ASSUME NEW seq \in Nat, Volatile(seq)
    PROVE  /\ eventSeq' \in Nat /\ lastPublishedID' \in Nat /\ durableID' \in Nat
           /\ persistCh' \in Seq(Event) /\ replayGap' \in Nat
           /\ emitting' \in [step : {"publish", "enqueue"}, ev : Event] \cup {NoEvent}
           /\ gc' \in Nat
           /\ conn' \in [Clients -> Conn]
<1>1. conn' \in [Clients -> Conn]
  BY ClosedType DEF Volatile
<1>2. persistCh' \in Seq(Event)
  BY DEF Volatile
<1> QED
  BY <1>1, <1>2 DEF Volatile

(* The initial values have their types. *)
LEMMA TypeInit == Init => TypeOK
<1> SUFFICES ASSUME Init PROVE TypeOK
  OBVIOUS
<1>1. conn \in [Clients -> Conn]
  BY ClosedType DEF Init
<1>2. persistCh \in Seq(Event)
  BY DEF Init
<1>3. liveSessions \in LiveTable
  BY DEF Init, NoLive, LiveTable
<1> QED
  BY <1>1, <1>2, <1>3 DEF Init, TypeOK

(* A write to the session table, which may invalidate the read index. *)
LEMMA SetLiveType ==
    ASSUME NEW table \in LiveTable, SetLive(table), liveCache \in LiveTable \cup {Nil}
    PROVE  liveSessions' \in LiveTable /\ liveCache' \in LiveTable \cup {Nil}
BY DEF SetLive

(* The three steps of Emit keep the types. *)
LEMMA EmitType ==
    ASSUME TypeOK, Emit
    PROVE  TypeOK'
<1>1. ASSUME NEW k \in Keys \cup {NoKey}, NEW t \in Times, EmitAssign(k, t)
      PROVE  TypeOK'
  <2> DEFINE ev == [id |-> eventSeq + 1, boot |-> boot, key |-> k, at |-> t]
             table == IF Wins(liveSessions, ev) THEN [liveSessions EXCEPT ![k] = ev]
                      ELSE liveSessions
  <2>1. ev \in Event
    BY <1>1 DEF TypeOK, Event
  <2>2. emitting' = [step |-> "publish", ev |-> ev] /\ SetLive(table)
    BY <1>1 DEF EmitAssign
  <2>3. table \in LiveTable
    BY <2>1 DEF TypeOK, LiveTable
  <2>4. liveSessions' \in LiveTable /\ liveCache' \in LiveTable \cup {Nil}
    BY <2>2, <2>3, SetLiveType DEF TypeOK
  <2>5. emitting' \in [step : {"publish", "enqueue"}, ev : Event]
    BY <2>1, <2>2
  <2> QED
    BY <1>1, <2>4, <2>5 DEF EmitAssign, TypeOK, diskVars, clientVars
<1>2. ASSUME EmitPublish
      PROVE  TypeOK'
  <2>1. /\ emitting \in [step : {"publish", "enqueue"}, ev : Event]
        /\ emitting.ev \in Event /\ emitting.ev.id \in Nat
    BY <1>2 DEF EmitPublish, TypeOK, Event
  <2>2. emitting' \in [step : {"publish", "enqueue"}, ev : Event]
    BY <1>2, <2>1 DEF EmitPublish
  <2>3. ASSUME NEW c \in Clients
        PROVE  FanOut(conn[c], emitting.ev) \in Conn
    <3>1. conn[c] \in Conn
      BY DEF TypeOK
    <3>2. Append(conn[c].ch, emitting.ev) \in Seq(Event)
      BY <2>1, <3>1 DEF Conn
    <3>3. CASE ~conn[c].open
      BY <3>1, <3>3 DEF FanOut
    <3>4. CASE conn[c].open /\ Len(conn[c].ch) < ChanCap
      BY <3>1, <3>2, <3>4 DEF FanOut, Conn
    <3>5. CASE conn[c].open /\ ~(Len(conn[c].ch) < ChanCap)
      <4>1. Len(conn[c].ch) >= ChanCap
        BY <3>1, <3>5, ConstantsAssumption DEF Conn
      <4> QED
        BY <3>1, <3>5, <4>1 DEF FanOut, Conn
    <3> QED
      BY <3>3, <3>4, <3>5
  <2>4. conn' \in [Clients -> Conn]
    BY <1>2, <2>3 DEF EmitPublish
  <2>5. missed' \in [Clients -> SUBSET Event]
    BY <1>2, <2>1 DEF EmitPublish, TypeOK
  <2> QED
    BY <1>2, <2>1, <2>2, <2>4, <2>5 DEF EmitPublish, TypeOK, diskVars, liveVars
<1>3. ASSUME EmitEnqueue
      PROVE  TypeOK'
  <2>1. emitting.ev \in Event /\ emitting.ev.id \in Nat
    BY <1>3 DEF EmitEnqueue, TypeOK, Event
  <2>2. Append(persistCh, emitting.ev) \in Seq(Event)
    BY <2>1 DEF TypeOK
  <2>3. MarkGap(emitting.ev.id) \in Nat
    BY <2>1 DEF TypeOK, MarkGap
  <2> QED
    BY <1>3, <2>2, <2>3 DEF EmitEnqueue, TypeOK, diskVars, liveVars, clientVars
<1> QED
  BY <1>1, <1>2, <1>3 DEF Emit

(* So does the persister, whether its append succeeds or fails, *)
LEMMA PersisterType ==
    ASSUME TypeOK, Persist \/ PersistFail
    PROVE  TypeOK'
<1> DEFINE ev == Head(persistCh)
<1>1. persistCh \in Seq(Event) /\ persistCh # << >>
  BY DEF Persist, PersistFail, TypeOK
<1>2. ev \in Event /\ Tail(persistCh) \in Seq(Event)
  BY <1>1
<1>3. ev.id \in Nat /\ MarkGap(ev.id) \in Nat
  BY <1>2 DEF Event, MarkGap, TypeOK
<1> HIDE DEF ev
<1>4. CASE Persist
  <2>1. log' \in SUBSET Event
    BY <1>2, <1>4 DEF Persist, AppendWithID, TypeOK, ev
  <2> QED
    BY <1>2, <1>3, <1>4, <2>1 DEF Persist, TypeOK, liveVars, clientVars, ev
<1>5. CASE PersistFail
  BY <1>2, <1>3, <1>5 DEF PersistFail, TypeOK, diskVars, liveVars, clientVars, ev
<1> QED
  BY <1>4, <1>5

(* A step of a handler changes its own entry and the client's side. *)
LEMMA HandlerStepType ==
    ASSUME TypeOK,
           conn' \in [Clients -> Conn], cursor' \in [Clients -> Nat],
           last' \in [Clients -> Event \cup {NoEvent}], missed' \in [Clients -> SUBSET Event],
           UNCHANGED tailLost,
           UNCHANGED <<diskVars, stage, boot, seqVars, emitting, liveVars, gc>>
    PROVE  TypeOK'
BY DEF TypeOK, diskVars, seqVars, liveVars

(* and a handler that gives up its replay, *)
LEMMA ResyncType ==
    ASSUME TypeOK, NEW c \in Clients, Resync(c)
    PROVE  /\ conn' \in [Clients -> Conn] /\ cursor' \in [Clients -> Nat]
           /\ last' \in [Clients -> Event \cup {NoEvent}]
           /\ missed' \in [Clients -> SUBSET Event] /\ UNCHANGED tailLost
BY ZenonT(60) DEF Resync, TypeOK, Conn, Phases

(* goes on to another part of it, *)
LEMMA GotoType ==
    ASSUME TypeOK, NEW c \in Clients, NEW phase \in Phases, Goto(c, phase)
    PROVE  /\ conn' \in [Clients -> Conn] /\ cursor' \in [Clients -> Nat]
           /\ last' \in [Clients -> Event \cup {NoEvent}]
           /\ missed' \in [Clients -> SUBSET Event] /\ UNCHANGED tailLost
BY DEF Goto, TypeOK, Conn, clientVars

(* or writes an event, *)
LEMMA DeliverType ==
    ASSUME TypeOK, NEW c \in Clients, NEW ev \in Event, Deliver(c, ev)
    PROVE  /\ cursor' \in [Clients -> Nat]
           /\ last' \in [Clients -> Event \cup {NoEvent}]
           /\ missed' \in [Clients -> SUBSET Event] /\ UNCHANGED tailLost
<1>1. ev.id \in Nat
  BY DEF Event
<1>2. missed[c] \ {ev} \in SUBSET Event
  BY DEF TypeOK
<1> QED
  BY <1>1, <1>2 DEF Deliver, TypeOK, clientVars

(* and so every step of a handler. *)
LEMMA StreamType ==
    ASSUME TypeOK, NEW c \in Clients,
           (\E resume \in BOOLEAN : Subscribe(c, resume)) \/ Handler(c) \/ Drop(c)
    PROVE  TypeOK'
<1> DEFINE s == conn[c]
<1>1. s \in Conn /\ cursor[c] \in Nat /\ lastPublishedID \in Nat
  BY DEF TypeOK
<1>2. ASSUME NEW t \in Conn, conn' = [conn EXCEPT ![c] = t]
      PROVE  conn' \in [Clients -> Conn]
  BY <1>2 DEF TypeOK
<1>3. ASSUME NEW resume \in BOOLEAN, Subscribe(c, resume)
      PROVE  TypeOK'
  <2> DEFINE pos == IF resume /\ cursor[c] < lastPublishedID THEN cursor[c] ELSE lastPublishedID
             t == [Closed EXCEPT !.phase = "hello", !.open = TRUE, !.until = lastPublishedID,
                                 !.pos = pos]
  <2>1. t \in Conn
    <3>1. pos \in Nat /\ "hello" \in Phases
      BY <1>1 DEF Phases
    <3> HIDE DEF pos
    <3> QED
      BY <1>1, <3>1, ClosedType DEF Conn
  <2>2. conn' = [conn EXCEPT ![c] = t]
    BY <1>3 DEF Subscribe
  <2>3. conn' \in [Clients -> Conn]
    BY <1>2, <2>1, <2>2
  <2>4. CASE resume
    BY <1>3, <2>3, <2>4, HandlerStepType DEF Subscribe, TypeOK, clientVars
  <2>5. CASE ~resume
    <3>1. /\ cursor' = [cursor EXCEPT ![c] = 0]
          /\ last' = [last EXCEPT ![c] = NoEvent]
          /\ missed' = [missed EXCEPT ![c] = {}]
          /\ UNCHANGED tailLost
          /\ UNCHANGED <<diskVars, stage, boot, seqVars, emitting, liveVars, gc>>
      BY <1>3, <2>5 DEF Subscribe
    <3>2. /\ cursor' \in [Clients -> Nat]
          /\ last' \in [Clients -> Event \cup {NoEvent}]
          /\ missed' \in [Clients -> SUBSET Event]
      BY <3>1 DEF TypeOK
    <3> QED
      BY <2>3, <3>1, <3>2, HandlerStepType
  <2> QED
    BY <2>4, <2>5
<1>4. CASE Hello(c)
  <2>1. conn' \in [Clients -> Conn]
    BY <1>1, <1>4 DEF Hello, TypeOK, Conn, Phases, Replaying
  <2>2. cursor' \in [Clients -> Nat]
    BY <1>1, <1>4 DEF Hello, TypeOK, Conn
  <2> QED
    BY <1>4, <2>1, <2>2, HandlerStepType DEF Hello, TypeOK
<1>5. CASE ReplayCheck(c)
  <2>1. Resync(c) \/ Goto(c, "wait")
    BY <1>5 DEF ReplayCheck
  <2>2. "wait" \in Phases
    BY DEF Phases, Replaying
  <2> QED
    BY <1>5, <2>1, <2>2, ResyncType, GotoType, HandlerStepType DEF ReplayCheck
<1>6. CASE ReplayWait(c)
  <2>1. Resync(c) \/ Goto(c, "page")
    BY <1>6 DEF ReplayWait
  <2>2. "page" \in Phases
    BY DEF Phases, Replaying
  <2> QED
    BY <1>6, <2>1, <2>2, ResyncType, GotoType, HandlerStepType DEF ReplayWait
<1>7. CASE ReplayPage(c)
  <2>1. CASE Resync(c)
    BY <1>7, <2>1, ResyncType, HandlerStepType DEF ReplayPage
  <2>2. CASE ~Resync(c)
    <3> DEFINE batch == ReplayRange(log, s.pos, s.until, PageSize)
    <3>1. batch \in SUBSET Event
      BY ReplayRangeInRange DEF TypeOK
    <3>2. conn' = [conn EXCEPT ![c].page = batch] /\ UNCHANGED clientVars
      BY <1>7, <2>2 DEF ReplayPage
    <3> HIDE DEF batch
    <3>3. conn' \in [Clients -> Conn]
      BY <3>1, <3>2, ZenonT(60) DEF TypeOK, Conn
    <3> QED
      BY <1>7, <3>2, <3>3, HandlerStepType DEF ReplayPage, TypeOK, clientVars
  <2> QED
    BY <2>1, <2>2
<1>8. CASE ReplayRecord(c)
  <2>1. PICK ev \in s.page :
          IF ev.id # s.pos + 1 THEN Resync(c)
          ELSE /\ Deliver(c, ev)
               /\ conn' = [conn EXCEPT ![c] = [conn[c] EXCEPT
                     !.page = conn[c].page \ {ev}, !.pos = ev.id,
                     !.phase = IF ev.id >= conn[c].until THEN "tail" ELSE "page"]]
    BY <1>8 DEF ReplayRecord
  <2>2. ev \in Event /\ ev.id \in Nat
    BY <1>1 DEF Conn, Event
  <2>3. CASE Resync(c)
    BY <1>8, <2>3, ResyncType, HandlerStepType DEF ReplayRecord
  <2>4. CASE ~Resync(c)
    <3> DEFINE phase == IF ev.id >= conn[c].until THEN "tail" ELSE "page"
               t == [s EXCEPT !.page = s.page \ {ev}, !.pos = ev.id, !.phase = phase]
    <3>1. phase \in Phases
      BY DEF Phases, Replaying
    <3>2. conn' = [conn EXCEPT ![c] = t]
      BY <2>1, <2>4
    <3> HIDE DEF phase
    <3>3. t \in Conn
      BY <1>1, <2>2, <3>1 DEF Conn
    <3> HIDE DEF t
    <3>4. conn' \in [Clients -> Conn]
      BY <1>2, <3>2, <3>3
    <3> QED
      BY <1>8, <2>1, <2>2, <2>4, <3>4, DeliverType, HandlerStepType DEF ReplayRecord
  <2> QED
    BY <2>3, <2>4
<1>9. CASE Tailing(c)
  <2> DEFINE ev == Head(s.ch)
  <2>1. s.ch \in Seq(Event) /\ s.ch # << >>
    BY <1>1, <1>9 DEF Tailing, Conn
  <2>2. ev \in Event /\ Tail(s.ch) \in Seq(Event)
    BY <2>1
  <2>3. ev.id \in Nat
    BY <2>2 DEF Event
  <2>4. /\ Deliver(c, ev)
        /\ conn' = [conn EXCEPT ![c] = [conn[c] EXCEPT !.ch = Tail(conn[c].ch), !.pos = ev.id]]
    BY <1>9 DEF Tailing
  <2> HIDE DEF ev
  <2> DEFINE t == [s EXCEPT !.ch = Tail(s.ch), !.pos = ev.id]
  <2>5. t \in Conn
    BY <1>1, <2>2, <2>3 DEF Conn
  <2>6. conn' = [conn EXCEPT ![c] = t]
    BY <2>4
  <2> HIDE DEF t
  <2>7. conn' \in [Clients -> Conn]
    BY <1>2, <2>5, <2>6
  <2> QED
    BY <1>9, <2>2, <2>4, <2>7, DeliverType, HandlerStepType DEF Tailing
<1>10. CASE TailClosed(c)
  <2>1. conn' \in [Clients -> Conn]
    BY <1>2, <1>10, ClosedType DEF TailClosed
  <2> QED
    BY <1>10, <2>1, HandlerStepType DEF TailClosed, TypeOK
<1>11. CASE Drop(c)
  <2>1. conn' \in [Clients -> Conn]
    BY <1>2, <1>11, ClosedType DEF Drop
  <2> QED
    BY <1>11, <2>1, HandlerStepType DEF Drop, TypeOK, clientVars
<1> QED
  BY <1>3, <1>4, <1>5, <1>6, <1>7, <1>8, <1>9, <1>10, <1>11 DEF Handler

(* So do both halves of a GC pass and the retention endpoints, *)
LEMMA PruneType ==
    ASSUME TypeOK,
           \E before \in Cutoffs : GCPrune(before) \/ GCLive(before) \/ RetentionPrune(before)
    PROVE  TypeOK'
<1>1. PICK before \in Cutoffs : GCPrune(before) \/ GCLive(before) \/ RetentionPrune(before)
  OBVIOUS
<1>2. before \in Nat
  BY ConstantsAssumption
<1>3. Prune(log, before, KeepN) \subseteq log
  BY DEF Prune
<1>4. CASE GCPrune(before)
  BY <1>2, <1>3, <1>4 DEF GCPrune, TypeOK, seqVars, liveVars, clientVars
<1>5. CASE GCLive(before)
  <2> DEFINE table == [k \in Keys |->
                 IF liveSessions[k] # NoEvent /\ liveSessions[k].at < before
                 THEN NoEvent ELSE liveSessions[k]]
  <2>1. table \in LiveTable
    BY DEF LiveTable, TypeOK
  <2>2. SetLive(table)
    BY <1>5 DEF GCLive
  <2> HIDE DEF table
  <2>3. liveSessions' \in LiveTable /\ liveCache' \in LiveTable \cup {Nil}
    BY <2>1, <2>2, SetLiveType DEF TypeOK
  <2> QED
    BY <1>5, <2>3 DEF GCLive, TypeOK, diskVars, seqVars, clientVars
<1>6. CASE RetentionPrune(before)
  BY <1>3, <1>6 DEF RetentionPrune, TypeOK, seqVars, liveVars, clientVars
<1> QED
  BY <1>1, <1>4, <1>5, <1>6

(* the end of Close and a crash, *)
LEMMA StoppedType ==
    ASSUME TypeOK, CloseFinish \/ Crash
    PROVE  TypeOK'
<1>1. Volatile(0) /\ liveSessions' = NoLive /\ liveCache' = Nil
  BY DEF CloseFinish, Crash
<1>2. NoLive \in LiveTable
  BY DEF NoLive, LiveTable
<1>3. snapshot' \in [watermark : Nat, entries : LiveTable] \cup {Nil}
  BY DEF CloseFinish, Crash, TypeOK, diskVars
<1>4. /\ eventSeq' \in Nat /\ lastPublishedID' \in Nat /\ durableID' \in Nat
      /\ persistCh' \in Seq(Event) /\ replayGap' \in Nat
      /\ emitting' \in [step : {"publish", "enqueue"}, ev : Event] \cup {NoEvent}
      /\ gc' \in Nat
      /\ conn' \in [Clients -> Conn]
  BY <1>1, VolatileType
<1> QED
  BY <1>1, <1>2, <1>3, <1>4 DEF CloseFinish, Crash, TypeOK, diskVars, clientVars

(* and a restart. *)
LEMMA StartedType ==
    ASSUME TypeOK, HasNewest(log), NewServer
    PROVE  TypeOK'
<1>1. LastID(log) \in Nat
  BY LogIds
<1>2. Volatile(LastID(log)) /\ liveSessions' = LoadLiveState /\ liveCache' = Nil
  BY DEF NewServer
<1>3. liveSessions' \in LiveTable /\ liveCache' = Nil
  BY <1>2, LoadLiveStateType
<1>4. tailLost' \in BOOLEAN
  BY DEF NewServer, TypeOK
<1>5. /\ eventSeq' \in Nat /\ lastPublishedID' \in Nat /\ durableID' \in Nat
      /\ persistCh' \in Seq(Event) /\ replayGap' \in Nat
      /\ emitting' \in [step : {"publish", "enqueue"}, ev : Event] \cup {NoEvent}
      /\ gc' \in Nat
      /\ conn' \in [Clients -> Conn]
  BY <1>1, <1>2, VolatileType
<1>6. /\ boot' \in Nat /\ stage' = "up"
      /\ log' \in SUBSET Event
      /\ snapshot' \in [watermark : Nat, entries : LiveTable] \cup {Nil}
      /\ cursor' \in [Clients -> Nat]
      /\ last' \in [Clients -> Event \cup {NoEvent}]
      /\ missed' \in [Clients -> SUBSET Event]
  BY DEF NewServer, TypeOK, diskVars
<1> QED
  BY <1>3, <1>4, <1>5, <1>6 DEF TypeOK

(* Every step keeps the types. *)
LEMMA TypeStep ==
    ASSUME TypeOK, HasNewest(log), [Next]_vars
    PROVE  TypeOK'
<1>1. CASE ReadStatus
  BY <1>1 DEF ReadStatus, TypeOK, diskVars, seqVars, clientVars
<1>2. CASE CloseBegin
  BY <1>2 DEF CloseBegin, TypeOK, diskVars, seqVars, liveVars, clientVars
<1>3. CASE CloseSubscribers
  <2>1. conn' \in [Clients -> Conn]
    BY <1>3, ZenonT(60) DEF CloseSubscribers, TypeOK, Conn
  <2> QED
    BY <1>3, <2>1 DEF CloseSubscribers, TypeOK, diskVars, seqVars, liveVars, clientVars
<1>4. CASE UNCHANGED vars
  BY <1>4 DEF vars, TypeOK, diskVars, seqVars, liveVars, clientVars
<1> QED
  BY <1>1, <1>2, <1>3, <1>4, EmitType, PersisterType, StreamType, PruneType, StoppedType,
     StartedType DEF Next

-----------------------------------------------------------------------------
(* Ids, the queue of the persister and the log *)

OrderInv == HasNewest(log) /\ SeqInv /\ DurableIsLastID /\ QueueInv

(* The elements of a sequence of events are events. *)
LEMMA EventsHaveIds ==
    ASSUME NEW q \in Seq(Event), NEW i \in 1..Len(q)
    PROVE  q[i] \in Event /\ q[i].id \in Nat
<1>1. q[i] \in Event
  OBVIOUS
<1> QED
  BY <1>1 DEF Event

(* The ids are in order at the start. *)
LEMMA OrderInit == Init => OrderInv
BY DEF Init, OrderInv, HasNewest, SeqInv, DurableIsLastID, QueueInv, LastID

(* A step that leaves the counters, the log and the queue alone keeps their order. *)
LEMMA OrderStutter ==
    ASSUME OrderInv, UNCHANGED <<log, stage, seqVars, emitting>>
    PROVE  OrderInv'
BY DEF OrderInv, HasNewest, SeqInv, DurableIsLastID, QueueInv, seqVars

(* Emit assigns the next id, publishes it, and queues it behind what is there. *)
LEMMA OrderEmit ==
    ASSUME TypeOK, OrderInv, Emit
    PROVE  OrderInv'
<1>1. ASSUME NEW k \in Keys \cup {NoKey}, NEW t \in Times, EmitAssign(k, t)
      PROVE  OrderInv'
  <2> DEFINE ev == [id |-> eventSeq + 1, boot |-> boot, key |-> k, at |-> t]
  <2>1. /\ eventSeq \in Nat /\ durableID \in Nat
        /\ eventSeq = lastPublishedID
        /\ \A i \in 1..Len(persistCh) : persistCh[i] \in Event /\ persistCh[i].id \in Nat
    BY <1>1, EventsHaveIds DEF EmitAssign, TypeOK, OrderInv, SeqInv
  <2>2. ev \in Event
    BY <2>1 DEF TypeOK, Event
  <2>3. emitting' = [step |-> "publish", ev |-> ev] /\ emitting' # NoEvent
    BY <1>1, <2>2, MarkersAssumption DEF EmitAssign
  <2>4. emitting'.ev.id = eventSeq' /\ emitting'.step = "publish" /\ eventSeq' = eventSeq + 1
    BY <1>1, <2>3 DEF EmitAssign
  <2>5. UNCHANGED <<log, stage, lastPublishedID, durableID, persistCh>>
    BY <1>1 DEF EmitAssign, diskVars
  <2>6. SeqInv'
    BY <2>1, <2>3, <2>4, <2>5 DEF SeqInv
  <2>7. QueueInv'
    BY <2>1, <2>3, <2>4, <2>5 DEF OrderInv, QueueInv
  <2> QED
    BY <2>5, <2>6, <2>7 DEF OrderInv, HasNewest, DurableIsLastID
<1>2. ASSUME EmitPublish
      PROVE  OrderInv'
  <2>1. /\ emitting # NoEvent /\ emitting.step = "publish"
        /\ emitting \in [step : {"publish", "enqueue"}, ev : Event]
        /\ emitting.ev \in Event
    BY <1>2 DEF EmitPublish, TypeOK
  <2>2. emitting' = [step |-> "enqueue", ev |-> emitting.ev]
    BY <1>2, <2>1 DEF EmitPublish
  <2>3. emitting' # NoEvent /\ emitting'.ev = emitting.ev /\ emitting'.step = "enqueue"
    BY <2>1, <2>2, MarkersAssumption
  <2>4. /\ lastPublishedID \in Nat /\ eventSeq \in Nat
        /\ emitting.ev.id = eventSeq /\ eventSeq = lastPublishedID + 1
    BY <2>1 DEF TypeOK, OrderInv, SeqInv
  <2>5. lastPublishedID' = eventSeq
    BY <1>2, <2>4 DEF EmitPublish
  <2>6. UNCHANGED <<log, stage, eventSeq, durableID, persistCh>>
    BY <1>2 DEF EmitPublish, diskVars
  <2>7. SeqInv'
    BY <2>3, <2>4, <2>5, <2>6 DEF SeqInv
  <2>8. QueueInv'
    BY <2>1, <2>3, <2>6 DEF OrderInv, QueueInv
  <2> QED
    BY <2>6, <2>7, <2>8 DEF OrderInv, HasNewest, DurableIsLastID
<1>3. ASSUME EmitEnqueue
      PROVE  OrderInv'
  <2> DEFINE ev == emitting.ev
  <2>1. /\ emitting # NoEvent /\ emitting.step = "enqueue" /\ emitting' = NoEvent
        /\ ev \in Event
        /\ UNCHANGED <<log, stage, eventSeq, lastPublishedID, durableID>>
    BY <1>3 DEF EmitEnqueue, TypeOK, diskVars
  <2>2. /\ ev.id = eventSeq /\ eventSeq = lastPublishedID /\ durableID < eventSeq
        /\ eventSeq \in Nat /\ durableID \in Nat
    BY <2>1 DEF TypeOK, OrderInv, SeqInv, QueueInv
  <2>3. /\ persistCh \in Seq(Event)
        /\ \A i \in 1..Len(persistCh) : persistCh[i] \in Event /\ persistCh[i].id \in Nat
    BY EventsHaveIds DEF TypeOK
  <2>4. \A i \in 1..Len(persistCh) : durableID < persistCh[i].id /\ persistCh[i].id < eventSeq
    BY <2>1 DEF OrderInv, QueueInv
  <2>5. \A i, j \in 1..Len(persistCh) : i < j => persistCh[i].id < persistCh[j].id
    BY DEF OrderInv, QueueInv
  <2>6. CASE persistCh' = Append(persistCh, ev)
    <3> HIDE DEF ev
    <3>1. /\ Len(persistCh') = Len(persistCh) + 1
          /\ \A i \in 1..Len(persistCh) : persistCh'[i] = persistCh[i]
          /\ persistCh'[Len(persistCh) + 1] = ev
      BY <2>1, <2>3, <2>6
    <3>2. \A i \in 1..Len(persistCh') : durableID < persistCh'[i].id /\ persistCh'[i].id <= eventSeq
      BY <2>2, <2>3, <2>4, <3>1
    <3>3. \A i, j \in 1..Len(persistCh') : i < j => persistCh'[i].id < persistCh'[j].id
      <4> SUFFICES ASSUME NEW i \in 1..Len(persistCh'), NEW j \in 1..Len(persistCh'), i < j
                   PROVE  persistCh'[i].id < persistCh'[j].id
        OBVIOUS
      <4>1. i \in 1..Len(persistCh) /\ persistCh'[i] = persistCh[i]
        BY <2>3, <3>1
      <4>2. CASE j \in 1..Len(persistCh)
        BY <2>5, <3>1, <4>1, <4>2
      <4>3. CASE j = Len(persistCh) + 1
        BY <2>2, <2>4, <3>1, <4>1, <4>3
      <4> QED
        BY <2>3, <3>1, <4>2, <4>3
    <3>4. QueueInv'
      BY <2>1, <2>2, <3>2, <3>3 DEF QueueInv
    <3> QED
      BY <2>1, <2>2, <3>4 DEF OrderInv, HasNewest, SeqInv, DurableIsLastID
  <2>7. CASE UNCHANGED persistCh
    BY <2>1, <2>2, <2>3, <2>4, <2>5, <2>7
    DEF OrderInv, HasNewest, SeqInv, DurableIsLastID, QueueInv
  <2> QED
    BY <1>3, <2>6, <2>7 DEF EmitEnqueue
<1> QED
  BY <1>1, <1>2, <1>3 DEF Emit

(* The persister takes the oldest queued event; the rest is newer than it. *)
LEMMA OrderPersister ==
    ASSUME TypeOK, OrderInv, Persist \/ PersistFail
    PROVE  OrderInv'
<1> DEFINE ev == Head(persistCh)
<1>1. persistCh \in Seq(Event) /\ persistCh # << >> /\ persistCh' = Tail(persistCh)
  BY DEF Persist, PersistFail, TypeOK
<1>2. /\ Len(persistCh') = Len(persistCh) - 1 /\ Len(persistCh) \in Nat \ {0}
      /\ \A i \in 1..Len(persistCh') : persistCh'[i] = persistCh[i + 1]
      /\ ev = persistCh[1] /\ ev \in Event
  BY <1>1
<1>3. ev.id \in Nat /\ durableID \in Nat /\ eventSeq \in Nat
  BY <1>2 DEF TypeOK, Event
<1>4. /\ durableID <= eventSeq /\ durableID < ev.id /\ ev.id <= eventSeq
      /\ emitting # NoEvent => ev.id < eventSeq /\ durableID < eventSeq
  BY <1>2 DEF OrderInv, QueueInv
<1>5. \A i \in 1..Len(persistCh') :
        /\ persistCh'[i].id \in Nat
        /\ durableID < persistCh'[i].id /\ ev.id < persistCh'[i].id
        /\ persistCh'[i].id <= eventSeq
        /\ emitting # NoEvent => persistCh'[i].id < eventSeq
  <2> SUFFICES ASSUME NEW i \in 1..Len(persistCh')
               PROVE  /\ persistCh'[i].id \in Nat
                      /\ durableID < persistCh'[i].id /\ ev.id < persistCh'[i].id
                      /\ persistCh'[i].id <= eventSeq
                      /\ emitting # NoEvent => persistCh'[i].id < eventSeq
    OBVIOUS
  <2>1. i + 1 \in 1..Len(persistCh) /\ 1 \in 1..Len(persistCh) /\ 1 < i + 1
    BY <1>2
  <2>2. persistCh[i + 1] \in Event
    BY <1>1, <2>1
  <2>3. persistCh[1].id < persistCh[i + 1].id
    BY <2>1 DEF OrderInv, QueueInv
  <2> QED
    BY <1>2, <2>1, <2>2, <2>3 DEF OrderInv, QueueInv, Event
<1>6. \A i, j \in 1..Len(persistCh') : i < j => persistCh'[i].id < persistCh'[j].id
  <2> SUFFICES ASSUME NEW i \in 1..Len(persistCh'), NEW j \in 1..Len(persistCh'), i < j
               PROVE  persistCh'[i].id < persistCh'[j].id
    OBVIOUS
  <2>1. i + 1 \in 1..Len(persistCh) /\ j + 1 \in 1..Len(persistCh) /\ i + 1 < j + 1
    BY <1>2
  <2> QED
    BY <1>2, <2>1 DEF OrderInv, QueueInv
<1> HIDE DEF ev
<1>7. CASE Persist
  <2>1. /\ UNCHANGED <<stage, eventSeq, lastPublishedID, emitting>>
        /\ durableID' = ev.id /\ log' = AppendWithID(log, ev)
        /\ stage # "down"
    BY <1>7 DEF Persist, ev
  <2>2. LastID(log) = durableID /\ NaturalIds(log) /\ HasNewest(log)
    BY <2>1, LogIds DEF OrderInv, DurableIsLastID
  <2>3. HasNewest(log') /\ LastID(log') = ev.id
    BY <1>3, <1>4, <2>1, <2>2, AppendMakesLast
  <2>4. QueueInv'
    BY <1>3, <1>4, <1>5, <1>6, <2>1 DEF QueueInv
  <2> QED
    BY <2>1, <2>3, <2>4 DEF OrderInv, SeqInv, DurableIsLastID, HasNewest
<1>8. CASE PersistFail
  <2>1. UNCHANGED <<log, stage, eventSeq, lastPublishedID, durableID, emitting>>
    BY <1>8 DEF PersistFail, diskVars
  <2>2. QueueInv'
    BY <1>3, <1>4, <1>5, <1>6, <2>1 DEF QueueInv
  <2> QED
    BY <2>1, <2>2 DEF OrderInv, SeqInv, DurableIsLastID, HasNewest
<1> QED
  BY <1>7, <1>8

(* Pruning leaves the last id, and so the durable watermark, alone. *)
LEMMA OrderPrune ==
    ASSUME TypeOK, OrderInv, NEW before \in Cutoffs, GCPrune(before) \/ RetentionPrune(before)
    PROVE  OrderInv'
<1>1. log' = Prune(log, before, KeepN) /\ UNCHANGED <<stage, seqVars, emitting>>
  BY DEF GCPrune, RetentionPrune
<1>2. before \in Nat /\ KeepN \in Nat \ {0}
  BY ConstantsAssumption
<1>3. NaturalIds(log) /\ HasNewest(log)
  BY LogIds DEF OrderInv
<1>4. HasNewest(log') /\ LastID(log') = LastID(log)
  BY <1>1, <1>2, <1>3, PruneKeepsLast
<1> QED
  BY <1>1, <1>4 DEF OrderInv, SeqInv, DurableIsLastID, QueueInv, seqVars, HasNewest

(* Every step keeps the ids in order. *)
LEMMA OrderStep ==
    ASSUME TypeOK, OrderInv, [Next]_vars
    PROVE  OrderInv'
<1>1. ASSUME NEW c \in Clients,
             (\E resume \in BOOLEAN : Subscribe(c, resume)) \/ Handler(c) \/ Drop(c)
      PROVE  OrderInv'
  <2>1. UNCHANGED <<log, stage, seqVars, emitting>>
    BY <1>1 DEF Subscribe, Handler, Hello, ReplayCheck, ReplayWait, ReplayPage, ReplayRecord,
                Tailing, TailClosed, Drop, diskVars
  <2> QED
    BY <2>1, OrderStutter
<1>2. ASSUME NEW before \in Cutoffs, GCLive(before)
      PROVE  OrderInv'
  BY <1>2, OrderStutter DEF GCLive, diskVars
<1>3. CASE ReadStatus
  BY <1>3, OrderStutter DEF ReadStatus, diskVars
<1>4. CASE CloseBegin \/ CloseSubscribers
  <2>1. stage # "down" /\ UNCHANGED <<log, seqVars, emitting>>
    BY <1>4 DEF CloseBegin, CloseSubscribers, diskVars
  <2> QED
    BY <2>1 DEF OrderInv, HasNewest, SeqInv, DurableIsLastID, QueueInv, seqVars
<1>5. CASE CloseFinish \/ Crash
  <2>1. Volatile(0) /\ stage' = "down" /\ UNCHANGED log
    BY <1>5 DEF CloseFinish, Crash, diskVars
  <2> QED
    BY <2>1 DEF Volatile, OrderInv, HasNewest, SeqInv, DurableIsLastID, QueueInv
<1>6. CASE NewServer
  <2>1. Volatile(LastID(log)) /\ UNCHANGED log
    BY <1>6 DEF NewServer, diskVars
  <2>2. LastID(log) \in Nat
    BY LogIds DEF OrderInv
  <2> QED
    BY <2>1, <2>2 DEF Volatile, OrderInv, HasNewest, SeqInv, DurableIsLastID, QueueInv
<1>7. CASE UNCHANGED vars
  BY <1>7, OrderStutter DEF vars, diskVars
<1> QED
  BY <1>1, <1>2, <1>3, <1>4, <1>5, <1>6, <1>7, OrderEmit, OrderPersister, OrderPrune DEF Next

-----------------------------------------------------------------------------
(* Handlers *)

(* At the start there are no handlers. *)
LEMMA ConnsInit == Init => ConnsInv
<1>1. Closed.ch = << >> /\ Len(<< >>) = 0
  BY DEF Closed
<1> QED
  BY <1>1 DEF Init, ConnsInv, ConnInv, Base, Closed, Replaying

(* A client without a handler has nothing in its channel. *)
LEMMA ClosedConn == ASSUME NEW w \in Nat PROVE ConnInv(Closed, w)
<1>1. Closed.ch = << >> /\ Len(<< >>) = 0
  BY DEF Closed
<1> QED
  BY <1>1 DEF ConnInv, Base, Closed, Replaying

(* A step of one handler is argued about that handler alone. *)
LEMMA ConnsUpdate ==
    ASSUME TypeOK, ConnsInv, NEW c \in Clients, NEW t, ConnInv(t, lastPublishedID),
           conn' = [conn EXCEPT ![c] = t], UNCHANGED lastPublishedID
    PROVE  ConnsInv'
BY DEF ConnsInv, TypeOK

(* The fields of a handler have their types. *)
LEMMA ConnFields ==
    ASSUME TypeOK, NEW c \in Clients
    PROVE  /\ conn[c] \in Conn
           /\ conn[c].pos \in Nat /\ conn[c].until \in Nat
           /\ conn[c].page \in SUBSET Event /\ conn[c].ch \in Seq(Event)
           /\ lastPublishedID \in Nat
<1>1. conn[c] \in Conn
  BY DEF TypeOK
<1> QED
  BY <1>1 DEF Conn, TypeOK

(* What a resync leaves behind: the handler tails from its watermark. *)
LEMMA ResyncConn ==
    ASSUME TypeOK, ConnsInv, NEW c \in Clients, Resync(c), conn[c].phase # "tail",
           UNCHANGED lastPublishedID
    PROVE  ConnsInv'
<1> DEFINE s == conn[c]
           t == [s EXCEPT !.phase = "tail", !.pos = s.until, !.page = {}, !.told = TRUE]
<1>1. conn' = [conn EXCEPT ![c] = t]
  BY DEF Resync
<1>2. /\ t.phase = "tail" /\ t.pos = s.until /\ t.ch = s.ch /\ t.open = s.open
  BY ConnFields DEF Conn
<1>3. ConnInv(s, lastPublishedID)
  BY DEF ConnsInv
<1> HIDE DEF t
<1>4. ConnInv(t, lastPublishedID)
  BY <1>2, <1>3 DEF ConnInv, Base, Replaying
<1> HIDE DEF s
<1> QED
  BY <1>1, <1>4, ConnsUpdate

(* Going on to another part of the replay changes the phase only. *)
LEMMA GotoConn ==
    ASSUME TypeOK, ConnsInv, NEW c \in Clients, NEW phase \in {"wait", "page"}, Goto(c, phase),
           conn[c].phase \in Replaying, UNCHANGED lastPublishedID
    PROVE  ConnsInv'
<1> DEFINE s == conn[c]
           t == [s EXCEPT !.phase = phase]
<1>1. conn' = [conn EXCEPT ![c] = t]
  BY DEF Goto, TypeOK
<1>2. /\ t.phase = phase /\ t.pos = s.pos /\ t.until = s.until /\ t.page = s.page
      /\ t.ch = s.ch /\ t.open = s.open /\ t.told = s.told
  BY ConnFields DEF Conn
<1>3. ConnInv(s, lastPublishedID)
  BY DEF ConnsInv
<1> HIDE DEF t
<1>4. ConnInv(t, lastPublishedID)
  BY <1>2, <1>3 DEF ConnInv, Base, Replaying
<1> HIDE DEF s
<1> QED
  BY <1>1, <1>4, ConnsUpdate

(* Every step of a handler keeps its channel right after its base. *)
LEMMA ConnsHandler ==
    ASSUME TypeOK, ConnsInv, NEW c \in Clients,
           (\E resume \in BOOLEAN : Subscribe(c, resume)) \/ Handler(c) \/ Drop(c)
    PROVE  ConnsInv'
<1> DEFINE s == conn[c]
<1>1. /\ s \in Conn /\ s.pos \in Nat /\ s.until \in Nat /\ s.page \in SUBSET Event
      /\ s.ch \in Seq(Event) /\ lastPublishedID \in Nat
  BY ConnFields
<1>2. ConnInv(s, lastPublishedID)
  BY DEF ConnsInv
<1>3. ASSUME NEW resume \in BOOLEAN, Subscribe(c, resume)
      PROVE  ConnsInv'
  <2> DEFINE pos == IF resume /\ cursor[c] < lastPublishedID THEN cursor[c] ELSE lastPublishedID
             t == [Closed EXCEPT !.phase = "hello", !.open = TRUE, !.until = lastPublishedID,
                                 !.pos = pos]
  <2>1. conn' = [conn EXCEPT ![c] = t] /\ UNCHANGED lastPublishedID
    BY <1>3 DEF Subscribe, seqVars
  <2>2. pos \in Nat /\ pos <= lastPublishedID
    BY <1>1 DEF TypeOK
  <2> HIDE DEF pos
  <2>3. /\ t.phase = "hello" /\ t.pos = pos /\ t.until = lastPublishedID /\ t.page = {}
        /\ t.ch = << >> /\ ~t.told
    BY DEF Closed
  <2> HIDE DEF t
  <2>4. ConnInv(t, lastPublishedID)
    BY <1>1, <2>2, <2>3 DEF ConnInv, Base, Replaying
  <2> QED
    BY <2>1, <2>4, ConnsUpdate
<1>4. CASE Hello(c)
  <2> DEFINE phase == IF conn[c].pos < conn[c].until THEN "check" ELSE "tail"
             t == [s EXCEPT !.phase = phase]
  <2>1. conn' = [conn EXCEPT ![c] = t] /\ UNCHANGED lastPublishedID /\ s.phase = "hello"
    BY <1>4 DEF Hello, seqVars, TypeOK
  <2>2. /\ t.phase = phase /\ t.pos = s.pos /\ t.until = s.until /\ t.page = s.page
        /\ t.ch = s.ch /\ t.open = s.open /\ t.told = s.told
    BY <1>1 DEF Conn
  <2>3. s.pos <= s.until
    BY <1>2, <2>1 DEF ConnInv
  <2>4. Base(t) = Base(s)
    BY <1>1, <2>1, <2>2, <2>3 DEF Base
  <2>5. t.phase \in Replaying => t.pos < t.until
    BY <2>2 DEF Replaying
  <2> HIDE DEF t, phase
  <2>6. ConnInv(t, lastPublishedID)
    BY <1>2, <2>1, <2>2, <2>4, <2>5 DEF ConnInv
  <2> HIDE DEF s
  <2> QED
    BY <2>1, <2>6, ConnsUpdate
<1>5. CASE ReplayCheck(c)
  <2>1. s.phase \in Replaying /\ s.phase # "tail" /\ UNCHANGED lastPublishedID
    BY <1>5 DEF ReplayCheck, Replaying, seqVars
  <2>2. Resync(c) \/ Goto(c, "wait")
    BY <1>5 DEF ReplayCheck
  <2> QED
    BY <2>1, <2>2, ResyncConn, GotoConn
<1>6. CASE ReplayWait(c)
  <2>1. s.phase \in Replaying /\ s.phase # "tail" /\ UNCHANGED lastPublishedID
    BY <1>6 DEF ReplayWait, Replaying, seqVars
  <2>2. Resync(c) \/ Goto(c, "page")
    BY <1>6 DEF ReplayWait
  <2> QED
    BY <2>1, <2>2, ResyncConn, GotoConn
<1>7. CASE ReplayPage(c)
  <2> DEFINE batch == ReplayRange(log, s.pos, s.until, PageSize)
             t == [s EXCEPT !.page = batch]
  <2>1. s.phase = "page" /\ UNCHANGED lastPublishedID
    BY <1>7 DEF ReplayPage, seqVars
  <2>2. Resync(c) \/ conn' = [conn EXCEPT ![c] = t]
    BY <1>7 DEF ReplayPage, TypeOK
  <2>3. CASE Resync(c)
    BY <2>1, <2>3, ResyncConn
  <2>4. CASE conn' = [conn EXCEPT ![c] = t]
    <3>1. 0 < s.until
      BY <1>1, <1>2, <2>1 DEF ConnInv, Replaying
    <3>2. \A f \in batch : f.id <= s.until
      BY <1>1, <3>1, ReplayRangeInRange
    <3> HIDE DEF batch
    <3>3. /\ t.phase = s.phase /\ t.pos = s.pos /\ t.until = s.until /\ t.page = batch
          /\ t.ch = s.ch /\ t.open = s.open /\ t.told = s.told
      BY <1>1 DEF Conn
    <3> HIDE DEF t
    <3>4. ConnInv(t, lastPublishedID)
      BY <1>2, <3>2, <3>3 DEF ConnInv, Base
    <3> HIDE DEF s
    <3> QED
      BY <2>1, <2>4, <3>4, ConnsUpdate
  <2> QED
    BY <2>2, <2>3, <2>4
<1>8. CASE ReplayRecord(c)
  <2>1. PICK ev \in s.page :
          IF ev.id # s.pos + 1 THEN Resync(c)
          ELSE /\ Deliver(c, ev)
               /\ conn' = [conn EXCEPT ![c] = [conn[c] EXCEPT
                     !.page = conn[c].page \ {ev}, !.pos = ev.id,
                     !.phase = IF ev.id >= conn[c].until THEN "tail" ELSE "page"]]
    BY <1>8 DEF ReplayRecord
  <2>2. s.phase = "page" /\ UNCHANGED lastPublishedID
    BY <1>8 DEF ReplayRecord, seqVars
  <2>3. ev.id \in Nat /\ ev.id <= s.until
    BY <1>1, <1>2, <2>2 DEF Event, ConnInv
  <2> DEFINE phase == IF ev.id >= conn[c].until THEN "tail" ELSE "page"
             t == [s EXCEPT !.page = s.page \ {ev}, !.pos = ev.id, !.phase = phase]
  <2>4. Resync(c) \/ conn' = [conn EXCEPT ![c] = t]
    BY <2>1
  <2>5. CASE Resync(c)
    BY <2>2, <2>5, ResyncConn
  <2>6. CASE conn' = [conn EXCEPT ![c] = t]
    <3>1. /\ t.phase = phase /\ t.pos = ev.id /\ t.until = s.until /\ t.page = s.page \ {ev}
          /\ t.ch = s.ch /\ t.open = s.open /\ t.told = s.told
      BY <1>1 DEF Conn
    <3>2. Base(t) = Base(s)
      BY <1>1, <2>2, <2>3, <3>1 DEF Base
    <3>3. t.phase \in Replaying => t.pos < t.until
      BY <1>1, <2>3, <3>1 DEF Replaying
    <3> HIDE DEF t, phase
    <3>4. ConnInv(t, lastPublishedID)
      BY <1>2, <2>2, <2>3, <3>1, <3>2, <3>3 DEF ConnInv
    <3> HIDE DEF s
    <3> QED
      BY <2>2, <2>6, <3>4, ConnsUpdate
  <2> QED
    BY <2>4, <2>5, <2>6
<1>9. CASE Tailing(c)
  <2> DEFINE ev == Head(s.ch)
             t == [s EXCEPT !.ch = Tail(s.ch), !.pos = ev.id]
  <2>1. /\ s.phase = "tail" /\ s.ch # << >> /\ UNCHANGED lastPublishedID
        /\ conn' = [conn EXCEPT ![c] = t]
    BY <1>9 DEF Tailing, seqVars
  <2>2. /\ Len(s.ch) \in Nat \ {0} /\ ev = s.ch[1] /\ Len(Tail(s.ch)) = Len(s.ch) - 1
        /\ \A i \in 1..Len(Tail(s.ch)) : Tail(s.ch)[i] = s.ch[i + 1] /\ i + 1 \in 1..Len(s.ch)
    BY <1>1, <2>1
  <2>3. ev.id = s.pos + 1
    BY <1>2, <2>1, <2>2 DEF ConnInv, Base
  <2>4. /\ t.phase = "tail" /\ t.pos = s.pos + 1 /\ t.ch = Tail(s.ch) /\ t.open = s.open
    BY <1>1, <2>1, <2>3 DEF Conn
  <2> HIDE DEF t, ev
  <2>5. \A i \in 1..Len(t.ch) : t.ch[i].id = Base(t) + i
    <3> SUFFICES ASSUME NEW i \in 1..Len(t.ch)
                 PROVE  t.ch[i].id = Base(t) + i
      OBVIOUS
    <3>1. t.ch[i] = s.ch[i + 1] /\ i + 1 \in 1..Len(s.ch) /\ i \in Nat
      BY <2>2, <2>4
    <3>2. s.ch[i + 1].id = s.pos + (i + 1)
      BY <1>2, <2>1, <3>1 DEF ConnInv, Base
    <3> QED
      BY <1>1, <2>4, <3>1, <3>2 DEF Base
  <2>6. Base(t) + Len(t.ch) = Base(s) + Len(s.ch)
    BY <1>1, <2>1, <2>2, <2>4 DEF Base
  <2>7. ConnInv(t, lastPublishedID)
    BY <1>2, <2>4, <2>5, <2>6 DEF ConnInv, Replaying
  <2> HIDE DEF s
  <2> QED
    BY <2>1, <2>7, ConnsUpdate
<1>10. CASE TailClosed(c) \/ Drop(c)
  <2>1. conn' = [conn EXCEPT ![c] = Closed] /\ UNCHANGED lastPublishedID
    BY <1>10 DEF TailClosed, Drop, seqVars
  <2> QED
    BY <1>1, <2>1, ClosedConn, ConnsUpdate
<1> QED
  BY <1>3, <1>4, <1>5, <1>6, <1>7, <1>8, <1>9, <1>10 DEF Handler

(* A publish appends the next id to the channel, or cuts the handler off. *)
LEMMA FanOutConn ==
    ASSUME NEW s \in Conn, NEW ev \in Event, NEW w \in Nat, ev.id = w + 1, ConnInv(s, w)
    PROVE  ConnInv(FanOut(s, ev), w + 1)
<1>1. s.ch \in Seq(Event) /\ s.pos \in Nat /\ s.until \in Nat /\ Len(s.ch) \in Nat
  BY DEF Conn
<1>2. Base(s) \in Nat
  BY <1>1 DEF Base
<1>3. CASE ~s.open
  <2>1. FanOut(s, ev) = s
    BY <1>3 DEF FanOut
  <2> QED
    BY <1>1, <1>2, <1>3, <2>1 DEF ConnInv
<1>4. CASE s.open /\ Len(s.ch) < ChanCap
  <2> DEFINE t == [s EXCEPT !.ch = Append(s.ch, ev)]
  <2>1. FanOut(s, ev) = t
    BY <1>1, <1>4, ConstantsAssumption DEF FanOut
  <2>2. /\ t.phase = s.phase /\ t.pos = s.pos /\ t.until = s.until /\ t.page = s.page
        /\ t.ch = Append(s.ch, ev) /\ t.open = s.open /\ t.told = s.told
    BY DEF Conn
  <2>3. Base(t) = Base(s)
    BY <2>2 DEF Base
  <2> HIDE DEF t
  <2>4. /\ Len(t.ch) = Len(s.ch) + 1
        /\ \A i \in 1..Len(s.ch) : t.ch[i] = s.ch[i]
        /\ t.ch[Len(s.ch) + 1] = ev
    BY <1>1, <2>2
  <2>5. Base(s) + Len(s.ch) = w
    BY <1>4 DEF ConnInv
  <2>6. \A i \in 1..Len(t.ch) : t.ch[i].id = Base(t) + i
    <3> SUFFICES ASSUME NEW i \in 1..Len(t.ch)
                 PROVE  t.ch[i].id = Base(t) + i
      OBVIOUS
    <3>1. CASE i \in 1..Len(s.ch)
      BY <2>3, <2>4, <3>1 DEF ConnInv
    <3>2. CASE i = Len(s.ch) + 1
      <4>1. Base(s) + i = w + 1
        BY <1>1, <1>2, <2>5, <3>2
      <4> QED
        BY <2>3, <2>4, <3>2, <4>1
    <3> QED
      BY <1>1, <2>4, <3>1, <3>2
  <2>7. Base(t) + Len(t.ch) = w + 1
    <3>1. Base(t) + Len(t.ch) = Base(s) + (Len(s.ch) + 1)
      BY <2>3, <2>4
    <3> QED
      BY <1>1, <1>2, <2>5, <3>1
  <2>8. ConnInv(t, w + 1)
    BY <2>2, <2>6, <2>7 DEF ConnInv
  <2> QED
    BY <2>1, <2>8
<1>5. CASE s.open /\ ~(Len(s.ch) < ChanCap)
  <2> DEFINE t == [s EXCEPT !.open = FALSE, !.overflowed = TRUE]
  <2>1. Len(s.ch) >= ChanCap
    BY <1>1, <1>5, ConstantsAssumption
  <2>2. FanOut(s, ev) = t
    BY <1>1, <1>5, <2>1, ConstantsAssumption DEF FanOut
  <2>3. /\ t.phase = s.phase /\ t.pos = s.pos /\ t.until = s.until /\ t.page = s.page
        /\ t.ch = s.ch /\ ~t.open /\ t.told = s.told
    BY DEF Conn
  <2> HIDE DEF t
  <2>4. ConnInv(t, w + 1)
    BY <1>1, <1>2, <2>3 DEF ConnInv, Base
  <2> QED
    BY <2>2, <2>4
<1> QED
  BY <1>3, <1>4, <1>5

(* Every step keeps the channels contiguous. *)
LEMMA ConnsStep ==
    ASSUME TypeOK, OrderInv, ConnsInv, [Next]_vars
    PROVE  ConnsInv'
<1>1. ASSUME UNCHANGED <<conn, lastPublishedID>>
      PROVE  ConnsInv'
  BY <1>1 DEF ConnsInv
<1>2. CASE EmitPublish
  <2> DEFINE ev == emitting.ev
  <2>1. /\ ev \in Event /\ lastPublishedID \in Nat
        /\ ev.id = lastPublishedID + 1
    BY <1>2 DEF EmitPublish, TypeOK, OrderInv, SeqInv
  <2>2. lastPublishedID' = lastPublishedID + 1 /\ conn' = [c \in Clients |-> FanOut(conn[c], ev)]
    BY <1>2, <2>1 DEF EmitPublish
  <2> HIDE DEF ev
  <2>3. ASSUME NEW c \in Clients
        PROVE  ConnInv(FanOut(conn[c], ev), lastPublishedID + 1)
    BY <2>1, ConnFields, FanOutConn DEF ConnsInv
  <2> QED
    BY <2>2, <2>3 DEF ConnsInv
<1>3. ASSUME NEW k \in Keys \cup {NoKey}, NEW t \in Times, EmitAssign(k, t)
      PROVE  ConnsInv'
  BY <1>1, <1>3 DEF EmitAssign
<1>4. CASE EmitEnqueue \/ Persist \/ PersistFail
  BY <1>1, <1>4 DEF EmitEnqueue, Persist, PersistFail
<1>5. ASSUME NEW before \in Cutoffs, GCPrune(before) \/ GCLive(before) \/ RetentionPrune(before)
      PROVE  ConnsInv'
  BY <1>1, <1>5 DEF GCPrune, GCLive, RetentionPrune, seqVars
<1>6. CASE ReadStatus \/ CloseBegin
  BY <1>1, <1>6 DEF ReadStatus, CloseBegin, seqVars
<1>7. CASE CloseSubscribers
  <2>1. conn' = [c \in Clients |-> [conn[c] EXCEPT !.open = FALSE]] /\ UNCHANGED lastPublishedID
    BY <1>7 DEF CloseSubscribers, seqVars
  <2>2. ASSUME NEW s \in Conn, NEW w, ConnInv(s, w)
        PROVE  ConnInv([s EXCEPT !.open = FALSE], w)
    BY <2>2 DEF ConnInv, Base, Conn
  <2>3. ASSUME NEW c \in Clients
        PROVE  ConnInv([conn[c] EXCEPT !.open = FALSE], lastPublishedID)
    BY <2>2, ConnFields DEF ConnsInv
  <2> QED
    BY <2>1, <2>3 DEF ConnsInv
<1>8. CASE CloseFinish \/ Crash \/ NewServer
  <2>1. LastID(log) \in Nat
    BY LogIds DEF OrderInv
  <2>2. conn' = [c \in Clients |-> Closed] /\ lastPublishedID' \in Nat
    BY <1>8, <2>1 DEF CloseFinish, Crash, NewServer, Volatile
  <2> QED
    BY <2>2, ClosedConn DEF ConnsInv
<1>9. CASE UNCHANGED vars
  BY <1>1, <1>9 DEF vars, seqVars
<1> QED
  BY <1>2, <1>3, <1>4, <1>5, <1>6, <1>7, <1>8, <1>9, ConnsHandler DEF Next, Emit

-----------------------------------------------------------------------------
(* Theorems *)

(* The inductive invariant in three parts, proved one after the other. *)
LEMMA IInvIsOrderAndConns == IInv <=> TypeOK /\ OrderInv /\ ConnsInv
BY DEF IInv, OrderInv

(* The strengthened invariant holds in every reachable state. *)
THEOREM Invariance == Spec => []IInv
<1>1. Init => IInv
  BY TypeInit, OrderInit, ConnsInit, IInvIsOrderAndConns
<1>2. IInv /\ [Next]_vars => IInv'
  <2> SUFFICES ASSUME IInv, [Next]_vars
               PROVE  IInv'
    OBVIOUS
  <2>1. TypeOK /\ OrderInv /\ ConnsInv /\ HasNewest(log)
    BY IInvIsOrderAndConns DEF OrderInv
  <2>2. TypeOK'
    BY <2>1, TypeStep
  <2>3. OrderInv'
    BY <2>1, OrderStep
  <2>4. ConnsInv'
    BY <2>1, ConnsStep
  <2> QED
    BY <2>2, <2>3, <2>4 DEF IInv, OrderInv
<1> QED
  BY <1>1, <1>2, PTL DEF Spec

(* Every variable keeps its type, whatever the interleaving of Emit, persister, *)
(* handlers, pruning, Close and crashes.                                        *)
THEOREM TypeCorrect == Spec => []TypeOK
<1>1. IInv => TypeOK
  BY DEF IInv
<1> QED
  BY <1>1, Invariance, PTL

(* The durable watermark, which waitDurable compares with a replay's target and *)
(* saveLiveSnapshot writes, is the last id of the log: a failed append does not *)
(* advance it, a prune of either kind does not pull the log below it, and a     *)
(* restart reads it back.                                                       *)
THEOREM DurableWatermark == Spec => []DurableIsLastID
<1>1. IInv => DurableIsLastID
  BY DEF IInv
<1> QED
  BY <1>1, Invariance, PTL

-----------------------------------------------------------------------------
(* Refinement *)

(* The mapped feed after a step that changes one handler. *)
LEMMA FeedUpdate ==
    ASSUME TypeOK, NEW c \in Clients, NEW t, conn' = [conn EXCEPT ![c] = t]
    PROVE  [d \in Clients |-> FeedOf(conn'[d])]
             = [[d \in Clients |-> FeedOf(conn[d])] EXCEPT ![c] = FeedOf(t)]
BY DEF TypeOK

(* A step that leaves the handlers and the watermark alone is a stutter of the feed. *)
LEMMA FeedUnchanged ==
    ASSUME UNCHANGED <<conn, lastPublishedID>>
    PROVE  UNCHANGED Feed!vars
BY DEF Feed!vars

(* A handler that gives up a replay moves to its watermark and says so. *)
LEMMA ResyncImplements ==
    ASSUME IInv, NEW c \in Clients, Resync(c), UNCHANGED lastPublishedID,
           conn[c].phase \in Replaying
    PROVE  Feed!Resync(c)
<1> DEFINE s == conn[c]
           t == [s EXCEPT !.phase = "tail", !.pos = s.until, !.page = {}, !.told = TRUE]
<1>1. conn' = [conn EXCEPT ![c] = t]
  BY DEF Resync
<1>2. TypeOK /\ ConnInv(s, lastPublishedID)
  BY DEF IInv, ConnsInv
<1>3. /\ s.pos \in Nat /\ s.until \in Nat /\ lastPublishedID \in Nat /\ s \in Conn
      /\ s.ch \in Seq(Event)
  BY <1>2, ConnFields
<1>4. /\ ~s.told /\ s.pos <= s.until /\ s.until <= lastPublishedID
      /\ s.phase # "off"
  <2>1. s.phase # "tail" /\ s.phase # "off"
    BY DEF Replaying
  <2>2. Len(s.ch) \in Nat
    BY <1>3
  <2> QED
    BY <1>2, <1>3, <2>1, <2>2 DEF ConnInv, Base
<1>5. FeedOf(s) = [on |-> TRUE, at |-> s.pos, told |-> FALSE]
  BY <1>3, <1>4 DEF FeedOf, Conn
<1>6. FeedOf(t) = [on |-> TRUE, at |-> s.until, told |-> TRUE]
  BY <1>3 DEF FeedOf, Conn
<1> HIDE DEF t
<1>7. [d \in Clients |-> FeedOf(conn'[d])]
        = [[d \in Clients |-> FeedOf(conn[d])] EXCEPT ![c] = FeedOf(t)]
  BY <1>1, <1>2, FeedUpdate
<1>8. s.until \in s.pos..lastPublishedID
  BY <1>3, <1>4
<1>9. FeedOf(s).on /\ ~FeedOf(s).told /\ FeedOf(s).at = s.pos
  BY <1>5
<1>10. FeedOf(t) = Feed!At(s.until, TRUE)
  BY <1>6 DEF Feed!At
<1>11. [d \in Clients |-> FeedOf(conn[d])][c] = FeedOf(s)
  OBVIOUS
<1> QED
  BY <1>7, <1>8, <1>9, <1>10, <1>11 DEF Feed!Resync

(* A handler that goes on to the next id. *)
LEMMA AdvanceImplements ==
    ASSUME IInv, NEW c \in Clients, NEW t, conn' = [conn EXCEPT ![c] = t],
           UNCHANGED lastPublishedID,
           conn[c].phase # "off", conn[c].pos < lastPublishedID,
           FeedOf(t) = [on |-> TRUE, at |-> conn[c].pos + 1, told |-> conn[c].told]
    PROVE  Feed!Advance(c)
<1>1. TypeOK
  BY DEF IInv
<1>2. FeedOf(conn[c]) = [on |-> TRUE, at |-> conn[c].pos, told |-> conn[c].told]
  BY DEF FeedOf
<1>3. [d \in Clients |-> FeedOf(conn'[d])]
        = [[d \in Clients |-> FeedOf(conn[d])] EXCEPT ![c] = FeedOf(t)]
  BY <1>1, FeedUpdate
<1>4. /\ [d \in Clients |-> FeedOf(conn[d])][c] = FeedOf(conn[c])
      /\ FeedOf(conn[c]).on /\ FeedOf(conn[c]).at = conn[c].pos
      /\ FeedOf(conn[c]).told = conn[c].told
  BY <1>2
<1>5. FeedOf(t) = Feed!At(FeedOf(conn[c]).at + 1, FeedOf(conn[c]).told)
  BY <1>4 DEF Feed!At
<1> QED
  BY <1>3, <1>4, <1>5 DEF Feed!Advance

(* Every step of a handler is one of its feed, or a stutter. *)
LEMMA StreamImplements ==
    ASSUME IInv, NEW c \in Clients,
           (\E resume \in BOOLEAN : Subscribe(c, resume)) \/ Handler(c) \/ Drop(c)
    PROVE  [Feed!Next]_(Feed!vars)
<1> DEFINE s == conn[c]
<1>1. TypeOK /\ ConnInv(s, lastPublishedID)
  BY DEF IInv, ConnsInv
<1>2. /\ s \in Conn /\ s.pos \in Nat /\ s.until \in Nat /\ s.page \in SUBSET Event
      /\ s.ch \in Seq(Event) /\ Len(s.ch) \in Nat /\ lastPublishedID \in Nat
  BY <1>1, ConnFields
<1>3. Feed!Attach(c) \/ Feed!Advance(c) \/ Feed!Resync(c) \/ Feed!Detach(c) => Feed!Next
  BY DEF Feed!Next
<1>4. ASSUME NEW resume \in BOOLEAN, Subscribe(c, resume)
      PROVE  Feed!Attach(c)
  <2> DEFINE pos == IF resume /\ cursor[c] < lastPublishedID THEN cursor[c] ELSE lastPublishedID
             t == [Closed EXCEPT !.phase = "hello", !.open = TRUE, !.until = lastPublishedID,
                                 !.pos = pos]
  <2>1. conn' = [conn EXCEPT ![c] = t] /\ UNCHANGED lastPublishedID /\ s.phase = "off"
    BY <1>4 DEF Subscribe, seqVars
  <2>2. pos \in 0..lastPublishedID
    BY <1>1, <1>2 DEF TypeOK
  <2> HIDE DEF pos
  <2>3. FeedOf(t) = [on |-> TRUE, at |-> pos, told |-> FALSE]
    BY DEF FeedOf, Closed
  <2> HIDE DEF t
  <2>4. [d \in Clients |-> FeedOf(conn'[d])]
          = [[d \in Clients |-> FeedOf(conn[d])] EXCEPT ![c] = FeedOf(t)]
    BY <1>1, <2>1, FeedUpdate
  <2>5. ~FeedOf(s).on
    BY <2>1 DEF FeedOf
  <2> QED
    BY <2>1, <2>2, <2>3, <2>4, <2>5 DEF Feed!Attach, Feed!At
<1>5. CASE Hello(c)
  <2> DEFINE t == [s EXCEPT !.phase = IF conn[c].pos < conn[c].until THEN "check" ELSE "tail"]
  <2>1. conn' = [conn EXCEPT ![c] = t] /\ UNCHANGED lastPublishedID /\ s.phase = "hello"
    BY <1>1, <1>5 DEF Hello, seqVars, TypeOK
  <2>2. FeedOf(t) = FeedOf(s)
    BY <1>2, <2>1 DEF FeedOf, Conn
  <2> HIDE DEF t
  <2>3. [d \in Clients |-> FeedOf(conn'[d])] = [d \in Clients |-> FeedOf(conn[d])]
    BY <1>1, <2>1, <2>2, FeedUpdate
  <2> QED
    BY <2>1, <2>3 DEF Feed!vars
<1>6. CASE ReplayCheck(c)
  <2>1. s.phase \in Replaying /\ UNCHANGED lastPublishedID
    BY <1>6 DEF ReplayCheck, Replaying, seqVars
  <2>2. CASE Resync(c)
    BY <1>3, <2>1, <2>2, ResyncImplements
  <2>3. CASE Goto(c, "wait")
    <3> DEFINE t == [s EXCEPT !.phase = "wait"]
    <3>1. conn' = [conn EXCEPT ![c] = t]
      BY <1>1, <2>3 DEF Goto, TypeOK
    <3>2. FeedOf(t) = FeedOf(s)
      BY <1>2, <2>1 DEF FeedOf, Conn, Replaying
    <3> HIDE DEF t
    <3>3. [d \in Clients |-> FeedOf(conn'[d])] = [d \in Clients |-> FeedOf(conn[d])]
      BY <1>1, <3>1, <3>2, FeedUpdate
    <3> QED
      BY <2>1, <3>3 DEF Feed!vars
  <2> QED
    BY <1>6, <2>2, <2>3 DEF ReplayCheck
<1>7. CASE ReplayWait(c)
  <2>1. s.phase \in Replaying /\ UNCHANGED lastPublishedID
    BY <1>7 DEF ReplayWait, Replaying, seqVars
  <2>2. CASE Resync(c)
    BY <1>3, <2>1, <2>2, ResyncImplements
  <2>3. CASE Goto(c, "page")
    <3> DEFINE t == [s EXCEPT !.phase = "page"]
    <3>1. conn' = [conn EXCEPT ![c] = t]
      BY <1>1, <2>3 DEF Goto, TypeOK
    <3>2. FeedOf(t) = FeedOf(s)
      BY <1>2, <2>1 DEF FeedOf, Conn, Replaying
    <3> HIDE DEF t
    <3>3. [d \in Clients |-> FeedOf(conn'[d])] = [d \in Clients |-> FeedOf(conn[d])]
      BY <1>1, <3>1, <3>2, FeedUpdate
    <3> QED
      BY <2>1, <3>3 DEF Feed!vars
  <2> QED
    BY <1>7, <2>2, <2>3 DEF ReplayWait
<1>8. CASE ReplayPage(c)
  <2> DEFINE batch == ReplayRange(log, s.pos, s.until, PageSize)
             t == [s EXCEPT !.page = batch]
  <2>1. s.phase \in Replaying /\ UNCHANGED lastPublishedID
    BY <1>8 DEF ReplayPage, Replaying, seqVars
  <2>2. CASE Resync(c)
    BY <1>3, <2>1, <2>2, ResyncImplements
  <2>3. CASE conn' = [conn EXCEPT ![c] = t]
    <3> HIDE DEF batch
    <3>1. FeedOf(t) = FeedOf(s)
      BY <1>2 DEF FeedOf, Conn
    <3> HIDE DEF t
    <3>2. [d \in Clients |-> FeedOf(conn'[d])] = [d \in Clients |-> FeedOf(conn[d])]
      BY <1>1, <2>3, <3>1, FeedUpdate
    <3> QED
      BY <2>1, <3>2 DEF Feed!vars
  <2>4. Resync(c) \/ conn' = [conn EXCEPT ![c] = t]
    BY <1>1, <1>8 DEF ReplayPage, TypeOK
  <2> QED
    BY <2>2, <2>3, <2>4
<1>9. CASE ReplayRecord(c)
  <2>1. PICK ev \in s.page :
          IF ev.id # s.pos + 1 THEN Resync(c)
          ELSE /\ Deliver(c, ev)
               /\ conn' = [conn EXCEPT ![c] = [conn[c] EXCEPT
                     !.page = conn[c].page \ {ev}, !.pos = ev.id,
                     !.phase = IF ev.id >= conn[c].until THEN "tail" ELSE "page"]]
    BY <1>9 DEF ReplayRecord
  <2>2. s.phase = "page" /\ s.phase \in Replaying /\ UNCHANGED lastPublishedID
    BY <1>9 DEF ReplayRecord, Replaying, seqVars
  <2>3. CASE ev.id # s.pos + 1
    BY <1>3, <2>1, <2>2, <2>3, ResyncImplements
  <2>4. CASE ev.id = s.pos + 1
    <3> DEFINE phase == IF ev.id >= conn[c].until THEN "tail" ELSE "page"
               t == [s EXCEPT !.page = s.page \ {ev}, !.pos = ev.id, !.phase = phase]
    <3>1. conn' = [conn EXCEPT ![c] = t]
      BY <2>1, <2>4
    <3>2. FeedOf(t) = [on |-> TRUE, at |-> s.pos + 1, told |-> s.told]
      BY <1>2, <2>4 DEF FeedOf, Conn
    <3>3. ev.id <= s.until /\ s.until <= lastPublishedID
      BY <1>1, <1>2, <2>2 DEF ConnInv, Base
    <3>4. s.pos < lastPublishedID
      BY <1>2, <2>4, <3>3
    <3> HIDE DEF t, phase
    <3>5. Feed!Advance(c)
      BY <2>2, <3>1, <3>2, <3>4, AdvanceImplements
    <3> QED
      BY <1>3, <3>5
  <2> QED
    BY <2>3, <2>4
<1>10. CASE Tailing(c)
  <2> DEFINE ev == Head(s.ch)
             t == [s EXCEPT !.ch = Tail(s.ch), !.pos = ev.id]
  <2>1. /\ s.phase = "tail" /\ s.ch # << >> /\ UNCHANGED lastPublishedID
        /\ conn' = [conn EXCEPT ![c] = t]
    BY <1>10 DEF Tailing, seqVars
  <2>2. ev = s.ch[1] /\ 1 \in 1..Len(s.ch)
    BY <1>2, <2>1
  <2>3. ev.id = s.pos + 1 /\ s.pos < lastPublishedID
    BY <1>1, <1>2, <2>1, <2>2 DEF ConnInv, Base
  <2>4. FeedOf(t) = [on |-> TRUE, at |-> s.pos + 1, told |-> s.told]
    BY <1>2, <2>1, <2>3 DEF FeedOf, Conn
  <2> HIDE DEF t
  <2>5. Feed!Advance(c)
    BY <2>1, <2>3, <2>4, AdvanceImplements
  <2> QED
    BY <1>3, <2>5
<1>11. CASE TailClosed(c) \/ Drop(c)
  <2>1. conn' = [conn EXCEPT ![c] = Closed] /\ UNCHANGED lastPublishedID /\ s.phase # "off"
    BY <1>11 DEF TailClosed, Drop, seqVars
  <2>2. FeedOf(Closed) = Feed!Detached
    BY DEF FeedOf, Closed, Feed!Detached
  <2>3. [d \in Clients |-> FeedOf(conn'[d])]
          = [[d \in Clients |-> FeedOf(conn[d])] EXCEPT ![c] = FeedOf(Closed)]
    BY <1>1, <2>1, FeedUpdate
  <2>4. FeedOf(s).on
    BY <2>1 DEF FeedOf
  <2>5. Feed!Detach(c)
    BY <2>1, <2>2, <2>3, <2>4 DEF Feed!Detach
  <2> QED
    BY <1>3, <2>5
<1> QED
  BY <1>3, <1>4, <1>5, <1>6, <1>7, <1>8, <1>9, <1>10, <1>11 DEF Handler

(* Every step of the broker is a step of the feed, or a stutter. *)
LEMMA StepImplements ==
    ASSUME IInv, [Next]_vars
    PROVE  [Feed!Next]_(Feed!vars)
<1>1. TypeOK /\ OrderInv /\ ConnsInv
  BY IInvIsOrderAndConns
<1>2. CASE EmitPublish
  <2> DEFINE ev == emitting.ev
  <2>1. /\ ev \in Event /\ lastPublishedID \in Nat
        /\ ev.id = lastPublishedID + 1
    BY <1>1, <1>2 DEF EmitPublish, TypeOK, OrderInv, SeqInv
  <2>2. lastPublishedID' = lastPublishedID + 1 /\ conn' = [c \in Clients |-> FanOut(conn[c], ev)]
    BY <1>2, <2>1 DEF EmitPublish
  <2>3. ASSUME NEW c \in Clients
        PROVE  FeedOf(FanOut(conn[c], ev)) = FeedOf(conn[c])
    <3>1. /\ conn[c] \in Conn /\ conn[c].ch \in Seq(Event) /\ Len(conn[c].ch) \in Nat
      BY <1>1, ConnFields
    <3>2. CASE ~conn[c].open
      BY <3>2 DEF FanOut
    <3>3. CASE conn[c].open /\ Len(conn[c].ch) < ChanCap
      BY <3>1, <3>3 DEF FanOut, FeedOf, Conn
    <3>4. CASE conn[c].open /\ Len(conn[c].ch) >= ChanCap
      BY <3>1, <3>4, ConstantsAssumption DEF FanOut, FeedOf, Conn
    <3> QED
      BY <3>1, <3>2, <3>3, <3>4, ConstantsAssumption
  <2> HIDE DEF ev
  <2>4. [c \in Clients |-> FeedOf(conn'[c])] = [c \in Clients |-> FeedOf(conn[c])]
    BY <2>2, <2>3
  <2>5. Feed!Publish
    BY <2>2, <2>4 DEF Feed!Publish
  <2> QED
    BY <2>5 DEF Feed!Next
<1>3. ASSUME NEW k \in Keys \cup {NoKey}, NEW t \in Times, EmitAssign(k, t)
      PROVE  UNCHANGED Feed!vars
  BY <1>3, FeedUnchanged DEF EmitAssign
<1>4. CASE EmitEnqueue \/ Persist \/ PersistFail
  BY <1>4, FeedUnchanged DEF EmitEnqueue, Persist, PersistFail
<1>5. ASSUME NEW before \in Cutoffs, GCPrune(before) \/ GCLive(before) \/ RetentionPrune(before)
      PROVE  UNCHANGED Feed!vars
  BY <1>5, FeedUnchanged DEF GCPrune, GCLive, RetentionPrune, seqVars
<1>6. CASE ReadStatus \/ CloseBegin
  BY <1>6, FeedUnchanged DEF ReadStatus, CloseBegin, seqVars
<1>7. CASE CloseSubscribers
  <2>1. conn' = [c \in Clients |-> [conn[c] EXCEPT !.open = FALSE]] /\ UNCHANGED lastPublishedID
    BY <1>7 DEF CloseSubscribers, seqVars
  <2>2. ASSUME NEW c \in Clients
        PROVE  FeedOf([conn[c] EXCEPT !.open = FALSE]) = FeedOf(conn[c])
    BY <1>1, ConnFields DEF FeedOf, Conn
  <2>3. [c \in Clients |-> FeedOf(conn'[c])] = [c \in Clients |-> FeedOf(conn[c])]
    BY <2>1, <2>2
  <2> QED
    BY <2>1, <2>3 DEF Feed!vars
<1>8. CASE CloseFinish \/ Crash \/ NewServer
  <2>1. LastID(log) \in Nat
    BY <1>1, LogIds DEF OrderInv
  <2>2. conn' = [c \in Clients |-> Closed] /\ lastPublishedID' \in Nat
    BY <1>8, <2>1 DEF CloseFinish, Crash, NewServer, Volatile
  <2>3. FeedOf(Closed) = Feed!Detached
    BY DEF FeedOf, Closed, Feed!Detached
  <2>4. [c \in Clients |-> FeedOf(conn'[c])] = [c \in Clients |-> Feed!Detached]
    BY <2>2, <2>3
  <2>5. Feed!Restart
    BY <2>2, <2>4 DEF Feed!Restart
  <2> QED
    BY <2>5 DEF Feed!Next
<1>9. CASE UNCHANGED vars
  BY <1>9, FeedUnchanged DEF vars, seqVars
<1> QED
  BY <1>2, <1>3, <1>4, <1>5, <1>6, <1>7, <1>8, <1>9, StreamImplements DEF Next, Emit

(* The initial states map to initial states. *)
LEMMA InitImplements == Init => Feed!Init
<1>1. FeedOf(Closed) = Feed!Detached
  BY DEF FeedOf, Closed, Feed!Detached
<1> QED
  BY <1>1 DEF Init, Feed!Init

(* GET /v1/stream implements the feed: for any number of clients, capacities,  *)
(* page size, retention floor, failures and crashes, a connection goes over     *)
(* the ids one by one or writes resync_required.                                *)
THEOREM StreamImplementsFeed == Spec => ImplementsFeed
<1>1. Init => Feed!Init
  BY InitImplements
<1>2. IInv /\ [Next]_vars => [Feed!Next]_(Feed!vars)
  BY StepImplements
<1> QED
  BY <1>1, <1>2, Invariance, PTL DEF Spec, ImplementsFeed, Feed!Spec

-----------------------------------------------------------------------------
(* Live sessions *)

(* The index GET /v1/status reads is never behind the session table: whatever   *)
(* writes the table invalidates it.                                             *)
THEOREM StatusIsFresh == Spec => []CacheIsFresh
<1>1. Init => CacheIsFresh
  BY DEF Init, CacheIsFresh
<1>2. CacheIsFresh /\ [Next]_vars => CacheIsFresh'
  <2> SUFFICES ASSUME CacheIsFresh, [Next]_vars
               PROVE  CacheIsFresh'
    OBVIOUS
  <2>1. ASSUME NEW table, SetLive(table)
        PROVE  CacheIsFresh'
    BY <2>1 DEF SetLive, CacheIsFresh
  <2>2. ASSUME UNCHANGED liveVars
        PROVE  CacheIsFresh'
    BY <2>2 DEF liveVars, CacheIsFresh
  <2>3. CASE Emit
    BY <2>1, <2>2, <2>3 DEF Emit, EmitAssign, EmitPublish, EmitEnqueue
  <2>4. CASE Persist \/ PersistFail
    BY <2>2, <2>4 DEF Persist, PersistFail
  <2>5. ASSUME NEW c \in Clients,
               (\E resume \in BOOLEAN : Subscribe(c, resume)) \/ Handler(c) \/ Drop(c)
        PROVE  CacheIsFresh'
    BY <2>2, <2>5 DEF Subscribe, Handler, Hello, ReplayCheck, ReplayWait, ReplayPage,
                      ReplayRecord, Tailing, TailClosed, Drop
  <2>6. ASSUME NEW before \in Cutoffs, GCPrune(before) \/ GCLive(before) \/ RetentionPrune(before)
        PROVE  CacheIsFresh'
    BY <2>1, <2>2, <2>6 DEF GCPrune, GCLive, RetentionPrune
  <2>7. CASE ReadStatus
    BY <2>7 DEF ReadStatus, CacheIsFresh
  <2>8. CASE CloseBegin \/ CloseSubscribers
    BY <2>2, <2>8 DEF CloseBegin, CloseSubscribers
  <2>9. CASE CloseFinish \/ Crash \/ NewServer
    BY <2>9 DEF CloseFinish, Crash, NewServer, CacheIsFresh
  <2>10. CASE UNCHANGED vars
    BY <2>2, <2>10 DEF vars
  <2> QED
    BY <2>3, <2>4, <2>5, <2>6, <2>7, <2>8, <2>9, <2>10 DEF Next
<1> QED
  BY <1>1, <1>2, PTL DEF Spec

(* Folding events into a table never replaces an entry by one it supersedes. *)
LEMMA FoldLiveKeeps ==
    ASSUME NEW live \in LiveTable, NEW events \in SUBSET Event, NEW k \in Keys,
           live[k] # NoEvent
    PROVE  /\ FoldLive(live, events)[k] # NoEvent
           /\ ~Supersedes(live[k], FoldLive(live, events)[k])
<1> DEFINE better == {e \in events : e.key = k /\ Wins(live, e)}
           newest == {e \in better : \A f \in better : ~Supersedes(f, e)}
           e0 == CHOOSE e \in newest : TRUE
<1>1. FoldLive(live, events)[k] = IF newest = {} THEN live[k] ELSE e0
  BY DEF FoldLive
<1>2. live[k] \in Event /\ live[k].at \in Nat /\ live[k].id \in Nat
  BY ConstantsAssumption DEF LiveTable, Event
<1>3. CASE newest = {}
  BY <1>1, <1>2, <1>3 DEF Supersedes
<1>4. CASE newest # {}
  <2>1. e0 \in newest
    BY <1>4
  <2>2. /\ e0 \in events /\ e0 \in Event /\ e0.key = k /\ Wins(live, e0)
        /\ e0.at \in Nat /\ e0.id \in Nat
    BY <2>1, ConstantsAssumption DEF Event
  <2>3. Supersedes(e0, live[k])
    BY <2>2 DEF Wins
  <2>4. ~Supersedes(live[k], e0)
    BY <1>2, <2>2, <2>3 DEF Supersedes
  <2> QED
    BY <1>1, <1>4, <2>2, <2>4, MarkersAssumption
<1> QED
  BY <1>3, <1>4

(* A restart on a log that is not empty never takes a session back behind the   *)
(* state the last clean shutdown saved, however much of the log the retention    *)
(* pruned and whatever the scan window covers.                                   *)
THEOREM RestartNeverGoesBack == Spec => RestartKeepsLive
<1> DEFINE Kept == (stage = "down" /\ stage' = "up" /\ snapshot # Nil /\ log # {})
             => \A k \in Keys : snapshot.entries[k] # NoEvent
                   => /\ liveSessions'[k] # NoEvent
                      /\ ~Supersedes(snapshot.entries[k], liveSessions'[k])
<1>1. TypeOK /\ [Next]_vars => [Kept]_vars
  <2> SUFFICES ASSUME TypeOK, Next, stage = "down", stage' = "up", snapshot # Nil, log # {},
                      NEW k \in Keys, snapshot.entries[k] # NoEvent
               PROVE  /\ liveSessions'[k] # NoEvent
                      /\ ~Supersedes(snapshot.entries[k], liveSessions'[k])
    BY DEF Kept
  <2>1. NewServer
    <3>1. ~Emit /\ ~Persist /\ ~PersistFail
      <4>1. Emit => UNCHANGED stage \/ stage = "up"
        BY DEF Emit, EmitAssign, EmitPublish, EmitEnqueue
      <4> QED
        BY <4>1 DEF Persist, PersistFail
    <3>2. ASSUME NEW c \in Clients,
                 (\E resume \in BOOLEAN : Subscribe(c, resume)) \/ Handler(c) \/ Drop(c)
          PROVE  UNCHANGED stage
      BY <3>2 DEF Subscribe, Handler, Hello, ReplayCheck, ReplayWait, ReplayPage,
                  ReplayRecord, Tailing, TailClosed, Drop
    <3>3. ASSUME NEW before \in Cutoffs, GCPrune(before) \/ GCLive(before) \/ RetentionPrune(before)
          PROVE  UNCHANGED stage
      BY <3>3 DEF GCPrune, GCLive, RetentionPrune
    <3>4. ~ReadStatus /\ ~CloseBegin /\ ~CloseSubscribers /\ ~CloseFinish /\ ~Crash
      BY DEF ReadStatus, CloseBegin, CloseSubscribers, CloseFinish, Crash
    <3> QED
      BY <3>1, <3>2, <3>3, <3>4 DEF Next
  <2> DEFINE newer == {e \in log : e.id > LoadAfter}
  <2>2. liveSessions' = FoldLive(snapshot.entries, newer)
    BY <2>1 DEF NewServer, LoadLiveState
  <2>3. snapshot.entries \in LiveTable /\ newer \in SUBSET Event
    BY DEF TypeOK
  <2> HIDE DEF newer
  <2> QED
    BY <2>2, <2>3, FoldLiveKeeps
<1>2. [][Kept]_vars <=> RestartKeepsLive
  BY DEF RestartKeepsLive
<1> QED
  BY <1>1, <1>2, TypeCorrect, PTL DEF Spec


-----------------------------------------------------------------------------
(* What the live table covers *)

(* An event of a session, which no retention cutoff reaches. *)
Fresh(e) == e.key \in Keys /\ \A before \in Cutoffs : e.at >= before

(* A table that reflects an event, or a newer one. *)
Covers(table, e) == table[e.key] # NoEvent /\ ~Supersedes(e, table[e.key])

(* Events on their way to the log. *)
Queued == {persistCh[i] : i \in 1..Len(persistCh)}
              \cup (IF emitting = NoEvent THEN {} ELSE {emitting.ev})

(* The log is finite and its ids start at 1. *)
LogBounded == IsFiniteSet(log) /\ \A e \in log : e.id >= 1

(* The snapshot covers what the log held when it was taken. *)
SnapshotCovers ==
    snapshot # Nil =>
        /\ snapshot.watermark <= LastID(log)
        /\ \A e \in log :
              (Fresh(e) /\ e.id <= snapshot.watermark /\ e.id + ScanWindow > snapshot.watermark)
              => Covers(snapshot.entries, e)

(* The table covers the log and also what has not reached it. *)
LiveInv ==
    /\ LogBounded
    /\ \A e \in Queued : Fresh(e) => Covers(liveSessions, e)
    /\ LiveCoversLog
    /\ SnapshotCovers

-----------------------------------------------------------------------------
(* The order of the events of a session *)

(* Events have natural times and ids, which is all that Supersedes looks at. *)
LEMMA EventFields ==
    ASSUME NEW e \in Event
    PROVE  e.at \in Nat /\ e.id \in Nat /\ e.key \in Keys \cup {NoKey} /\ e.boot \in Nat
BY ConstantsAssumption DEF Event

(* Not being superseded is transitive. *)
LEMMA NotSupersededTransitive ==
    ASSUME NEW e \in Event, NEW f \in Event, NEW g \in Event,
           ~Supersedes(e, f), ~Supersedes(f, g)
    PROVE  ~Supersedes(e, g)
BY EventFields DEF Supersedes

(* Of finitely many events one is superseded by none: the events newer than it *)
(* form a smallest such set, for strict inclusion is well-founded.              *)
LEMMA NewestExists ==
    ASSUME NEW S \in SUBSET Event, IsFiniteSet(S), S # {}
    PROVE  \E e \in S : \A f \in S : ~Supersedes(f, e)
<1> DEFINE newer(e) == {f \in S : Supersedes(f, e)}
           T == {newer(e) : e \in S}
<1>1. T \subseteq FiniteSubsetsOf(S)
  BY FS_Subset DEF FiniteSubsetsOf
<1>2. T # {}
  OBVIOUS
<1>3. PICK x \in T : \A y \in T : <<y, x>> \notin StrictSubsetOrdering(S)
  <2> HIDE DEF T
  <2> QED
    BY <1>1, <1>2, FS_StrictSubsetOrderingWellFounded, WFMin
<1>4. PICK e \in S : x = newer(e)
  OBVIOUS
<1>5. ASSUME NEW f \in S, Supersedes(f, e)
      PROVE  FALSE
  <2>1. newer(f) \subseteq newer(e)
    BY <1>5, EventFields DEF Supersedes
  <2>2. f \in newer(e) /\ f \notin newer(f)
    BY <1>5, EventFields DEF Supersedes
  <2>3. newer(f) \in T /\ newer(f) \in SUBSET S /\ newer(e) \in SUBSET S
    OBVIOUS
  <2> HIDE DEF newer, T
  <2>4. <<newer(f), newer(e)>> \in StrictSubsetOrdering(S)
    BY <2>1, <2>2, <2>3 DEF StrictSubsetOrdering
  <2> QED
    BY <1>3, <1>4, <2>3, <2>4
<1> QED
  BY <1>5

(* Folding events into a table covers every one of them, and what the table   *)
(* covered before.                                                            *)
LEMMA FoldLiveCovers ==
    ASSUME NEW live \in LiveTable, NEW events \in SUBSET Event, IsFiniteSet(events),
           NEW e \in Event, e.key \in Keys, e \in events \/ Covers(live, e)
    PROVE  Covers(FoldLive(live, events), e)
<1> DEFINE k == e.key
           better == {f \in events : f.key = k /\ Wins(live, f)}
           newest == {f \in better : \A g \in better : ~Supersedes(g, f)}
           e0 == CHOOSE f \in newest : TRUE
<1>1. FoldLive(live, events) \in LiveTable /\ live \in LiveTable
  BY FoldLiveType
<1>2. CASE Covers(live, e)
  <2>1. live[k] # NoEvent /\ ~Supersedes(e, live[k])
    BY <1>2 DEF Covers
  <2>2. FoldLive(live, events)[k] # NoEvent /\ ~Supersedes(live[k], FoldLive(live, events)[k])
    BY <2>1, FoldLiveKeeps
  <2>3. live[k] \in Event /\ FoldLive(live, events)[k] \in Event
    BY <1>1, <2>1, <2>2 DEF LiveTable
  <2> QED
    BY <2>1, <2>2, <2>3, NotSupersededTransitive DEF Covers
<1>3. CASE ~Covers(live, e)
  <2>1. e \in better
    BY <1>3 DEF Covers, Wins
  <2>2. FoldLive(live, events)[k] = IF newest = {} THEN live[k] ELSE e0
    BY DEF FoldLive
  <2>3. better \in SUBSET Event /\ IsFiniteSet(better)
    BY FS_Subset
  <2> HIDE DEF better
  <2>4. newest # {}
    BY <2>1, <2>3, NewestExists
  <2>5. e0 \in newest
    BY <2>4
  <2>6. e0 \in Event /\ ~Supersedes(e, e0)
    BY <2>1, <2>3, <2>5
  <2> QED
    BY <2>2, <2>4, <2>6, MarkersAssumption DEF Covers
<1> QED
  BY <1>2, <1>3

(* A table that only takes newer events covers what it covered. *)
LEMMA CoversGrows ==
    ASSUME NEW old \in LiveTable, NEW new \in LiveTable, NEW e \in Event, e.key \in Keys,
           Covers(old, e),
           new[e.key] = old[e.key]
              \/ (new[e.key] # NoEvent /\ Supersedes(new[e.key], old[e.key]))
    PROVE  Covers(new, e)
<1>1. old[e.key] \in Event /\ new[e.key] \in Event
  BY DEF Covers, LiveTable
<1> QED
  BY <1>1, EventFields DEF Covers, Supersedes

-----------------------------------------------------------------------------
(* LiveInv is inductive *)

(* The table covers the log and the queue: nothing that moves an event between *)
(* them, or forgets one, uncovers another.                                     *)
LEMMA LiveStutter ==
    ASSUME LiveInv, UNCHANGED <<log, snapshot, liveSessions>>,
           stage' # "down" => stage # "down", Queued' \subseteq Queued
    PROVE  LiveInv'
<1>1. LogBounded' /\ SnapshotCovers' /\ LiveCoversLog'
  BY DEF LiveInv, LogBounded, SnapshotCovers, LiveCoversLog
<1>2. (\A e \in Queued : Fresh(e) => Covers(liveSessions, e))'
  BY DEF LiveInv, Fresh, Covers, Supersedes
<1> QED
  BY <1>1, <1>2 DEF LiveInv

(* The events in the queue are events. *)
LEMMA QueuedType ==
    ASSUME TypeOK
    PROVE  Queued \subseteq Event
<1>1. \A i \in 1..Len(persistCh) : persistCh[i] \in Event
  BY EventsHaveIds DEF TypeOK
<1>2. emitting # NoEvent => emitting.ev \in Event
  BY DEF TypeOK
<1> QED
  BY <1>1, <1>2 DEF Queued

(* An Emit writes the table before anybody else can see its event. *)
LEMMA LiveAssign ==
    ASSUME IInv, LiveInv, NEW k \in Keys \cup {NoKey}, NEW t \in Times, EmitAssign(k, t)
    PROVE  LiveInv'
<1> DEFINE ev == [id |-> eventSeq + 1, boot |-> boot, key |-> k, at |-> t]
<1>0. TypeOK
  BY DEF IInv
<1>1. ev \in Event /\ ev.key = k
  BY <1>0 DEF TypeOK, Event
<1>2. /\ UNCHANGED <<log, snapshot, stage, persistCh>> /\ emitting = NoEvent
      /\ emitting' = [step |-> "publish", ev |-> ev]
      /\ liveSessions' = IF Wins(liveSessions, ev) THEN [liveSessions EXCEPT ![k] = ev]
                         ELSE liveSessions
  BY DEF EmitAssign, SetLive, diskVars
<1>3. liveSessions \in LiveTable /\ liveSessions' \in LiveTable
  BY <1>0, <1>1, <1>2 DEF TypeOK, LiveTable
<1>4. Queued' \subseteq Queued \cup {ev}
  BY <1>2 DEF Queued
<1> HIDE DEF ev
<1>5. \A j \in Keys : \/ liveSessions'[j] = liveSessions[j]
                      \/ liveSessions[j] = NoEvent
                      \/ liveSessions'[j] # NoEvent /\ Supersedes(liveSessions'[j], liveSessions[j])
  BY <1>1, <1>2, <1>3, MarkersAssumption DEF Wins, LiveTable
<1>6. ASSUME NEW e \in Event, e.key \in Keys, Covers(liveSessions, e)
      PROVE  Covers(liveSessions', e)
  BY <1>3, <1>5, <1>6, CoversGrows DEF Covers
<1>7. k \in Keys => Covers(liveSessions', ev)
  <2> SUFFICES ASSUME k \in Keys PROVE Covers(liveSessions', ev)
    OBVIOUS
  <2>1. CASE Wins(liveSessions, ev)
    <3>1. liveSessions'[k] = ev
      BY <1>2, <1>3, <2>1 DEF LiveTable
    <3> QED
      BY <1>1, <3>1, EventFields, MarkersAssumption DEF Covers, Supersedes
  <2>2. CASE ~Wins(liveSessions, ev)
    BY <1>1, <1>2, <2>2 DEF Wins, Covers
  <2> QED
    BY <2>1, <2>2
<1>8. LogBounded' /\ SnapshotCovers'
  BY <1>2 DEF LiveInv, LogBounded, SnapshotCovers
<1>9. (\A e \in Queued : Fresh(e) => Covers(liveSessions, e))'
  <2> SUFFICES ASSUME NEW e \in Queued', Fresh(e)
               PROVE  Covers(liveSessions', e)
    BY DEF Fresh, Covers, Supersedes
  <2>1. CASE e = ev
    BY <1>1, <1>7, <2>1 DEF Fresh
  <2>2. CASE e \in Queued
    <3>1. e \in Event /\ e.key \in Keys /\ Covers(liveSessions, e)
      BY <1>0, <2>2, QueuedType DEF LiveInv, Fresh
    <3> QED
      BY <1>6, <3>1
  <2> QED
    BY <1>4, <2>1, <2>2
<1>10. LiveCoversLog'
  <2> SUFFICES ASSUME stage # "down", NEW e \in log, Fresh(e), e.id + ScanWindow > LastID(log)
               PROVE  Covers(liveSessions', e)
    BY <1>2 DEF LiveCoversLog, Fresh, Covers
  <2>1. e \in Event /\ e.key \in Keys /\ Covers(liveSessions, e)
    BY <1>0 DEF TypeOK, LiveInv, LiveCoversLog, Fresh, Covers
  <2> QED
    BY <1>6, <2>1
<1> QED
  BY <1>8, <1>9, <1>10 DEF LiveInv

(* A publish and a full queue leave the queue's events where they are or drop   *)
(* one; a queued event enters the channel.                                      *)
LEMMA LiveEmit ==
    ASSUME IInv, LiveInv, Emit
    PROVE  LiveInv'
<1>1. CASE EmitPublish
  <2>1. emitting # NoEvent /\ emitting' = [emitting EXCEPT !.step = "enqueue"]
    BY <1>1 DEF EmitPublish
  <2>2. emitting'.ev = emitting.ev
    BY <2>1 DEF IInv, TypeOK
  <2>3. Queued' \subseteq Queued
    BY <1>1, <2>1, <2>2 DEF EmitPublish, Queued
  <2> QED
    BY <1>1, <2>3, LiveStutter DEF EmitPublish, diskVars, liveVars
<1>2. CASE EmitEnqueue
  <2>1. /\ emitting # NoEvent /\ emitting' = NoEvent
        /\ persistCh' = Append(persistCh, emitting.ev) \/ persistCh' = persistCh
    BY <1>2 DEF EmitEnqueue
  <2>2. persistCh \in Seq(Event)
    BY DEF IInv, TypeOK
  <2>3. \A i \in 1..Len(persistCh') : persistCh'[i] \in Queued
    <3>1. CASE persistCh' = persistCh
      BY <3>1 DEF Queued
    <3>2. CASE persistCh' = Append(persistCh, emitting.ev)
      <4>1. emitting.ev \in Event
        BY <2>1 DEF IInv, TypeOK
      <4> QED
        BY <2>1, <2>2, <3>2, <4>1 DEF Queued
    <3> QED
      BY <2>1, <3>1, <3>2
  <2>4. Queued' \subseteq Queued
    BY <2>1, <2>3 DEF Queued
  <2> QED
    BY <1>2, <2>4, LiveStutter DEF EmitEnqueue, diskVars, liveVars
<1> QED
  BY <1>1, <1>2, LiveAssign DEF Emit

(* What the persister takes from the channel was queued; the rest still is. *)
LEMMA PersisterTakes ==
    ASSUME IInv, Persist \/ PersistFail
    PROVE  /\ Head(persistCh) \in Queued /\ Head(persistCh) \in Event
           /\ durableID < Head(persistCh).id /\ durableID \in Nat
           /\ durableID = LastID(log) /\ NaturalIds(log) /\ HasNewest(log)
           /\ Queued' \subseteq Queued
<1>1. persistCh \in Seq(Event) /\ persistCh # << >> /\ persistCh' = Tail(persistCh)
  BY DEF Persist, PersistFail, IInv, TypeOK
<1>2. UNCHANGED emitting /\ stage # "down"
  BY DEF Persist, PersistFail
<1>3. /\ \A i \in 1..Len(persistCh') : i + 1 \in 1..Len(persistCh) /\ persistCh'[i] = persistCh[i + 1]
      /\ 1 \in 1..Len(persistCh) /\ Head(persistCh) = persistCh[1] /\ Head(persistCh) \in Event
  BY <1>1
<1>4. durableID < persistCh[1].id
  BY <1>3 DEF IInv, QueueInv
<1>5. durableID \in Nat /\ durableID = LastID(log) /\ NaturalIds(log) /\ HasNewest(log)
  BY <1>2, LogIds DEF IInv, DurableIsLastID, TypeOK
<1>6. Head(persistCh) \in Queued /\ Queued' \subseteq Queued
  BY <1>2, <1>3 DEF Queued
<1> QED
  BY <1>3, <1>4, <1>5, <1>6

(* The event that moves from the queue to the log was covered in the queue. *)
LEMMA LivePersist ==
    ASSUME IInv, LiveInv, Persist
    PROVE  LiveInv'
<1> DEFINE ev == Head(persistCh)
<1>1. /\ ev \in Queued /\ ev \in Event /\ durableID < ev.id /\ durableID \in Nat
      /\ durableID = LastID(log) /\ NaturalIds(log) /\ HasNewest(log) /\ Queued' \subseteq Queued
  BY PersisterTakes
<1>2. /\ log' = {f \in log : f.id # ev.id} \cup {ev} /\ log' = AppendWithID(log, ev)
      /\ UNCHANGED <<snapshot, stage, liveSessions>> /\ stage # "down"
  BY DEF Persist, AppendWithID, liveVars
<1> HIDE DEF ev
<1>3. ev.id \in Nat
  BY <1>1 DEF Event
<1>4. LastID(log') = ev.id /\ \A f \in log : f.id \in Nat /\ f.id <= LastID(log)
  BY <1>1, <1>2, <1>3, AppendMakesLast, LastIDIsNewest DEF NaturalIds
<1>5. LogBounded'
  <2>1. IsFiniteSet({f \in log : f.id # ev.id})
    BY FS_Subset DEF LiveInv, LogBounded
  <2>2. IsFiniteSet(log')
    BY <1>2, <2>1, FS_AddElement
  <2> QED
    BY <1>1, <1>2, <1>3, <2>2 DEF LiveInv, LogBounded
<1>6. (\A e \in Queued : Fresh(e) => Covers(liveSessions, e))'
  BY <1>1, <1>2 DEF LiveInv, Fresh, Covers, Supersedes
<1>7. LiveCoversLog'
  <2> SUFFICES ASSUME NEW e \in log', Fresh(e), e.id + ScanWindow > ev.id
               PROVE  Covers(liveSessions, e)
    BY <1>2, <1>4 DEF LiveCoversLog, Fresh, Covers
  <2>1. CASE e = ev
    BY <1>1, <2>1 DEF LiveInv
  <2>2. CASE e \in log
    <3>1. e.id \in Nat /\ ScanWindow \in Nat
      BY <1>4, <2>2, ConstantsAssumption
    <3>2. e.id + ScanWindow > LastID(log)
      BY <1>1, <1>3, <3>1
    <3> QED
      BY <1>2, <2>2, <3>2 DEF LiveInv, LiveCoversLog, Fresh, Covers
  <2> QED
    BY <1>2, <2>1, <2>2
<1>8. SnapshotCovers'
  <2> SUFFICES ASSUME snapshot # Nil
               PROVE  /\ snapshot.watermark <= ev.id
                      /\ \A e \in log' :
                            (/\ Fresh(e) /\ e.id <= snapshot.watermark
                             /\ e.id + ScanWindow > snapshot.watermark)
                            => Covers(snapshot.entries, e)
    BY <1>2, <1>4 DEF SnapshotCovers, Fresh, Covers, Supersedes
  <2>1. snapshot.watermark \in Nat /\ snapshot.watermark <= LastID(log)
    BY DEF IInv, TypeOK, LiveInv, SnapshotCovers
  <2>2. snapshot.watermark < ev.id
    BY <1>1, <1>3, <2>1
  <2>3. \A e \in log' : e.id <= snapshot.watermark => e \in log
    BY <1>2, <1>3, <2>1, <2>2
  <2> QED
    BY <1>3, <2>1, <2>2, <2>3 DEF LiveInv, SnapshotCovers
<1> QED
  BY <1>5, <1>6, <1>7, <1>8 DEF LiveInv

(* Pruning the log keeps its last id, so the scan window stays where it is. *)
LEMMA LivePrune ==
    ASSUME IInv, LiveInv, NEW before \in Cutoffs, GCPrune(before) \/ RetentionPrune(before)
    PROVE  LiveInv'
<1>1. /\ log' = Prune(log, before, KeepN)
      /\ UNCHANGED <<snapshot, stage, liveSessions, persistCh, emitting>>
  BY DEF GCPrune, RetentionPrune, liveVars, seqVars
<1>2. before \in Nat /\ KeepN \in Nat \ {0}
  BY ConstantsAssumption
<1>3. NaturalIds(log) /\ HasNewest(log)
  BY LogIds DEF IInv
<1>4. log' \subseteq log /\ LastID(log') = LastID(log)
  BY <1>1, <1>2, <1>3, PruneKeepsLast
<1>5. LogBounded'
  BY <1>4, FS_Subset DEF LiveInv, LogBounded
<1>6. (\A e \in Queued : Fresh(e) => Covers(liveSessions, e))'
  <2>1. Queued' = Queued
    BY <1>1 DEF Queued
  <2> QED
    BY <1>1, <2>1 DEF LiveInv, Fresh, Covers, Supersedes
<1>7. LiveCoversLog' /\ SnapshotCovers'
  BY <1>1, <1>4 DEF LiveInv, LiveCoversLog, SnapshotCovers, Fresh, Covers, Supersedes
<1> QED
  BY <1>5, <1>6, <1>7 DEF LiveInv

(* The second half of a GC pass removes entries older than a cutoff, which       *)
(* cover no event that every cutoff spares.                                      *)
LEMMA LiveGC ==
    ASSUME IInv, LiveInv, NEW before \in Cutoffs, GCLive(before)
    PROVE  LiveInv'
<1>0. TypeOK
  BY DEF IInv
<1>1. /\ liveSessions' = [k \in Keys |-> IF liveSessions[k] # NoEvent /\ liveSessions[k].at < before
                                         THEN NoEvent ELSE liveSessions[k]]
      /\ UNCHANGED <<log, snapshot, stage, persistCh, emitting>>
  BY DEF GCLive, SetLive, diskVars, seqVars
<1>2. ASSUME NEW e \in Event, Fresh(e), Covers(liveSessions, e)
      PROVE  Covers(liveSessions', e)
  <2>1. /\ liveSessions[e.key] \in Event /\ liveSessions[e.key] # NoEvent
        /\ ~Supersedes(e, liveSessions[e.key]) /\ e.at >= before /\ e.key \in Keys
    BY <1>0, <1>2 DEF TypeOK, LiveTable, Covers, Fresh
  <2>2. liveSessions[e.key].at \in Nat /\ e.at \in Nat /\ before \in Nat
    BY <2>1, EventFields, ConstantsAssumption
  <2>3. ~(liveSessions[e.key].at < before)
    BY <2>1, <2>2 DEF Supersedes
  <2>4. liveSessions'[e.key] = liveSessions[e.key]
    BY <1>1, <2>1, <2>3
  <2> QED
    BY <2>1, <2>4 DEF Covers
<1>3. LogBounded' /\ SnapshotCovers'
  BY <1>1 DEF LiveInv, LogBounded, SnapshotCovers
<1>4. (\A e \in Queued : Fresh(e) => Covers(liveSessions, e))'
  <2>1. Queued' = Queued /\ Queued \subseteq Event
    BY <1>0, <1>1, QueuedType DEF Queued
  <2>2. \A e \in Queued : Fresh(e) => Covers(liveSessions', e)
    BY <1>2, <2>1 DEF LiveInv
  <2> QED
    BY <2>1, <2>2 DEF Fresh, Covers, Supersedes
<1>5. LiveCoversLog'
  <2> SUFFICES ASSUME stage # "down", NEW e \in log, Fresh(e), e.id + ScanWindow > LastID(log)
               PROVE  Covers(liveSessions', e)
    BY <1>1 DEF LiveCoversLog, Fresh, Covers
  <2>1. e \in Event /\ Covers(liveSessions, e)
    BY <1>0 DEF TypeOK, LiveInv, LiveCoversLog, Fresh, Covers
  <2> QED
    BY <1>2, <2>1
<1> QED
  BY <1>3, <1>4, <1>5 DEF LiveInv

(* Close stamps the snapshot with the last id of the log and what covers it; a  *)
(* crash keeps the one there is.                                                 *)
LEMMA LiveStop ==
    ASSUME IInv, LiveInv, CloseFinish \/ Crash
    PROVE  LiveInv'
<1>1. /\ UNCHANGED log /\ stage # "down" /\ stage' = "down"
      /\ persistCh' = << >> /\ emitting' = NoEvent
      /\ \/ snapshot' = [watermark |-> durableID, entries |-> liveSessions]
         \/ UNCHANGED snapshot
  BY DEF CloseFinish, Crash, Volatile, diskVars
<1>2. LogBounded' /\ LiveCoversLog'
  BY <1>1 DEF LiveInv, LogBounded, LiveCoversLog
<1>3. (\A e \in Queued : Fresh(e) => Covers(liveSessions, e))'
  <2>1. Queued' = {}
    BY <1>1 DEF Queued
  <2> QED
    BY <2>1
<1>4. SnapshotCovers'
  <2>1. CASE UNCHANGED snapshot
    BY <1>1, <2>1 DEF LiveInv, SnapshotCovers
  <2>2. CASE snapshot' = [watermark |-> durableID, entries |-> liveSessions]
    <3>1. snapshot'.watermark = LastID(log) /\ snapshot'.entries = liveSessions
      BY <1>1, <2>2 DEF IInv, DurableIsLastID
    <3>2. LastID(log) \in Nat
      BY LogIds DEF IInv
    <3>3. \A e \in log : (Fresh(e) /\ e.id + ScanWindow > LastID(log)) => Covers(liveSessions, e)
      BY <1>1 DEF LiveInv, LiveCoversLog, Fresh, Covers
    <3> QED
      BY <1>1, <3>1, <3>2, <3>3 DEF SnapshotCovers, Fresh, Covers, Supersedes
  <2> QED
    BY <1>1, <2>1, <2>2
<1> QED
  BY <1>2, <1>3, <1>4 DEF LiveInv

(* A restart folds what follows the snapshot into it: an event of the scan       *)
(* window is either folded or older than the watermark, and then the snapshot    *)
(* covered it.                                                                   *)
LEMMA LiveStart ==
    ASSUME IInv, LiveInv, NewServer
    PROVE  LiveInv'
<1>0. TypeOK /\ HasNewest(log)
  BY DEF IInv
<1>1. /\ UNCHANGED <<log, snapshot>> /\ stage' = "up"
      /\ persistCh' = << >> /\ emitting' = NoEvent
      /\ liveSessions' = LoadLiveState
  BY DEF NewServer, Volatile, diskVars
<1>2. LogBounded' /\ SnapshotCovers'
  BY <1>1 DEF LiveInv, LogBounded, SnapshotCovers
<1>3. (\A e \in Queued : Fresh(e) => Covers(liveSessions, e))'
  <2>1. Queued' = {}
    BY <1>1 DEF Queued
  <2> QED
    BY <2>1
<1>4. LiveCoversLog'
  <2> SUFFICES ASSUME NEW e \in log, Fresh(e), e.id + ScanWindow > LastID(log)
               PROVE  Covers(LoadLiveState, e)
    BY <1>1 DEF LiveCoversLog, Fresh, Covers
  <2> DEFINE base == IF snapshot = Nil THEN NoLive ELSE snapshot.entries
             events == {f \in log : f.id > LoadAfter}
  <2>1. LoadLiveState = FoldLive(base, events)
    BY DEF LoadLiveState
  <2>2. base \in LiveTable /\ events \in SUBSET Event /\ e \in Event /\ e.key \in Keys
    BY <1>0 DEF TypeOK, NoLive, LiveTable, Fresh
  <2>3. IsFiniteSet(events)
    BY FS_Subset DEF LiveInv, LogBounded
  <2>4. /\ LastID(log) \in Nat /\ e.id \in Nat /\ ScanWindow \in Nat
        /\ e.id >= 1
        /\ snapshot # Nil => snapshot.watermark \in Nat /\ snapshot.watermark <= LastID(log)
    BY <1>0, <2>2, LogIds, EventFields, ConstantsAssumption
    DEF LiveInv, LogBounded, SnapshotCovers, TypeOK
  <2>5. e \in events \/ Covers(base, e)
    <3>1. CASE snapshot = Nil
      BY <2>4, <3>1 DEF LoadAfter
    <3>2. CASE snapshot # Nil /\ e.id > snapshot.watermark
      BY <2>4, <3>2 DEF LoadAfter
    <3>3. CASE snapshot # Nil /\ e.id <= snapshot.watermark
      <4>1. e.id + ScanWindow > snapshot.watermark
        BY <2>4, <3>3 DEF LiveInv, SnapshotCovers
      <4> QED
        BY <3>3, <4>1 DEF LiveInv, SnapshotCovers
    <3> QED
      BY <2>4, <3>1, <3>2, <3>3
  <2> HIDE DEF base, events
  <2> QED
    BY <2>1, <2>2, <2>3, <2>5, FoldLiveCovers
<1> QED
  BY <1>2, <1>3, <1>4 DEF LiveInv

(* LiveInv holds at the start, on an empty log. *)
LEMMA LiveInit == Init => LiveInv
<1> SUFFICES ASSUME Init PROVE LiveInv
  OBVIOUS
<1>1. log = {} /\ snapshot = Nil /\ Queued = {}
  BY DEF Init, Queued
<1> QED
  BY <1>1, FS_EmptySet DEF LiveInv, LogBounded, LiveCoversLog, SnapshotCovers

(* Every step keeps it. *)
LEMMA LiveStep ==
    ASSUME IInv, LiveInv, [Next]_vars
    PROVE  LiveInv'
<1>1. ASSUME NEW c \in Clients,
             (\E resume \in BOOLEAN : Subscribe(c, resume)) \/ Handler(c) \/ Drop(c)
      PROVE  LiveInv'
  <2>1. UNCHANGED <<log, snapshot, stage, liveSessions, persistCh, emitting>>
    BY <1>1 DEF Subscribe, Handler, Hello, ReplayCheck, ReplayWait, ReplayPage, ReplayRecord,
                Tailing, TailClosed, Drop, diskVars, seqVars, liveVars
  <2> QED
    BY <2>1, LiveStutter DEF Queued
<1>2. CASE PersistFail
  BY <1>2, PersisterTakes, LiveStutter DEF PersistFail, diskVars, liveVars
<1>3. CASE ReadStatus
  BY <1>3, LiveStutter DEF ReadStatus, diskVars, seqVars, Queued
<1>4. CASE CloseBegin \/ CloseSubscribers
  BY <1>4, LiveStutter DEF CloseBegin, CloseSubscribers, diskVars, seqVars, liveVars, Queued
<1>5. CASE UNCHANGED vars
  BY <1>5, LiveStutter DEF vars, diskVars, seqVars, liveVars, Queued
<1> QED
  BY <1>1, <1>2, <1>3, <1>4, <1>5, LiveEmit, LivePersist, LivePrune, LiveGC, LiveStop, LiveStart
  DEF Next

(* Live status never lags behind the log, for any number of clients, keys and     *)
(* restarts: every event within the scan window and inside retention is reflected *)
(* in the session table or superseded there, also right after a restart that      *)
(* seeds the table from a snapshot however old (sse.go, loadLiveState).            *)
THEOREM StatusCoversLog == Spec => []LiveCoversLog
<1>1. Init => LiveInv
  BY LiveInit
<1>2. IInv /\ LiveInv /\ [Next]_vars => LiveInv'
  BY LiveStep
<1>3. LiveInv => LiveCoversLog
  BY DEF LiveInv
<1> QED
  BY <1>1, <1>2, <1>3, Invariance, PTL DEF Spec

-----------------------------------------------------------------------------
(* What a client has missed *)

(* The events a handler still holds: the rest of its replay page, and its channel. *)
InFlight(s) == (IF s.phase = "tail" THEN {} ELSE s.page) \cup {s.ch[i] : i \in 1..Len(s.ch)}

(* The events somebody may still write to a client. *)
Carried == log \cup Queued \cup UNION {InFlight(conn[c]) : c \in Clients}

(* An id names one event, and the ids of a later run of the daemon are larger. *)
InOrder(e, f) == (e.id = f.id => e = f) /\ (e.boot < f.boot => e.id < f.id)

(* A missed event is still ahead of its client: of its cursor, of the position of *)
(* its stream and of the last event it got; it has been published, and nothing    *)
(* that carries its id is another event.                                          *)
Awaited(c, e) ==
    /\ e.boot <= boot /\ Matches(c, e) /\ e.id > cursor[c]
    /\ conn[c].phase # "off" => e.id > conn[c].pos
    /\ stage # "down" => e.id <= lastPublishedID
    /\ last[c] # NoEvent => last[c].boot <= e.boot
    /\ \A f \in Carried : InOrder(e, f)

(* The cursor of a client is the last event it got, and its stream starts there. *)
CursorKept(c) ==
    /\ stage # "down" => cursor[c] <= lastPublishedID
    /\ conn[c].phase = "hello" /\ cursor[c] = 0 => conn[c].pos = conn[c].until
    /\ last[c] # NoEvent => cursor[c] = last[c].id /\ cursor[c] > 0 /\ last[c].boot <= boot

Ahead(c) == CursorKept(c) /\ \A e \in missed[c] : Awaited(c, e)

LossInv ==
    /\ \A f \in Carried : f.boot <= boot
    /\ emitting # NoEvent => stage = "up" /\ emitting.ev.boot = boot
    /\ ~tailLost => \A c \in Clients : Ahead(c)

-----------------------------------------------------------------------------
(* LossInv is inductive *)

(* The events a handler holds, and all that is carried, are events. *)
LEMMA CarriedType ==
    ASSUME TypeOK
    PROVE  /\ Carried \subseteq Event
           /\ \A c \in Clients : InFlight(conn[c]) \subseteq Carried
<1>1. ASSUME NEW c \in Clients
      PROVE  InFlight(conn[c]) \subseteq Event
  <2>1. conn[c].page \in SUBSET Event /\ conn[c].ch \in Seq(Event)
    BY ConnFields
  <2>2. \A i \in 1..Len(conn[c].ch) : conn[c].ch[i] \in Event
    BY <2>1
  <2> QED
    BY <2>1, <2>2 DEF InFlight
<1>2. log \subseteq Event /\ Queued \subseteq Event
  BY QueuedType DEF TypeOK
<1> QED
  BY <1>1, <1>2 DEF Carried

(* What a client side holds has natural ids and boots. *)
LEMMA ClientFields ==
    ASSUME TypeOK, NEW c \in Clients
    PROVE  /\ cursor[c] \in Nat /\ boot \in Nat /\ lastPublishedID \in Nat
           /\ missed[c] \in SUBSET Event
           /\ \A e \in missed[c] : e.id \in Nat /\ e.boot \in Nat
           /\ last[c] # NoEvent => last[c] \in Event /\ last[c].id \in Nat /\ last[c].boot \in Nat
           /\ conn[c].pos \in Nat /\ conn[c].until \in Nat
BY ConnFields, EventFields DEF TypeOK

(* Nothing new is carried and the client's stream stays where it is, or ends:   *)
(* what the client misses stays ahead of it.                                     *)
LEMMA AheadStutter ==
    ASSUME NEW c \in Clients, Ahead(c),
           UNCHANGED <<boot, cursor[c], last[c], lastPublishedID>>, missed'[c] \subseteq missed[c],
           stage' # "down" => stage # "down", Carried' \subseteq Carried,
           \/ conn'[c].phase = "off"
           \/ /\ conn[c].phase # "off"
              /\ conn'[c].phase \in {conn[c].phase, "check", "wait", "page", "tail"}
              /\ conn'[c].pos = conn[c].pos /\ conn'[c].until = conn[c].until
    PROVE  Ahead(c)'
<1>1. CursorKept(c)'
  BY DEF Ahead, CursorKept
<1>2. ASSUME NEW e \in missed'[c]
      PROVE  Awaited(c, e)'
  <2>1. Awaited(c, e)
    BY <1>2 DEF Ahead
  <2> QED
    BY <2>1 DEF Awaited, Matches, InOrder
<1> QED
  BY <1>1, <1>2 DEF Ahead

(* The same for all clients, when only the queue, the log or the phase of the    *)
(* daemon change.                                                                *)
LEMMA LossStutter ==
    ASSUME LossInv,
           UNCHANGED <<boot, cursor, last, missed, tailLost, lastPublishedID>>,
           stage' # "down" => stage # "down", Carried' \subseteq Carried,
           emitting' = NoEvent \/ (emitting' = emitting /\ stage' = stage),
           \A c \in Clients : \/ conn'[c].phase = "off"
                              \/ /\ conn'[c].phase = conn[c].phase
                                 /\ conn'[c].pos = conn[c].pos /\ conn'[c].until = conn[c].until
    PROVE  LossInv'
<1>1. ASSUME ~tailLost', NEW c \in Clients
      PROVE  Ahead(c)'
  <2>1. Ahead(c)
    BY <1>1 DEF LossInv
  <2> QED
    BY <2>1, AheadStutter
<1>2. (\A f \in Carried : f.boot <= boot)'
  BY DEF LossInv
<1>3. (emitting # NoEvent => stage = "up" /\ emitting.ev.boot = boot)'
  BY DEF LossInv
<1> QED
  BY <1>1, <1>2, <1>3 DEF LossInv

(* The channels and pages are as before. *)
LEMMA CarriedSame ==
    ASSUME UNCHANGED conn, log' \subseteq log, Queued' \subseteq Queued
    PROVE  Carried' \subseteq Carried
BY DEF Carried, InFlight

(* A new id is past all that is carried or missed. *)
LEMMA LossAssign ==
    ASSUME IInv, LossInv, NEW k \in Keys \cup {NoKey}, NEW t \in Times, EmitAssign(k, t)
    PROVE  LossInv'
<1> DEFINE ev == [id |-> eventSeq + 1, boot |-> boot, key |-> k, at |-> t]
<1>0. TypeOK
  BY DEF IInv
<1>1. /\ UNCHANGED <<log, stage, boot, persistCh, lastPublishedID, conn,
                     cursor, last, missed, tailLost>>
      /\ emitting = NoEvent /\ stage = "up"
      /\ emitting' = [step |-> "publish", ev |-> ev]
  BY DEF EmitAssign, diskVars, clientVars
<1>2. ev \in Event /\ ev.id = lastPublishedID + 1 /\ ev.boot = boot /\ boot \in Nat
  BY <1>0, <1>1 DEF TypeOK, Event, IInv, SeqInv
<1>3. emitting' # NoEvent /\ emitting'.ev = ev
  BY <1>1, <1>2, MarkersAssumption
<1>4. Queued' \subseteq Queued \cup {ev}
  BY <1>1 DEF Queued
<1> HIDE DEF ev
<1>5. Carried' \subseteq Carried \cup {ev}
  BY <1>1, <1>4 DEF Carried, InFlight
<1>6. (\A f \in Carried : f.boot <= boot)'
  BY <1>1, <1>2, <1>5 DEF LossInv
<1>7. ASSUME ~tailLost, NEW c \in Clients
      PROVE  Ahead(c)'
  <2>1. Ahead(c)
    BY <1>7 DEF LossInv
  <2>2. CursorKept(c)'
    BY <1>1, <2>1 DEF Ahead, CursorKept
  <2>3. ASSUME NEW e \in missed[c]
        PROVE  Awaited(c, e)'
    <3>1. Awaited(c, e) /\ e.id \in Nat /\ e.id <= lastPublishedID /\ lastPublishedID \in Nat
      BY <1>0, <1>1, <2>1, <2>3, ClientFields DEF Ahead, Awaited
    <3>2. InOrder(e, ev)
      BY <1>2, <3>1 DEF InOrder
    <3>3. \A f \in Carried' : InOrder(e, f)
      BY <1>5, <3>1, <3>2 DEF Awaited
    <3> QED
      BY <1>1, <3>1, <3>3 DEF Awaited, Matches, InOrder
  <2> QED
    BY <1>1, <2>2, <2>3 DEF Ahead
<1> QED
  BY <1>1, <1>2, <1>3, <1>6, <1>7 DEF LossInv

(* What a handler holds has been published, and so has all it has processed. *)
LEMMA InFlightPublished ==
    ASSUME TypeOK, ConnsInv, NEW c \in Clients
    PROVE  /\ \A f \in InFlight(conn[c]) : f.id <= lastPublishedID
           /\ conn[c].phase # "tail" => conn[c].until <= lastPublishedID
           /\ conn[c].pos <= lastPublishedID
<1> DEFINE s == conn[c]
<1>1. /\ s.pos \in Nat /\ s.until \in Nat /\ lastPublishedID \in Nat
      /\ s.page \in SUBSET Event /\ s.ch \in Seq(Event) /\ Len(s.ch) \in Nat
  BY ConnFields
<1>2. /\ \A i \in 1..Len(s.ch) : s.ch[i].id = Base(s) + i
      /\ Base(s) + Len(s.ch) <= lastPublishedID
      /\ s.phase # "tail" => s.pos <= s.until /\ \A f \in s.page : f.id <= s.until
  BY DEF ConnsInv, ConnInv
<1>3. Base(s) \in Nat /\ Base(s) <= lastPublishedID
  BY <1>1, <1>2 DEF Base
<1>4. \A i \in 1..Len(s.ch) : s.ch[i].id <= lastPublishedID
  BY <1>1, <1>2, <1>3
<1>5. s.phase # "tail" => s.until <= lastPublishedID
  BY <1>3 DEF Base
<1>6. s.pos <= lastPublishedID
  BY <1>1, <1>2, <1>3, <1>5 DEF Base
<1>7. s.phase # "tail" => \A f \in s.page : f.id <= lastPublishedID
  <2>1. \A f \in s.page : f.id \in Nat
    BY <1>1, EventFields
  <2> QED
    BY <1>1, <1>2, <1>5, <2>1
<1> QED
  BY <1>4, <1>5, <1>6, <1>7 DEF InFlight

(* A fan-out adds the event to a channel at most. *)
LEMMA FanOutKeeps ==
    ASSUME NEW s \in Conn, NEW ev \in Event
    PROVE  /\ FanOut(s, ev).phase = s.phase /\ FanOut(s, ev).pos = s.pos
           /\ FanOut(s, ev).until = s.until
           /\ InFlight(FanOut(s, ev)) \subseteq InFlight(s) \cup {ev}
<1>1. s.ch \in Seq(Event) /\ Len(s.ch) \in Nat /\ ChanCap \in Nat /\ s.open \in BOOLEAN
  BY ConstantsAssumption DEF Conn
<1>2. CASE ~s.open
  BY <1>2 DEF FanOut
<1>3. CASE s.open /\ Len(s.ch) < ChanCap
  <2> DEFINE t == [s EXCEPT !.ch = Append(s.ch, ev)]
  <2>1. FanOut(s, ev) = t
    BY <1>1, <1>3 DEF FanOut
  <2>2. t.phase = s.phase /\ t.pos = s.pos /\ t.until = s.until /\ t.page = s.page
        /\ t.ch = Append(s.ch, ev)
    BY DEF Conn
  <2> HIDE DEF t
  <2>3. \A i \in 1..Len(t.ch) : t.ch[i] \in {s.ch[j] : j \in 1..Len(s.ch)} \cup {ev}
    BY <1>1, <2>2
  <2>4. InFlight(t) \subseteq InFlight(s) \cup {ev}
    BY <2>2, <2>3 DEF InFlight
  <2> QED
    BY <2>1, <2>2, <2>4
<1>4. CASE s.open /\ Len(s.ch) >= ChanCap
  <2> DEFINE t == [s EXCEPT !.open = FALSE, !.overflowed = TRUE]
  <2>1. FanOut(s, ev) = t
    BY <1>1, <1>4 DEF FanOut
  <2>2. t.phase = s.phase /\ t.pos = s.pos /\ t.until = s.until /\ t.page = s.page
        /\ t.ch = s.ch
    BY DEF Conn
  <2> HIDE DEF t
  <2> QED
    BY <2>1, <2>2 DEF InFlight
<1> QED
  BY <1>1, <1>2, <1>3, <1>4

(* The event of a publish is the only one of its id that is carried: everything  *)
(* else in the log, the queue, a page or a channel is older.                     *)
LEMMA PublishedIsNew ==
    ASSUME IInv, stage # "down", emitting # NoEvent, emitting.step = "publish"
    PROVE  /\ emitting.ev \in Event /\ emitting.ev.id = lastPublishedID + 1
           /\ emitting.ev \in Carried
           /\ \A f \in Carried : f = emitting.ev \/ f.id <= lastPublishedID
<1> DEFINE ev == emitting.ev
<1>0. TypeOK
  BY DEF IInv
<1>1. ev \in Event /\ ev.id = lastPublishedID + 1 /\ eventSeq = lastPublishedID + 1
  BY <1>0 DEF TypeOK, IInv, SeqInv
<1>2. lastPublishedID \in Nat /\ durableID \in Nat
  BY <1>0 DEF TypeOK
<1>3. durableID <= lastPublishedID
  BY <1>1, <1>2 DEF IInv, QueueInv
<1>4. \A f \in log : f.id <= lastPublishedID
  <2>1. /\ LastID(log) = durableID
        /\ \A f \in log : f.id \in Nat /\ f.id <= LastID(log)
    BY <1>0, LogIds, LastIDIsNewest DEF IInv, DurableIsLastID, NaturalIds
  <2> QED
    BY <1>2, <1>3, <2>1
<1>5. \A i \in 1..Len(persistCh) : persistCh[i].id <= lastPublishedID
  <2>1. \A i \in 1..Len(persistCh) : persistCh[i].id \in Nat /\ persistCh[i].id < eventSeq
    BY <1>0, EventsHaveIds DEF TypeOK, IInv, QueueInv
  <2> QED
    BY <1>1, <1>2, <2>1
<1>6. \A c \in Clients : \A f \in InFlight(conn[c]) : f.id <= lastPublishedID
  BY <1>0, InFlightPublished DEF IInv
<1> QED
  BY <1>1, <1>4, <1>5, <1>6 DEF Carried, Queued

(* A published event becomes missed at the head of the stream: it is newer than *)
(* every cursor and position, and nothing later carries its id.                  *)
LEMMA LossPublish ==
    ASSUME IInv, LossInv, EmitPublish
    PROVE  LossInv'
<1> DEFINE ev == emitting.ev
<1>0. TypeOK /\ ConnsInv
  BY DEF IInv
<1>1. /\ UNCHANGED <<log, stage, boot, persistCh, cursor, last, tailLost>>
      /\ emitting # NoEvent /\ emitting.step = "publish"
      /\ emitting' = [emitting EXCEPT !.step = "enqueue"]
      /\ conn' = [c \in Clients |-> FanOut(conn[c], ev)]
      /\ missed' = [c \in Clients |-> IF Following(c) /\ Matches(c, ev)
                                      THEN missed[c] \cup {ev} ELSE missed[c]]
  BY DEF EmitPublish, diskVars
<1>2. stage = "up" /\ ev.boot = boot
  BY <1>1 DEF LossInv
<1>3. /\ ev \in Event /\ ev.id = lastPublishedID + 1 /\ ev \in Carried
      /\ \A f \in Carried : f = ev \/ f.id <= lastPublishedID
  BY <1>1, <1>2, PublishedIsNew
<1>4. lastPublishedID \in Nat /\ boot \in Nat /\ lastPublishedID' = ev.id
  BY <1>0, <1>3 DEF TypeOK, EmitPublish
<1>5. emitting'.ev = ev
  BY <1>0, <1>1 DEF TypeOK
<1>6. Queued' \subseteq Queued
  BY <1>1, <1>5 DEF Queued
<1> HIDE DEF ev
<1>7. \A c \in Clients : /\ conn'[c].phase = conn[c].phase /\ conn'[c].pos = conn[c].pos
                         /\ conn'[c].until = conn[c].until
                         /\ InFlight(conn'[c]) \subseteq InFlight(conn[c]) \cup {ev}
  BY <1>1, <1>3, ConnFields, <1>0, FanOutKeeps
<1>8. Carried' \subseteq Carried
  <2>1. \A c \in Clients : InFlight(conn'[c]) \subseteq Carried
    BY <1>0, <1>3, <1>7, CarriedType
  <2>2. Carried' = log' \cup Queued' \cup UNION {InFlight(conn'[c]) : c \in Clients}
    BY DEF Carried, InFlight
  <2>3. log' \subseteq Carried /\ Queued' \subseteq Carried
    BY <1>1, <1>6 DEF Carried
  <2> QED
    BY <2>1, <2>2, <2>3
<1>9. ASSUME ~tailLost, NEW c \in Clients
      PROVE  Ahead(c)'
  <2>1. Ahead(c)
    BY <1>9 DEF LossInv
  <2>2. /\ cursor[c] \in Nat /\ cursor[c] <= lastPublishedID
        /\ conn[c].pos \in Nat /\ conn[c].pos <= lastPublishedID
    BY <1>0, <1>2, <2>1, ClientFields, InFlightPublished DEF Ahead, CursorKept
  <2>3. CursorKept(c)'
    BY <1>1, <1>2, <1>3, <1>4, <1>7, <2>1, <2>2 DEF Ahead, CursorKept
  <2>4. ASSUME NEW e \in missed[c]
        PROVE  Awaited(c, e)'
    <3>1. Awaited(c, e) /\ e.id \in Nat
      BY <1>0, <2>1, <2>4, ClientFields DEF Ahead
    <3>2. e.id <= lastPublishedID'
      BY <1>2, <1>3, <1>4, <3>1 DEF Awaited
    <3> QED
      BY <1>1, <1>7, <1>8, <3>1, <3>2 DEF Awaited, Matches, InOrder
  <2>5. ASSUME NEW e \in Event, e = ev, Matches(c, e)
        PROVE  Awaited(c, e)'
    <3>1. \A f \in Carried : InOrder(e, f)
      <4> SUFFICES ASSUME NEW f \in Carried PROVE InOrder(e, f)
        OBVIOUS
      <4>1. f.id \in Nat /\ f.boot \in Nat /\ f.boot <= boot
        BY <1>0, CarriedType, EventFields DEF LossInv
      <4>2. f.id = e.id => f = e
        BY <1>3, <1>4, <2>5, <4>1
      <4> QED
        BY <1>2, <1>4, <2>5, <4>1, <4>2 DEF InOrder
    <3>2. e.id > cursor[c] /\ e.id > conn[c].pos /\ e.id <= lastPublishedID' /\ e.boot <= boot
      BY <1>2, <1>3, <1>4, <2>2, <2>5
    <3>3. last[c] # NoEvent => last[c].boot <= e.boot
      BY <1>2, <2>1, <2>5 DEF Ahead, CursorKept
    <3> QED
      BY <1>1, <1>7, <1>8, <2>5, <3>1, <3>2, <3>3 DEF Awaited, Matches, InOrder
  <2>6. missed'[c] = missed[c] \/ (missed'[c] = missed[c] \cup {ev} /\ Matches(c, ev))
    BY <1>1
  <2> QED
    BY <1>3, <2>3, <2>4, <2>5, <2>6 DEF Ahead
<1>10. (\A f \in Carried : f.boot <= boot)'
  BY <1>1, <1>8 DEF LossInv
<1> QED
  BY <1>1, <1>2, <1>5, <1>9, <1>10 DEF LossInv

(* The queue takes the event that the Emit held, or nothing does. *)
LEMMA LossEnqueue ==
    ASSUME IInv, LossInv, EmitEnqueue
    PROVE  LossInv'
<1>1. /\ UNCHANGED <<log, stage, boot, lastPublishedID, conn, cursor, last, missed, tailLost>>
      /\ emitting # NoEvent /\ emitting' = NoEvent
      /\ persistCh' = Append(persistCh, emitting.ev) \/ persistCh' = persistCh
  BY DEF EmitEnqueue, diskVars, clientVars
<1>2. persistCh \in Seq(Event) /\ emitting.ev \in Event
  BY <1>1 DEF IInv, TypeOK
<1>3. \A i \in 1..Len(persistCh') : persistCh'[i] \in Queued
  <2>1. CASE persistCh' = persistCh
    BY <2>1 DEF Queued
  <2>2. CASE persistCh' = Append(persistCh, emitting.ev)
    BY <1>1, <1>2, <2>2 DEF Queued
  <2> QED
    BY <1>1, <2>1, <2>2
<1>4. Queued' \subseteq Queued
  BY <1>1, <1>3 DEF Queued
<1>5. Carried' \subseteq Carried
  BY <1>1, <1>4, CarriedSame
<1> QED
  BY <1>1, <1>5, LossStutter

(* The persister moves an event from the queue to the log, or drops it. *)
LEMMA LossPersister ==
    ASSUME IInv, LossInv, Persist \/ PersistFail
    PROVE  LossInv'
<1> DEFINE ev == Head(persistCh)
<1>1. ev \in Queued /\ Queued' \subseteq Queued
  BY PersisterTakes
<1>2. /\ UNCHANGED <<stage, boot, lastPublishedID, emitting, conn, cursor, last, missed, tailLost>>
      /\ log' = AppendWithID(log, ev) \/ log' = log
  BY DEF Persist, PersistFail, diskVars, clientVars
<1> HIDE DEF ev
<1>3. log' \subseteq log \cup Queued
  BY <1>1, <1>2 DEF AppendWithID
<1>4. Carried' \subseteq Carried
  BY <1>1, <1>2, <1>3 DEF Carried, InFlight
<1> QED
  BY <1>2, <1>4, LossStutter

(* What a prune removes, and what happens to the session table, is nothing that *)
(* a client has yet to get: the replay reports what it cannot find.              *)
LEMMA LossPrune ==
    ASSUME IInv, LossInv, NEW before \in Cutoffs,
           GCPrune(before) \/ GCLive(before) \/ RetentionPrune(before)
    PROVE  LossInv'
<1>1. /\ UNCHANGED <<stage, boot, persistCh, lastPublishedID, emitting, conn,
                     cursor, last, missed, tailLost>>
      /\ log' = Prune(log, before, KeepN) \/ log' = log
  BY DEF GCPrune, GCLive, RetentionPrune, diskVars, seqVars, clientVars
<1>2. log' \subseteq log
  BY <1>1 DEF Prune
<1>3. Carried' \subseteq Carried
  <2>1. Queued' = Queued
    BY <1>1 DEF Queued
  <2> QED
    BY <1>1, <1>2, <2>1, CarriedSame
<1> QED
  BY <1>1, <1>3, LossStutter

(* Close and a crash end every stream; what was not in the log is no longer      *)
(* carried.                                                                      *)
LEMMA LossStop ==
    ASSUME IInv, LossInv, CloseFinish \/ Crash
    PROVE  LossInv'
<1>1. /\ UNCHANGED <<log, boot, cursor, last, missed, tailLost>>
      /\ stage' = "down" /\ emitting' = NoEvent /\ persistCh' = << >>
      /\ conn' = [c \in Clients |-> Closed]
  BY DEF CloseFinish, Crash, Volatile, diskVars, clientVars
<1>2. InFlight(Closed) = {} /\ Closed.phase = "off"
  BY DEF InFlight, Closed
<1>3. Carried' \subseteq Carried
  <2>1. Queued' = {}
    BY <1>1 DEF Queued
  <2>2. \A c \in Clients : InFlight(conn'[c]) = {}
    BY <1>1, <1>2
  <2>3. Carried' = log' \cup Queued' \cup UNION {InFlight(conn'[c]) : c \in Clients}
    BY DEF Carried, InFlight
  <2> QED
    BY <1>1, <2>1, <2>2, <2>3 DEF Carried
<1>4. ASSUME ~tailLost, NEW c \in Clients
      PROVE  Ahead(c)'
  <2>1. Ahead(c) /\ conn'[c].phase = "off"
    BY <1>1, <1>2, <1>4 DEF LossInv
  <2>2. CursorKept(c)'
    BY <1>1, <2>1 DEF Ahead, CursorKept
  <2>3. \A e \in missed[c] : Awaited(c, e)'
    BY <1>1, <1>3, <2>1 DEF Ahead, Awaited, Matches, InOrder
  <2> QED
    BY <1>1, <2>2, <2>3 DEF Ahead
<1> QED
  BY <1>1, <1>3, <1>4 DEF LossInv

(* A restart that finds the log complete numbers its events after all that       *)
(* anybody has seen or waits for.                                                *)
LEMMA LossStart ==
    ASSUME IInv, LossInv, NewServer
    PROVE  LossInv'
<1>0. TypeOK /\ boot \in Nat
  BY DEF IInv, TypeOK
<1>1. /\ UNCHANGED <<log, cursor, last, missed>> /\ boot' = boot + 1
      /\ stage' = "up" /\ emitting' = NoEvent /\ persistCh' = << >>
      /\ conn' = [c \in Clients |-> Closed] /\ lastPublishedID' = LastID(log)
      /\ tailLost' = (tailLost \/ \E c \in Clients : \/ cursor[c] > LastID(log)
                                                    \/ \E e \in missed[c] : e.id > LastID(log))
  BY DEF NewServer, Volatile, diskVars
<1>2. InFlight(Closed) = {} /\ Closed.phase = "off"
  BY DEF InFlight, Closed
<1>3. Carried' \subseteq Carried
  <2>1. Queued' = {}
    BY <1>1 DEF Queued
  <2>2. \A c \in Clients : InFlight(conn'[c]) = {}
    BY <1>1, <1>2
  <2>3. Carried' = log' \cup Queued' \cup UNION {InFlight(conn'[c]) : c \in Clients}
    BY DEF Carried, InFlight
  <2> QED
    BY <1>1, <2>1, <2>2, <2>3 DEF Carried
<1>4. (\A f \in Carried : f.boot <= boot)'
  <2>1. \A f \in Carried : f.boot \in Nat /\ f.boot <= boot
    BY <1>0, CarriedType, EventFields DEF LossInv
  <2> QED
    BY <1>0, <1>1, <1>3, <2>1
<1>5. ASSUME ~tailLost', NEW c \in Clients
      PROVE  Ahead(c)'
  <2>0. ~tailLost /\ ~(cursor[c] > LastID(log)) /\ ~\E e \in missed[c] : e.id > LastID(log)
    BY <1>1, <1>5, Zenon
  <2>1. Ahead(c) /\ conn'[c].phase = "off"
    BY <1>1, <1>2, <2>0 DEF LossInv
  <2>2. /\ cursor[c] \in Nat /\ LastID(log) \in Nat
        /\ \A e \in missed[c] : e.id \in Nat /\ e.boot \in Nat
        /\ last[c] # NoEvent => last[c].boot \in Nat
    BY <1>0, ClientFields, LogIds DEF IInv
  <2>3. cursor[c] <= LastID(log) /\ \A e \in missed[c] : e.id <= LastID(log)
    BY <2>0, <2>2
  <2>4. CursorKept(c)'
    BY <1>0, <1>1, <2>1, <2>2, <2>3 DEF Ahead, CursorKept
  <2>5. ASSUME NEW e \in missed[c]
        PROVE  Awaited(c, e)'
    <3>1. Awaited(c, e) /\ e.boot <= boot'
      BY <1>0, <1>1, <2>1, <2>2, <2>5 DEF Ahead, Awaited
    <3> QED
      BY <1>1, <1>3, <2>1, <2>3, <3>1 DEF Awaited, Matches, InOrder
  <2> QED
    BY <1>1, <2>4, <2>5 DEF Ahead
<1> QED
  BY <1>1, <1>4, <1>5 DEF LossInv

(* A step of one handler, which holds nothing but what was carried, leaves all   *)
(* other clients alone.                                                          *)
LEMMA OneClient ==
    ASSUME TypeOK, LossInv, NEW c \in Clients, NEW t,
           conn' = [conn EXCEPT ![c] = t], InFlight(t) \subseteq Carried,
           UNCHANGED <<diskVars, stage, boot, seqVars, emitting, tailLost>>,
           \A d \in Clients \ {c} : UNCHANGED <<cursor[d], last[d], missed[d]>>
    PROVE  /\ Carried' \subseteq Carried
           /\ conn'[c] = t
           /\ (~tailLost => Ahead(c)') => LossInv'
<1>1. /\ conn'[c] = t /\ \A d \in Clients \ {c} : conn'[d] = conn[d]
      /\ UNCHANGED <<log, persistCh, lastPublishedID>>
  BY DEF TypeOK, diskVars, seqVars
<1>2. Carried' \subseteq Carried
  <2>1. \A d \in Clients : InFlight(conn'[d]) \subseteq Carried
    BY <1>1, CarriedType
  <2>2. Carried' = log' \cup Queued' \cup UNION {InFlight(conn'[d]) : d \in Clients}
    BY DEF Carried, InFlight
  <2>3. log' \subseteq Carried /\ Queued' \subseteq Carried
    BY <1>1 DEF Carried, Queued
  <2> QED
    BY <2>1, <2>2, <2>3
<1>3. ASSUME ~tailLost => Ahead(c)'
      PROVE  LossInv'
  <2>1. ASSUME ~tailLost', NEW d \in Clients
        PROVE  Ahead(d)'
    <3>1. CASE d = c
      BY <1>3, <2>1, <3>1
    <3>2. CASE d # c
      <4>1. Ahead(d) /\ conn'[d] = conn[d] /\ UNCHANGED <<cursor[d], last[d], missed[d]>>
        BY <1>1, <2>1, <3>2 DEF LossInv
      <4>2. CursorKept(d)'
        BY <1>1, <4>1 DEF Ahead, CursorKept
      <4>3. \A e \in missed[d] : Awaited(d, e)'
        BY <1>1, <1>2, <4>1 DEF Ahead, Awaited, Matches, InOrder
      <4> QED
        BY <4>1, <4>2, <4>3 DEF Ahead
    <3> QED
      BY <3>1, <3>2
  <2>2. (\A f \in Carried : f.boot <= boot)'
    BY <1>2 DEF LossInv
  <2> QED
    BY <2>1, <2>2 DEF LossInv
<1> QED
  BY <1>1, <1>2, <1>3

(* Whoever is told to resync has missed nothing from then on. *)
LEMMA LossResync ==
    ASSUME IInv, LossInv, NEW c \in Clients, Resync(c),
           UNCHANGED <<diskVars, stage, boot, seqVars, emitting>>
    PROVE  LossInv'
<1> DEFINE s == conn[c]
           t == [s EXCEPT !.phase = "tail", !.pos = s.until, !.page = {}, !.told = TRUE]
<1>0. TypeOK
  BY DEF IInv
<1>1. conn' = [conn EXCEPT ![c] = t] /\ UNCHANGED <<cursor, last, tailLost>>
  BY DEF Resync
<1>2. t.phase = "tail" /\ t.ch = s.ch
  BY <1>0, ConnFields DEF Conn
<1> HIDE DEF t
<1>3. InFlight(t) \subseteq Carried
  BY <1>0, <1>2, CarriedType DEF InFlight
<1>4. missed'[c] = {} /\ \A d \in Clients \ {c} : missed'[d] = missed[d]
  BY <1>0 DEF Resync, TypeOK
<1>5. conn'[c] = t /\ ((~tailLost => Ahead(c)') => LossInv')
  BY <1>0, <1>1, <1>3, <1>4, OneClient
<1>6. ASSUME ~tailLost
      PROVE  Ahead(c)'
  <2>1. Ahead(c) /\ UNCHANGED lastPublishedID
    BY <1>6 DEF LossInv, seqVars
  <2>2. CursorKept(c)'
    BY <1>1, <1>2, <1>5, <2>1 DEF Ahead, CursorKept
  <2> QED
    BY <1>4, <2>2 DEF Ahead
<1> QED
  BY <1>5, <1>6

(* A handler that goes on to another part of its replay, or reads a page of the *)
(* log, has written nothing; one that ends leaves what the client missed behind. *)
LEMMA LossMove ==
    ASSUME IInv, LossInv, NEW c \in Clients, NEW t, conn' = [conn EXCEPT ![c] = t],
           InFlight(t) \subseteq Carried,
           \/ t.phase = "off"
           \/ /\ conn[c].phase # "off" /\ t.phase \in {"check", "wait", "page"}
              /\ t.pos = conn[c].pos /\ t.until = conn[c].until,
           UNCHANGED <<diskVars, stage, boot, seqVars, emitting, cursor, last, tailLost>>,
           missed' = missed \/ missed' = [missed EXCEPT ![c] = {}]
    PROVE  LossInv'
<1>0. TypeOK
  BY DEF IInv
<1>1. /\ missed'[c] \subseteq missed[c]
      /\ \A d \in Clients \ {c} : UNCHANGED <<cursor[d], last[d], missed[d]>>
  BY <1>0 DEF TypeOK
<1>2. /\ Carried' \subseteq Carried /\ conn'[c] = t
      /\ (~tailLost => Ahead(c)') => LossInv'
  BY <1>0, <1>1, OneClient
<1>3. ASSUME ~tailLost
      PROVE  Ahead(c)'
  <2>1. Ahead(c) /\ UNCHANGED <<lastPublishedID, cursor[c], last[c]>>
    BY <1>3 DEF LossInv, seqVars
  <2> QED
    BY <1>1, <1>2, <2>1, AheadStutter
<1> QED
  BY <1>2, <1>3

(* A handler that processes the next id delivers its event, or skips it when the *)
(* filter leaves it out: what the client still misses has larger ids.            *)
LEMMA LossAdvance ==
    ASSUME IInv, LossInv, NEW c \in Clients, NEW t, NEW ev \in InFlight(conn[c]),
           conn' = [conn EXCEPT ![c] = t], InFlight(t) \subseteq InFlight(conn[c]),
           conn[c].phase # "off", ev.id = conn[c].pos + 1,
           t.phase \in {"page", "tail"}, t.pos = ev.id,
           Deliver(c, ev), UNCHANGED <<diskVars, stage, boot, seqVars, emitting>>
    PROVE  LossInv'
<1>0. TypeOK /\ ConnsInv
  BY DEF IInv
<1>1. /\ ev \in Carried /\ ev \in Event /\ ev.id \in Nat /\ ev.boot \in Nat /\ ev.boot <= boot
      /\ ev.id <= lastPublishedID /\ conn[c].pos \in Nat
  BY <1>0, CarriedType, EventFields, InFlightPublished, ConnFields DEF LossInv
<1>2. /\ UNCHANGED <<tailLost, lastPublishedID>>
      /\ \A d \in Clients \ {c} : UNCHANGED <<cursor[d], last[d], missed[d]>>
  BY <1>0 DEF Deliver, TypeOK, clientVars, seqVars
<1>3. /\ Carried' \subseteq Carried /\ conn'[c] = t
      /\ (~tailLost => Ahead(c)') => LossInv'
  BY <1>0, <1>2, CarriedType, OneClient
<1>4. ASSUME ~tailLost, Ahead(c), Matches(c, ev)
      PROVE  Ahead(c)'
  <2>1. cursor'[c] = ev.id /\ last'[c] = ev /\ missed'[c] = missed[c] \ {ev}
    BY <1>0, <1>4 DEF Deliver, TypeOK
  <2>2. CursorKept(c)'
    BY <1>1, <1>2, <1>3, <2>1 DEF CursorKept
  <2>3. ASSUME NEW e \in missed'[c]
        PROVE  Awaited(c, e)'
    <3>1. Awaited(c, e) /\ e # ev /\ e.id \in Nat /\ e.boot \in Nat
      BY <1>0, <1>4, <2>1, <2>3, ClientFields DEF Ahead
    <3>2. e.id > conn[c].pos /\ InOrder(e, ev)
      BY <1>1, <3>1 DEF Awaited
    <3>3. e.id > ev.id /\ ev.boot <= e.boot
      BY <1>1, <3>1, <3>2 DEF InOrder
    <3> QED
      BY <1>2, <1>3, <2>1, <3>1, <3>3 DEF Awaited, Matches, InOrder
  <2> QED
    BY <2>2, <2>3 DEF Ahead
<1>5. ASSUME ~tailLost, Ahead(c), ~Matches(c, ev)
      PROVE  Ahead(c)'
  <2>1. UNCHANGED <<cursor[c], last[c], missed[c]>>
    BY <1>5 DEF Deliver, clientVars
  <2>2. CursorKept(c)'
    BY <1>1, <1>2, <1>3, <1>5, <2>1 DEF CursorKept, Ahead
  <2>3. ASSUME NEW e \in missed[c]
        PROVE  Awaited(c, e)'
    <3>1. Awaited(c, e) /\ e.id \in Nat
      BY <1>0, <1>5, <2>3, ClientFields DEF Ahead
    <3>2. e.id > conn[c].pos /\ InOrder(e, ev) /\ e # ev
      BY <1>1, <1>5, <3>1 DEF Awaited
    <3>3. e.id > ev.id
      BY <1>1, <3>1, <3>2 DEF InOrder
    <3> QED
      BY <1>2, <1>3, <2>1, <3>1, <3>3 DEF Awaited, Matches, InOrder
  <2> QED
    BY <2>1, <2>2, <2>3 DEF Ahead
<1> QED
  BY <1>3, <1>4, <1>5 DEF LossInv

(* A new stream starts at the cursor the client presents, or, without one, at    *)
(* the newest event with nothing to catch up on.                                 *)
LEMMA LossSubscribe ==
    ASSUME IInv, LossInv, NEW c \in Clients, NEW resume \in BOOLEAN, Subscribe(c, resume)
    PROVE  LossInv'
<1> DEFINE pos == IF resume /\ cursor[c] < lastPublishedID THEN cursor[c] ELSE lastPublishedID
           t == [Closed EXCEPT !.phase = "hello", !.open = TRUE, !.until = lastPublishedID,
                               !.pos = pos]
<1>0. TypeOK
  BY DEF IInv
<1>1. /\ conn' = [conn EXCEPT ![c] = t] /\ stage # "down"
      /\ UNCHANGED <<diskVars, stage, boot, seqVars, emitting, tailLost>>
      /\ resume => cursor[c] > 0 /\ UNCHANGED <<cursor, last, missed>>
      /\ ~resume => /\ cursor' = [cursor EXCEPT ![c] = 0]
                    /\ last' = [last EXCEPT ![c] = NoEvent]
                    /\ missed' = [missed EXCEPT ![c] = {}]
  BY DEF Subscribe, clientVars
<1>2. /\ t.phase = "hello" /\ t.pos = pos /\ t.until = lastPublishedID
      /\ t.page = {} /\ t.ch = << >>
  BY DEF Closed
<1> HIDE DEF t
<1>3. InFlight(t) = {}
  BY <1>2 DEF InFlight
<1>4. \A d \in Clients \ {c} : UNCHANGED <<cursor[d], last[d], missed[d]>>
  BY <1>0, <1>1 DEF TypeOK
<1>5. /\ Carried' \subseteq Carried /\ conn'[c] = t
      /\ (~tailLost => Ahead(c)') => LossInv'
  BY <1>0, <1>1, <1>3, <1>4, OneClient
<1>6. ASSUME ~tailLost, Ahead(c), ~resume
      PROVE  Ahead(c)'
  <2>1. cursor'[c] = 0 /\ last'[c] = NoEvent /\ missed'[c] = {} /\ lastPublishedID' \in Nat
    BY <1>0, <1>1, <1>6 DEF TypeOK, seqVars
  <2>2. conn'[c].pos = conn'[c].until
    BY <1>2, <1>5, <1>6
  <2> QED
    BY <2>1, <2>2 DEF Ahead, CursorKept
<1>7. ASSUME ~tailLost, Ahead(c), resume
      PROVE  Ahead(c)'
  <2>1. UNCHANGED <<cursor[c], last[c], missed[c], lastPublishedID>> /\ cursor[c] > 0
    BY <1>1, <1>7 DEF seqVars
  <2>2. /\ cursor[c] \in Nat /\ lastPublishedID \in Nat /\ cursor[c] <= lastPublishedID
        /\ conn'[c].pos = cursor[c]
    BY <1>0, <1>1, <1>2, <1>5, <1>7, ClientFields DEF Ahead, CursorKept
  <2>3. CursorKept(c)'
    BY <1>1, <1>7, <2>1, <2>2 DEF Ahead, CursorKept
  <2>4. ASSUME NEW e \in missed[c]
        PROVE  Awaited(c, e)'
    <3>1. Awaited(c, e)
      BY <1>7, <2>4 DEF Ahead
    <3> QED
      BY <1>1, <1>5, <2>1, <2>2, <3>1 DEF Awaited, Matches, InOrder
  <2> QED
    BY <2>1, <2>3, <2>4 DEF Ahead
<1> QED
  BY <1>5, <1>6, <1>7 DEF LossInv

(* The hello gives a client without a cursor the watermark, which is where its  *)
(* stream starts.                                                                *)
LEMMA LossHello ==
    ASSUME IInv, LossInv, NEW c \in Clients, Hello(c)
    PROVE  LossInv'
<1> DEFINE s == conn[c]
           phase == IF s.pos < s.until THEN "check" ELSE "tail"
           t == [s EXCEPT !.phase = phase]
<1>0. TypeOK /\ ConnsInv
  BY DEF IInv
<1>1. /\ conn' = [conn EXCEPT ![c] = t] /\ s.phase = "hello"
      /\ cursor' = [cursor EXCEPT ![c] = IF cursor[c] = 0 THEN s.until ELSE cursor[c]]
      /\ UNCHANGED <<diskVars, stage, boot, seqVars, emitting, last, missed, tailLost>>
  BY <1>0 DEF Hello, TypeOK
<1>2. /\ t.phase = phase /\ t.pos = s.pos /\ t.until = s.until /\ t.page = s.page /\ t.ch = s.ch
  BY <1>0, ConnFields DEF Conn
<1> HIDE DEF t
<1>3. InFlight(t) \subseteq Carried
  <2>1. InFlight(t) \subseteq InFlight(s)
    BY <1>1, <1>2 DEF InFlight
  <2> QED
    BY <1>0, <2>1, CarriedType
<1>4. \A d \in Clients \ {c} : UNCHANGED <<cursor[d], last[d], missed[d]>>
  BY <1>0, <1>1 DEF TypeOK
<1>5. /\ Carried' \subseteq Carried /\ conn'[c] = t
      /\ (~tailLost => Ahead(c)') => LossInv'
  BY <1>0, <1>1, <1>3, <1>4, OneClient
<1>6. ASSUME ~tailLost, Ahead(c)
      PROVE  Ahead(c)'
  <2>1. /\ UNCHANGED <<last[c], missed[c], lastPublishedID, stage, boot>>
        /\ cursor'[c] = IF cursor[c] = 0 THEN s.until ELSE cursor[c]
    BY <1>0, <1>1 DEF TypeOK, seqVars
  <2>2. /\ cursor[c] \in Nat /\ s.until \in Nat /\ lastPublishedID \in Nat
        /\ s.until <= lastPublishedID
        /\ cursor[c] = 0 => s.pos = s.until
    BY <1>0, <1>1, <1>6, ClientFields, InFlightPublished DEF Ahead, CursorKept
  <2>3. conn'[c].phase # "hello" /\ conn'[c].phase # "off" /\ conn'[c].pos = s.pos
    BY <1>2, <1>5
  <2>4. CursorKept(c)'
    BY <1>6, <2>1, <2>2, <2>3 DEF Ahead, CursorKept
  <2>5. ASSUME NEW e \in missed[c]
        PROVE  Awaited(c, e)'
    <3>1. Awaited(c, e) /\ e.id > s.pos /\ e.id > cursor[c]
      BY <1>1, <1>6, <2>5 DEF Ahead, Awaited
    <3>2. e.id > cursor'[c]
      BY <2>1, <2>2, <3>1
    <3> QED
      BY <1>1, <1>5, <2>1, <2>3, <3>1, <3>2 DEF Awaited, Matches, InOrder
  <2> QED
    BY <2>1, <2>4, <2>5 DEF Ahead
<1> QED
  BY <1>5, <1>6 DEF LossInv

(* The replay: its checks, its pages and its records. *)
LEMMA LossReplay ==
    ASSUME IInv, LossInv, NEW c \in Clients,
           ReplayCheck(c) \/ ReplayWait(c) \/ ReplayPage(c) \/ ReplayRecord(c)
    PROVE  LossInv'
<1> DEFINE s == conn[c]
<1>0. /\ TypeOK /\ s \in Conn /\ s.pos \in Nat /\ s.until \in Nat /\ s.page \in SUBSET Event
      /\ InFlight(s) \subseteq Carried
  BY ConnFields, CarriedType DEF IInv
<1>1. UNCHANGED <<diskVars, stage, boot, seqVars, emitting>>
  BY DEF ReplayCheck, ReplayWait, ReplayPage, ReplayRecord
<1>2. CASE Resync(c)
  BY <1>1, <1>2, LossResync
<1>3. ASSUME NEW phase \in {"wait", "page"}, s.phase \in {"check", "wait"}, Goto(c, phase)
      PROVE  LossInv'
  <2> DEFINE t == [s EXCEPT !.phase = phase]
  <2>1. /\ conn' = [conn EXCEPT ![c] = t]
        /\ UNCHANGED <<cursor, last, tailLost, missed>>
    BY <1>0, <1>3 DEF Goto, TypeOK, clientVars
  <2>2. t.phase = phase /\ t.pos = s.pos /\ t.until = s.until /\ t.page = s.page /\ t.ch = s.ch
    BY <1>0 DEF Conn
  <2> HIDE DEF t
  <2>3. InFlight(t) \subseteq Carried
    <3>1. InFlight(t) \subseteq InFlight(s)
      BY <1>3, <2>2 DEF InFlight
    <3> QED
      BY <1>0, <3>1
  <2>4. s.phase # "off" /\ t.phase \in {"check", "wait", "page"}
    BY <1>3, <2>2
  <2> HIDE DEF s
  <2> QED
    BY <1>1, <2>1, <2>2, <2>3, <2>4, LossMove DEF s
<1>4. CASE ReplayCheck(c)
  <2>1. s.phase = "check" /\ (Resync(c) \/ Goto(c, "wait"))
    BY <1>4 DEF ReplayCheck
  <2> QED
    BY <1>2, <1>3, <2>1
<1>5. CASE ReplayWait(c)
  <2>1. s.phase = "wait" /\ (Resync(c) \/ Goto(c, "page"))
    BY <1>5 DEF ReplayWait
  <2> QED
    BY <1>2, <1>3, <2>1
<1>6. CASE ReplayPage(c) /\ ~Resync(c)
  <2> DEFINE batch == ReplayRange(log, s.pos, s.until, PageSize)
             t == [s EXCEPT !.page = batch]
  <2>1. /\ s.phase = "page" /\ conn' = [conn EXCEPT ![c] = t]
        /\ UNCHANGED <<cursor, last, tailLost, missed>>
    BY <1>0, <1>6 DEF ReplayPage, TypeOK, clientVars
  <2>2. batch \subseteq log
    BY ReplayRangeInRange
  <2> HIDE DEF batch
  <2>3. t.phase = s.phase /\ t.pos = s.pos /\ t.until = s.until /\ t.page = batch /\ t.ch = s.ch
    BY <1>0 DEF Conn
  <2> HIDE DEF t
  <2>4. InFlight(t) \subseteq Carried
    <3>1. InFlight(t) \subseteq InFlight(s) \cup log
      BY <2>2, <2>3 DEF InFlight
    <3> QED
      BY <1>0, <3>1 DEF Carried
  <2>5. s.phase # "off" /\ t.phase \in {"check", "wait", "page"}
    BY <2>1, <2>3
  <2> HIDE DEF s
  <2> QED
    BY <1>1, <2>1, <2>3, <2>4, <2>5, LossMove DEF s
<1>7. CASE ReplayRecord(c) /\ ~Resync(c)
  <2>1. PICK ev \in s.page :
          /\ ev.id = s.pos + 1
          /\ Deliver(c, ev)
          /\ conn' = [conn EXCEPT ![c] = [s EXCEPT
                !.page = s.page \ {ev}, !.pos = ev.id,
                !.phase = IF ev.id >= s.until THEN "tail" ELSE "page"]]
    BY <1>7 DEF ReplayRecord
  <2> DEFINE phase == IF ev.id >= s.until THEN "tail" ELSE "page"
             t == [s EXCEPT !.page = s.page \ {ev}, !.pos = ev.id, !.phase = phase]
  <2>2. s.phase = "page" /\ conn' = [conn EXCEPT ![c] = t]
    BY <1>7, <2>1 DEF ReplayRecord
  <2>3. t.phase = phase /\ t.pos = ev.id /\ t.page = s.page \ {ev} /\ t.ch = s.ch
    BY <1>0 DEF Conn
  <2>4. phase \in {"page", "tail"}
    OBVIOUS
  <2> HIDE DEF t, phase
  <2>5. InFlight(t) \subseteq InFlight(s) /\ ev \in InFlight(s)
    BY <2>2, <2>3 DEF InFlight
  <2> HIDE DEF s
  <2> QED
    BY <1>1, <2>1, <2>2, <2>3, <2>4, <2>5, LossAdvance DEF s
<1> QED
  BY <1>2, <1>4, <1>5, <1>6, <1>7

(* The tail of a stream: its channel, and its end. *)
LEMMA LossTail ==
    ASSUME IInv, LossInv, NEW c \in Clients, Tailing(c) \/ TailClosed(c) \/ Drop(c)
    PROVE  LossInv'
<1> DEFINE s == conn[c]
<1>0. /\ TypeOK /\ ConnsInv /\ s \in Conn /\ s.pos \in Nat /\ s.ch \in Seq(Event)
  BY ConnFields DEF IInv
<1>1. UNCHANGED <<diskVars, stage, boot, seqVars, emitting>>
  BY DEF Tailing, TailClosed, Drop
<1>2. CASE Tailing(c)
  <2> DEFINE ev == Head(s.ch)
             t == [s EXCEPT !.ch = Tail(s.ch), !.pos = ev.id]
  <2>1. s.phase = "tail" /\ s.ch # << >> /\ Deliver(c, ev) /\ conn' = [conn EXCEPT ![c] = t]
    BY <1>2 DEF Tailing
  <2>2. /\ Len(s.ch) \in Nat \ {0} /\ ev = s.ch[1] /\ 1 \in 1..Len(s.ch)
        /\ \A i \in 1..Len(Tail(s.ch)) : Tail(s.ch)[i] = s.ch[i + 1] /\ i + 1 \in 1..Len(s.ch)
    BY <1>0, <2>1
  <2>3. ev.id = s.pos + 1
    BY <1>0, <2>1, <2>2 DEF ConnsInv, ConnInv, Base
  <2>4. t.phase = "tail" /\ t.pos = ev.id /\ t.ch = Tail(s.ch)
    BY <1>0, <2>1 DEF Conn
  <2> HIDE DEF t, ev
  <2>5. InFlight(t) \subseteq InFlight(s) /\ ev \in InFlight(s)
    BY <2>1, <2>2, <2>4 DEF InFlight
  <2>6. s.phase # "off" /\ t.phase \in {"page", "tail"}
    BY <2>1, <2>4
  <2> HIDE DEF s
  <2> QED
    BY <1>1, <2>1, <2>3, <2>4, <2>5, <2>6, LossAdvance DEF s
<1>3. CASE TailClosed(c) \/ Drop(c)
  <2>1. /\ conn' = [conn EXCEPT ![c] = Closed]
        /\ UNCHANGED <<cursor, last, tailLost>>
        /\ missed' = missed \/ missed' = [missed EXCEPT ![c] = {}]
    BY <1>3 DEF TailClosed, Drop, clientVars
  <2>2. InFlight(Closed) \subseteq Carried /\ Closed.phase = "off"
    BY DEF InFlight, Closed
  <2> QED
    BY <1>1, <2>1, <2>2, LossMove
<1> QED
  BY <1>2, <1>3

(* LossInv holds at the start: nobody has seen or missed anything. *)
LEMMA LossInit == Init => LossInv
<1> SUFFICES ASSUME Init PROVE LossInv
  OBVIOUS
<1>1. /\ log = {} /\ Queued = {} /\ conn = [c \in Clients |-> Closed]
      /\ cursor = [c \in Clients |-> 0] /\ last = [c \in Clients |-> NoEvent]
      /\ missed = [c \in Clients |-> {}] /\ emitting = NoEvent /\ lastPublishedID = 0
  BY DEF Init, Queued
<1>2. InFlight(Closed) = {} /\ Closed.phase = "off"
  BY DEF InFlight, Closed
<1>3. Carried = {}
  <2>1. \A c \in Clients : InFlight(conn[c]) = {}
    BY <1>1, <1>2
  <2>2. Carried = log \cup Queued \cup UNION {InFlight(conn[c]) : c \in Clients}
    BY DEF Carried, InFlight
  <2> QED
    BY <1>1, <2>1, <2>2
<1> QED
  BY <1>1, <1>2, <1>3 DEF LossInv, Ahead, CursorKept

(* Every step keeps it. *)
LEMMA LossStep ==
    ASSUME IInv, LossInv, [Next]_vars
    PROVE  LossInv'
<1>1. ASSUME NEW c \in Clients,
             (\E resume \in BOOLEAN : Subscribe(c, resume)) \/ Handler(c) \/ Drop(c)
      PROVE  LossInv'
  BY <1>1, LossSubscribe, LossHello, LossReplay, LossTail DEF Handler
<1>2. CASE ReadStatus \/ UNCHANGED vars
  <2>1. UNCHANGED <<log, stage, boot, persistCh, lastPublishedID, emitting, conn,
                    cursor, last, missed, tailLost>>
    BY <1>2 DEF ReadStatus, vars, diskVars, seqVars, clientVars
  <2>2. Carried' \subseteq Carried
    BY <2>1, CarriedSame DEF Queued
  <2> QED
    BY <2>1, <2>2, LossStutter
<1>3. CASE CloseBegin
  <2>1. /\ UNCHANGED <<log, boot, persistCh, lastPublishedID, emitting, conn,
                       cursor, last, missed, tailLost>>
        /\ stage = "up" /\ emitting = NoEvent
    BY <1>3 DEF CloseBegin, diskVars, seqVars, clientVars
  <2>2. Carried' \subseteq Carried
    BY <2>1, CarriedSame DEF Queued
  <2> QED
    BY <2>1, <2>2, LossStutter
<1>4. CASE CloseSubscribers
  <2>1. /\ UNCHANGED <<log, boot, persistCh, lastPublishedID, emitting,
                       cursor, last, missed, tailLost>>
        /\ stage = "draining"
        /\ conn' = [c \in Clients |-> [conn[c] EXCEPT !.open = FALSE]]
    BY <1>4 DEF CloseSubscribers, diskVars, seqVars, clientVars
  <2>2. emitting = NoEvent
    BY <2>1 DEF LossInv
  <2>3. ASSUME NEW c \in Clients
        PROVE  /\ conn'[c].phase = conn[c].phase /\ conn'[c].pos = conn[c].pos
               /\ conn'[c].until = conn[c].until /\ InFlight(conn'[c]) = InFlight(conn[c])
    <3>1. conn[c] \in Conn /\ conn'[c] = [conn[c] EXCEPT !.open = FALSE]
      BY <2>1, ConnFields DEF IInv
    <3>2. /\ conn'[c].phase = conn[c].phase /\ conn'[c].pos = conn[c].pos
          /\ conn'[c].until = conn[c].until
          /\ conn'[c].page = conn[c].page /\ conn'[c].ch = conn[c].ch
      BY <3>1 DEF Conn
    <3> QED
      BY <3>2 DEF InFlight
  <2>4. Carried' \subseteq Carried
    <3>1. Queued' = Queued
      BY <2>1 DEF Queued
    <3>2. /\ Carried' = log' \cup Queued' \cup UNION {InFlight(conn'[c]) : c \in Clients}
          /\ Carried = log \cup Queued \cup UNION {InFlight(conn[c]) : c \in Clients}
      BY DEF Carried, InFlight
    <3> QED
      BY <2>1, <2>3, <3>1, <3>2
  <2> QED
    BY <1>4, <2>1, <2>2, <2>3, <2>4, LossStutter
<1> QED
  BY <1>1, <1>2, <1>3, <1>4, LossAssign, LossPublish, LossEnqueue, LossPersister, LossPrune,
     LossStop, LossStart
  DEF Next, Emit

(* Across connections, restarts and any number of clients: unless a restart found *)
(* the log short of an event somebody had seen or was waiting for, a client that   *)
(* presents its Last-Event-ID has, at every event it receives, received all the    *)
(* earlier ones its filter wants or been told to resync (sse.go, handleStream).     *)
THEOREM NothingLostInSilence == Spec => []NoSilentLoss
<1>1. Init => LossInv
  BY LossInit
<1>2. IInv /\ LossInv /\ [Next]_vars => LossInv'
  BY LossStep
<1>3. IInv /\ LossInv => NoSilentLoss
  <2> SUFFICES ASSUME TypeOK, LossInv, ~tailLost, NEW c \in Clients, last[c] # NoEvent,
                      NEW e \in missed[c]
               PROVE  ~Before(e, last[c])
    BY DEF IInv, NoSilentLoss, NothingLost
  <2>1. CursorKept(c) /\ Awaited(c, e)
    BY DEF LossInv, Ahead
  <2>2. /\ e.id > last[c].id /\ last[c].boot <= e.boot
        /\ e.id \in Nat /\ e.boot \in Nat /\ last[c].id \in Nat /\ last[c].boot \in Nat
    BY <2>1, ClientFields DEF CursorKept, Awaited
  <2> QED
    BY <2>2 DEF Before
<1> QED
  BY <1>1, <1>2, <1>3, Invariance, PTL DEF Spec

=============================================================================
