------------------------ MODULE RuntimeServiceProofs ------------------------
(***************************************************************************)
(* Theorems about RuntimeService, for any sources, files, capacities and   *)
(* bounds: its types and the four safety properties of the ingest service. *)
(***************************************************************************)
EXTENDS RuntimeService, TLAPS

-----------------------------------------------------------------------------
(* The inductive invariant *)

(* The semaphore is taken while a goroutine ingests, and by one of them only:  *)
(* so what it read is no older than the store, and no newer than the disk.     *)
IngestInv ==
    /\ \A f \in Files : store[f] <= disk[f]
    /\ \A g \in Goroutines : ingest[g] # None =>
          /\ ingestSem
          /\ \A h \in Goroutines : ingest[h] # None => h = g
          /\ \A f \in Files : store[f] <= ingest[g].read[f] /\ ingest[g].read[f] <= disk[f]

StoppedInPipe ==
    handed \/ stopTimedOut \/ \E i \in 1..Len(emitCh) : emitCh[i] = "stopped"

(* From the blocking emit on, "stopped" is in the channel or was taken from    *)
(* it, and the flusher is done only when the channel is empty.                 *)
StopInv ==
    /\ FlusherCancelled => StoppedInPipe
    /\ flusher # "running" => FlusherCancelled
    /\ flusher = "done" => handed \/ stopTimedOut
    /\ pc \in {"joinWorker", "returned"} => flusher = "done"

SignalPending == reconcileCh \/ notifying > 0

(* The select loop has a registered callback, so a config newer than the roots *)
(* it watches, or is about to watch, has left a signal.                        *)
WatchInv ==
    /\ pc \in {"select", "enqueue", "flush"} =>
          registered /\ (~lostChange => watching = config \/ SignalPending)
    /\ pc = "rebuild" => registered /\ (~lostChange => building = config \/ SignalPending)

IInv == TypeOK /\ IngestInv /\ StopInv /\ WatchInv

-----------------------------------------------------------------------------
(* Types *)

(* The initial values have their types. *)
LEMMA InitType == Init => TypeOK
<1> SUFFICES ASSUME Init PROVE TypeOK
  OBVIOUS
<1>1. emitCh \in Seq({"event", "stopped"}) /\ Len(emitCh) <= EmitCap
  BY ConstantsAssumption DEF Init
<1>2. ingestCh \in Seq(Job) /\ Len(ingestCh) <= QueueCap
  BY ConstantsAssumption DEF Init
<1>3. disk \in [Files -> Nat] /\ store \in [Files -> Nat]
  BY DEF Init
<1>4. ingest \in [Goroutines -> Ingest \cup {None}]
  BY DEF Init
<1> QED
  BY <1>1, <1>2, <1>3, <1>4 DEF Init, TypeOK, LoopStates

(* Sending to a channel that has room keeps its type and its capacity. *)
LEMMA AppendBounded ==
    ASSUME NEW S, NEW q \in Seq(S), NEW x \in S, NEW cap \in Nat, Len(q) < cap
    PROVE  Append(q, x) \in Seq(S) /\ Len(Append(q, x)) <= cap
OBVIOUS

(* Taking the head of a bounded sequence leaves a bounded sequence. *)
LEMMA TailBounded ==
    ASSUME NEW S, NEW q \in Seq(S), NEW cap \in Nat, Len(q) <= cap, q # << >>
    PROVE  Head(q) \in S /\ Tail(q) \in Seq(S) /\ Len(Tail(q)) <= cap
OBVIOUS

(* The channels *)

(* A non-blocking emit keeps the channel within its capacity. *)
LEMMA EmitType ==
    ASSUME TypeOK, Emit
    PROVE  emitCh' \in Seq({"event", "stopped"}) /\ Len(emitCh') <= EmitCap
BY AppendBounded, ConstantsAssumption DEF TypeOK, Emit

(* A flush keeps the types, whether it queues a job or leaves the files dirty. *)
LEMMA FlushType ==
    ASSUME TypeOK, FlushPending
    PROVE  /\ ingestCh' \in Seq(Job) /\ Len(ingestCh') <= QueueCap
           /\ pendingFiles' \subseteq Files /\ dirtyFiles' \subseteq Files
<1> DEFINE files == pendingFiles \cup dirtyFiles
<1>1. FileJob(files) \in Job
  BY DEF TypeOK, FileJob, Job
<1> QED
  BY <1>1, AppendBounded, ConstantsAssumption DEF TypeOK, FlushPending

-----------------------------------------------------------------------------
(* An ingest *)

(* What a pass reads has its type, *)
LEMMA ReadType ==
    ASSUME TypeOK, NEW g \in Goroutines, NEW files \in SUBSET Files, NEW sources \in SUBSET Sources,
           NEW failed \in BOOLEAN, Read(g, files, sources, failed)
    PROVE  ingest' \in [Goroutines -> Ingest \cup {None}]
<1>1. [files |-> files, read |-> disk, sources |-> sources, failed |-> failed] \in Ingest
  BY DEF TypeOK, Ingest
<1> QED
  BY <1>1 DEF TypeOK, Read

(* so its beginning keeps the types, *)
LEMMA BeginType ==
    ASSUME TypeOK, NEW g \in Goroutines, NEW files \in SUBSET Files, NEW sources \in SUBSET Sources,
           Begin(g, files, sources)
    PROVE  /\ ingest' \in [Goroutines -> Ingest \cup {None}] /\ ingestSem' \in BOOLEAN
           /\ store' \in [Files -> Nat]
<1>1. ingest' \in [Goroutines -> Ingest \cup {None}]
  BY ReadType DEF Begin
<1> QED
  BY <1>1 DEF TypeOK, Begin, AcquireIngest

(* and so does its end, which saves all or some of it *)
LEMMA FinishType ==
    ASSUME TypeOK, NEW g \in Goroutines, ingest[g] # None, NEW ok \in BOOLEAN, Finish(g, ok)
    PROVE  /\ store' \in [Files -> Nat]
           /\ emitCh' \in Seq({"event", "stopped"}) /\ Len(emitCh') <= EmitCap
           /\ UNCHANGED <<flusher, handed, stopTimedOut>>
<1>1. ingest[g] \in Ingest
  BY DEF TypeOK
<1>2. ASSUME NEW files, Save(g, files)
      PROVE  store' \in [Files -> Nat]
  BY <1>1, <1>2 DEF TypeOK, Save, Ingest
<1>3. store' \in [Files -> Nat]
  BY <1>2 DEF Finish
<1>4. Emit \/ UNCHANGED emitVars
  BY DEF Finish
<1> QED
  BY <1>3, <1>4, EmitType DEF TypeOK, Emit, emitVars

(* and gives the semaphore back. *)
LEMMA ReleaseType ==
    ASSUME TypeOK, NEW g \in Goroutines, Release(g)
    PROVE  ingest' \in [Goroutines -> Ingest \cup {None}] /\ ingestSem' \in BOOLEAN
BY DEF TypeOK, Release

-----------------------------------------------------------------------------
(* Each group of actions keeps the types. *)

(* Every step of Run outside its select keeps the types, *)
LEMMA RunStepType == TypeOK /\ RunStep => TypeOK'
<1> SUFFICES ASSUME TypeOK, RunStep PROVE TypeOK'
  OBVIOUS
<1> USE DEF envVars, confVars, fileVars, loopVars, workVars, trigVars, ingVars, emitVars
<1>1. ASSUME NEW s \in Sources, StartupBegin(s) PROVE TypeOK'
  <2>1. FilesOf(s) \in SUBSET Files /\ {} \in SUBSET Sources /\ "run" \in Goroutines
    BY DEF FilesOf, Goroutines
  <2>2. /\ ingest' \in [Goroutines -> Ingest \cup {None}] /\ ingestSem' \in BOOLEAN
        /\ store' \in [Files -> Nat]
    <3>1. Begin("run", FilesOf(s), {})
      BY <1>1 DEF StartupBegin
    <3> QED
      BY <2>1, <3>1, BeginType
  <2> QED
    BY <1>1, <2>2 DEF TypeOK, StartupBegin
<1>2. ASSUME NEW s \in Sources, StartupAbandon(s) PROVE TypeOK'
  BY <1>2 DEF TypeOK, StartupAbandon
<1>3. ASSUME NEW s \in Sources, Enqueue(s) PROVE TypeOK'
  <2>1. FullJob({s}) \in Job
    BY DEF FullJob, Job
  <2>2. ingestCh' \in Seq(Job) /\ Len(ingestCh') <= QueueCap
    BY <1>3, <2>1, AppendBounded, ConstantsAssumption DEF TypeOK, Enqueue
  <2> QED
    BY <1>3, <2>2 DEF TypeOK, Enqueue, LoopStates
<1>4. ASSUME StartupEnd PROVE TypeOK'
  <2>1. PICK ok \in BOOLEAN : Finish("run", ok) /\ startupOK' = (startupOK \/ ok)
    BY <1>4 DEF StartupEnd
  <2>2. "run" \in Goroutines
    BY DEF Goroutines
  <2>3. startupOK' \in BOOLEAN
    BY <2>1 DEF TypeOK
  <2> QED
    BY <1>4, <2>1, <2>2, <2>3, FinishType, ReleaseType DEF TypeOK, StartupEnd
<1>5. ASSUME StartupDone PROVE TypeOK'
  BY <1>5 DEF TypeOK, StartupDone, LoopStates
<1>6. ASSUME Register PROVE TypeOK'
  BY <1>6 DEF TypeOK, Register, LoopStates
<1>7. ASSUME Rebuild PROVE TypeOK'
  <2>1. fsEvents' \subseteq Files /\ watching' \in Nat /\ lostChange' \in BOOLEAN
    BY <1>7 DEF TypeOK, Rebuild
  <2>2. pc' \in LoopStates /\ todo' \subseteq Sources /\ resuming' \in BOOLEAN
    BY <1>7 DEF TypeOK, Rebuild, EnqueueAll, LoopStates
  <2> QED
    BY <1>7, <2>1, <2>2 DEF TypeOK, Rebuild
<1>8. ASSUME ResumeFlush PROVE TypeOK'
  <2>1. pc' \in LoopStates /\ resuming' \in BOOLEAN /\ timer' \in BOOLEAN
    BY <1>8 DEF ResumeFlush, LoopStates
  <2>2. /\ ingestCh' \in Seq(Job) /\ Len(ingestCh') <= QueueCap
        /\ pendingFiles' \subseteq Files /\ dirtyFiles' \subseteq Files
    BY <1>8, FlushType DEF ResumeFlush
  <2> QED
    BY <1>8, <2>1, <2>2 DEF TypeOK, ResumeFlush
<1>9. ASSUME Stop PROVE TypeOK'
  BY <1>9 DEF TypeOK, Stop, LoopStates
<1>10. ASSUME EmitStopped PROVE TypeOK'
  <2>1. emitCh' \in Seq({"event", "stopped"}) /\ Len(emitCh') <= EmitCap
    BY <1>10, AppendBounded, ConstantsAssumption, ZenonT(60) DEF TypeOK, EmitStopped
  <2>2. pc' \in LoopStates /\ stopTimedOut' \in BOOLEAN
    BY <1>10 DEF TypeOK, EmitStopped, LoopStates
  <2> QED
    BY <1>10, <2>1, <2>2 DEF TypeOK, EmitStopped
<1>11. ASSUME JoinFlusher PROVE TypeOK'
  BY <1>11 DEF TypeOK, JoinFlusher, LoopStates
<1>12. ASSUME JoinWorker PROVE TypeOK'
  BY <1>12 DEF TypeOK, JoinWorker, LoopStates
<1> QED
  BY <1>1, <1>2, <1>3, <1>4, <1>5, <1>6, <1>7, <1>8, <1>9, <1>10, <1>11, <1>12 DEF RunStep

(* and every case of the select. *)
LEMMA SelectCaseType == TypeOK /\ SelectCase => TypeOK'
<1> SUFFICES ASSUME TypeOK, SelectCase PROVE TypeOK'
  OBVIOUS
<1> USE DEF envVars, confVars, fileVars, loopVars, workVars, trigVars, ingVars, emitVars
<1>1. ASSUME SelectDone PROVE TypeOK'
  BY <1>1 DEF TypeOK, SelectDone, LoopStates
<1>2. ASSUME SelectReconcile PROVE TypeOK'
  <2>1. pc' \in LoopStates /\ reconcileCh' \in BOOLEAN /\ building' \in Nat
    BY <1>2 DEF TypeOK, SelectReconcile, LoopStates
  <2> QED
    BY <1>2, <2>1 DEF TypeOK, SelectReconcile
<1>3. ASSUME HandlePause PROVE TypeOK'
  BY <1>3, EmitType DEF TypeOK, HandlePause, Emit
<1>4. ASSUME HandleResume PROVE TypeOK'
  BY <1>4, EmitType DEF TypeOK, HandleResume, LoopStates, Emit, EnqueueAll
<1>5. ASSUME DebounceFire PROVE TypeOK'
  <2>1. CASE state = "paused"
    <3>1. timer' \in BOOLEAN /\ UNCHANGED <<pendingFiles, dirtyFiles, ingestCh>>
      BY <1>5, <2>1 DEF DebounceFire
    <3> QED
      BY <1>5, <3>1 DEF TypeOK, DebounceFire
  <2>2. CASE state # "paused"
    BY <1>5, <2>2, FlushType DEF TypeOK, DebounceFire
  <2> QED
    BY <2>1, <2>2
<1>6. ASSUME Tick PROVE TypeOK'
  <2>1. pc' \in LoopStates /\ todo' \subseteq Sources /\ resuming' \in BOOLEAN
    BY <1>6 DEF Tick, EnqueueAll, LoopStates
  <2> QED
    BY <1>6, <2>1 DEF TypeOK, Tick
<1>7. ASSUME NEW f \in Files, WatchEvent(f) PROVE TypeOK'
  <2>1. emitCh' \in Seq({"event", "stopped"}) /\ Len(emitCh') <= EmitCap
        /\ UNCHANGED <<flusher, handed, stopTimedOut>>
    BY <1>7, EmitType DEF TypeOK, WatchEvent, Emit
  <2>2. pendingFiles' \subseteq Files /\ dirtyFiles' \subseteq Files /\ timer' \in BOOLEAN
    <3>1. CASE state = "paused"
      BY <1>7, <3>1 DEF TypeOK, WatchEvent
    <3>2. CASE state # "paused"
      BY <1>7, <3>2 DEF TypeOK, WatchEvent
    <3> QED
      BY <3>1, <3>2
  <2> QED
    BY <1>7, <2>1, <2>2 DEF TypeOK, WatchEvent
<1> QED
  BY <1>1, <1>2, <1>3, <1>4, <1>5, <1>6, <1>7, SMTT(30) DEF SelectCase

(* Handing an emission over keeps the channel within its capacity. *)
LEMMA HandOverType ==
    ASSUME TypeOK, HandOver
    PROVE  /\ emitCh' \in Seq({"event", "stopped"}) /\ Len(emitCh') <= EmitCap
           /\ handed' \in BOOLEAN
BY TailBounded, ConstantsAssumption DEF TypeOK, HandOver

(* The flusher keeps the types. *)
LEMMA FlusherType == TypeOK /\ Flusher => TypeOK'
<1> SUFFICES ASSUME TypeOK, Flusher PROVE TypeOK'
  OBVIOUS
<1>1. emitCh' \in Seq({"event", "stopped"}) /\ Len(emitCh') <= EmitCap /\ handed' \in BOOLEAN
  BY HandOverType DEF TypeOK, Flusher
<1>2. flusher' \in {"running", "draining", "done"}
  BY DEF TypeOK, Flusher
<1> QED
  BY <1>1, <1>2 DEF TypeOK, Flusher, envVars, confVars, fileVars, loopVars, workVars, trigVars, ingVars

(* A job without some of its files and sources is a job, or none is left. *)
LEMMA JobType ==
    ASSUME TypeOK, job # None
    PROVE  /\ \A f, s : Without(f, s) \in Job /\ Left(Without(f, s)) \in Job \cup {None}
           /\ job.files \in SUBSET Files /\ job.sources \in SUBSET Sources
           /\ Left(job) \in Job \cup {None}
<1>1. job \in Job
  BY DEF TypeOK
<1> QED
  BY <1>1 DEF Without, Left, Job

(* The worker keeps the types, *)
LEMMA WorkerStepType == TypeOK /\ WorkerStep => TypeOK'
<1> SUFFICES ASSUME TypeOK, WorkerStep PROVE TypeOK'
  OBVIOUS
<1> USE DEF envVars, confVars, fileVars, loopVars, workVars, trigVars, ingVars, emitVars
<1>1. ASSUME WorkerTake PROVE TypeOK'
  <2>1. job' \in Job /\ ingestCh' \in Seq(Job) /\ Len(ingestCh') <= QueueCap
    BY <1>1, TailBounded, ConstantsAssumption DEF TypeOK, WorkerTake
  <2> QED
    BY <1>1, <2>1 DEF TypeOK, WorkerTake
<1>2. ASSUME WorkerBegin PROVE TypeOK'
  <2>1. "worker" \in Goroutines /\ \A s : FilesOf(s) \in SUBSET Files
    BY DEF Goroutines, FilesOf
  <2>2. job' \in Job
    BY <1>2, JobType DEF WorkerBegin, WorkerFull, WorkerFile
  <2>3. PICK files \in SUBSET Files, sources \in SUBSET Sources : Begin("worker", files, sources)
    BY <1>2, <2>1 DEF WorkerBegin, WorkerFull, WorkerFile
  <2>4. /\ ingest' \in [Goroutines -> Ingest \cup {None}] /\ ingestSem' \in BOOLEAN
        /\ store' \in [Files -> Nat]
    BY <2>1, <2>3, BeginType
  <2> QED
    BY <1>2, <2>2, <2>4 DEF TypeOK, WorkerBegin
<1>3. ASSUME WorkerSkipUnclaimed PROVE TypeOK'
  BY <1>3, JobType DEF TypeOK, WorkerSkipUnclaimed
<1>4. ASSUME WorkerAbort PROVE TypeOK'
  BY <1>4 DEF TypeOK, WorkerAbort
<1>5. ASSUME WorkerExit PROVE TypeOK'
  BY <1>5 DEF TypeOK, WorkerExit
<1>6. ASSUME NEW ok \in BOOLEAN, WorkerEnd(ok) PROVE TypeOK'
  <2>1. "worker" \in Goroutines /\ \A s : FilesOf(s) \in SUBSET Files
    BY DEF Goroutines, FilesOf
  <2>2. ingest["worker"] \in Ingest
    BY <1>6, <2>1 DEF TypeOK, WorkerEnd
  <2>3. /\ store' \in [Files -> Nat]
        /\ emitCh' \in Seq({"event", "stopped"}) /\ Len(emitCh') <= EmitCap
        /\ UNCHANGED <<flusher, handed, stopTimedOut>>
    BY <1>6, <2>1, FinishType DEF WorkerEnd
  <2>4. CASE ingest["worker"].sources # {}
    <3>1. PICK s \in ingest["worker"].sources :
             /\ Read("worker", FilesOf(s), ingest["worker"].sources \ {s},
                     ingest["worker"].failed \/ ~ok)
             /\ UNCHANGED ingestSem
      BY <1>6, <2>4 DEF WorkerEnd, GoOn
    <3>2. ingest["worker"].sources \ {s} \in SUBSET Sources
          /\ (ingest["worker"].failed \/ ~ok) \in BOOLEAN
      BY <2>2 DEF Ingest
    <3>3. ingest' \in [Goroutines -> Ingest \cup {None}]
      BY <2>1, <3>1, <3>2, ReadType
    <3> QED
      BY <1>6, <2>3, <2>4, <3>1, <3>3 DEF TypeOK, WorkerEnd
  <2>5. CASE ingest["worker"].sources = {}
    <3>1. job' \in Job \cup {None}
      BY <1>6, <2>5, JobType DEF WorkerEnd, TypeOK, Left
    <3> QED
      BY <1>6, <2>1, <2>3, <2>5, <3>1, ReleaseType DEF TypeOK, WorkerEnd
  <2> QED
    BY <2>4, <2>5
<1> QED
  BY <1>1, <1>2, <1>3, <1>4, <1>5, <1>6 DEF WorkerStep

(* and so do TriggerIngest and RunOnce, *)
LEMMA TriggerStepType == TypeOK /\ TriggerStep => TypeOK'
<1> SUFFICES ASSUME TypeOK, TriggerStep PROVE TypeOK'
  OBVIOUS
<1> USE DEF envVars, confVars, fileVars, loopVars, workVars, trigVars, ingVars, emitVars
<1>1. ASSUME TriggerCheck PROVE TypeOK'
  BY <1>1 DEF TypeOK, TriggerCheck
<1>2. ASSUME TriggerSend PROVE TypeOK'
  <2>1. FullJob(Sources) \in Job /\ \A f \in Files : FileJob({f}) \in Job
    BY DEF FullJob, FileJob, Job
  <2>2. ingestCh' \in Seq(Job) /\ Len(ingestCh') <= QueueCap
    <3>1. PICK j \in Job : ingestCh' = Append(ingestCh, j)
      BY <1>2, <2>1 DEF TriggerSend
    <3>2. Len(ingestCh) < QueueCap /\ ingestCh \in Seq(Job)
      BY <1>2 DEF TypeOK, TriggerSend
    <3> QED
      BY <3>1, <3>2, AppendBounded, ConstantsAssumption
  <2>3. triggers' \in Nat
    BY <1>2 DEF TypeOK, TriggerSend
  <2> QED
    BY <1>2, <2>2, <2>3 DEF TypeOK, TriggerSend
<1>3. ASSUME TriggerGiveUp PROVE TypeOK'
  BY <1>3 DEF TypeOK, TriggerGiveUp
<1>4. ASSUME OnceStart PROVE TypeOK'
  BY <1>4 DEF TypeOK, OnceStart
<1>5. ASSUME OnceEnd PROVE TypeOK'
  <2>1. "once" \in Goroutines
    BY DEF Goroutines
  <2> QED
    BY <1>5, <2>1, FinishType, ReleaseType DEF TypeOK, OnceEnd
<1>6. ASSUME NEW s \in Sources, OnceBegin(s) PROVE TypeOK'
  <2>1. FilesOf(s) \in SUBSET Files /\ {} \in SUBSET Sources /\ "once" \in Goroutines
    BY DEF FilesOf, Goroutines
  <2>2. /\ ingest' \in [Goroutines -> Ingest \cup {None}] /\ ingestSem' \in BOOLEAN
        /\ store' \in [Files -> Nat]
    <3>1. Begin("once", FilesOf(s), {})
      BY <1>6 DEF OnceBegin
    <3> QED
      BY <2>1, <3>1, BeginType
  <2> QED
    BY <1>6, <2>2 DEF TypeOK, OnceBegin
<1>7. ASSUME NEW s \in Sources, OnceGiveUp(s) PROVE TypeOK'
  BY <1>7, SMTT(30) DEF TypeOK, OnceGiveUp
<1> QED
  BY <1>1, <1>2, <1>3, <1>4, <1>5, <1>6, <1>7, SMTT(30) DEF TriggerStep

(* and everybody outside the daemon. *)
LEMMA OutsideType == TypeOK /\ Outside => TypeOK'
<1> SUFFICES ASSUME TypeOK, Outside PROVE TypeOK'
  OBVIOUS
<1> USE DEF envVars, confVars, fileVars, loopVars, workVars, trigVars, ingVars, emitVars
<1>1. ASSUME NEW f \in Files, Write(f) PROVE TypeOK'
  <2>1. disk' \in [Files -> Nat] /\ fsEvents' \subseteq Files
    BY <1>1 DEF TypeOK, Write
  <2> QED
    BY <1>1, <2>1 DEF TypeOK, Write
<1>2. ASSUME ReloadStore PROVE TypeOK'
  BY <1>2 DEF TypeOK, ReloadStore
<1>3. ASSUME ReloadNotify PROVE TypeOK'
  BY <1>3 DEF TypeOK, ReloadNotify
<1>4. ASSUME Cancel PROVE TypeOK'
  BY <1>4 DEF TypeOK, Cancel
<1> QED
  BY <1>1, <1>2, <1>3, <1>4 DEF Outside

(* Every step keeps the types. *)
LEMMA NextType == TypeOK /\ [Next]_vars => TypeOK'
<1>1. TypeOK /\ UNCHANGED vars => TypeOK'
  BY DEF TypeOK, vars, envVars, confVars, fileVars, loopVars, workVars, trigVars, ingVars, emitVars
<1> QED
  BY <1>1, RunStepType, SelectCaseType, FlusherType, WorkerStepType, TriggerStepType, OutsideType
  DEF Next

-----------------------------------------------------------------------------
(* The semaphore and the store *)

(* Taking the semaphore: nobody else ingests, and what is read is on disk. *)
LEMMA BeginKeepsIngest ==
    ASSUME TypeOK, IngestInv, NEW g \in Goroutines, NEW files, NEW sources,
           Begin(g, files, sources), UNCHANGED disk
    PROVE  IngestInv'
<1>1. \A h \in Goroutines : ingest[h] = None
  BY DEF IngestInv, Begin, AcquireIngest
<1>2. /\ \A h \in Goroutines \ {g} : ingest'[h] = None
      /\ ingest'[g].read = disk
  BY <1>1 DEF TypeOK, Begin, Read
<1>3. \A f \in Files : disk[f] \in Nat
  BY DEF TypeOK
<1> QED
  BY <1>2, <1>3 DEF IngestInv, Begin, AcquireIngest

(* Saving takes no file back, and not past the disk. *)
LEMMA FinishSaves ==
    ASSUME TypeOK, IngestInv, NEW g \in Goroutines, ingest[g] # None,
           NEW ok \in BOOLEAN, Finish(g, ok)
    PROVE  \A f \in Files : store'[f] >= store[f] /\ store'[f] <= disk[f]
<1>1. ingest[g] \in Ingest
  BY DEF TypeOK
<1>2. PICK files : Save(g, files)
  BY DEF Finish
<1> SUFFICES ASSUME NEW f \in Files PROVE store'[f] >= store[f] /\ store'[f] <= disk[f]
  OBVIOUS
<1>3. store[f] \in Nat /\ disk[f] \in Nat /\ ingest[g].read[f] \in Nat
  BY <1>1 DEF TypeOK, Ingest
<1>4. store[f] <= disk[f] /\ store[f] <= ingest[g].read[f] /\ ingest[g].read[f] <= disk[f]
  BY DEF IngestInv
<1>5. store'[f] = ingest[g].read[f] \/ store'[f] = store[f]
  BY <1>2 DEF Save
<1> QED
  BY <1>3, <1>4, <1>5

(* The pass ends, and its goroutine was the only one that ingested. *)
LEMMA EndKeepsIngest ==
    ASSUME TypeOK, IngestInv, NEW g \in Goroutines, ingest[g] # None,
           NEW ok \in BOOLEAN, Finish(g, ok), Release(g), UNCHANGED disk
    PROVE  IngestInv'
<1>1. \A h \in Goroutines : ingest'[h] = None
  BY DEF TypeOK, IngestInv, Release
<1>2. \A f \in Files : store'[f] <= disk'[f]
  BY FinishSaves
<1> QED
  BY <1>1, <1>2 DEF IngestInv

(* Or it goes on with the next source, which is read anew. *)
LEMMA GoOnKeepsIngest ==
    ASSUME TypeOK, IngestInv, NEW g \in Goroutines, ingest[g] # None,
           NEW ok \in BOOLEAN, Finish(g, ok), GoOn(g, ok), UNCHANGED disk
    PROVE  IngestInv'
<1>1. \A f \in Files : store'[f] <= disk'[f]
  BY FinishSaves
<1>2. ingest'[g].read = disk /\ \A h \in Goroutines \ {g} : ingest'[h] = None
  BY DEF TypeOK, IngestInv, GoOn, Read
<1>3. ingestSem'
  BY DEF IngestInv, GoOn
<1>4. \A f \in Files : disk[f] \in Nat
  BY DEF TypeOK
<1> QED
  BY <1>1, <1>2, <1>3, <1>4 DEF IngestInv

(* What a step does to the store, the semaphore and the ingests under way. *)
IngestFrame == UNCHANGED <<disk, ingest, ingestSem, store>>

BeginStep(g) == UNCHANGED disk /\ \E files, sources : Begin(g, files, sources)

EndStep(g) ==
    /\ UNCHANGED disk /\ ingest[g] # None
    /\ \E ok \in BOOLEAN : Finish(g, ok) /\ (Release(g) \/ GoOn(g, ok))

WriteStep == UNCHANGED ingVars /\ \E f \in Files : disk' = [disk EXCEPT ![f] = @ + 1]

(* A step reads or saves files under the semaphore, or touches none of that. *)
LEMMA IngestSteps ==
    ASSUME [Next]_vars
    PROVE  IngestFrame \/ WriteStep \/ \E g \in Goroutines : BeginStep(g) \/ EndStep(g)
<1> USE DEF envVars, ingVars
<1>1. CASE RunStep
  <2>1. ASSUME NEW s \in Sources, StartupBegin(s) PROVE BeginStep("run")
    BY <2>1 DEF StartupBegin, BeginStep
  <2>2. ASSUME StartupEnd PROVE EndStep("run")
    BY <2>2 DEF StartupEnd, EndStep
  <2>3. ASSUME NEW s \in Sources, StartupAbandon(s) \/ Enqueue(s) PROVE IngestFrame
    BY <2>3 DEF StartupAbandon, Enqueue, IngestFrame
  <2>4. ASSUME StartupDone \/ Register \/ Rebuild \/ ResumeFlush PROVE IngestFrame
    BY <2>4 DEF StartupDone, Register, Rebuild, ResumeFlush, IngestFrame
  <2>5. ASSUME Stop \/ EmitStopped \/ JoinFlusher \/ JoinWorker PROVE IngestFrame
    BY <2>5 DEF Stop, EmitStopped, JoinFlusher, JoinWorker, IngestFrame
  <2> QED
    BY <1>1, <2>1, <2>2, <2>3, <2>4, <2>5 DEF RunStep, Goroutines
<1>2. CASE SelectCase
  BY <1>2 DEF SelectCase, SelectDone, SelectReconcile, HandlePause, HandleResume, DebounceFire, Tick,
     WatchEvent, IngestFrame
<1>3. CASE Flusher
  BY <1>3 DEF Flusher, IngestFrame
<1>4. CASE WorkerStep
  <2>1. ASSUME WorkerBegin PROVE BeginStep("worker")
    BY <2>1 DEF WorkerBegin, WorkerFull, WorkerFile, BeginStep
  <2>2. ASSUME NEW ok \in BOOLEAN, WorkerEnd(ok) PROVE EndStep("worker")
    BY <2>2 DEF WorkerEnd, EndStep
  <2>3. ASSUME WorkerTake \/ WorkerSkipUnclaimed \/ WorkerAbort \/ WorkerExit PROVE IngestFrame
    BY <2>3 DEF WorkerTake, WorkerSkipUnclaimed, WorkerAbort, WorkerExit, IngestFrame
  <2> QED
    BY <1>4, <2>1, <2>2, <2>3 DEF WorkerStep, Goroutines
<1>5. CASE TriggerStep
  <2>1. ASSUME NEW s \in Sources, OnceBegin(s) PROVE BeginStep("once")
    BY <2>1 DEF OnceBegin, BeginStep
  <2>2. ASSUME OnceEnd PROVE EndStep("once")
    BY <2>2 DEF OnceEnd, EndStep
  <2>3. ASSUME TriggerCheck \/ TriggerSend \/ TriggerGiveUp \/ OnceStart PROVE IngestFrame
    BY <2>3 DEF TriggerCheck, TriggerSend, TriggerGiveUp, OnceStart, IngestFrame
  <2>4. ASSUME NEW s \in Sources, OnceGiveUp(s) PROVE IngestFrame
    BY <2>4 DEF OnceGiveUp, IngestFrame
  <2> QED
    BY <1>5, <2>1, <2>2, <2>3, <2>4 DEF TriggerStep, Goroutines
<1>6. CASE Outside
  <2>1. ASSUME NEW f \in Files, Write(f) PROVE WriteStep
    BY <2>1 DEF Write, WriteStep
  <2>2. ASSUME ReloadStore \/ ReloadNotify \/ Cancel PROVE IngestFrame
    BY <2>2 DEF ReloadStore, ReloadNotify, Cancel, IngestFrame
  <2> QED
    BY <1>6, <2>1, <2>2 DEF Outside
<1>7. CASE UNCHANGED vars
  BY <1>7 DEF vars, IngestFrame
<1> QED
  BY <1>1, <1>2, <1>3, <1>4, <1>5, <1>6, <1>7 DEF Next

(* Every step keeps the semaphore with one owner, and what it read between store and disk. *)
LEMMA IngestStep == TypeOK /\ IngestInv /\ [Next]_vars => IngestInv'
<1> SUFFICES ASSUME TypeOK, IngestInv, [Next]_vars PROVE IngestInv'
  OBVIOUS
<1>1. CASE IngestFrame
  BY <1>1 DEF IngestFrame, IngestInv
<1>2. CASE WriteStep
  <2>1. PICK w \in Files : disk' = [disk EXCEPT ![w] = @ + 1]
    BY <1>2 DEF WriteStep
  <2>2. \A f \in Files : disk[f] \in Nat /\ disk'[f] \in Nat /\ disk[f] <= disk'[f] /\ store[f] \in Nat
    BY <2>1 DEF TypeOK
  <2>3. \A g \in Goroutines, f \in Files : ingest[g] # None => ingest[g].read[f] \in Nat
    BY DEF TypeOK, Ingest
  <2>4. \A f \in Files : store'[f] <= disk'[f]
    BY <1>2, <2>2 DEF IngestInv, WriteStep, ingVars
  <2>5. \A g \in Goroutines, f \in Files : ingest[g] # None => ingest[g].read[f] <= disk'[f]
    BY <2>2, <2>3 DEF IngestInv
  <2> QED
    BY <1>2, <2>4, <2>5 DEF IngestInv, WriteStep, ingVars
<1>3. ASSUME NEW g \in Goroutines, BeginStep(g) PROVE IngestInv'
  BY <1>3, BeginKeepsIngest DEF BeginStep
<1>4. ASSUME NEW g \in Goroutines, EndStep(g) PROVE IngestInv'
  BY <1>4, EndKeepsIngest, GoOnKeepsIngest DEF EndStep
<1> QED
  BY <1>1, <1>2, <1>3, <1>4, IngestSteps

(* No step takes a file of the store back. *)
LEMMA StoreStep ==
    ASSUME TypeOK, IngestInv, [Next]_vars
    PROVE  \A f \in Files : store'[f] >= store[f]
<1>1. \A f \in Files : store[f] \in Nat
  BY DEF TypeOK
<1>2. CASE UNCHANGED store
  BY <1>1, <1>2
<1>3. ASSUME NEW g \in Goroutines, EndStep(g) PROVE \A f \in Files : store'[f] >= store[f]
  BY <1>3, FinishSaves DEF EndStep
<1> QED
  BY <1>2, <1>3, IngestSteps DEF IngestFrame, WriteStep, BeginStep, Begin, ingVars

-----------------------------------------------------------------------------
(* The last transition *)

(* An emit only adds to the channel, so what it held it still holds. *)
LEMMA EmitKeepsStopped == TypeOK /\ Emit /\ StoppedInPipe => StoppedInPipe'
<1> SUFFICES ASSUME TypeOK, Emit, StoppedInPipe PROVE StoppedInPipe'
  OBVIOUS
<1>1. CASE handed \/ stopTimedOut
  BY <1>1 DEF Emit, StoppedInPipe
<1>2. ASSUME NEW i \in 1..Len(emitCh), emitCh[i] = "stopped" PROVE StoppedInPipe'
  <2>1. i \in 1..Len(emitCh') /\ emitCh'[i] = "stopped"
    BY <1>2 DEF TypeOK, Emit
  <2> QED
    BY <2>1 DEF StoppedInPipe
<1> QED
  BY <1>1, <1>2 DEF StoppedInPipe

(* Taking the first event hands "stopped" over, or leaves it in the channel. *)
LEMMA HandOverKeepsStopped ==
    TypeOK /\ HandOver /\ UNCHANGED stopTimedOut /\ StoppedInPipe => StoppedInPipe'
<1> SUFFICES ASSUME TypeOK, HandOver, UNCHANGED stopTimedOut, StoppedInPipe PROVE StoppedInPipe'
  OBVIOUS
<1>1. CASE handed \/ stopTimedOut
  BY <1>1 DEF HandOver, StoppedInPipe
<1>2. ASSUME NEW i \in 1..Len(emitCh), emitCh[i] = "stopped" PROVE StoppedInPipe'
  <2>1. CASE i = 1
    <3>1. Head(emitCh) = "stopped"
      BY <1>2, <2>1 DEF TypeOK
    <3>2. handed'
      BY <3>1 DEF HandOver
    <3> QED
      BY <3>2 DEF StoppedInPipe
  <2>2. CASE i # 1
    <3>1. i - 1 \in 1..Len(emitCh') /\ emitCh'[i - 1] = "stopped"
      BY <1>2, <2>2 DEF TypeOK, HandOver
    <3> QED
      BY <3>1 DEF StoppedInPipe
  <2> QED
    BY <2>1, <2>2
<1> QED
  BY <1>1, <1>2 DEF StoppedInPipe

(* What other steps do to the channel, and to where the deferred block is. *)
EmitFrame ==
    /\ Emit \/ UNCHANGED emitVars
    /\ UNCHANGED pc \/ (~FlusherCancelled /\ ~FlusherCancelled')

(* A step emits, hands over or ends one of the two loops, or touches none of that. *)
LEMMA EmitSteps ==
    ASSUME TypeOK, [Next]_vars
    PROVE  Flusher \/ EmitStopped \/ JoinFlusher \/ JoinWorker \/ EmitFrame
<1> USE DEF EmitFrame, FlusherCancelled
<1>1. CASE RunStep
  <2>1. ASSUME NEW s \in Sources, StartupBegin(s) PROVE EmitFrame
    BY <2>1 DEF StartupBegin
  <2>2. ASSUME NEW s \in Sources, StartupAbandon(s) PROVE EmitFrame
    BY <2>2 DEF StartupAbandon
  <2>3. ASSUME NEW s \in Sources, Enqueue(s) PROVE EmitFrame
    BY <2>3 DEF Enqueue
  <2>4. ASSUME StartupEnd PROVE EmitFrame
    BY <2>4 DEF StartupEnd, Finish
  <2>5. ASSUME StartupDone PROVE EmitFrame
    BY <2>5 DEF StartupDone
  <2>6. ASSUME Register PROVE EmitFrame
    BY <2>6 DEF Register
  <2>7. ASSUME Rebuild PROVE EmitFrame
    BY <2>7 DEF Rebuild, EnqueueAll
  <2>8. ASSUME ResumeFlush PROVE EmitFrame
    BY <2>8 DEF ResumeFlush
  <2>9. ASSUME Stop PROVE EmitFrame
    BY <2>9 DEF Stop
  <2> QED
    BY <1>1, <2>1, <2>2, <2>3, <2>4, <2>5, <2>6, <2>7, <2>8, <2>9 DEF RunStep
<1>2. CASE SelectCase
  <2>1. ASSUME SelectDone \/ SelectReconcile \/ HandlePause PROVE EmitFrame
    BY <2>1 DEF SelectDone, SelectReconcile, HandlePause, loopVars
  <2>2. ASSUME HandleResume \/ Tick PROVE EmitFrame
    BY <2>2 DEF HandleResume, Tick, EnqueueAll
  <2>3. ASSUME DebounceFire PROVE EmitFrame
    BY <2>3 DEF DebounceFire, loopVars
  <2>4. ASSUME NEW f \in Files, WatchEvent(f) PROVE EmitFrame
    BY <2>4 DEF WatchEvent, loopVars
  <2> QED
    BY <1>2, <2>1, <2>2, <2>3, <2>4 DEF SelectCase
<1>3. CASE WorkerStep
  <2>1. ASSUME NEW ok \in BOOLEAN, WorkerEnd(ok) PROVE EmitFrame
    BY <2>1 DEF WorkerEnd, Finish, loopVars
  <2>2. ASSUME WorkerTake \/ WorkerBegin \/ WorkerSkipUnclaimed \/ WorkerAbort \/ WorkerExit
        PROVE  EmitFrame
    BY <2>2 DEF WorkerTake, WorkerBegin, WorkerSkipUnclaimed, WorkerAbort, WorkerExit, loopVars
  <2> QED
    BY <1>3, <2>1, <2>2 DEF WorkerStep
<1>4. CASE TriggerStep
  BY <1>4 DEF TriggerStep, TriggerCheck, TriggerSend, TriggerGiveUp, OnceStart, OnceEnd, OnceBegin,
     OnceGiveUp, Finish, loopVars
<1>5. CASE Outside
  BY <1>5 DEF Outside, Write, ReloadStore, ReloadNotify, Cancel, loopVars
<1>6. CASE UNCHANGED vars
  BY <1>6 DEF vars, loopVars
<1> QED
  BY <1>1, <1>2, <1>3, <1>4, <1>5, <1>6 DEF Next, RunStep

(* Every step keeps the last transition in the channel or taken from it. *)
LEMMA StopStep == TypeOK /\ StopInv /\ [Next]_vars => StopInv'
<1> SUFFICES ASSUME TypeOK, StopInv, [Next]_vars PROVE StopInv'
  OBVIOUS
<1> USE DEF FlusherCancelled
<1>1. CASE EmitFrame
  <2>1. UNCHANGED <<flusher, handed, stopTimedOut>>
    BY <1>1 DEF EmitFrame, Emit, emitVars
  <2>2. StoppedInPipe => StoppedInPipe'
    BY <1>1, EmitKeepsStopped DEF EmitFrame, emitVars, StoppedInPipe
  <2> QED
    BY <1>1, <2>1, <2>2 DEF EmitFrame, StopInv
<1>2. CASE Flusher
  <2>1. UNCHANGED <<pc, stopTimedOut>>
    BY <1>2 DEF Flusher, loopVars
  <2>2. CASE HandOver /\ UNCHANGED flusher /\ flusher # "done"
    BY <2>1, <2>2, HandOverKeepsStopped DEF StopInv
  <2>3. CASE FlusherCancelled /\ flusher' = "draining" /\ UNCHANGED <<emitCh, handed>>
             /\ flusher = "running"
    BY <2>1, <2>3 DEF StopInv, StoppedInPipe
  <2>4. CASE emitCh = << >> /\ flusher' = "done" /\ UNCHANGED <<emitCh, handed>>
             /\ flusher = "draining"
    <3>1. FlusherCancelled /\ (handed \/ stopTimedOut)
      BY <2>4 DEF StopInv, StoppedInPipe
    <3> QED
      BY <2>1, <2>4, <3>1 DEF StopInv, StoppedInPipe
  <2> QED
    BY <1>2, <2>2, <2>3, <2>4 DEF Flusher
<1>3. CASE EmitStopped
  <2>1. stopTimedOut' \/ (1 + Len(emitCh) \in 1..Len(emitCh') /\ emitCh'[1 + Len(emitCh)] = "stopped")
    BY <1>3 DEF TypeOK, EmitStopped
  <2>2. StoppedInPipe'
    BY <2>1 DEF StoppedInPipe
  <2> QED
    BY <1>3, <2>2 DEF EmitStopped, StopInv
<1>4. CASE JoinFlusher
  BY <1>4 DEF JoinFlusher, StopInv, StoppedInPipe, emitVars
<1>5. CASE JoinWorker
  BY <1>5 DEF JoinWorker, StopInv, StoppedInPipe, emitVars
<1> QED
  BY <1>1, <1>2, <1>3, <1>4, <1>5, EmitSteps

-----------------------------------------------------------------------------
(* The watcher and the config *)

(* What other steps do: they do not enter the loop, and no signal is lost. *)
WatchFrame ==
    /\ UNCHANGED confVars
    /\ \/ UNCHANGED pc
       \/ pc' \notin {"select", "enqueue", "flush", "rebuild"}
       \/ {pc, pc'} \subseteq {"select", "enqueue", "flush"}

(* A step rebuilds, reloads or takes the signal, or touches none of that. *)
LEMMA WatchSteps ==
    ASSUME [Next]_vars
    PROVE  \/ StartupDone \/ Register \/ SelectReconcile \/ Rebuild \/ ReloadStore \/ ReloadNotify
           \/ WatchFrame
<1> USE DEF WatchFrame
<1>1. CASE RunStep
  <2>1. ASSUME NEW s \in Sources, StartupBegin(s) \/ StartupAbandon(s) PROVE WatchFrame
    BY <2>1 DEF StartupBegin, StartupAbandon
  <2>2. ASSUME NEW s \in Sources, Enqueue(s) PROVE WatchFrame
    BY <2>2 DEF Enqueue
  <2>3. ASSUME StartupEnd \/ ResumeFlush PROVE WatchFrame
    BY <2>3 DEF StartupEnd, ResumeFlush
  <2>4. ASSUME Stop \/ EmitStopped \/ JoinFlusher \/ JoinWorker PROVE WatchFrame
    BY <2>4 DEF Stop, EmitStopped, JoinFlusher, JoinWorker
  <2> QED
    BY <1>1, <2>1, <2>2, <2>3, <2>4 DEF RunStep
<1>2. CASE SelectCase
  <2>1. ASSUME SelectDone \/ HandlePause \/ DebounceFire PROVE WatchFrame
    BY <2>1 DEF SelectDone, HandlePause, DebounceFire, loopVars
  <2>2. ASSUME HandleResume \/ Tick PROVE WatchFrame
    BY <2>2 DEF HandleResume, Tick, EnqueueAll
  <2>3. ASSUME NEW f \in Files, WatchEvent(f) PROVE WatchFrame
    BY <2>3 DEF WatchEvent, loopVars
  <2> QED
    BY <1>2, <2>1, <2>2, <2>3 DEF SelectCase
<1>3. CASE Flusher
  BY <1>3 DEF Flusher, loopVars
<1>4. CASE WorkerStep
  BY <1>4 DEF WorkerStep, WorkerTake, WorkerBegin, WorkerSkipUnclaimed, WorkerAbort, WorkerExit,
     WorkerEnd, loopVars
<1>5. CASE TriggerStep
  BY <1>5 DEF TriggerStep, TriggerCheck, TriggerSend, TriggerGiveUp, OnceStart, OnceEnd, OnceBegin,
     OnceGiveUp, loopVars
<1>6. CASE Outside
  BY <1>6 DEF Outside, Write, Cancel, loopVars
<1>7. CASE UNCHANGED vars
  BY <1>7 DEF vars, loopVars
<1> QED
  BY <1>1, <1>2, <1>3, <1>4, <1>5, <1>6, <1>7 DEF Next

(* Every step keeps a signal pending while the roots are older than the config. *)
LEMMA WatchStep == TypeOK /\ WatchInv /\ [Next]_vars => WatchInv'
<1> SUFFICES ASSUME TypeOK, WatchInv, [Next]_vars PROVE WatchInv'
  OBVIOUS
<1> USE DEF WatchInv, SignalPending
<1>1. CASE StartupDone
  BY <1>1 DEF StartupDone
<1>2. CASE Register
  BY <1>2 DEF Register
<1>3. CASE SelectReconcile
  BY <1>3 DEF SelectReconcile
<1>4. CASE Rebuild
  BY <1>4 DEF Rebuild, EnqueueAll
<1>5. CASE ReloadStore
  BY <1>5 DEF ReloadStore, loopVars, TypeOK
<1>6. CASE ReloadNotify
  BY <1>6 DEF ReloadNotify, loopVars
<1>7. CASE WatchFrame
  BY <1>7 DEF WatchFrame, confVars
<1> QED
  BY <1>1, <1>2, <1>3, <1>4, <1>5, <1>6, <1>7, WatchSteps

-----------------------------------------------------------------------------
(* Reported files *)

(* A queue keeps the files of its jobs when one more job is appended. *)
LEMMA AppendKeepsQueued ==
    ASSUME TypeOK, NEW j \in Job, ingestCh' = Append(ingestCh, j)
    PROVE  QueuedFiles' = QueuedFiles \cup j.files
<1>1. DOMAIN ingestCh = 1..Len(ingestCh) /\ Len(ingestCh) \in Nat
  BY DEF TypeOK
<1>2. DOMAIN ingestCh' = 1..(Len(ingestCh) + 1)
  BY DEF TypeOK
<1>3. \A i \in DOMAIN ingestCh : i \in DOMAIN ingestCh' /\ ingestCh'[i] = ingestCh[i]
  BY <1>1, <1>2 DEF TypeOK
<1>4. Len(ingestCh) + 1 \in DOMAIN ingestCh' /\ ingestCh'[Len(ingestCh) + 1] = j
  BY <1>1, <1>2 DEF TypeOK
<1>5. \A i \in DOMAIN ingestCh' : i \in DOMAIN ingestCh \/ i = Len(ingestCh) + 1
  BY <1>1, <1>2
<1> QED
  BY <1>3, <1>4, <1>5 DEF QueuedFiles

(* The worker takes one job: its files are the only ones that leave the queue. *)
LEMMA TakeKeepsQueued ==
    ASSUME TypeOK, ingestCh # << >>, ingestCh' = Tail(ingestCh)
    PROVE  QueuedFiles \subseteq QueuedFiles' \cup Head(ingestCh).files
<1>1. DOMAIN ingestCh = 1..Len(ingestCh) /\ Len(ingestCh) \in Nat /\ Len(ingestCh) > 0
  BY DEF TypeOK
<1>2. DOMAIN ingestCh' = 1..(Len(ingestCh) - 1) /\ Head(ingestCh) = ingestCh[1]
  BY <1>1 DEF TypeOK
<1>3. \A i \in DOMAIN ingestCh : i # 1 => i - 1 \in DOMAIN ingestCh' /\ ingestCh'[i - 1] = ingestCh[i]
  BY <1>1, <1>2 DEF TypeOK
<1> QED
  BY <1>2, <1>3 DEF QueuedFiles

FilesKept == UNCHANGED <<pendingFiles, dirtyFiles, ingestCh>>

(* A flush moves all pending and dirty files into a job, or keeps them dirty. *)
LEMMA FlushKeepsWaiting == TypeOK /\ FlushPending => Waiting \subseteq Waiting'
<1> SUFFICES ASSUME TypeOK, FlushPending PROVE Waiting \subseteq Waiting'
  OBVIOUS
<1> DEFINE files == pendingFiles \cup dirtyFiles
<1>1. FileJob(files) \in Job /\ FileJob(files).files = files
  BY DEF TypeOK, FileJob, Job
<1>2. CASE ingestCh' = Append(ingestCh, FileJob(files))
  BY <1>1, <1>2, AppendKeepsQueued DEF Waiting
<1>3. CASE dirtyFiles' = files /\ UNCHANGED ingestCh
  BY <1>3 DEF Waiting, QueuedFiles
<1>4. CASE files = {} /\ UNCHANGED ingestCh
  BY <1>4 DEF Waiting, QueuedFiles
<1> QED
  BY <1>2, <1>3, <1>4 DEF FlushPending

TakenOrWaiting(f) == f \in Waiting' \/ (job' # None /\ f \in job'.files)

(* No step but the worker's take removes a reported file from where it waits. *)
LEMMA WaitingStep ==
    ASSUME TypeOK, [Next]_vars
    PROVE  \A f \in Waiting : TakenOrWaiting(f)
<1>1. FilesKept => Waiting' = Waiting
  BY DEF FilesKept, Waiting, QueuedFiles
<1>2. Waiting \subseteq Waiting' => \A f \in Waiting : TakenOrWaiting(f)
  BY DEF TakenOrWaiting
<1> USE DEF fileVars
<1>3. CASE RunStep
  <2>1. ASSUME NEW s \in Sources, Enqueue(s) PROVE Waiting \subseteq Waiting'
    <3>1. FullJob({s}) \in Job
      BY DEF FullJob, Job
    <3>2. CASE UNCHANGED ingestCh
      BY <2>1, <3>2, <1>1 DEF Enqueue, FilesKept
    <3>3. CASE ingestCh' = Append(ingestCh, FullJob({s}))
      BY <2>1, <3>1, <3>3, AppendKeepsQueued DEF Enqueue, Waiting
    <3> QED
      BY <2>1, <3>2, <3>3 DEF Enqueue
  <2>2. ASSUME ResumeFlush PROVE Waiting \subseteq Waiting'
    BY <2>2, FlushKeepsWaiting DEF ResumeFlush
  <2>3. ASSUME NEW s \in Sources, StartupBegin(s) \/ StartupAbandon(s) PROVE FilesKept
    BY <2>3 DEF StartupBegin, StartupAbandon, FilesKept
  <2>4. ASSUME StartupEnd \/ StartupDone \/ Register \/ Rebuild PROVE FilesKept
    BY <2>4 DEF StartupEnd, StartupDone, Register, Rebuild, FilesKept
  <2>5. ASSUME Stop \/ EmitStopped \/ JoinFlusher \/ JoinWorker PROVE FilesKept
    BY <2>5 DEF Stop, EmitStopped, JoinFlusher, JoinWorker, FilesKept
  <2> QED
    BY <1>1, <1>2, <1>3, <2>1, <2>2, <2>3, <2>4, <2>5 DEF RunStep
<1>4. CASE SelectCase
  <2>1. ASSUME SelectDone \/ SelectReconcile \/ HandlePause \/ HandleResume \/ Tick PROVE FilesKept
    BY <2>1 DEF SelectDone, SelectReconcile, HandlePause, HandleResume, Tick, FilesKept
  <2>2. ASSUME DebounceFire PROVE Waiting \subseteq Waiting'
    BY <2>2, <1>1, FlushKeepsWaiting DEF DebounceFire, FilesKept
  <2>3. ASSUME NEW f \in Files, WatchEvent(f) PROVE Waiting \subseteq Waiting'
    BY <2>3 DEF WatchEvent, Waiting, QueuedFiles
  <2> QED
    BY <1>1, <1>2, <1>4, <2>1, <2>2, <2>3 DEF SelectCase
<1>5. CASE Flusher
  BY <1>1, <1>2, <1>5 DEF Flusher, FilesKept
<1>6. CASE WorkerStep
  <2>1. ASSUME WorkerTake PROVE \A f \in Waiting : TakenOrWaiting(f)
    <3>1. Head(ingestCh) \in Job /\ QueuedFiles \subseteq QueuedFiles' \cup Head(ingestCh).files
      BY <2>1, TakeKeepsQueued DEF WorkerTake, TypeOK
    <3>2. job' = Head(ingestCh) /\ job' # None /\ UNCHANGED <<pendingFiles, dirtyFiles>>
      BY <2>1, <3>1, NoneAssumption DEF WorkerTake
    <3> QED
      BY <3>1, <3>2 DEF TakenOrWaiting, Waiting
  <2>2. ASSUME WorkerBegin \/ WorkerSkipUnclaimed \/ WorkerAbort \/ WorkerExit PROVE FilesKept
    BY <2>2 DEF WorkerBegin, WorkerSkipUnclaimed, WorkerAbort, WorkerExit, FilesKept
  <2>3. ASSUME NEW ok \in BOOLEAN, WorkerEnd(ok) PROVE FilesKept
    BY <2>3 DEF WorkerEnd, FilesKept
  <2> QED
    BY <1>1, <1>2, <1>6, <2>1, <2>2, <2>3 DEF WorkerStep
<1>7. CASE TriggerStep
  <2>1. ASSUME TriggerSend PROVE Waiting \subseteq Waiting'
    <3>1. FullJob(Sources) \in Job /\ \A f \in Files : FileJob({f}) \in Job
      BY DEF FullJob, FileJob, Job
    <3>2. PICK j \in Job : ingestCh' = Append(ingestCh, j)
      BY <2>1, <3>1 DEF TriggerSend
    <3> QED
      BY <2>1, <3>2, AppendKeepsQueued DEF TriggerSend, Waiting
  <2>2. ASSUME TriggerCheck \/ TriggerGiveUp \/ OnceStart \/ OnceEnd PROVE FilesKept
    BY <2>2 DEF TriggerCheck, TriggerGiveUp, OnceStart, OnceEnd, FilesKept
  <2>3. ASSUME NEW s \in Sources, OnceBegin(s) \/ OnceGiveUp(s) PROVE FilesKept
    BY <2>3 DEF OnceBegin, OnceGiveUp, FilesKept
  <2> QED
    BY <1>1, <1>2, <1>7, <2>1, <2>2, <2>3 DEF TriggerStep
<1>8. CASE Outside
  <2>1. FilesKept
    BY <1>8 DEF Outside, Write, ReloadStore, ReloadNotify, Cancel, FilesKept
  <2> QED
    BY <1>1, <1>2, <2>1
<1>9. CASE UNCHANGED vars
  BY <1>1, <1>2, <1>9 DEF vars, FilesKept
<1> QED
  BY <1>3, <1>4, <1>5, <1>6, <1>7, <1>8, <1>9 DEF Next

-----------------------------------------------------------------------------
(* The theorems *)

(* Types, the semaphore, the last transition and the watcher are an invariant  *)
(* of the run loop, the worker, the handlers and the flusher together.         *)
THEOREM ServiceInvariance == Spec => []IInv
<1>1. Init => IInv
  <2>1. Init => TypeOK
    BY InitType
  <2>2. Init => IngestInv
    BY DEF Init, IngestInv
  <2>3. Init => StopInv /\ WatchInv
    BY DEF Init, StopInv, WatchInv, FlusherCancelled
  <2> QED
    BY <2>1, <2>2, <2>3 DEF IInv
<1>2. IInv /\ [Next]_vars => IInv'
  BY NextType, IngestStep, StopStep, WatchStep DEF IInv
<1> QED
  BY <1>1, <1>2, PTL DEF Spec

(* Every variable keeps its type, and neither channel exceeds its capacity. *)
THEOREM ServiceTypeCorrect == Spec => []TypeOK
BY ServiceInvariance, PTL DEF IInv

(* With any number of files and sources, read at startup, by the worker and in *)
(* a handler: no file goes back to an older version in the store.              *)
THEOREM StoreMonotone == Spec => StoreNeverGoesBack
<1>1. IInv /\ [Next]_vars => [\A f \in Files : store'[f] >= store[f]]_vars
  BY StoreStep DEF IInv
<1> QED
  BY <1>1, ServiceInvariance, PTL DEF Spec, StoreNeverGoesBack

(* A file the watcher reported waits until the worker has a job with it. *)
THEOREM NoReportDropped == Spec => ReportedFilesWait
<1>1. IInv /\ [Next]_vars =>
         [\A f \in Waiting : f \in Waiting' \/ (job' # None /\ f \in job'.files)]_vars
  BY WaitingStep DEF IInv, TakenOrWaiting
<1> QED
  BY <1>1, ServiceInvariance, PTL DEF Spec, ReportedFilesWait

(* Run does not return before its last transition was handed over, or the      *)
(* channel was full for as long as it waits.                                   *)
THEOREM LastTransitionHandedOver == Spec => []StoppedIsHandedOver
<1>1. IInv => StoppedIsHandedOver
  BY DEF IInv, StopInv, StoppedIsHandedOver
<1> QED
  BY <1>1, ServiceInvariance, PTL

(* The loop never waits with a watcher on old roots and no signal to come. *)
THEOREM WatcherCurrent == Spec => []WatcherIsCurrent
<1>1. IInv => WatcherIsCurrent
  BY DEF IInv, WatchInv, SignalPending, WatcherIsCurrent
<1> QED
  BY <1>1, ServiceInvariance, PTL

=============================================================================
