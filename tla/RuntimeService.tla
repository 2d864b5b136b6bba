--------------------------- MODULE RuntimeService ---------------------------
(***************************************************************************)
(* The daemon's ingest service (internal/runtime).  Four kinds of goroutine: *)
(* the run loop, which selects over file events, a debounce timer, a ticker, *)
(* pause/resume and config changes; the ingest worker behind a bounded queue *)
(* of jobs; HTTP handlers that trigger jobs or a one-shot pass; and the emit *)
(* flusher, which hands live events to the broker.  Sessions files change    *)
(* underneath, and a change the watcher misses is left to the ticker.        *)
(***************************************************************************)
EXTENDS Naturals, Sequences, FiniteSets

CONSTANTS
    Sources,      \* cfg.Sources
    Files,        \* transcript files
    SourceOf,     \* SourceOf[f]: the source under whose roots f lies
    Unclaimed,    \* files no source claims one by one (RunFile: ok = false)
    None,         \* no job, no ingest under way
    QueueCap,     \* ingestQueueSize
    EmitCap,      \* emitBufferSize
    MaxWrites,    \* bound: writes to a file
    MaxReloads,   \* bound: config reloads that change the roots
    MaxTriggers,  \* bound: TriggerIngest calls
    CanFail,      \* may an ingest, or the building of a watcher, fail?
    CanStop       \* may the daemon be told to stop?

ASSUME ConstantsAssumption ==
    /\ SourceOf \in [Files -> Sources] /\ Unclaimed \subseteq Files
    /\ Sources # {}
    /\ QueueCap \in Nat \ {0} /\ EmitCap \in Nat \ {0}
    /\ MaxWrites \in Nat /\ MaxReloads \in Nat /\ MaxTriggers \in Nat
    /\ CanFail \in BOOLEAN /\ CanStop \in BOOLEAN

VARIABLES
    \* outside
    disk,         \* per file, its version on disk
    fsEvents,     \* files with an fsnotify event the watcher has yet to deliver
    ctxDone,      \* the context of Run is cancelled
    \* configuration
    config,       \* version of the current snapshot
    notifying,    \* reloads that stored their snapshot and have yet to call back
    registered,   \* Run has registered its OnChange callback
    reconcileCh,  \* the callback's signal is pending
    building,     \* version the watcher under construction takes its roots from
    watching,     \* version the watcher in use took them from
    \* the run loop
    pc,           \* where it is
    todo,         \* the sources it still has to ingest (startup) or to enqueue
    resuming,     \* it enqueues on behalf of a resume
    startupOK,    \* a source was ingested at startup
    state,        \* Status().State
    pendingFiles, dirtyFiles,
    timer,        \* the debounce timer is running
    \* jobs
    ingestCh,     \* queue of jobs
    job,          \* what is left of the worker's job, None when it is idle
    workerDone,
    once,         \* the sources a one-shot trigger still has to ingest
    triggers,     \* TriggerIngest calls past their state check, blocked on the queue
    triggered,    \* how many TriggerIngest calls there were
    ingest,       \* per goroutine, the ingest it has under way
    ingestSem,    \* the semaphore is taken
    store,        \* per file, the version last saved, 0 for none
    \* live events
    emitCh,       \* events for the flusher: "stopped", or any other "event"
    flusher,      \* "running", "draining", "done"
    handed,       \* the flusher has handed "stopped" to the broker
    stopTimedOut, \* history: the blocking emit of "stopped" gave up
    lostChange    \* history: a config change was missed, or its rebuild failed

envVars  == <<disk, fsEvents, ctxDone>>
confVars == <<config, notifying, registered, reconcileCh, building, watching, lostChange>>
fileVars == <<pendingFiles, dirtyFiles, timer>>
loopVars == <<pc, todo, resuming, startupOK, state>>
workVars == <<job, workerDone>>
trigVars == <<once, triggers, triggered>>
ingVars  == <<ingest, ingestSem, store>>
emitVars == <<emitCh, flusher, handed, stopTimedOut>>
vars == <<envVars, confVars, fileVars, loopVars, ingestCh, workVars, trigVars, ingVars, emitVars>>

Goroutines == {"run", "worker", "once"}

FileJob(files) == [mode |-> "file", files |-> files, sources |-> {}]
FullJob(sources) == [mode |-> "full", files |-> {}, sources |-> sources]

Init ==
    /\ disk = [f \in Files |-> 1] /\ fsEvents = {} /\ ctxDone = FALSE
    /\ config = 0 /\ notifying = 0 /\ registered = FALSE /\ reconcileCh = FALSE
    /\ building = 0 /\ watching = 0 /\ lostChange = FALSE
    /\ pc = "startup" /\ todo = Sources /\ resuming = FALSE /\ startupOK = FALSE
    /\ state = "running"
    /\ pendingFiles = {} /\ dirtyFiles = {} /\ timer = FALSE
    /\ ingestCh = << >> /\ job = None /\ workerDone = FALSE
    /\ once = {} /\ triggers = 0 /\ triggered = 0
    /\ ingest = [g \in Goroutines |-> None] /\ ingestSem = FALSE
    /\ store = [f \in Files |-> 0]
    /\ emitCh = <<"event">> /\ flusher = "running" /\ handed = FALSE /\ stopTimedOut = FALSE

-----------------------------------------------------------------------------
(* Emitting, and the flusher *)

(* emit: non-blocking, a full channel drops (and counts) the event. *)
Emit ==
    /\ emitCh' = IF Len(emitCh) < EmitCap THEN Append(emitCh, "event") ELSE emitCh
    /\ UNCHANGED <<flusher, handed, stopTimedOut>>

HandOver ==
    /\ emitCh # << >>
    /\ handed' = (handed \/ Head(emitCh) = "stopped")
    /\ emitCh' = Tail(emitCh)

FlusherCancelledByParent == ctxDone

(* Its context derives from Background: only Run's deferred block cancels it.  *)
FlusherCancelled == pc \in {"joinFlusher", "joinWorker", "returned"}

Flusher ==
    /\ \/ flusher = "running" /\ HandOver /\ UNCHANGED flusher
       \/ flusher = "running" /\ FlusherCancelled
          /\ flusher' = "draining" /\ UNCHANGED <<emitCh, handed>>
       \/ flusher = "draining" /\ HandOver /\ UNCHANGED flusher
       \/ flusher = "draining" /\ emitCh = << >>
          /\ flusher' = "done" /\ UNCHANGED <<emitCh, handed>>
    /\ UNCHANGED <<envVars, confVars, fileVars, loopVars, ingestCh, workVars, trigVars, ingVars,
                   stopTimedOut>>

-----------------------------------------------------------------------------
(* One ingest: take the semaphore and read, then save.  A pass over the files  *)
(* of one source may be followed by more under the same semaphore (`sources`). *)

AcquireUnguarded == UNCHANGED ingestSem

AcquireIngest == ~ingestSem /\ ingestSem' = TRUE

FilesOf(s) == {f \in Files : SourceOf[f] = s}

Read(g, files, sources, failed) ==
    ingest' = [ingest EXCEPT ![g] = [files |-> files, read |-> disk, sources |-> sources,
                                     failed |-> failed]]

Begin(g, files, sources) ==
    /\ ingest[g] = None
    /\ AcquireIngest
    /\ Read(g, files, sources, FALSE)
    /\ UNCHANGED store

CancelledByParent(g) == g # "once" /\ ctxDone

(* The worker's context ends with Run's, and again in Run's deferred block.    *)
Cancelled(g) ==
    \/ g # "once" /\ ctxDone
    \/ g = "worker" /\ pc \in {"joinWorker", "returned"}

Save(g, files) ==
    store' = [f \in Files |-> IF f \in files THEN ingest[g].read[f] ELSE store[f]]

(* All files of the pass are saved and an event is emitted; or it fails, times *)
(* out or is cancelled, and what was committed before that stays.              *)
Finish(g, ok) ==
    \/ ok /\ Save(g, ingest[g].files) /\ Emit
    \/ /\ ~ok /\ (CanFail \/ Cancelled(g))
       /\ \E files \in SUBSET ingest[g].files : Save(g, files)
       /\ UNCHANGED emitVars

Release(g) ==
    /\ ingestSem' = FALSE
    /\ ingest' = [ingest EXCEPT ![g] = None]

(* The next source of a pass over all of them, which goes on after a failure.  *)
GoOn(g, ok) ==
    \E s \in ingest[g].sources :
        /\ Read(g, FilesOf(s), ingest[g].sources \ {s}, ingest[g].failed \/ ~ok)
        /\ UNCHANGED ingestSem

-----------------------------------------------------------------------------
(* Run: startup *)

StartupBegin(s) ==
    /\ pc = "startup" /\ s \in todo
    /\ Begin("run", FilesOf(s), {})
    /\ todo' = todo \ {s}
    /\ UNCHANGED <<envVars, confVars, fileVars, pc, resuming, startupOK, state, ingestCh, workVars,
                   trigVars, emitVars>>

StartupEnd ==
    /\ pc = "startup" /\ ingest["run"] # None
    /\ \E ok \in BOOLEAN : Finish("run", ok) /\ startupOK' = (startupOK \/ ok)
    /\ Release("run")
    /\ UNCHANGED <<envVars, confVars, fileVars, pc, todo, resuming, state, ingestCh, workVars,
                   trigVars>>

(* acquireIngest gives up when the context is cancelled. *)
StartupAbandon(s) ==
    /\ pc = "startup" /\ s \in todo
    /\ Cancelled("run") /\ ingest["run"] = None
    /\ todo' = todo \ {s}
    /\ UNCHANGED <<envVars, confVars, fileVars, pc, resuming, startupOK, state, ingestCh, workVars,
                   trigVars, ingVars, emitVars>>

(* Every source failed: Run returns.  Else a watcher is built, or Run returns. *)
StartupDone ==
    /\ pc = "startup" /\ todo = {} /\ ingest["run"] = None
    /\ \/ startupOK /\ pc' = "register" /\ building' = config
       \/ (~startupOK \/ CanFail) /\ pc' = "stop" /\ UNCHANGED building
    /\ UNCHANGED <<envVars, config, notifying, registered, reconcileCh, lostChange, watching, fileVars, todo,
                   resuming, startupOK, state, ingestCh, workVars, trigVars, ingVars, emitVars>>

(* The watcher is in use; only now does the loader learn of the callback.      *)
Register ==
    /\ pc = "register"
    /\ watching' = building /\ registered' = TRUE /\ pc' = "select"
    /\ lostChange' = (config # building)
    /\ UNCHANGED <<envVars, config, notifying, reconcileCh, building, fileVars, todo,
                   resuming, startupOK, state, ingestCh, workVars, trigVars, ingVars, emitVars>>

-----------------------------------------------------------------------------
(* Run: the select loop *)

(* enqueueFullAll begins; its non-blocking sends follow, source by source. *)
EnqueueAll(onResume) == pc' = "enqueue" /\ todo' = Sources /\ resuming' = onResume

Enqueue(s) ==
    /\ pc = "enqueue" /\ s \in todo
    /\ ingestCh' = IF Len(ingestCh) < QueueCap THEN Append(ingestCh, FullJob({s})) ELSE ingestCh
    /\ todo' = todo \ {s}
    /\ pc' = IF todo' # {} THEN "enqueue" ELSE IF resuming THEN "flush" ELSE "select"
    /\ UNCHANGED <<envVars, confVars, fileVars, resuming, startupOK, state, workVars, trigVars,
                   ingVars, emitVars>>

FlushPendingDropping ==
    LET files == pendingFiles \cup dirtyFiles
        sent == files # {} /\ Len(ingestCh) < QueueCap
    IN  /\ pendingFiles' = {} /\ dirtyFiles' = {}
        /\ ingestCh' = IF sent THEN Append(ingestCh, FileJob(files)) ELSE ingestCh

(* flushPendingFiles with enqueueFileRetry: what a full queue refuses stays.   *)
FlushPending ==
    LET files == pendingFiles \cup dirtyFiles
        sent == files # {} /\ Len(ingestCh) < QueueCap
    IN  /\ pendingFiles' = {}
        /\ dirtyFiles' = IF sent THEN {} ELSE files
        /\ ingestCh' = IF sent THEN Append(ingestCh, FileJob(files)) ELSE ingestCh

SelectDone ==
    /\ pc = "select" /\ ctxDone
    /\ pc' = "stop"
    /\ UNCHANGED <<envVars, confVars, fileVars, todo, resuming, startupOK, state, ingestCh, workVars,
                   trigVars, ingVars, emitVars>>

SelectReconcile ==
    /\ pc = "select" /\ reconcileCh
    /\ reconcileCh' = FALSE /\ building' = config /\ pc' = "rebuild"
    /\ UNCHANGED <<envVars, config, notifying, registered, watching, lostChange, fileVars, todo,
                   resuming, startupOK, state, ingestCh, workVars, trigVars, ingVars, emitVars>>

RebuildThenDrain ==
    /\ pc = "rebuild"
    /\ watching' = building /\ UNCHANGED lostChange /\ reconcileCh' = FALSE
    /\ fsEvents' \in SUBSET fsEvents
    /\ EnqueueAll(FALSE)
    /\ UNCHANGED <<disk, ctxDone, config, notifying, registered, building, fileVars, startupOK,
                   state, ingestCh, workVars, trigVars, ingVars, emitVars>>

(* The old watcher goes with the events it has not delivered; when no new one  *)
(* can be built it stays, and so do its roots.                                 *)
Rebuild ==
    /\ pc = "rebuild"
    /\ \/ /\ watching' = building /\ UNCHANGED lostChange
          /\ fsEvents' \in SUBSET fsEvents
          /\ EnqueueAll(FALSE)
       \/ /\ CanFail /\ lostChange' = TRUE
          /\ pc' = "select" /\ UNCHANGED <<watching, fsEvents, todo, resuming>>
    /\ UNCHANGED <<disk, ctxDone, config, notifying, registered, reconcileCh, building, fileVars,
                   startupOK, state, ingestCh, workVars, trigVars, ingVars, emitVars>>

HandlePause ==
    /\ pc = "select" /\ state = "running"
    /\ state' = "paused" /\ Emit
    /\ UNCHANGED <<envVars, confVars, fileVars, pc, todo, resuming, startupOK, ingestCh, workVars,
                   trigVars, ingVars>>

HandleResume ==
    /\ pc = "select" /\ state = "paused"
    /\ state' = "running" /\ Emit /\ EnqueueAll(TRUE)
    /\ UNCHANGED <<envVars, confVars, fileVars, startupOK, ingestCh, workVars, trigVars, ingVars>>

(* The end of the resume case, after its full jobs: the timer is stopped and   *)
(* the files kept during the pause are handed over.                            *)
ResumeFlush ==
    /\ pc = "flush"
    /\ FlushPending /\ timer' = FALSE
    /\ pc' = "select" /\ resuming' = FALSE
    /\ UNCHANGED <<envVars, confVars, todo, startupOK, state, workVars, trigVars, ingVars, emitVars>>

(* An event is discarded while paused; else the file is pending, reported once *)
(* per debounce window, and the timer starts anew.                             *)
WatchEvent(f) ==
    /\ pc = "select" /\ f \in fsEvents
    /\ fsEvents' = fsEvents \ {f}
    /\ IF state = "paused" THEN UNCHANGED <<fileVars, emitVars>>
       ELSE /\ pendingFiles' = pendingFiles \cup {f} /\ timer' = TRUE
            /\ IF f \in pendingFiles THEN UNCHANGED emitVars ELSE Emit
            /\ UNCHANGED dirtyFiles
    /\ UNCHANGED <<disk, ctxDone, confVars, loopVars, ingestCh, workVars, trigVars, ingVars>>

DebounceFire ==
    /\ pc = "select" /\ timer
    /\ IF state = "paused" THEN timer' = FALSE /\ UNCHANGED <<pendingFiles, dirtyFiles, ingestCh>>
       ELSE FlushPending /\ timer' = (dirtyFiles' # {})
    /\ UNCHANGED <<envVars, confVars, loopVars, workVars, trigVars, ingVars, emitVars>>

TickWhenDirty ==
    /\ pc = "select" /\ state # "paused"
    /\ pendingFiles \cup dirtyFiles # {}
    /\ EnqueueAll(FALSE)
    /\ UNCHANGED <<envVars, confVars, fileVars, startupOK, state, ingestCh, workVars, trigVars,
                   ingVars, emitVars>>

(* The periodic reconcile (a tick while paused does nothing). *)
Tick ==
    /\ pc = "select" /\ state # "paused"
    /\ EnqueueAll(FALSE)
    /\ UNCHANGED <<envVars, confVars, fileVars, startupOK, state, ingestCh, workVars, trigVars,
                   ingVars, emitVars>>

-----------------------------------------------------------------------------
(* Run: the deferred block *)

Stop ==
    /\ pc = "stop"
    /\ state' = "stopped" /\ pc' = "emitStopped"
    /\ UNCHANGED <<envVars, confVars, fileVars, todo, resuming, startupOK, ingestCh, workVars,
                   trigVars, ingVars, emitVars>>

(* emitDaemonStateBlocking: waits for room, but not for ever. *)
EmitStopped ==
    /\ pc = "emitStopped"
    /\ IF Len(emitCh) < EmitCap
       THEN emitCh' = Append(emitCh, "stopped") /\ UNCHANGED stopTimedOut
       ELSE stopTimedOut' = TRUE /\ UNCHANGED emitCh
    /\ pc' = "joinFlusher"
    /\ UNCHANGED <<envVars, confVars, fileVars, todo, resuming, startupOK, state, ingestCh, workVars,
                   trigVars, ingVars, flusher, handed>>

JoinFlusher ==
    /\ pc = "joinFlusher" /\ flusher = "done"
    /\ pc' = "joinWorker"
    /\ UNCHANGED <<envVars, confVars, fileVars, todo, resuming, startupOK, state, ingestCh, workVars,
                   trigVars, ingVars, emitVars>>

JoinWorker ==
    /\ pc = "joinWorker" /\ workerDone
    /\ pc' = "returned"
    /\ UNCHANGED <<envVars, confVars, fileVars, todo, resuming, startupOK, state, ingestCh, workVars,
                   trigVars, ingVars, emitVars>>

-----------------------------------------------------------------------------
(* The ingest worker *)

WorkerTake ==
    /\ ~workerDone /\ job = None /\ ingestCh # << >>
    /\ job' = Head(ingestCh) /\ ingestCh' = Tail(ingestCh)
    /\ UNCHANGED <<envVars, confVars, fileVars, loopVars, workerDone, trigVars, ingVars, emitVars>>

Without(f, s) == [job EXCEPT !.files = @ \ f, !.sources = @ \ s]
Left(j) == IF j.files = {} /\ j.sources = {} THEN None ELSE j

WorkerFull(s) ==
    /\ s \in job.sources
    /\ Begin("worker", FilesOf(s), {})
    /\ job' = Without({}, {s})

(* runFileForAnySource: a file no source claims is answered with a pass over   *)
(* all sources, or, within a minute of the last such pass, with nothing.       *)
WorkerFile(f) ==
    /\ f \in job.files
    /\ job' = Without({f}, {})
    /\ \/ f \notin Unclaimed /\ Begin("worker", {f}, {})
       \/ f \in Unclaimed /\ \E s \in Sources : Begin("worker", FilesOf(s), Sources \ {s})

WorkerBegin ==
    /\ job # None /\ ingest["worker"] = None
    /\ (\E s \in Sources : WorkerFull(s)) \/ (\E f \in Files : WorkerFile(f))
    /\ UNCHANGED <<envVars, confVars, fileVars, loopVars, ingestCh, workerDone, trigVars, emitVars>>

WorkerSkipUnclaimed ==
    /\ job # None /\ ingest["worker"] = None /\ ~ingestSem
    /\ \E f \in job.files \cap Unclaimed : job' = Left(Without({f}, {}))
    /\ UNCHANGED <<envVars, confVars, fileVars, loopVars, ingestCh, workerDone, trigVars, ingVars,
                   emitVars>>

(* The first failure ends the job, whatever it still had to do. *)
WorkerEnd(ok) ==
    /\ ingest["worker"] # None
    /\ Finish("worker", ok)
    /\ IF ingest["worker"].sources # {} THEN GoOn("worker", ok) /\ UNCHANGED job
       ELSE /\ Release("worker")
            /\ job' = IF ok /\ ~ingest["worker"].failed THEN Left(job) ELSE None
    /\ UNCHANGED <<envVars, confVars, fileVars, loopVars, ingestCh, workerDone, trigVars>>

(* acquireIngest gives up: cancelled, or a full job timed out waiting. *)
WorkerAbort ==
    /\ job # None /\ ingest["worker"] = None
    /\ Cancelled("worker") \/ (CanFail /\ ingestSem /\ job.mode = "full")
    /\ job' = None
    /\ UNCHANGED <<envVars, confVars, fileVars, loopVars, ingestCh, workerDone, trigVars, ingVars,
                   emitVars>>

WorkerExit ==
    /\ ~workerDone /\ job = None /\ Cancelled("worker")
    /\ workerDone' = TRUE
    /\ UNCHANGED <<envVars, confVars, fileVars, loopVars, ingestCh, job, trigVars, ingVars, emitVars>>

-----------------------------------------------------------------------------
(* TriggerIngest: a full or file job, or a pass in the handler's own goroutine *)

TriggerCheck ==
    /\ state # "stopped" /\ triggered < MaxTriggers
    /\ triggers' = triggers + 1 /\ triggered' = triggered + 1
    /\ UNCHANGED <<envVars, confVars, fileVars, loopVars, ingestCh, workVars, once, ingVars, emitVars>>

TriggerSend ==
    /\ triggers > 0 /\ Len(ingestCh) < QueueCap
    /\ triggers' = triggers - 1
    /\ \E j \in {FullJob(Sources)} \cup {FileJob({f}) : f \in Files} : ingestCh' = Append(ingestCh, j)
    /\ UNCHANGED <<envVars, confVars, fileVars, loopVars, workVars, once, triggered, ingVars, emitVars>>

(* Its request is cancelled before the queue has room. *)
TriggerGiveUp ==
    /\ triggers > 0
    /\ triggers' = triggers - 1
    /\ UNCHANGED <<envVars, confVars, fileVars, loopVars, ingestCh, workVars, once, triggered, ingVars,
                   emitVars>>

OnceStart ==
    /\ once = {} /\ ingest["once"] = None /\ triggered < MaxTriggers
    /\ once' = Sources /\ triggered' = triggered + 1
    /\ UNCHANGED <<envVars, confVars, fileVars, loopVars, ingestCh, workVars, triggers, ingVars, emitVars>>

OnceBegin(s) ==
    /\ s \in once
    /\ Begin("once", FilesOf(s), {})
    /\ once' = once \ {s}
    /\ UNCHANGED <<envVars, confVars, fileVars, loopVars, ingestCh, workVars, triggers, triggered,
                   emitVars>>

OnceGiveUp(s) ==
    /\ s \in once /\ ingest["once"] = None
    /\ once' = once \ {s}
    /\ UNCHANGED <<envVars, confVars, fileVars, loopVars, ingestCh, workVars, triggers, triggered,
                   ingVars, emitVars>>

OnceEnd ==
    /\ ingest["once"] # None
    /\ \E ok \in BOOLEAN : Finish("once", ok)
    /\ Release("once")
    /\ UNCHANGED <<envVars, confVars, fileVars, loopVars, ingestCh, workVars, trigVars>>

-----------------------------------------------------------------------------
(* Outside: sessions are written, the config is reloaded, the daemon is told   *)
(* to stop                                                                     *)

Watches == pc \in {"register", "select", "enqueue", "flush", "rebuild"}

(* fsnotify reports the write, unless there is no watcher yet, it coalesces or *)
(* overflows, or the source has no transcript files to watch.                  *)
Write(f) ==
    /\ disk[f] <= MaxWrites
    /\ disk' = [disk EXCEPT ![f] = @ + 1]
    /\ \/ Watches /\ fsEvents' = fsEvents \cup {f}
       \/ UNCHANGED fsEvents
    /\ UNCHANGED <<ctxDone, confVars, loopVars, fileVars, ingestCh, workVars, trigVars, ingVars, emitVars>>

(* Reload publishes the snapshot and copies the callbacks under the mutex, and *)
(* runs them after it.                                                         *)
ReloadStore ==
    /\ config < MaxReloads
    /\ config' = config + 1
    /\ notifying' = IF registered THEN notifying + 1 ELSE notifying
    /\ UNCHANGED <<envVars, registered, reconcileCh, building, watching, lostChange, loopVars, fileVars,
                   ingestCh, workVars, trigVars, ingVars, emitVars>>

ReloadNotify ==
    /\ notifying > 0
    /\ notifying' = notifying - 1 /\ reconcileCh' = TRUE
    /\ UNCHANGED <<envVars, config, registered, building, watching, lostChange, loopVars, fileVars,
                   ingestCh, workVars, trigVars, ingVars, emitVars>>

Cancel ==
    /\ CanStop /\ ~ctxDone
    /\ ctxDone' = TRUE
    /\ UNCHANGED <<disk, fsEvents, confVars, loopVars, fileVars, ingestCh, workVars, trigVars, ingVars,
                   emitVars>>

-----------------------------------------------------------------------------

(* The run loop's own steps, those of a select case once it is chosen, and the *)
(* cases it chooses from.                                                      *)
RunStep ==
    \/ \E s \in Sources : StartupBegin(s) \/ StartupAbandon(s) \/ Enqueue(s)
    \/ StartupEnd \/ StartupDone \/ Register \/ Rebuild \/ ResumeFlush
    \/ Stop \/ EmitStopped \/ JoinFlusher \/ JoinWorker

SelectCase ==
    \/ SelectDone \/ SelectReconcile \/ HandlePause \/ HandleResume \/ DebounceFire \/ Tick
    \/ \E f \in Files : WatchEvent(f)

WorkerStep ==
    \/ WorkerTake \/ WorkerBegin \/ WorkerSkipUnclaimed \/ WorkerAbort \/ WorkerExit
    \/ \E ok \in BOOLEAN : WorkerEnd(ok)

TriggerStep ==
    \/ TriggerCheck \/ TriggerSend \/ TriggerGiveUp \/ OnceStart \/ OnceEnd
    \/ \E s \in Sources : OnceBegin(s) \/ OnceGiveUp(s)

Outside ==
    \/ \E f \in Files : Write(f)
    \/ ReloadStore \/ ReloadNotify \/ Cancel

Next == RunStep \/ SelectCase \/ Flusher \/ WorkerStep \/ TriggerStep \/ Outside

Spec == Init /\ [][Next]_vars

(* Goroutines run.  Go's select is random among the ready cases, so a case     *)
(* that is ready again and again is chosen: cancellation, for the run loop and *)
(* the worker, and the ticker, which never stops.  A pass that is tried again  *)
(* and again is one day not refused by the disk.                               *)
Fairness ==
    /\ WF_vars(RunStep) /\ WF_vars(Flusher) /\ WF_vars(WorkerStep) /\ WF_vars(OnceEnd)
    /\ SF_vars(SelectDone) /\ SF_vars(Tick) /\ SF_vars(WorkerExit)
    /\ SF_vars(WorkerEnd(TRUE))

FairSpec == Spec /\ Fairness

-----------------------------------------------------------------------------
(* Properties *)

Ingest == [files : SUBSET Files, read : [Files -> Nat], sources : SUBSET Sources, failed : BOOLEAN]
Job == [mode : {"file", "full"}, files : SUBSET Files, sources : SUBSET Sources]

(* The marker for no job and no ingest is neither. *)
ASSUME NoneAssumption == None \notin Job \cup Ingest

LoopStates ==
    {"startup", "register", "select", "enqueue", "flush", "rebuild", "stop", "emitStopped",
     "joinFlusher", "joinWorker", "returned"}

(* Every variable keeps its type, and neither channel exceeds its capacity. *)
TypeOK ==
    /\ disk \in [Files -> Nat] /\ fsEvents \subseteq Files /\ ctxDone \in BOOLEAN
    /\ config \in Nat /\ notifying \in Nat /\ building \in Nat /\ watching \in Nat
    /\ registered \in BOOLEAN /\ reconcileCh \in BOOLEAN /\ lostChange \in BOOLEAN
    /\ pc \in LoopStates /\ todo \subseteq Sources
    /\ resuming \in BOOLEAN /\ startupOK \in BOOLEAN
    /\ state \in {"running", "paused", "stopped"}
    /\ pendingFiles \subseteq Files /\ dirtyFiles \subseteq Files /\ timer \in BOOLEAN
    /\ ingestCh \in Seq(Job) /\ Len(ingestCh) <= QueueCap
    /\ job \in Job \cup {None} /\ workerDone \in BOOLEAN
    /\ once \subseteq Sources /\ triggers \in Nat /\ triggered \in Nat
    /\ ingest \in [Goroutines -> Ingest \cup {None}] /\ ingestSem \in BOOLEAN
    /\ store \in [Files -> Nat]
    /\ emitCh \in Seq({"event", "stopped"}) /\ Len(emitCh) <= EmitCap
    /\ flusher \in {"running", "draining", "done"}
    /\ handed \in BOOLEAN /\ stopTimedOut \in BOOLEAN

(* When Run has returned, the daemon's "stopped" transition was handed to the  *)
(* broker, unless the channel stayed full for as long as Run waits             *)
(* (run.go:35-41, 53-58).                                                      *)
StoppedIsHandedOver == pc = "returned" => handed \/ stopTimedOut

(* Between two cases of the select loop, the watcher is built from the current *)
(* roots, or a signal is there or on its way that will have it rebuilt.  The   *)
(* exception is named: a change that fell between reading the roots for the    *)
(* first watcher and registering the callback, or a rebuild that failed.       *)
WatcherIsCurrent ==
    pc = "select" /\ ~lostChange => watching = config \/ reconcileCh \/ notifying > 0

(* Three goroutines ingest, at startup, from the queue and in a handler; what  *)
(* they read may be old by the time they save it.  Still no file goes back to  *)
(* an older version in the store (acquireIngest spans read and save).          *)
StoreNeverGoesBack == [][\A f \in Files : store'[f] >= store[f]]_vars

QueuedFiles == UNION {ingestCh[i].files : i \in DOMAIN ingestCh}
Waiting == pendingFiles \cup dirtyFiles \cup QueuedFiles

(* "An automatic file job is never silently dropped" (run.go:115-117): a file  *)
(* reported by the watcher waits in the pending set, the dirty set or a queued *)
(* job until the worker has taken a job with it.                               *)
ReportedFilesWait ==
    [][\A f \in Waiting : f \in Waiting' \/ (job' # None /\ f \in job'.files)]_vars

(* Once the daemon is told to stop, or startup has failed, Run returns: it     *)
(* does not wait for ever for its flusher or its worker (run.go:57-65).        *)
RunReturns == (ctxDone \/ pc = "stop") ~> (pc = "returned")

Stopping == ctxDone \/ pc \in {"stop", "emitStopped", "joinFlusher", "joinWorker", "returned"}

(* While the service runs and is not paused for good, every version of a file  *)
(* on disk is ingested, or a later one, even when no event reported it, the    *)
(* queue refused its job or a pass failed: the ticker makes up for it.         *)
ChangeIsIngested ==
    []<>(state # "paused") =>
        \A f \in Files, v \in 1 .. (MaxWrites + 1) : disk[f] >= v ~> (store[f] >= v \/ Stopping)

-----------------------------------------------------------------------------
(* Claims of comments that the code does not keep *)

(* "watch/reconcile live events produced just before shutdown are not silently *)
(* lost" (run.go:459-462).  The flusher is drained and joined before the       *)
(* worker is cancelled, so what the worker emits meanwhile has no reader.      *)
NoEventLeftBehind == pc = "returned" => emitCh = << >>

(* "if ingestCh is full the paths stay in dirtyFiles and are retried (the      *)
(* debounce case re-arms the timer)" (run.go:115-117).  A resume flushes too,  *)
(* and stops the timer without re-arming it.                                   *)
RetryIsScheduled == pc = "select" /\ state = "running" /\ dirtyFiles # {} => timer

=============================================================================
