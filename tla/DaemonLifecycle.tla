---------------------------- MODULE DaemonLifecycle ----------------------------
(***************************************************************************)
(* Who may serve a home directory, and who may rebuild its database.         *)
(* Processes of several builds meet in the file system: daemons (`daemon      *)
(* serve`, also when autostarted), tools that open the store (`toktop         *)
(* ingest`, queries) and `daemon stop`, of which `uninstall` is a variant.    *)
(* They share the daemon lock with its pidfile (lock_unix.go), the socket     *)
(* (server.go), the store's init lock (initlock_unix.go) and the schema with  *)
(* its stamped epoch (store.go).  A process is its own pid, and a pid is not  *)
(* given twice.  A file of the home is addressed by its path: what a process  *)
(* removes is what is there by then.                                         *)
(***************************************************************************)
EXTENDS Naturals, FiniteSets

CONSTANTS
    Daemons, Tools, Stoppers,
    Uninstallers, \* stoppers that go on to remove the home
    Build,        \* schemaUserVersion of the program a process runs
    None,
    NoPid,        \* what a pidfile says that is empty or unparsable
    MaxKills      \* bound: processes that are killed

Procs == Daemons \cup Tools \cup Stoppers

ASSUME LifecycleAssumption ==
    /\ Build \in [Daemons \cup Tools -> Nat \ {0}] /\ Uninstallers \subseteq Stoppers
    /\ {None, NoPid} \cap Procs = {} /\ None # NoPid /\ MaxKills \in Nat
    /\ Daemons \cap (Tools \cup Stoppers) = {} /\ Tools \cap Stoppers = {}

VARIABLES
    pc,       \* per process, where it is
    opens,    \* per process, how often it has opened the store
    seen,     \* per process, the pid it read last
    lock,     \* who has the daemon lock exclusively, or None
    probes,   \* processes that hold it shared, for a moment
    pidfile,  \* the process it names, NoPid, or None when there is no such file
    socket,   \* the process it leads to, or None
    initLock, \* who has .init.lock
    schema,   \* stamped epoch, build of the tables, and whether all are there
    rows,     \* daemons and tools that have written rows into these tables
    signalled,
    kills,
    orphaned, \* history: the home was removed beneath a running process
    stole     \* history: a stop removed the pidfile of the daemon that has the lock

dlVars == <<pc, opens, seen, lock, probes, pidfile, socket, initLock,
            schema, rows, signalled, kills, orphaned, stole>>
fileVars == <<lock, probes>>
storeVars == <<initLock, schema, rows, opens>>
histVars == <<kills, orphaned, stole>>

Fresh == [epoch |-> 0, built |-> 0, complete |-> FALSE]

DLInit ==
    /\ pc = [p \in Procs |-> "new"] /\ opens = [p \in Procs |-> 0] /\ seen = [p \in Procs |-> None]
    /\ lock = None /\ probes = {}
    /\ pidfile = None /\ socket = None /\ initLock = None
    /\ \E v \in {0} \cup {Build[p] : p \in DOMAIN Build} :
          schema = IF v = 0 THEN Fresh ELSE [epoch |-> v, built |-> v, complete |-> TRUE]
    /\ rows = {} /\ signalled = {} /\ kills = 0 /\ orphaned = FALSE /\ stole = FALSE

Alive(p) == pc[p] \notin {"new", "gone"}
Move(p, to) == pc' = [pc EXCEPT ![p] = to]
Is(p, where) == pc[p] = where
Serving == {p \in Daemons : Is(p, "serving")}

-----------------------------------------------------------------------------
(* The daemon lock.  acquireDaemonLock tries twice, because a probe holds the    *)
(* lock shared for a moment.                                                     *)

Free(p) == lock = None /\ probes \subseteq {p}

Launch(p) ==
    /\ Is(p, "new") /\ Move(p, IF p \in Daemons THEN "lock" ELSE IF p \in Tools THEN "open" ELSE "readpid")
    /\ UNCHANGED <<fileVars, storeVars, histVars, seen, pidfile, socket, signalled>>

TryLock(p) ==
    /\ pc[p] \in {"lock", "retry"}
    /\ IF Free(p)
       THEN lock' = p /\ Move(p, "writepid")
       ELSE UNCHANGED lock /\ Move(p, IF Is(p, "lock") THEN "retry" ELSE "gone")
    /\ UNCHANGED <<storeVars, histVars, probes, seen, pidfile, socket, signalled>>

Unlocked(p) == IF lock = p THEN None ELSE lock
InitUnlocked(p) == IF initLock = p THEN None ELSE initLock

(* os.WriteFile creates or truncates the file and writes it afterwards, into     *)
(* nowhere if it was removed in between.  Each may fail; then only the lock is     *)
(* given back.                                                                   *)
TruncatePid(p) ==
    /\ Is(p, "writepid")
    /\ \/ pidfile' = NoPid /\ stole' = FALSE /\ Move(p, "pidwrite")
       \/ UNCHANGED <<pidfile, stole>> /\ Move(p, "unlock")
    /\ UNCHANGED <<fileVars, storeVars, kills, orphaned, seen, socket, signalled>>

WritePid(p) ==
    /\ Is(p, "pidwrite")
    /\ \/ pidfile' = (IF pidfile = None THEN None ELSE p) /\ Move(p, "open")
       \/ UNCHANGED pidfile /\ Move(p, "unlock")
    /\ UNCHANGED <<fileVars, storeVars, histVars, seen, socket, signalled>>

(* release: the pidfile goes while the lock is still held.                        *)
RemovePid(p) ==
    /\ Is(p, "release") /\ pidfile' = None /\ Move(p, "unlock")
    /\ UNCHANGED <<fileVars, storeVars, histVars, seen, socket, signalled>>

Unlock(p) ==
    /\ Is(p, "unlock") /\ lock' = Unlocked(p) /\ Move(p, "gone")
    /\ UNCHANGED <<storeVars, histVars, probes, seen, pidfile, socket, signalled>>

(* daemonLockedElsewhere: a shared lock is tried; when that fails the pidfile      *)
(* tells whose lock it is.  The answers lead to the states yes and no.            *)
Probe(p, from, no, ask) ==
    /\ Is(p, from)
    /\ IF lock = None
       THEN probes' = probes \cup {p} /\ Move(p, no) ELSE UNCHANGED probes /\ Move(p, ask)
    /\ UNCHANGED <<storeVars, histVars, lock, seen, pidfile, socket, signalled>>

(* The probe's shared lock is given back before anything else happens.             *)
ProbeDone(p) ==
    /\ p \in probes /\ probes' = probes \ {p}
    /\ UNCHANGED <<storeVars, histVars, pc, lock, seen, pidfile, socket, signalled>>

-----------------------------------------------------------------------------
(* sqlite.Open: one process at a time compares the epoch, wipes, builds, stamps.   *)

AcquireInitLock(p) ==
    /\ Is(p, "open") /\ initLock = None /\ initLock' = p /\ Move(p, "epoch")
    /\ UNCHANGED <<fileVars, histVars, schema, rows, opens, seen, pidfile, socket, signalled>>

\* the epoch check with the wipe guard dropped
EnsureUnguarded(p) ==
    /\ Is(p, "epoch")
    /\ Move(p, IF schema.epoch = Build[p] THEN "migrated"
               ELSE IF schema.built = 0 THEN "build" ELSE "wipe")
    /\ UNCHANGED <<fileVars, storeVars, histVars, seen, pidfile, socket, signalled>>

EnsureSchemaEpoch(p) ==
    /\ Is(p, "epoch")
    /\ Move(p, IF schema.epoch = Build[p] THEN "migrated"
               ELSE IF schema.built = 0 THEN "build" ELSE "guard")
    /\ UNCHANGED <<fileVars, storeVars, histVars, seen, pidfile, socket, signalled>>

StoreWipeGuard(p) == p \notin probes /\ Probe(p, "guard", "wipe", "whose")

Refused(p) == IF p \in Daemons THEN "release" ELSE "gone"

(* The lock is this process's own, or another's: then the wipe is refused.        *)
WipeGuardAnswer(p) ==
    /\ Is(p, "whose")
    /\ IF pidfile = p THEN Move(p, "wipe") /\ UNCHANGED initLock
       ELSE Move(p, Refused(p)) /\ initLock' = None
    /\ UNCHANGED <<fileVars, histVars, schema, rows, opens, seen, pidfile, socket, signalled>>

(* One transaction drops the tables and clears the epoch.                          *)
WipeSchema(p) ==
    /\ Is(p, "wipe") /\ p \notin probes
    /\ schema' = Fresh /\ rows' = {} /\ Move(p, "build")
    /\ UNCHANGED <<fileVars, histVars, initLock, opens, seen, pidfile, socket, signalled>>

\* the stamp written with the first migration
StampEarly(p) ==
    /\ Is(p, "build")
    /\ schema' = [epoch |-> Build[p], built |-> Build[p], complete |-> (schema.built = Build[p])]
    /\ Move(p, IF schema'.complete THEN "migrated" ELSE "build")
    /\ UNCHANGED <<fileVars, histVars, initLock, rows, opens, seen, pidfile, socket, signalled>>

(* goose applies each migration, of which there are two, in a transaction of its    *)
(* own.  At the current epoch it finds nothing to apply.                          *)
ApplyMigration(p) ==
    /\ Is(p, "build")
    /\ schema' = [schema EXCEPT !.built = Build[p], !.complete = (schema.built = Build[p])]
    /\ Move(p, IF schema'.complete THEN "stamp" ELSE "build")
    /\ UNCHANGED <<fileVars, histVars, initLock, rows, opens, seen, pidfile, socket, signalled>>

Stamp(p) ==
    /\ Is(p, "stamp") /\ schema' = [schema EXCEPT !.epoch = Build[p]] /\ Move(p, "migrated")
    /\ UNCHANGED <<fileVars, histVars, initLock, rows, opens, seen, pidfile, socket, signalled>>

(* The init lock is released; a daemon opens the store twice, for the loop and in  *)
(* NewServer.                                                                     *)
Opened(p) ==
    /\ Is(p, "migrated") /\ initLock' = None
    /\ opens' = [opens EXCEPT ![p] = @ + 1]
    /\ Move(p, IF p \in Tools THEN "working" ELSE IF opens[p] = 0 THEN "open" ELSE "bind")
    /\ UNCHANGED <<fileVars, histVars, schema, rows, seen, pidfile, socket, signalled>>

-----------------------------------------------------------------------------
(* Serving *)

(* A socket file left behind is removed first.  A daemon whose bind fails leaves   *)
(* as one that was told to stop.                                                  *)
Listen(p) ==
    /\ Is(p, "bind")
    /\ \/ socket' = p /\ Move(p, "serving")
       \/ socket' = None /\ Move(p, "release")
    /\ UNCHANGED <<fileVars, storeVars, histVars, seen, pidfile, signalled>>

Ingest(p) ==
    /\ pc[p] \in {"serving", "working"} /\ rows' = rows \cup {p} /\ rows' # rows
    /\ UNCHANGED <<fileVars, histVars, initLock, schema, opens, pc, seen, pidfile, socket, signalled>>

ToolDone(p) ==
    /\ Is(p, "working") /\ Move(p, "gone")
    /\ UNCHANGED <<fileVars, storeVars, histVars, seen, pidfile, socket, signalled>>

\* a shutdown that gives the lock back before the socket is gone
ShutdownUnlocking(p) ==
    /\ Is(p, "serving") /\ Move(p, "closing") /\ lock' = Unlocked(p)
    /\ UNCHANGED <<probes, storeVars, histVars, seen, pidfile, socket, signalled>>

(* A signal, an idle minute or an error cancels the loop.                          *)
Shutdown(p) ==
    /\ Is(p, "serving") /\ Move(p, "closing")
    /\ UNCHANGED <<fileVars, storeVars, histVars, seen, pidfile, socket, signalled>>

(* The server is closed and the socket file removed, before the lock is released.  *)
RemoveSocket(p) ==
    /\ Is(p, "closing") /\ socket' = None /\ Move(p, "release")
    /\ UNCHANGED <<fileVars, storeVars, histVars, seen, pidfile, signalled>>

(* A process is killed: its locks go, its files stay.                              *)
Kill(p) ==
    /\ Alive(p) /\ kills < MaxKills /\ kills' = kills + 1
    /\ Move(p, "gone") /\ lock' = Unlocked(p) /\ probes' = probes \ {p}
    /\ initLock' = InitUnlocked(p)
    /\ UNCHANGED <<schema, rows, opens, orphaned, stole, seen, pidfile, socket, signalled>>

-----------------------------------------------------------------------------
(* daemon stop, and uninstall *)

Finished(u) == IF u \in Uninstallers THEN "remove" ELSE "gone"

(* A file without a pid in it is taken for stale at once, whoever has the lock.   *)
ReadPid(u) ==
    /\ Is(u, "readpid") /\ seen' = [seen EXCEPT ![u] = pidfile]
    /\ Move(u, CASE pidfile = None -> Finished(u) [] pidfile = NoPid -> "stale" [] OTHER -> "probe")
    /\ UNCHANGED <<fileVars, storeVars, histVars, pidfile, socket, signalled>>

ProbeStop(u) == u \notin probes /\ Probe(u, "probe", "stale", "match")

(* The pidfile is there, and the daemon that has the lock wrote or is writing it. *)
PidfileOfOwner == lock # None /\ pidfile # None /\ (pidfile = lock \/ Is(lock, "pidwrite"))

(* Nobody held the lock, signalling failed, or there was no pid: whatever file is  *)
(* there by now is removed as stale.                                              *)
CleanPidfile(u) ==
    /\ Is(u, "stale") /\ u \notin probes
    /\ pidfile' = None /\ stole' = (stole \/ PidfileOfOwner)
    /\ Move(u, Finished(u))
    /\ UNCHANGED <<fileVars, storeVars, kills, orphaned, seen, socket, signalled>>

(* The pidfile is read once more for the owner of the lock; one that names nobody  *)
(* contradicts nothing.                                                           *)
MatchPid(u) ==
    /\ Is(u, "match")
    /\ Move(u, IF pidfile \in {None, NoPid, seen[u]} THEN "signal" ELSE Finished(u))
    /\ UNCHANGED <<fileVars, storeVars, histVars, seen, pidfile, socket, signalled>>

Signal(u) ==
    /\ Is(u, "signal")
    /\ IF Alive(seen[u]) THEN signalled' = signalled \cup {seen[u]} /\ Move(u, "poll")
       ELSE UNCHANGED signalled /\ Move(u, "stale")
    /\ UNCHANGED <<fileVars, storeVars, histVars, seen, pidfile, socket>>

(* The lock is polled for five seconds; the answer is the same either way.         *)
Polled(u) ==
    /\ Is(u, "poll") /\ Move(u, Finished(u))
    /\ UNCHANGED <<fileVars, storeVars, histVars, seen, pidfile, socket, signalled>>

(* SIGTERM cancels a daemon wherever it is; what it has it releases.               *)
Terminate(p) ==
    /\ p \in signalled /\ pc[p] \in {"open", "epoch", "wipe", "build", "stamp", "migrated", "bind", "serving"} /\ p \notin probes
    /\ Move(p, IF Is(p, "serving") THEN "closing" ELSE "release")
    /\ initLock' = InitUnlocked(p)
    /\ UNCHANGED <<fileVars, histVars, schema, rows, opens, seen, pidfile, socket, signalled>>

(* RemoveAll takes the files away from under whoever still runs; what follows of   *)
(* that is not modelled.                                                          *)
RemoveHome(u) ==
    /\ Is(u, "remove") /\ Move(u, "gone")
    /\ orphaned' = \E p \in Daemons \cup Tools : Alive(p)
    /\ lock' = None /\ pidfile' = None /\ socket' = None /\ initLock' = None
    /\ schema' = Fresh /\ rows' = {}
    /\ UNCHANGED <<probes, opens, seen, signalled, kills, stole>>

-----------------------------------------------------------------------------
DLNext ==
  /\ ~ orphaned
  /\ \E p \in Procs :
        \/ Launch(p) \/ ProbeDone(p) \/ Kill(p)
        \/ p \in Daemons /\ (\/ TryLock(p) \/ TruncatePid(p) \/ WritePid(p) \/ Listen(p) \/ Shutdown(p)
                             \/ RemoveSocket(p) \/ RemovePid(p) \/ Unlock(p) \/ Terminate(p))
        \/ p \notin Stoppers /\ (\/ AcquireInitLock(p) \/ EnsureSchemaEpoch(p) \/ StoreWipeGuard(p)
                                 \/ WipeGuardAnswer(p) \/ WipeSchema(p) \/ ApplyMigration(p)
                                 \/ Stamp(p) \/ Opened(p) \/ Ingest(p) \/ ToolDone(p))
        \/ p \in Stoppers /\ (\/ ReadPid(p) \/ ProbeStop(p) \/ CleanPidfile(p) \/ MatchPid(p)
                              \/ Signal(p) \/ Polled(p) \/ RemoveHome(p))

-----------------------------------------------------------------------------
(* Properties *)

(* One daemon serves a home at a time, through races to start, crashes with stale  *)
(* files, and stops; only a home removed beneath a running process makes room for *)
(* another (acquireDaemonLock).  The socket leads to it, and so does the pidfile,  *)
(* which never names another: it is only missing when a stop removed it after this *)
(* daemon had created it (stole).  A stop does that when it read no pid while the   *)
(* file was being written, or judged an earlier daemon gone and was overtaken by    *)
(* this one (runDaemonStop).                                                       *)
OneDaemon ==
    orphaned \/ (/\ Cardinality(Serving) <= 1
                /\ \A p \in Serving : socket = p /\ pidfile = IF stole THEN None ELSE p)

(* A stamped epoch means that every table of that epoch is there, whenever a       *)
(* process dies between wiping, migrating and stamping (migrate, wipeSchema).     *)
EpochTruthful ==
    schema.epoch # 0 => schema.built = schema.epoch /\ schema.complete

(* What a daemon wrote belongs to the epoch of the tables: no daemon of another     *)
(* build fills a rebuilt schema with the rows of its parsers (storeWipeGuard).    *)
RowsOfEpoch ==
    orphaned \/ \A p \in rows \cap Daemons : schema.epoch = Build[p]

DLSpec == DLInit /\ [][DLNext]_dlVars
=============================================================================
