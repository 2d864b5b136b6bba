---------------------------- MODULE DaemonProofs ----------------------------
(***************************************************************************)
(* The promises of the daemon and of the files it shares.  One serves a home, a *)
(* stamped epoch is truthful and a daemon's rows belong to it: for any processes *)
(* of any builds and any number of kills.  The spool's counter is exact and its   *)
(* shutdown loses nothing silently: for any requests, body lengths, budget and     *)
(* buffer.  The running configuration catches up with its file and acknowledged     *)
(* settings stay, for any keys, writers, edits and interleaving.  A provider's       *)
(* settings file keeps what is its owner's, for any lists of entries and any runs     *)
(* of the command.                                                                     *)
(***************************************************************************)
EXTENDS DaemonLifecycle, HookSpool, ConfigStore, HookSettings, FiniteSetTheorems, SequenceTheorems, Recursion, TLAPS

-----------------------------------------------------------------------------
(* Processes, files and the schema *)

(* Places by what a process has there: the init lock, the right to change the     *)
(* schema, a pidfile of its own, the daemon lock.                                *)
Changing == {"wipe", "build", "stamp"}
InInit == {"epoch", "guard", "whose", "migrated"} \cup Changing
Named == {"open", "bind", "serving", "closing", "release"} \cup InInit
Locked == {"writepid", "pidwrite", "unlock"} \cup Named
Places == {"new", "gone", "lock", "retry", "working", "readpid", "probe", "stale", "match", "signal",
           "poll", "remove"} \cup Locked

DLTypeOK ==
    /\ pc \in [Procs -> Places] /\ opens \in [Procs -> Nat]
    /\ seen \in [Procs -> Daemons \cup {None, NoPid}]
    /\ \A p \in Procs : pc[p] \in {"probe", "match", "signal"} => seen[p] \notin {None, NoPid}
    /\ lock \in Daemons \cup {None} /\ probes \subseteq Procs
    /\ pidfile \in Daemons \cup {None, NoPid} /\ socket \in Daemons \cup {None}
    /\ initLock \in Daemons \cup Tools \cup {None}
    /\ schema \in [epoch : Nat, built : Nat, complete : BOOLEAN]
    /\ rows \subseteq Daemons \cup Tools /\ signalled \subseteq Daemons
    /\ kills \in Nat /\ orphaned \in BOOLEAN /\ stole \in BOOLEAN

(* The locks are where the program counters say. *)
LockOwned == \A p \in Daemons : pc[p] \in Locked => lock = p
InitOwned == \A p \in Procs : pc[p] \in InInit => initLock = p

(* The files of the home lead to the daemon that has the lock, from when it has   *)
(* created its pidfile until it removes it. *)
FilesLead ==
    \A p \in Daemons : /\ pc[p] = "pidwrite" => pidfile = IF stole THEN None ELSE NoPid
                       /\ pc[p] \in Named => pidfile = IF stole THEN None ELSE p
                       /\ pc[p] = "serving" => socket = p

(* What a process under the init lock knows of the schema. *)
SchemaKnown ==
    \A p \in Procs :
        /\ pc[p] \in {"build", "stamp"} => schema.epoch = 0
        /\ pc[p] = "stamp" => schema.built = Build[p] /\ schema.complete
        /\ pc[p] = "migrated" => schema.epoch = Build[p]

(* A daemon that has opened the store finds its epoch there until it leaves, since *)
(* nobody who might change the schema gets past the wipe guard.                    *)
Ready(p) ==
    \/ pc[p] \in {"bind", "serving"}
    \/ opens[p] # 0 /\ pc[p] \in {"open", "epoch", "migrated"}
ReadyStays ==
    \A p \in Daemons :
        /\ pc[p] \in {"new", "lock", "retry", "writepid", "pidwrite"} => opens[p] = 0
        /\ pc[p] # "working"
        /\ Ready(p) => schema.epoch = Build[p] /\ \A q \in Procs : pc[q] \notin Changing

DLInv ==
    /\ DLTypeOK /\ EpochTruthful
    /\ orphaned \/ (LockOwned /\ InitOwned /\ FilesLead /\ SchemaKnown /\ ReadyStays /\ RowsOfEpoch)

-----------------------------------------------------------------------------
(* Every step keeps the invariant *)

Placement == LockOwned /\ InitOwned /\ FilesLead /\ SchemaKnown /\ ReadyStays /\ RowsOfEpoch

USE DEF Is, Move, Alive, fileVars, storeVars, histVars, Procs

(* The lock is taken when nobody has it. *)
LEMMA TryLockKeeps ==
    ASSUME DLTypeOK, EpochTruthful, Placement, ~ orphaned, NEW p \in Daemons, TryLock(p)
    PROVE  DLTypeOK' /\ EpochTruthful' /\ Placement'
<1> USE DEF Placement, TryLock, Free
<1>1. DLTypeOK'
  BY DEF DLTypeOK, Places, Locked, Named, InInit, Changing
<1>2. EpochTruthful'
  BY DEF EpochTruthful
<1>3. LockOwned'
  BY LifecycleAssumption DEF DLTypeOK, LockOwned, Locked, Named, InInit, Changing
<1>4. InitOwned'
  BY DEF DLTypeOK, InitOwned, InInit, Changing
<1>5. FilesLead'
  BY DEF DLTypeOK, LockOwned, FilesLead, Locked, Named, InInit, Changing
<1>6. SchemaKnown'
  BY DEF DLTypeOK, InitOwned, SchemaKnown, EpochTruthful, InInit, Changing
<1>7. ReadyStays'
  BY DEF DLTypeOK, LockOwned, InitOwned, SchemaKnown, ReadyStays, Ready,
                              FilesLead, EpochTruthful, Locked, Named, InInit, Changing
<1>8. RowsOfEpoch'
  BY DEF RowsOfEpoch
<1> QED
  BY <1>1, <1>2, <1>3, <1>4, <1>5, <1>6, <1>7, <1>8

(* The pidfile is created under the lock. *)
LEMMA TruncatePidKeeps ==
    ASSUME DLTypeOK, EpochTruthful, Placement, ~ orphaned, NEW p \in Daemons, TruncatePid(p)
    PROVE  DLTypeOK' /\ EpochTruthful' /\ Placement'
<1> USE DEF Placement, TruncatePid
<1>1. DLTypeOK'
  BY DEF DLTypeOK, Places, Locked, Named, InInit, Changing
<1>2. EpochTruthful'
  BY DEF EpochTruthful
<1>3. LockOwned'
  BY DEF DLTypeOK, LockOwned, Locked, Named, InInit, Changing
<1>4. InitOwned'
  BY DEF DLTypeOK, InitOwned, InInit, Changing
<1>5. FilesLead'
  BY DEF DLTypeOK, LockOwned, FilesLead, Locked, Named, InInit, Changing
<1>6. SchemaKnown'
  BY DEF DLTypeOK, InitOwned, SchemaKnown, EpochTruthful, InInit, Changing
<1>7. ReadyStays'
  BY DEF DLTypeOK, LockOwned, InitOwned, SchemaKnown, ReadyStays, Ready,
                              FilesLead, EpochTruthful, Locked, Named, InInit, Changing
<1>8. RowsOfEpoch'
  BY DEF RowsOfEpoch
<1> QED
  BY <1>1, <1>2, <1>3, <1>4, <1>5, <1>6, <1>7, <1>8

(* The pidfile is written under the lock. *)
LEMMA WritePidKeeps ==
    ASSUME DLTypeOK, EpochTruthful, Placement, ~ orphaned, NEW p \in Daemons, WritePid(p)
    PROVE  DLTypeOK' /\ EpochTruthful' /\ Placement'
<1> USE DEF Placement, WritePid
<1>1. DLTypeOK'
  BY DEF DLTypeOK, Places, Locked, Named, InInit, Changing
<1>2. EpochTruthful'
  BY DEF EpochTruthful
<1>3. LockOwned'
  BY DEF DLTypeOK, LockOwned, Locked, Named, InInit, Changing
<1>4. InitOwned'
  BY DEF DLTypeOK, InitOwned, InInit, Changing
<1>5. FilesLead'
  BY LifecycleAssumption DEF DLTypeOK, LockOwned, FilesLead, Locked, Named, InInit, Changing
<1>6. SchemaKnown'
  BY DEF DLTypeOK, InitOwned, SchemaKnown, EpochTruthful, InInit, Changing
<1>7. ReadyStays'
  BY DEF DLTypeOK, LockOwned, InitOwned, SchemaKnown, ReadyStays, Ready,
                              FilesLead, EpochTruthful, Locked, Named, InInit, Changing
<1>8. RowsOfEpoch'
  BY DEF RowsOfEpoch
<1> QED
  BY <1>1, <1>2, <1>3, <1>4, <1>5, <1>6, <1>7, <1>8

(* The pidfile is removed under the lock. *)
LEMMA RemovePidKeeps ==
    ASSUME DLTypeOK, EpochTruthful, Placement, ~ orphaned, NEW p \in Daemons, RemovePid(p)
    PROVE  DLTypeOK' /\ EpochTruthful' /\ Placement'
<1> USE DEF Placement, RemovePid
<1>1. DLTypeOK'
  BY DEF DLTypeOK, Places, Locked, Named, InInit, Changing
<1>2. EpochTruthful'
  BY DEF EpochTruthful
<1>3. LockOwned'
  BY DEF DLTypeOK, LockOwned, Locked, Named, InInit, Changing
<1>4. InitOwned'
  BY DEF DLTypeOK, InitOwned, InInit, Changing
<1>5. FilesLead'
  BY DEF DLTypeOK, LockOwned, FilesLead, Locked, Named, InInit, Changing
<1>6. SchemaKnown'
  BY DEF DLTypeOK, InitOwned, SchemaKnown, EpochTruthful, InInit, Changing
<1>7. ReadyStays'
  BY DEF DLTypeOK, LockOwned, InitOwned, SchemaKnown, ReadyStays, Ready,
                              FilesLead, EpochTruthful, Locked, Named, InInit, Changing
<1>8. RowsOfEpoch'
  BY DEF RowsOfEpoch
<1> QED
  BY <1>1, <1>2, <1>3, <1>4, <1>5, <1>6, <1>7, <1>8

(* The lock is given back by the daemon that has it. *)
LEMMA UnlockKeeps ==
    ASSUME DLTypeOK, EpochTruthful, Placement, ~ orphaned, NEW p \in Daemons, Unlock(p)
    PROVE  DLTypeOK' /\ EpochTruthful' /\ Placement'
<1> USE DEF Placement, Unlock, Unlocked
<1>1. DLTypeOK'
  BY DEF DLTypeOK, Places, Locked, Named, InInit, Changing
<1>2. EpochTruthful'
  BY DEF EpochTruthful
<1>3. LockOwned'
  BY DEF DLTypeOK, LockOwned, Locked, Named, InInit, Changing
<1>4. InitOwned'
  BY DEF DLTypeOK, InitOwned, InInit, Changing
<1>5. FilesLead'
  BY DEF DLTypeOK, LockOwned, FilesLead, Locked, Named, InInit, Changing
<1>6. SchemaKnown'
  BY DEF DLTypeOK, InitOwned, SchemaKnown, EpochTruthful, InInit, Changing
<1>7. ReadyStays'
  BY DEF DLTypeOK, LockOwned, InitOwned, SchemaKnown, ReadyStays, Ready,
                              FilesLead, EpochTruthful, Locked, Named, InInit, Changing
<1>8. RowsOfEpoch'
  BY DEF RowsOfEpoch
<1> QED
  BY <1>1, <1>2, <1>3, <1>4, <1>5, <1>6, <1>7, <1>8

(* The init lock is taken when nobody has it. *)
LEMMA AcquireInitLockKeeps ==
    ASSUME DLTypeOK, EpochTruthful, Placement, ~ orphaned, NEW p \in Daemons \cup Tools, AcquireInitLock(p)
    PROVE  DLTypeOK' /\ EpochTruthful' /\ Placement'
<1> USE DEF Placement, AcquireInitLock
<1>1. DLTypeOK'
  BY DEF DLTypeOK, Places, Locked, Named, InInit, Changing
<1>2. EpochTruthful'
  BY DEF EpochTruthful
<1>3. LockOwned'
  BY DEF DLTypeOK, LockOwned, Locked, Named, InInit, Changing
<1>4. InitOwned'
  BY LifecycleAssumption DEF DLTypeOK, InitOwned, InInit, Changing
<1>5. FilesLead'
  BY DEF DLTypeOK, LockOwned, FilesLead, Locked, Named, InInit, Changing
<1>6. SchemaKnown'
  BY DEF DLTypeOK, InitOwned, SchemaKnown, EpochTruthful, InInit, Changing
<1>7. ReadyStays'
  BY DEF DLTypeOK, LockOwned, InitOwned, SchemaKnown, ReadyStays, Ready,
                              FilesLead, EpochTruthful, Locked, Named, InInit, Changing
<1>8. RowsOfEpoch'
  BY DEF RowsOfEpoch
<1> QED
  BY <1>1, <1>2, <1>3, <1>4, <1>5, <1>6, <1>7, <1>8

(* The epoch is compared under the init lock. *)
LEMMA EnsureSchemaEpochKeeps ==
    ASSUME DLTypeOK, EpochTruthful, Placement, ~ orphaned, NEW p \in Daemons \cup Tools, EnsureSchemaEpoch(p)
    PROVE  DLTypeOK' /\ EpochTruthful' /\ Placement'
<1> USE DEF Placement, EnsureSchemaEpoch
<1>1. DLTypeOK'
  BY DEF DLTypeOK, Places, Locked, Named, InInit, Changing
<1>2. EpochTruthful'
  BY DEF EpochTruthful
<1>3. LockOwned'
  BY DEF DLTypeOK, LockOwned, Locked, Named, InInit, Changing
<1>4. InitOwned'
  BY DEF DLTypeOK, InitOwned, InInit, Changing
<1>5. FilesLead'
  BY DEF DLTypeOK, LockOwned, FilesLead, Locked, Named, InInit, Changing
<1>6. SchemaKnown'
  BY DEF DLTypeOK, InitOwned, SchemaKnown, EpochTruthful, InInit, Changing
<1>7. ReadyStays'
  BY LifecycleAssumption DEF DLTypeOK, LockOwned, InitOwned, SchemaKnown, ReadyStays, Ready,
                              FilesLead, EpochTruthful, Locked, Named, InInit, Changing
<1>8. RowsOfEpoch'
  BY DEF RowsOfEpoch
<1> QED
  BY <1>1, <1>2, <1>3, <1>4, <1>5, <1>6, <1>7, <1>8

(* A wipe starts when the daemon lock is free. *)
LEMMA StoreWipeGuardKeeps ==
    ASSUME DLTypeOK, EpochTruthful, Placement, ~ orphaned, NEW p \in Daemons \cup Tools, StoreWipeGuard(p)
    PROVE  DLTypeOK' /\ EpochTruthful' /\ Placement'
<1> USE DEF Placement, StoreWipeGuard, Probe
<1>1. DLTypeOK'
  BY DEF DLTypeOK, Places, Locked, Named, InInit, Changing
<1>2. EpochTruthful'
  BY DEF EpochTruthful
<1>3. LockOwned'
  BY DEF DLTypeOK, LockOwned, Locked, Named, InInit, Changing
<1>4. InitOwned'
  BY DEF DLTypeOK, InitOwned, InInit, Changing
<1>5. FilesLead'
  BY DEF DLTypeOK, LockOwned, FilesLead, Locked, Named, InInit, Changing
<1>6. SchemaKnown'
  BY DEF DLTypeOK, InitOwned, SchemaKnown, EpochTruthful, InInit, Changing
<1>7. ReadyStays'
  BY LifecycleAssumption DEF DLTypeOK, LockOwned, InitOwned, SchemaKnown, ReadyStays, Ready,
                              FilesLead, EpochTruthful, Locked, Named, InInit, Changing
<1>8. RowsOfEpoch'
  BY DEF RowsOfEpoch
<1> QED
  BY <1>1, <1>2, <1>3, <1>4, <1>5, <1>6, <1>7, <1>8

(* A wipe starts when the daemon lock is the process's own. *)
LEMMA WipeGuardAnswerKeeps ==
    ASSUME DLTypeOK, EpochTruthful, Placement, ~ orphaned, NEW p \in Daemons \cup Tools, WipeGuardAnswer(p)
    PROVE  DLTypeOK' /\ EpochTruthful' /\ Placement'
<1> USE DEF Placement, WipeGuardAnswer, Refused
<1>1. DLTypeOK'
  BY DEF DLTypeOK, Places, Locked, Named, InInit, Changing
<1>2. EpochTruthful'
  BY DEF EpochTruthful
<1>3. LockOwned'
  BY DEF DLTypeOK, LockOwned, Locked, Named, InInit, Changing
<1>4. InitOwned'
  BY DEF DLTypeOK, InitOwned, InInit, Changing
<1>5. FilesLead'
  BY DEF DLTypeOK, LockOwned, FilesLead, Locked, Named, InInit, Changing
<1>6. SchemaKnown'
  BY DEF DLTypeOK, InitOwned, SchemaKnown, EpochTruthful, InInit, Changing
<1>7. ReadyStays'
  BY LifecycleAssumption DEF DLTypeOK, LockOwned, InitOwned, SchemaKnown, ReadyStays, Ready,
                              FilesLead, EpochTruthful, Locked, Named, InInit, Changing
<1>8. RowsOfEpoch'
  BY DEF RowsOfEpoch
<1> QED
  BY <1>1, <1>2, <1>3, <1>4, <1>5, <1>6, <1>7, <1>8

(* The wipe clears the epoch together with the rows. *)
LEMMA WipeSchemaKeeps ==
    ASSUME DLTypeOK, EpochTruthful, Placement, ~ orphaned, NEW p \in Daemons \cup Tools, WipeSchema(p)
    PROVE  DLTypeOK' /\ EpochTruthful' /\ Placement'
<1> USE DEF Placement, WipeSchema, Fresh
<1>1. DLTypeOK'
  BY DEF DLTypeOK, Places, Locked, Named, InInit, Changing
<1>2. EpochTruthful'
  BY DEF DLTypeOK, EpochTruthful, SchemaKnown
<1>3. LockOwned'
  BY DEF DLTypeOK, LockOwned, Locked, Named, InInit, Changing
<1>4. InitOwned'
  BY DEF DLTypeOK, InitOwned, InInit, Changing
<1>5. FilesLead'
  BY DEF DLTypeOK, LockOwned, FilesLead, Locked, Named, InInit, Changing
<1>6. SchemaKnown'
  BY DEF DLTypeOK, InitOwned, SchemaKnown, EpochTruthful, InInit, Changing
<1>7. ReadyStays'
  BY DEF DLTypeOK, LockOwned, InitOwned, SchemaKnown, ReadyStays, Ready,
                              FilesLead, EpochTruthful, Locked, Named, InInit, Changing
<1>8. RowsOfEpoch'
  BY DEF DLTypeOK, RowsOfEpoch, SchemaKnown, EpochTruthful, ReadyStays, Ready
<1> QED
  BY <1>1, <1>2, <1>3, <1>4, <1>5, <1>6, <1>7, <1>8

(* A migration builds tables whose epoch is not stamped. *)
LEMMA ApplyMigrationKeeps ==
    ASSUME DLTypeOK, EpochTruthful, Placement, ~ orphaned, NEW p \in Daemons \cup Tools, ApplyMigration(p)
    PROVE  DLTypeOK' /\ EpochTruthful' /\ Placement'
<1> USE DEF Placement, ApplyMigration
<1>1. DLTypeOK'
  BY LifecycleAssumption DEF DLTypeOK, Places, Locked, Named, InInit, Changing
<1>2. EpochTruthful'
  BY DEF DLTypeOK, EpochTruthful, SchemaKnown
<1>3. LockOwned'
  BY DEF DLTypeOK, LockOwned, Locked, Named, InInit, Changing
<1>4. InitOwned'
  BY DEF DLTypeOK, InitOwned, InInit, Changing
<1>5. FilesLead'
  BY DEF DLTypeOK, LockOwned, FilesLead, Locked, Named, InInit, Changing
<1>6. SchemaKnown'
  BY DEF DLTypeOK, InitOwned, SchemaKnown, EpochTruthful, InInit, Changing
<1>7. ReadyStays'
  BY DEF DLTypeOK, LockOwned, InitOwned, SchemaKnown, ReadyStays, Ready,
                              FilesLead, EpochTruthful, Locked, Named, InInit, Changing
<1>8. RowsOfEpoch'
  BY DEF DLTypeOK, RowsOfEpoch, SchemaKnown, EpochTruthful, ReadyStays, Ready
<1> QED
  BY <1>1, <1>2, <1>3, <1>4, <1>5, <1>6, <1>7, <1>8

(* The stamp follows the last migration. *)
LEMMA StampKeeps ==
    ASSUME DLTypeOK, EpochTruthful, Placement, ~ orphaned, NEW p \in Daemons \cup Tools, Stamp(p)
    PROVE  DLTypeOK' /\ EpochTruthful' /\ Placement'
<1> USE DEF Placement, Stamp
<1>1. DLTypeOK'
  BY LifecycleAssumption DEF DLTypeOK, Places, Locked, Named, InInit, Changing
<1>2. EpochTruthful'
  BY DEF DLTypeOK, EpochTruthful, SchemaKnown
<1>3. LockOwned'
  BY DEF DLTypeOK, LockOwned, Locked, Named, InInit, Changing
<1>4. InitOwned'
  BY DEF DLTypeOK, InitOwned, InInit, Changing
<1>5. FilesLead'
  BY DEF DLTypeOK, LockOwned, FilesLead, Locked, Named, InInit, Changing
<1>6. SchemaKnown'
  BY DEF DLTypeOK, InitOwned, SchemaKnown, EpochTruthful, InInit, Changing
<1>7. ReadyStays'
  BY DEF DLTypeOK, LockOwned, InitOwned, SchemaKnown, ReadyStays, Ready,
                              FilesLead, EpochTruthful, Locked, Named, InInit, Changing
<1>8. RowsOfEpoch'
  BY LifecycleAssumption DEF DLTypeOK, RowsOfEpoch, SchemaKnown, EpochTruthful, ReadyStays, Ready
<1> QED
  BY <1>1, <1>2, <1>3, <1>4, <1>5, <1>6, <1>7, <1>8

(* Who leaves the init lock has found its epoch. *)
LEMMA OpenedKeeps ==
    ASSUME DLTypeOK, EpochTruthful, Placement, ~ orphaned, NEW p \in Daemons \cup Tools, Opened(p)
    PROVE  DLTypeOK' /\ EpochTruthful' /\ Placement'
<1> USE DEF Placement, Opened
<1>1. DLTypeOK'
  BY DEF DLTypeOK, Places, Locked, Named, InInit, Changing
<1>2. EpochTruthful'
  BY DEF EpochTruthful
<1>3. LockOwned'
  BY DEF DLTypeOK, LockOwned, Locked, Named, InInit, Changing
<1>4. InitOwned'
  BY DEF DLTypeOK, InitOwned, InInit, Changing
<1>5. FilesLead'
  BY DEF DLTypeOK, LockOwned, FilesLead, Locked, Named, InInit, Changing
<1>6. SchemaKnown'
  BY DEF DLTypeOK, InitOwned, SchemaKnown, EpochTruthful, InInit, Changing
<1>7. ReadyStays'
  BY LifecycleAssumption DEF DLTypeOK, LockOwned, InitOwned, SchemaKnown, ReadyStays, Ready,
                              FilesLead, EpochTruthful, Locked, Named, InInit, Changing
<1>8. RowsOfEpoch'
  BY DEF RowsOfEpoch
<1> QED
  BY <1>1, <1>2, <1>3, <1>4, <1>5, <1>6, <1>7, <1>8

(* The socket is bound under the daemon lock. *)
LEMMA ListenKeeps ==
    ASSUME DLTypeOK, EpochTruthful, Placement, ~ orphaned, NEW p \in Daemons, Listen(p)
    PROVE  DLTypeOK' /\ EpochTruthful' /\ Placement'
<1> USE DEF Placement, Listen
<1>1. DLTypeOK'
  BY DEF DLTypeOK, Places, Locked, Named, InInit, Changing
<1>2. EpochTruthful'
  BY DEF EpochTruthful
<1>3. LockOwned'
  BY DEF DLTypeOK, LockOwned, Locked, Named, InInit, Changing
<1>4. InitOwned'
  BY DEF DLTypeOK, InitOwned, InInit, Changing
<1>5. FilesLead'
  BY DEF DLTypeOK, LockOwned, FilesLead, Locked, Named, InInit, Changing
<1>6. SchemaKnown'
  BY DEF DLTypeOK, InitOwned, SchemaKnown, EpochTruthful, InInit, Changing
<1>7. ReadyStays'
  BY DEF DLTypeOK, LockOwned, InitOwned, SchemaKnown, ReadyStays, Ready,
                              FilesLead, EpochTruthful, Locked, Named, InInit, Changing
<1>8. RowsOfEpoch'
  BY DEF RowsOfEpoch
<1> QED
  BY <1>1, <1>2, <1>3, <1>4, <1>5, <1>6, <1>7, <1>8

(* A daemon that serves writes rows of its epoch. *)
LEMMA IngestKeeps ==
    ASSUME DLTypeOK, EpochTruthful, Placement, ~ orphaned, NEW p \in Daemons \cup Tools, Ingest(p)
    PROVE  DLTypeOK' /\ EpochTruthful' /\ Placement'
<1> USE DEF Placement, Ingest
<1>1. DLTypeOK'
  BY DEF DLTypeOK, Places, Locked, Named, InInit, Changing
<1>2. EpochTruthful'
  BY DEF EpochTruthful
<1>3. LockOwned'
  BY DEF DLTypeOK, LockOwned, Locked, Named, InInit, Changing
<1>4. InitOwned'
  BY DEF DLTypeOK, InitOwned, InInit, Changing
<1>5. FilesLead'
  BY DEF DLTypeOK, LockOwned, FilesLead, Locked, Named, InInit, Changing
<1>6. SchemaKnown'
  BY DEF DLTypeOK, InitOwned, SchemaKnown, EpochTruthful, InInit, Changing
<1>7. ReadyStays'
  BY DEF DLTypeOK, LockOwned, InitOwned, SchemaKnown, ReadyStays, Ready,
                              FilesLead, EpochTruthful, Locked, Named, InInit, Changing
<1>8. RowsOfEpoch'
  BY DEF DLTypeOK, RowsOfEpoch, SchemaKnown, EpochTruthful, ReadyStays, Ready
<1> QED
  BY <1>1, <1>2, <1>3, <1>4, <1>5, <1>6, <1>7, <1>8

(* The socket is removed under the daemon lock. *)
LEMMA RemoveSocketKeeps ==
    ASSUME DLTypeOK, EpochTruthful, Placement, ~ orphaned, NEW p \in Daemons, RemoveSocket(p)
    PROVE  DLTypeOK' /\ EpochTruthful' /\ Placement'
<1> USE DEF Placement, RemoveSocket
<1>1. DLTypeOK'
  BY DEF DLTypeOK, Places, Locked, Named, InInit, Changing
<1>2. EpochTruthful'
  BY DEF EpochTruthful
<1>3. LockOwned'
  BY DEF DLTypeOK, LockOwned, Locked, Named, InInit, Changing
<1>4. InitOwned'
  BY DEF DLTypeOK, InitOwned, InInit, Changing
<1>5. FilesLead'
  BY DEF DLTypeOK, LockOwned, FilesLead, Locked, Named, InInit, Changing
<1>6. SchemaKnown'
  BY DEF DLTypeOK, InitOwned, SchemaKnown, EpochTruthful, InInit, Changing
<1>7. ReadyStays'
  BY DEF DLTypeOK, LockOwned, InitOwned, SchemaKnown, ReadyStays, Ready,
                              FilesLead, EpochTruthful, Locked, Named, InInit, Changing
<1>8. RowsOfEpoch'
  BY DEF RowsOfEpoch
<1> QED
  BY <1>1, <1>2, <1>3, <1>4, <1>5, <1>6, <1>7, <1>8

(* A process that is killed loses its locks. *)
LEMMA KillKeeps ==
    ASSUME DLTypeOK, EpochTruthful, Placement, ~ orphaned, NEW p \in Procs, Kill(p)
    PROVE  DLTypeOK' /\ EpochTruthful' /\ Placement'
<1> USE DEF Placement, Kill, Unlocked, InitUnlocked
<1>1. DLTypeOK'
  BY DEF DLTypeOK, Places, Locked, Named, InInit, Changing
<1>2. EpochTruthful'
  BY DEF EpochTruthful
<1>3. LockOwned'
  BY DEF DLTypeOK, LockOwned, Locked, Named, InInit, Changing
<1>4. InitOwned'
  BY DEF DLTypeOK, InitOwned, InInit, Changing
<1>5. FilesLead'
  BY DEF DLTypeOK, LockOwned, FilesLead, Locked, Named, InInit, Changing
<1>6. SchemaKnown'
  BY DEF DLTypeOK, InitOwned, SchemaKnown, EpochTruthful, InInit, Changing
<1>7. ReadyStays'
  BY DEF DLTypeOK, LockOwned, InitOwned, SchemaKnown, ReadyStays, Ready,
                              FilesLead, EpochTruthful, Locked, Named, InInit, Changing
<1>8. RowsOfEpoch'
  BY DEF RowsOfEpoch
<1> QED
  BY <1>1, <1>2, <1>3, <1>4, <1>5, <1>6, <1>7, <1>8

(* A stop that removes the pidfile of the lock's owner has stolen it. *)
LEMMA CleanPidfileKeeps ==
    ASSUME DLTypeOK, EpochTruthful, Placement, ~ orphaned, NEW p \in Stoppers, CleanPidfile(p)
    PROVE  DLTypeOK' /\ EpochTruthful' /\ Placement'
<1> USE DEF Placement, CleanPidfile, Finished
<1>1. DLTypeOK'
  BY DEF DLTypeOK, Places, Locked, Named, InInit, Changing
<1>2. EpochTruthful'
  BY DEF EpochTruthful
<1>3. LockOwned'
  BY DEF DLTypeOK, LockOwned, Locked, Named, InInit, Changing
<1>4. InitOwned'
  BY DEF DLTypeOK, InitOwned, InInit, Changing
<1>5. FilesLead'
  <2> SUFFICES ASSUME NEW q \in Daemons
               PROVE  /\ pc'[q] = "pidwrite" => pidfile' = IF stole' THEN None ELSE NoPid
                      /\ pc'[q] \in Named => pidfile' = IF stole' THEN None ELSE q
                      /\ pc'[q] = "serving" => socket' = q
    BY DEF FilesLead
  <2>1. pc'[q] \in Locked => pc'[q] = pc[q]
    BY DEF DLTypeOK, Locked, Named, InInit, Changing
  <2>2. pc'[q] \in Locked => lock = q
    BY <2>1 DEF LockOwned
  <2>3. q # None /\ NoPid # None
    BY LifecycleAssumption
  <2>4. CASE pc'[q] = "pidwrite"
    <3>1. pc[q] = "pidwrite" /\ lock = q /\ pc'[q] \notin Named /\ pc'[q] # "serving"
      BY <2>1, <2>2, <2>4 DEF Locked, Named, InInit, Changing
    <3>2. pidfile = IF stole THEN None ELSE NoPid
      BY <3>1 DEF FilesLead
    <3>3. stole'
      BY <3>1, <3>2, <2>3 DEF PidfileOfOwner
    <3> QED
      BY <3>1, <3>3
  <2>5. CASE pc'[q] \in Named
    <3>1. pc[q] \in Named /\ lock = q /\ pc'[q] # "pidwrite"
      BY <2>1, <2>2, <2>5 DEF Locked, Named, InInit, Changing
    <3>2. pidfile = IF stole THEN None ELSE q
      BY <3>1 DEF FilesLead
    <3>3. stole'
      BY <3>1, <3>2, <2>3 DEF PidfileOfOwner
    <3>4. pc'[q] = "serving" => socket' = q
      BY <2>1 DEF FilesLead, Locked, Named
    <3> QED
      BY <3>1, <3>3, <3>4
  <2> QED
    BY <2>4, <2>5 DEF Named
<1>6. SchemaKnown'
  BY DEF DLTypeOK, InitOwned, SchemaKnown, EpochTruthful, InInit, Changing
<1>7. ReadyStays'
  BY DEF DLTypeOK, LockOwned, InitOwned, SchemaKnown, ReadyStays, Ready,
                              FilesLead, EpochTruthful, Locked, Named, InInit, Changing
<1>8. RowsOfEpoch'
  BY DEF RowsOfEpoch
<1> QED
  BY <1>1, <1>2, <1>3, <1>4, <1>5, <1>6, <1>7, <1>8

(* A daemon that is told to stop gives back the init lock first. *)
LEMMA TerminateKeeps ==
    ASSUME DLTypeOK, EpochTruthful, Placement, ~ orphaned, NEW p \in Daemons, Terminate(p)
    PROVE  DLTypeOK' /\ EpochTruthful' /\ Placement'
<1> USE DEF Placement, Terminate, InitUnlocked
<1>1. DLTypeOK'
  BY DEF DLTypeOK, Places, Locked, Named, InInit, Changing
<1>2. EpochTruthful'
  BY DEF EpochTruthful
<1>3. LockOwned'
  BY DEF DLTypeOK, LockOwned, Locked, Named, InInit, Changing
<1>4. InitOwned'
  BY DEF DLTypeOK, InitOwned, InInit, Changing
<1>5. FilesLead'
  BY DEF DLTypeOK, LockOwned, FilesLead, Locked, Named, InInit, Changing
<1>6. SchemaKnown'
  BY DEF DLTypeOK, InitOwned, SchemaKnown, EpochTruthful, InInit, Changing
<1>7. ReadyStays'
  BY DEF DLTypeOK, LockOwned, InitOwned, SchemaKnown, ReadyStays, Ready,
                              FilesLead, EpochTruthful, Locked, Named, InInit, Changing
<1>8. RowsOfEpoch'
  BY DEF RowsOfEpoch
<1> QED
  BY <1>1, <1>2, <1>3, <1>4, <1>5, <1>6, <1>7, <1>8

(* The moves of a process that touch neither a lock nor a file. *)
LEMMA QuietKeeps ==
    ASSUME DLTypeOK, EpochTruthful, Placement, ~ orphaned, NEW p \in Procs,
           \/ Launch(p) \/ ProbeDone(p)
           \/ p \in Daemons /\ Shutdown(p)
           \/ p \notin Stoppers /\ ToolDone(p)
           \/ p \in Stoppers /\ (ReadPid(p) \/ ProbeStop(p) \/ MatchPid(p) \/ Signal(p) \/ Polled(p))
    PROVE  DLTypeOK' /\ EpochTruthful' /\ Placement'
<1> USE DEF Placement, Launch, ProbeDone, Shutdown, ToolDone, ReadPid, ProbeStop, Probe, MatchPid, Signal,
            Polled, Finished
<1>1. DLTypeOK'
  <2>1. pc' \in [Procs -> Places]
    BY DEF DLTypeOK, Places, Locked, Named, InInit, Changing
  <2>2. /\ seen' \in [Procs -> Daemons \cup {None, NoPid}]
        /\ \A q \in Procs : pc'[q] \in {"probe", "match", "signal"} => seen'[q] \notin {None, NoPid}
    BY DEF DLTypeOK
  <2>3. signalled' \subseteq Daemons /\ probes' \subseteq Procs
    BY LifecycleAssumption DEF DLTypeOK
  <2> QED
    BY <2>1, <2>2, <2>3 DEF DLTypeOK
<1>2. EpochTruthful' /\ RowsOfEpoch'
  BY DEF EpochTruthful, RowsOfEpoch
<1>3. LockOwned' /\ FilesLead'
  BY LifecycleAssumption DEF DLTypeOK, LockOwned, FilesLead, Locked, Named, InInit, Changing
<1>4. InitOwned' /\ SchemaKnown'
  BY LifecycleAssumption DEF DLTypeOK, InitOwned, SchemaKnown, InInit, Changing
<1>5. ReadyStays'
  BY LifecycleAssumption DEF DLTypeOK, ReadyStays, Ready, Changing
<1> QED
  BY <1>1, <1>2, <1>3, <1>4, <1>5

(* An uninstall clears the home, and goes unnoticed only when nobody runs. *)
LEMMA RemoveHomeKeeps ==
    ASSUME DLTypeOK, EpochTruthful, Placement, ~ orphaned, NEW p \in Stoppers, RemoveHome(p)
    PROVE  DLTypeOK' /\ EpochTruthful' /\ (orphaned' \/ Placement')
<1> USE DEF Placement, RemoveHome, Fresh
<1>1. DLTypeOK'
  BY LifecycleAssumption DEF DLTypeOK, Places
<1>2. EpochTruthful'
  BY DEF EpochTruthful
<1>3. ASSUME ~ orphaned' PROVE Placement'
  <2>1. \A q \in Daemons \cup Tools : pc'[q] \in {"new", "gone"}
    BY <1>3, LifecycleAssumption DEF DLTypeOK
  <2>2. pc'[p] = "gone" /\ \A q \in Stoppers \ {p} : pc'[q] = pc[q]
    BY DEF DLTypeOK
  <2>3. LockOwned' /\ FilesLead'
    BY <2>1 DEF LockOwned, FilesLead, Locked, Named, InInit, Changing
  <2>4. InitOwned'
    BY <2>1, <2>2, LifecycleAssumption DEF DLTypeOK, InitOwned, InInit, Changing
  <2>5. SchemaKnown'
    BY <2>1, <2>2, LifecycleAssumption DEF DLTypeOK, InitOwned, InInit, Changing, SchemaKnown
  <2>6. ReadyStays' /\ RowsOfEpoch'
    BY <2>1, LifecycleAssumption DEF DLTypeOK, ReadyStays, Ready, RowsOfEpoch
  <2> QED
    BY <2>3, <2>4, <2>5, <2>6
<1> QED
  BY <1>1, <1>2, <1>3

(* Nobody runs when the home is first looked at. *)
LEMMA InitPlaced == DLInit => DLInv
<1> SUFFICES ASSUME DLInit PROVE DLInv
  OBVIOUS
<1>1. PICK v \in {0} \cup {Build[p] : p \in DOMAIN Build} :
          schema = IF v = 0 THEN Fresh ELSE [epoch |-> v, built |-> v, complete |-> TRUE]
  BY DEF DLInit
<1>2. v \in Nat
  BY LifecycleAssumption
<1>3. schema \in [epoch : Nat, built : Nat, complete : BOOLEAN] /\ EpochTruthful
  <2>1. CASE v = 0
    BY <1>1, <2>1 DEF Fresh, EpochTruthful
  <2>2. CASE v # 0
    BY <1>1, <1>2, <2>2 DEF EpochTruthful
  <2> QED
    BY <2>1, <2>2
<1>4. DLTypeOK
  BY <1>3 DEF DLInit, DLTypeOK, Places
<1>5. Placement
  BY DEF DLInit, Placement, LockOwned, InitOwned, FilesLead, SchemaKnown, ReadyStays, Ready,
         RowsOfEpoch, Locked, Named, InInit, Changing
<1> QED
  BY <1>3, <1>4, <1>5 DEF DLInv, Placement

(* The inductive invariant of the daemons' files and locks. *)
THEOREM LifecycleInvariance == DLSpec => []DLInv
<1>1. DLInit => DLInv
  BY InitPlaced
<1>2. DLInv /\ [DLNext]_dlVars => DLInv'
  <2> SUFFICES ASSUME DLInv, [DLNext]_dlVars PROVE DLInv'
    OBVIOUS
  <2>1. CASE UNCHANGED dlVars
    BY <2>1 DEF dlVars, DLInv, DLTypeOK, EpochTruthful, LockOwned, InitOwned, FilesLead, SchemaKnown,
                ReadyStays, Ready, RowsOfEpoch
  <2>2. CASE DLNext
    <3> USE DEF Placement
    <3>1. ~ orphaned /\ DLTypeOK /\ EpochTruthful /\ Placement
      BY <2>2 DEF DLNext, DLInv
    <3>2. PICK p \in Procs :
            \/ Launch(p) \/ ProbeDone(p) \/ Kill(p)
            \/ p \in Daemons /\ (\/ TryLock(p) \/ TruncatePid(p) \/ WritePid(p) \/ Listen(p) \/ Shutdown(p)
                                 \/ RemoveSocket(p) \/ RemovePid(p) \/ Unlock(p) \/ Terminate(p))
            \/ p \notin Stoppers /\ (\/ AcquireInitLock(p) \/ EnsureSchemaEpoch(p) \/ StoreWipeGuard(p)
                                     \/ WipeGuardAnswer(p) \/ WipeSchema(p) \/ ApplyMigration(p)
                                     \/ Stamp(p) \/ Opened(p) \/ Ingest(p) \/ ToolDone(p))
            \/ p \in Stoppers /\ (\/ ReadPid(p) \/ ProbeStop(p) \/ CleanPidfile(p) \/ MatchPid(p)
                                  \/ Signal(p) \/ Polled(p) \/ RemoveHome(p))
      BY <2>2 DEF DLNext
    <3> HIDE DEF Placement
    <3>3. DLTypeOK' /\ EpochTruthful' /\ (orphaned' \/ Placement')
      <4>1. CASE \/ Launch(p) \/ ProbeDone(p)
                 \/ p \in Daemons /\ Shutdown(p)
                 \/ p \notin Stoppers /\ ToolDone(p)
                 \/ p \in Stoppers /\ (ReadPid(p) \/ ProbeStop(p) \/ MatchPid(p) \/ Signal(p) \/ Polled(p))
        BY <3>1, <4>1, QuietKeeps
      <4>2. CASE Kill(p)
        BY <3>1, <4>2, KillKeeps
      <4>3. CASE p \in Daemons /\ (\/ TryLock(p) \/ TruncatePid(p) \/ WritePid(p) \/ Listen(p)
                                    \/ RemoveSocket(p))
        BY <3>1, <4>3, TryLockKeeps, TruncatePidKeeps, WritePidKeeps, ListenKeeps, RemoveSocketKeeps
      <4>4. CASE p \in Daemons /\ (RemovePid(p) \/ Unlock(p) \/ Terminate(p))
        BY <3>1, <4>4, RemovePidKeeps, UnlockKeeps, TerminateKeeps
      <4>5. CASE p \notin Stoppers /\ (\/ AcquireInitLock(p) \/ EnsureSchemaEpoch(p)
                                       \/ StoreWipeGuard(p) \/ WipeGuardAnswer(p))
        BY <3>1, <4>5, AcquireInitLockKeeps, EnsureSchemaEpochKeeps, StoreWipeGuardKeeps, WipeGuardAnswerKeeps
      <4>6. CASE p \notin Stoppers /\ (\/ WipeSchema(p) \/ ApplyMigration(p) \/ Stamp(p)
                                       \/ Opened(p) \/ Ingest(p))
        BY <3>1, <4>6, WipeSchemaKeeps, ApplyMigrationKeeps, StampKeeps, OpenedKeeps, IngestKeeps
      <4>7. CASE p \in Stoppers /\ (CleanPidfile(p) \/ RemoveHome(p))
        BY <3>1, <4>7, CleanPidfileKeeps, RemoveHomeKeeps
      <4> QED
        BY <3>2, <4>1, <4>2, <4>3, <4>4, <4>5, <4>6, <4>7
    <3> QED
      BY <3>3 DEF DLInv, Placement
  <2> QED
    BY <2>1, <2>2
<1> QED
  BY <1>1, <1>2, PTL DEF DLSpec

(* One daemon serves a home; its socket and its pidfile name it, but for a pidfile *)
(* that a stop removed after this daemon had created it.                           *)
THEOREM OneDaemonServes == DLSpec => []OneDaemon
<1>1. DLInv => OneDaemon
  <2> SUFFICES ASSUME DLInv, ~ orphaned PROVE OneDaemon
    BY DEF OneDaemon
  <2>1. Serving \in SUBSET {lock}
    BY DEF DLInv, LockOwned, Serving, Locked, Named
  <2>2. IsFiniteSet({lock}) /\ Cardinality({lock}) = 1
    BY FS_Singleton
  <2>3. IsFiniteSet(Serving) /\ Cardinality(Serving) <= 1
    BY <2>1, <2>2, FS_Subset
  <2>4. \A p \in Serving : socket = p /\ pidfile = IF stole THEN None ELSE p
    BY DEF DLInv, FilesLead, Serving, Named
  <2> QED
    BY <2>3, <2>4 DEF OneDaemon
<1> QED
  BY <1>1, LifecycleInvariance, PTL

(* A stamped epoch means a schema built to the end by that build, wherever a       *)
(* process dies.                                                                   *)
THEOREM StampIsTruthful == DLSpec => []EpochTruthful
<1>1. DLInv => EpochTruthful
  BY DEF DLInv
<1> QED
  BY <1>1, LifecycleInvariance, PTL

(* The rows of a daemon are in tables of its own epoch. *)
THEOREM RowsMatchEpoch == DLSpec => []RowsOfEpoch
<1>1. DLInv => RowsOfEpoch
  BY DEF DLInv, RowsOfEpoch
<1> QED
  BY <1>1, LifecycleInvariance, PTL

-----------------------------------------------------------------------------
(* The hook spool *)

Points == {"read", "lock", "load", "swap", "send", "emit", "done"}

SpoolTypeOK ==
    /\ at \in [Hooks -> Points] /\ loaded \in [Hooks -> Nat] /\ queued \in Nat
    /\ spoolCh \in Seq(Hooks)
    /\ writing = {} \/ \E h \in Hooks : writing = {h}
    /\ rotated \in BOOLEAN /\ days \in Nat /\ closing \in {"no", "drain", "done"}
    /\ onDisk \subseteq Hooks /\ failed \subseteq Hooks /\ dropped \subseteq Hooks
    /\ emitted \subseteq Hooks

Placed == InChannel \cup writing \cup onDisk \cup failed \cup dropped

(* A body is in one place at a time: with its handler until it was sent or      *)
(* dropped, then in one slot of the channel, then with the writer, then at its  *)
(* end.                                                                         *)
OnePlace ==
    /\ \A i, j \in 1 .. Len(spoolCh) : spoolCh[i] = spoolCh[j] => i = j
    /\ \A h \in Placed : at[h] \in {"emit", "done"}
    /\ \A h \in InChannel : h \notin writing \cup onDisk \cup failed \cup dropped
    /\ \A h \in dropped : h \notin writing \cup onDisk \cup failed
    /\ \A h \in onDisk : h \notin failed

(* The counter, and what a reservation may rely on when nobody else moved it.   *)
Counted ==
    /\ IsFiniteSet(BytesOf(Held))
    /\ queued = Cardinality(BytesOf(Held))
    /\ queued <= Budget
    /\ \A h \in Hooks : at[h] = "swap" => loaded[h] + Length[h] <= Budget

(* What is left when Close has the lock, and when it is done.                   *)
Closed ==
    /\ closing \in {"drain", "done"} => Readers = {}
    /\ closing = "done" => spoolCh = <<>> /\ writing = {}

(* A handler emits when its body was placed, unless the server was closed.      *)
Emitted ==
    /\ \A h \in Hooks : at[h] \notin {"read", "done"} => Accepted(h)
    /\ \A h \in Hooks : at[h] = "emit" /\ closing # "done" => h \in Placed
    /\ \A h \in emitted : Accepted(h) /\ h \in Placed
    /\ closing = "no" => \A h \in Hooks : at[h] = "done" /\ Accepted(h) => h \in emitted

SpoolInv == SpoolTypeOK /\ OnePlace /\ Counted /\ Closed /\ Emitted

-----------------------------------------------------------------------------
(* Bodies and channels *)

(* A body that was not counted adds its bytes. *)
LEMMA BytesOfAdded ==
    ASSUME SpoolTypeOK, NEW S \in SUBSET Hooks, NEW h \in Hooks \ S, IsFiniteSet(BytesOf(S))
    PROVE  /\ IsFiniteSet(BytesOf(S \cup {h}))
           /\ Cardinality(BytesOf(S \cup {h})) = Cardinality(BytesOf(S)) + Length[h]
<1> DEFINE own == {h} \X (1 .. Length[h])
<1>1. Length[h] \in Nat
  BY HookSpoolAssumption
<1>2. IsFiniteSet(1 .. Length[h]) /\ Cardinality(1 .. Length[h]) = Length[h]
  BY <1>1, FS_Interval
<1>3. IsFiniteSet({h}) /\ Cardinality({h}) = 1
  BY FS_Singleton
<1>4. IsFiniteSet(own) /\ Cardinality(own) = Length[h]
  <2>1. IsFiniteSet(own) /\ Cardinality(own) = Cardinality({h}) * Cardinality(1 .. Length[h])
    BY <1>2, <1>3, FS_Product
  <2>2. Cardinality(own) = 1 * Length[h]
    BY <2>1, <1>2, <1>3
  <2> QED
    BY <1>1, <2>1, <2>2
<1>5. BytesOf(S \cup {h}) = BytesOf(S) \cup own
  BY DEF BytesOf
<1>6. BytesOf(S) \cap own = {}
  BY DEF BytesOf
<1>7. Cardinality(BytesOf(S) \cap own) = 0
  BY <1>6, FS_EmptySet
<1>8. Cardinality(BytesOf(S)) \in Nat
  BY FS_CardinalityType
<1> HIDE DEF own
<1>9. /\ IsFiniteSet(BytesOf(S) \cup own)
      /\ Cardinality(BytesOf(S) \cup own)
            = Cardinality(BytesOf(S)) + Cardinality(own) - Cardinality(BytesOf(S) \cap own)
  BY <1>4, FS_Union
<1>10. /\ IsFiniteSet(BytesOf(S \cup {h}))
       /\ Cardinality(BytesOf(S \cup {h})) = Cardinality(BytesOf(S) \cup own)
  BY <1>5, <1>9, Zenon
<1> QED
  BY <1>1, <1>4, <1>7, <1>8, <1>9, <1>10

(* A body that was counted takes its bytes away, and they were there. *)
LEMMA BytesOfRemoved ==
    ASSUME SpoolTypeOK, NEW S \in SUBSET Hooks, NEW h \in S, IsFiniteSet(BytesOf(S))
    PROVE  /\ IsFiniteSet(BytesOf(S \ {h}))
           /\ Cardinality(BytesOf(S \ {h})) = Cardinality(BytesOf(S)) - Length[h]
           /\ Cardinality(BytesOf(S \ {h})) \in Nat
<1>1. BytesOf(S \ {h}) \in SUBSET BytesOf(S)
  BY DEF BytesOf
<1>2. IsFiniteSet(BytesOf(S \ {h}))
  BY <1>1, FS_Subset
<1>3. (S \ {h}) \cup {h} = S
  OBVIOUS
<1>4. Cardinality(BytesOf(S)) = Cardinality(BytesOf(S \ {h})) + Length[h]
  BY <1>2, <1>3, BytesOfAdded
<1>5. Cardinality(BytesOf(S \ {h})) \in Nat /\ Length[h] \in Nat
  BY <1>2, FS_CardinalityType, HookSpoolAssumption
<1> QED
  BY <1>2, <1>4, <1>5

(* What a send does to the channel. *)
LEMMA ChannelSend ==
    ASSUME SpoolTypeOK, OnePlace, NEW h \in Hooks, h \notin InChannel,
           spoolCh' = Append(spoolCh, h)
    PROVE  /\ spoolCh' \in Seq(Hooks)
           /\ InChannel' = InChannel \cup {h}
           /\ \A i, j \in 1 .. Len(spoolCh') : spoolCh'[i] = spoolCh'[j] => i = j
<1> DEFINE n == Len(spoolCh)
<1>1. n \in Nat /\ Len(spoolCh') = n + 1 /\ spoolCh' \in Seq(Hooks)
  BY DEF SpoolTypeOK
<1>2. \A i \in 1 .. n : spoolCh'[i] = spoolCh[i]
  BY DEF SpoolTypeOK
<1>3. spoolCh'[n + 1] = h
  BY DEF SpoolTypeOK
<1>4. InChannel' = InChannel \cup {h}
  <2>1. InChannel' \subseteq InChannel \cup {h}
    <3> SUFFICES ASSUME NEW i \in 1 .. n + 1 PROVE spoolCh'[i] \in InChannel \cup {h}
      BY <1>1 DEF InChannel
    <3>1. CASE i \in 1 .. n
      BY <3>1, <1>2 DEF InChannel
    <3>2. CASE i = n + 1
      BY <3>2, <1>3
    <3> QED
      BY <3>1, <3>2, <1>1
  <2>2. InChannel \cup {h} \subseteq InChannel'
    BY <1>1, <1>2, <1>3 DEF InChannel
  <2> QED
    BY <2>1, <2>2
<1>5. ASSUME NEW i \in 1 .. Len(spoolCh'), NEW j \in 1 .. Len(spoolCh'), spoolCh'[i] = spoolCh'[j]
      PROVE  i = j
  <2>1. CASE i \in 1 .. n /\ j \in 1 .. n
    BY <2>1, <1>2, <1>5 DEF OnePlace
  <2>2. CASE i = n + 1 /\ j \in 1 .. n
    BY <2>2, <1>2, <1>3, <1>5 DEF InChannel
  <2>3. CASE j = n + 1 /\ i \in 1 .. n
    BY <2>3, <1>2, <1>3, <1>5 DEF InChannel
  <2> QED
    BY <2>1, <2>2, <2>3, <1>1
<1> QED
  BY <1>1, <1>4, <1>5

(* What a receive does to it. *)
LEMMA ChannelReceive ==
    ASSUME SpoolTypeOK, OnePlace, spoolCh # <<>>, spoolCh' = Tail(spoolCh)
    PROVE  /\ spoolCh' \in Seq(Hooks) /\ Head(spoolCh) \in Hooks
           /\ Head(spoolCh) \in InChannel
           /\ InChannel' = InChannel \ {Head(spoolCh)}
           /\ \A i, j \in 1 .. Len(spoolCh') : spoolCh'[i] = spoolCh'[j] => i = j
<1> DEFINE n == Len(spoolCh)
<1>1. n \in Nat \ {0} /\ Len(spoolCh') = n - 1 /\ spoolCh' \in Seq(Hooks)
  BY DEF SpoolTypeOK
<1>2. \A i \in 1 .. n - 1 : spoolCh'[i] = spoolCh[i + 1]
  BY <1>1 DEF SpoolTypeOK
<1>3. Head(spoolCh) = spoolCh[1] /\ spoolCh[1] \in Hooks /\ spoolCh[1] \in InChannel
  BY <1>1 DEF SpoolTypeOK, InChannel
<1>4. \A i \in 2 .. n : spoolCh[i] # spoolCh[1]
  BY <1>1 DEF OnePlace
<1>5. InChannel' = InChannel \ {spoolCh[1]}
  <2>1. ASSUME NEW i \in 1 .. n - 1 PROVE spoolCh'[i] \in InChannel \ {spoolCh[1]}
    BY <1>1, <1>2, <1>4 DEF InChannel
  <2>2. ASSUME NEW i \in 1 .. n, spoolCh[i] # spoolCh[1] PROVE spoolCh[i] \in InChannel'
    <3>1. i - 1 \in 1 .. n - 1 /\ spoolCh'[i - 1] = spoolCh[i]
      BY <1>1, <1>2, <2>2
    <3> QED
      BY <3>1, <1>1 DEF InChannel
  <2>3. InChannel' = {spoolCh'[i] : i \in 1 .. n - 1} /\ InChannel = {spoolCh[i] : i \in 1 .. n}
    BY <1>1 DEF InChannel
  <2> QED
    BY <2>1, <2>2, <2>3
<1>6. \A i, j \in 1 .. Len(spoolCh') : spoolCh'[i] = spoolCh'[j] => i = j
  BY <1>1, <1>2 DEF OnePlace
<1> QED
  BY <1>1, <1>3, <1>5, <1>6

-----------------------------------------------------------------------------
(* Every step keeps the invariant *)

USE DEF ToPoint, fates

(* Places hold bodies of requests. *)
LEMMA PlacedAreHooks == SpoolTypeOK => Placed \subseteq Hooks
  BY DEF SpoolTypeOK, Placed, InChannel

(* The server starts with an empty spool. *)
LEMMA InitSettled == SpoolInit => SpoolInv
<1> SUFFICES ASSUME SpoolInit PROVE SpoolInv
  OBVIOUS
<1>1. SpoolTypeOK
  <2>1. at \in [Hooks -> Points] /\ loaded \in [Hooks -> Nat]
    BY DEF SpoolInit, Points
  <2>2. spoolCh \in Seq(Hooks) /\ days \in Nat /\ queued \in Nat
    BY DEF SpoolInit
  <2>3. rotated \in BOOLEAN
    BY Zenon DEF SpoolInit
  <2> QED
    BY <2>1, <2>2, <2>3 DEF SpoolInit, SpoolTypeOK
<1>2. Held = {} /\ InChannel = {} /\ Placed = {} /\ BytesOf(Held) = {}
  BY DEF SpoolInit, Held, InChannel, Placed, BytesOf
<1>3. Counted
  <2>1. IsFiniteSet(BytesOf(Held)) /\ Cardinality(BytesOf(Held)) = 0
    BY <1>2, FS_EmptySet
  <2> QED
    BY <2>1, HookSpoolAssumption DEF SpoolInit, Counted
<1> QED
  BY <1>1, <1>2, <1>3 DEF SpoolInv, SpoolInit, OnePlace, Closed, Emitted

(* A body that was read is accepted or refused. *)
LEMMA ReadBodyKeeps ==
    ASSUME SpoolInv, NEW h \in Hooks, ReadBody(h)
    PROVE  SpoolInv'
<1> USE DEF SpoolInv
<1>1. SpoolTypeOK'
  BY DEF SpoolTypeOK, Points, ReadBody
<1>2. InChannel' = InChannel /\ Placed' = Placed /\ Held' = Held
  BY DEF SpoolTypeOK, InChannel, Placed, Held, ReadBody
<1>3. OnePlace'
  BY <1>2 DEF SpoolTypeOK, OnePlace, Placed, ReadBody
<1>4. Counted'
  BY <1>2 DEF SpoolTypeOK, Counted, BytesOf, ReadBody
<1>5. Closed'
  BY DEF SpoolTypeOK, Closed, Readers, ReadBody
<1>6. Emitted'
  BY <1>2 DEF SpoolTypeOK, Emitted, OnePlace, Accepted, ReadBody
<1> QED
  BY <1>1, <1>3, <1>4, <1>5, <1>6

(* Under the read lock the server is open until the lock is given back. *)
LEMMA RLockKeeps ==
    ASSUME SpoolInv, NEW h \in Hooks, RLock(h)
    PROVE  SpoolInv'
<1> USE DEF SpoolInv
<1>1. SpoolTypeOK'
  BY DEF SpoolTypeOK, Points, RLock
<1>2. InChannel' = InChannel /\ Placed' = Placed /\ Held' = Held
  BY DEF SpoolTypeOK, InChannel, Placed, Held, RLock
<1>3. OnePlace'
  BY <1>2 DEF SpoolTypeOK, OnePlace, Placed, RLock
<1>4. Counted'
  BY <1>2 DEF SpoolTypeOK, Counted, BytesOf, RLock
<1>5. Closed'
  BY DEF SpoolTypeOK, Closed, Readers, RLock
<1>6. Emitted'
  BY <1>2 DEF SpoolTypeOK, Emitted, OnePlace, Accepted, RLock
<1> QED
  BY <1>1, <1>3, <1>4, <1>5, <1>6

(* Emitting leaves the body where it is. *)
LEMMA EmitKeeps ==
    ASSUME SpoolInv, NEW h \in Hooks, EmitHook(h)
    PROVE  SpoolInv'
<1> USE DEF SpoolInv
<1>1. SpoolTypeOK'
  BY DEF SpoolTypeOK, Points, EmitHook
<1>2. InChannel' = InChannel /\ Placed' = Placed /\ Held' = Held
  BY DEF SpoolTypeOK, InChannel, Placed, Held, EmitHook
<1>3. OnePlace'
  BY <1>2 DEF SpoolTypeOK, OnePlace, Placed, EmitHook
<1>4. Counted'
  BY <1>2 DEF SpoolTypeOK, Counted, BytesOf, EmitHook
<1>5. Closed'
  BY DEF SpoolTypeOK, Closed, Readers, EmitHook
<1>6. Emitted'
  BY <1>2 DEF SpoolTypeOK, Emitted, OnePlace, Accepted, EmitHook
<1> QED
  BY <1>1, <1>3, <1>4, <1>5, <1>6

(* A load that finds no room drops the body, one that does keeps what it saw. *)
LEMMA LoadKeeps ==
    ASSUME SpoolInv, NEW h \in Hooks, LoadQueued(h)
    PROVE  SpoolInv'
<1> USE DEF SpoolInv
<1>1. SpoolTypeOK'
  BY DEF SpoolTypeOK, Points, LoadQueued
<1>2. InChannel' = InChannel /\ Held' = Held /\ h \notin Placed
  BY DEF SpoolTypeOK, OnePlace, InChannel, Held, LoadQueued
<1>3. \/ at'[h] = "emit" /\ dropped' = dropped \cup {h}
      \/ at'[h] = "swap" /\ dropped' = dropped /\ queued + Length[h] <= Budget
  <2>1. queued \in Nat /\ Length[h] \in Nat /\ Budget \in Nat
    BY HookSpoolAssumption DEF SpoolTypeOK
  <2>2. CASE queued + Length[h] > Budget
    BY <2>2 DEF SpoolTypeOK, LoadQueued
  <2>3. CASE ~(queued + Length[h] > Budget)
    BY <2>1, <2>3 DEF SpoolTypeOK, LoadQueued
  <2> QED
    BY <2>2, <2>3
<1>4. Placed' = IF at'[h] = "emit" THEN Placed \cup {h} ELSE Placed
  BY <1>2, <1>3 DEF Placed, LoadQueued
<1>5. OnePlace'
  <2>1. \A g \in Placed' : at'[g] \in {"emit", "done"}
    BY <1>2, <1>3, <1>4, PlacedAreHooks DEF SpoolTypeOK, OnePlace, LoadQueued
  <2>2. \A g \in InChannel' : g \notin (writing \cup onDisk \cup failed \cup dropped)'
    BY <1>2, <1>3 DEF OnePlace, Placed, LoadQueued
  <2>3. \A g \in dropped' : g \notin (writing \cup onDisk \cup failed)'
    BY <1>2, <1>3 DEF OnePlace, Placed, LoadQueued
  <2> QED
    BY <2>1, <2>2, <2>3 DEF OnePlace, LoadQueued
<1>6. Counted'
  BY <1>2, <1>3 DEF SpoolTypeOK, Counted, BytesOf, LoadQueued
<1>7. Closed'
  BY <1>3 DEF SpoolTypeOK, Closed, Readers, LoadQueued
<1>8. Emitted'
  BY <1>3, <1>4 DEF SpoolTypeOK, Emitted, Accepted, LoadQueued
<1> QED
  BY <1>1, <1>5, <1>6, <1>7, <1>8

(* The compare-and-swap adds the bytes only to the counter they were checked with. *)
LEMMA ReserveKeeps ==
    ASSUME SpoolInv, NEW h \in Hooks, Reserve(h)
    PROVE  SpoolInv'
<1> USE DEF SpoolInv
<1>0. Length[h] \in Nat /\ Budget \in Nat
  BY HookSpoolAssumption
<1>1. SpoolTypeOK'
  <2>1. at' \in [Hooks -> Points] /\ queued' \in Nat
    <3>1. CASE queued = loaded[h]
      BY <3>1, <1>0 DEF SpoolTypeOK, Points, Reserve
    <3>2. CASE queued # loaded[h]
      BY <3>2 DEF SpoolTypeOK, Points, Reserve
    <3> QED
      BY <3>1, <3>2
  <2> QED
    BY <2>1 DEF SpoolTypeOK, Reserve
<1>2. InChannel' = InChannel /\ Placed' = Placed /\ h \notin Placed /\ h \notin Held
  <2>1. InChannel' = InChannel /\ Placed' = Placed
    BY DEF InChannel, Placed, Reserve
  <2>2. h \notin Placed
    BY DEF OnePlace, Reserve
  <2>3. h \notin Held
    BY <2>2 DEF Held, Placed, Reserve
  <2> QED
    BY <2>1, <2>2, <2>3
<1>3. Held \in SUBSET Hooks
  BY DEF SpoolTypeOK, Held, InChannel
<1>4. OnePlace'
  <2>1. \A g \in Placed' : at'[g] \in {"emit", "done"}
    BY <1>2, PlacedAreHooks DEF SpoolTypeOK, OnePlace, Reserve
  <2> QED
    BY <2>1, <1>2 DEF OnePlace, Reserve
<1>5. Counted'
  <2>1. CASE queued = loaded[h]
    <3>1. Held' = Held \cup {h} /\ queued' = queued + Length[h]
      BY <2>1, <1>2 DEF SpoolTypeOK, Held, InChannel, Reserve
    <3>2. IsFiniteSet(BytesOf(Held')) /\ Cardinality(BytesOf(Held')) = queued + Length[h]
      BY <3>1, <1>2, <1>3, BytesOfAdded DEF Counted
    <3>3. queued' <= Budget
      BY <2>1, <3>1 DEF Counted, Reserve
    <3> QED
      BY <3>1, <3>2, <3>3 DEF SpoolTypeOK, Counted, BytesOf, Reserve
  <2>2. CASE queued # loaded[h]
    <3>1. Held' = Held /\ queued' = queued
      BY <2>2, <1>2 DEF SpoolTypeOK, Held, InChannel, Reserve
    <3> QED
      BY <2>2, <3>1 DEF SpoolTypeOK, Counted, BytesOf, Reserve
  <2> QED
    BY <2>1, <2>2
<1>6. Closed'
  BY DEF SpoolTypeOK, Closed, Readers, Reserve
<1>7. Emitted'
  BY <1>2 DEF SpoolTypeOK, Emitted, Accepted, Reserve
<1> QED
  BY <1>1, <1>4, <1>5, <1>6, <1>7

(* A send places the body, or gives its bytes back and drops it. *)
LEMMA SendKeeps ==
    ASSUME SpoolInv, NEW h \in Hooks, SendSpool(h)
    PROVE  SpoolInv'
<1> USE DEF SpoolInv
<1>1. h \notin Placed /\ h \in Held /\ h \notin InChannel /\ closing = "no"
  BY DEF SpoolTypeOK, OnePlace, Placed, Held, Closed, Readers, SendSpool
<1>2. Held \in SUBSET Hooks
  BY DEF SpoolTypeOK, Held, InChannel
<1>3. Placed' = Placed \cup {h} /\ at' = [at EXCEPT ![h] = "emit"] /\ SpoolTypeOK' /\ OnePlace' /\ Counted'
  <2>1. CASE Len(spoolCh) < SpoolBuffer
    <3>1. /\ spoolCh' \in Seq(Hooks) /\ InChannel' = InChannel \cup {h}
          /\ \A i, j \in 1 .. Len(spoolCh') : spoolCh'[i] = spoolCh'[j] => i = j
      BY <2>1, <1>1, ChannelSend DEF SendSpool
    <3>2. Held' = Held /\ Placed' = Placed \cup {h}
      BY <2>1, <3>1, <1>1 DEF SpoolTypeOK, Held, Placed, SendSpool
    <3>3. SpoolTypeOK'
      BY <2>1, <3>1 DEF SpoolTypeOK, Points, SendSpool
    <3>4. OnePlace'
      <4>1. \A g \in Placed' : at'[g] \in {"emit", "done"}
        BY <3>2 DEF SpoolTypeOK, OnePlace, SendSpool
      <4>2. \A g \in InChannel' : g \notin (writing \cup onDisk \cup failed \cup dropped)'
        BY <2>1, <3>1, <1>1 DEF OnePlace, Placed, SendSpool
      <4> QED
        BY <2>1, <3>1, <4>1, <4>2 DEF OnePlace, SendSpool
    <3>5. Counted'
      BY <2>1, <3>2 DEF SpoolTypeOK, Counted, BytesOf, SendSpool
    <3> QED
      BY <3>2, <3>3, <3>4, <3>5 DEF SendSpool
  <2>2. CASE ~(Len(spoolCh) < SpoolBuffer)
    <3>1. InChannel' = InChannel /\ queued' = queued - Length[h] /\ dropped' = dropped \cup {h}
      BY <2>2 DEF InChannel, SendSpool
    <3>2. Held' = Held \ {h} /\ Placed' = Placed \cup {h}
      BY <2>2, <3>1, <1>1 DEF SpoolTypeOK, Held, Placed, SendSpool
    <3>3. /\ IsFiniteSet(BytesOf(Held'))
          /\ Cardinality(BytesOf(Held')) = queued - Length[h]
          /\ Cardinality(BytesOf(Held')) \in Nat
      BY <3>2, <1>1, <1>2, BytesOfRemoved DEF Counted
    <3>4. SpoolTypeOK'
      BY <2>2, <3>1, <3>3 DEF SpoolTypeOK, Points, SendSpool
    <3>5. OnePlace'
      <4>1. \A g \in Placed' : at'[g] \in {"emit", "done"}
        BY <3>2 DEF SpoolTypeOK, OnePlace, SendSpool
      <4>2. \A g \in InChannel' : g \notin (writing \cup onDisk \cup failed \cup dropped)'
        BY <2>2, <3>1, <1>1 DEF OnePlace, Placed, SendSpool
      <4>3. (\A g \in dropped' : g \notin (writing \cup onDisk \cup failed)')
        BY <3>1, <1>1 DEF OnePlace, Placed, SendSpool
      <4> QED
        BY <2>2, <3>1, <4>1, <4>2, <4>3 DEF OnePlace, SendSpool
    <3>6. Counted'
      <4>1. queued' <= Budget
        BY <3>1, <3>3, HookSpoolAssumption DEF SpoolTypeOK, Counted
      <4> QED
        BY <2>2, <3>1, <3>3, <4>1 DEF SpoolTypeOK, Counted, BytesOf, SendSpool
    <3> QED
      BY <3>2, <3>4, <3>5, <3>6 DEF SendSpool
  <2> QED
    BY <2>1, <2>2
<1>4. Closed'
  BY <1>1 DEF Closed, SendSpool
<1>5. Emitted'
  BY <1>3 DEF SpoolTypeOK, Emitted, Accepted, SendSpool
<1> QED
  BY <1>3, <1>4, <1>5

(* The writer takes the oldest body, which stays placed and counted. *)
LEMMA TakeKeeps ==
    ASSUME SpoolInv, TakeBody
    PROVE  SpoolInv'
<1> USE DEF SpoolInv
<1> DEFINE h == Head(spoolCh)
<1>1. /\ spoolCh' \in Seq(Hooks) /\ h \in Hooks /\ h \in InChannel
      /\ InChannel' = InChannel \ {h}
      /\ \A i, j \in 1 .. Len(spoolCh') : spoolCh'[i] = spoolCh'[j] => i = j
  BY ChannelReceive DEF TakeBody
<1>2. writing = {} /\ writing' = {h}
  BY DEF TakeBody
<1> HIDE DEF h
<1>3. SpoolTypeOK'
  BY <1>1, <1>2 DEF SpoolTypeOK, TakeBody
<1>4. Held' = Held /\ Placed' = Placed
  BY <1>1, <1>2 DEF Held, Placed, TakeBody
<1>5. OnePlace'
  <2>1. \A g \in Placed' : at'[g] \in {"emit", "done"}
    BY <1>4 DEF OnePlace, TakeBody
  <2>2. \A g \in InChannel' : g \notin (writing \cup onDisk \cup failed \cup dropped)'
    BY <1>1, <1>2 DEF OnePlace, TakeBody
  <2>3. \A g \in dropped' : g \notin (writing \cup onDisk \cup failed)'
    <3>1. dropped' = dropped /\ onDisk' = onDisk /\ failed' = failed
      BY DEF TakeBody
    <3>2. h \notin dropped
      BY <1>1 DEF OnePlace
    <3> QED
      BY <1>2, <3>1, <3>2 DEF OnePlace
  <2> QED
    BY <1>1, <2>1, <2>2, <2>3 DEF OnePlace, TakeBody
<1>6. Counted'
  BY <1>4 DEF Counted, BytesOf, TakeBody
<1>7. Closed'
  BY DEF Closed, Readers, TakeBody
<1>8. Emitted'
  BY <1>4 DEF Emitted, Accepted, TakeBody
<1> QED
  BY <1>3, <1>5, <1>6, <1>7, <1>8

(* The line is on disk or its write failed; either way it is still counted. *)
LEMMA AppendKeeps ==
    ASSUME SpoolInv, NEW h \in Hooks, AppendSpoolLine(h)
    PROVE  SpoolInv'
<1> USE DEF SpoolInv
<1>1. SpoolTypeOK'
  BY DEF SpoolTypeOK, AppendSpoolLine
<1>2. InChannel' = InChannel /\ Held' = Held /\ Placed' = Placed
  BY DEF InChannel, Held, Placed, AppendSpoolLine
<1>3. OnePlace'
  <2>1. \A g \in Placed' : at'[g] \in {"emit", "done"}
    BY <1>2 DEF OnePlace, AppendSpoolLine
  <2>2. \A g \in InChannel' : g \notin (writing \cup onDisk \cup failed \cup dropped)'
    BY <1>2 DEF OnePlace, AppendSpoolLine
  <2>3. (\A g \in dropped' : g \notin (writing \cup onDisk \cup failed)') /\ (\A g \in onDisk' : g \notin failed')
    BY DEF OnePlace, AppendSpoolLine
  <2> QED
    BY <2>1, <2>2, <2>3 DEF OnePlace, AppendSpoolLine
<1>4. Counted'
  BY <1>2 DEF Counted, BytesOf, AppendSpoolLine
<1>5. Closed'
  BY DEF Closed, Readers, AppendSpoolLine
<1>6. Emitted'
  BY <1>2 DEF Emitted, Accepted, AppendSpoolLine
<1> QED
  BY <1>1, <1>3, <1>4, <1>5, <1>6

(* The writer gives back the bytes of a body that met its end. *)
LEMMA ReleaseKeeps ==
    ASSUME SpoolInv, NEW h \in Hooks, ReleaseBytes(h)
    PROVE  SpoolInv'
<1> USE DEF SpoolInv
<1>1. h \in writing /\ writing = {h} /\ writing' = {} /\ h \in onDisk \cup failed
  BY DEF ReleaseBytes
<1>2. InChannel' = InChannel /\ h \notin InChannel /\ at[h] # "send"
  BY <1>1 DEF InChannel, OnePlace, Placed, ReleaseBytes
<1>3. Held' = Held \ {h} /\ h \in Held /\ Held \in SUBSET Hooks
  BY <1>1, <1>2 DEF SpoolTypeOK, Held, InChannel, ReleaseBytes
<1>4. Placed' = Placed
  BY <1>1, <1>2 DEF Placed, ReleaseBytes
<1>5. /\ IsFiniteSet(BytesOf(Held'))
      /\ Cardinality(BytesOf(Held')) = queued - Length[h]
      /\ Cardinality(BytesOf(Held')) \in Nat
  BY <1>3, BytesOfRemoved DEF Counted
<1>6. queued' = queued - Length[h] /\ queued' <= Budget /\ queued' \in Nat
  BY <1>5, HookSpoolAssumption DEF SpoolTypeOK, Counted, ReleaseBytes
<1>7. SpoolTypeOK'
  BY <1>1, <1>6 DEF SpoolTypeOK, ReleaseBytes
<1>8. OnePlace'
  BY <1>1, <1>2, <1>4 DEF OnePlace, ReleaseBytes
<1>9. Counted'
  BY <1>5, <1>6 DEF Counted, BytesOf, ReleaseBytes
<1>10. Closed'
  BY <1>1 DEF Closed, Readers, ReleaseBytes
<1>11. Emitted'
  BY <1>4 DEF Emitted, Accepted, ReleaseBytes
<1> QED
  BY <1>7, <1>8, <1>9, <1>10, <1>11

(* The day turning, and the two steps of Close. *)
LEMMA CloseKeeps ==
    ASSUME SpoolInv, NextDay \/ CloseSpool \/ Drained
    PROVE  SpoolInv'
<1> USE DEF SpoolInv
<1> USE DEF NextDay, CloseSpool, Drained
<1>1. SpoolTypeOK'
  <2>1. days' \in Nat
    BY DEF SpoolTypeOK
  <2>2. rotated' \in BOOLEAN
    BY Zenon DEF SpoolTypeOK
  <2>3. closing' \in {"no", "drain", "done"}
    BY DEF SpoolTypeOK
  <2> QED
    BY <2>1, <2>2, <2>3 DEF SpoolTypeOK
<1>2. InChannel' = InChannel /\ Held' = Held /\ Placed' = Placed /\ Readers' = Readers
  BY DEF InChannel, Held, Placed, Readers
<1>3. OnePlace'
  BY <1>2 DEF OnePlace
<1>4. Counted'
  BY <1>2 DEF Counted, BytesOf
<1>5. Closed'
  BY <1>2 DEF Closed
<1>6. Emitted'
  BY <1>2 DEF SpoolTypeOK, Emitted, Accepted
<1> QED
  BY <1>1, <1>3, <1>4, <1>5, <1>6

(* The inductive invariant of the spool: types, one place for each body, the       *)
(* counter as the bytes of what is held, and what Close leaves.                    *)
THEOREM SpoolInvariance == SpoolSpec => []SpoolInv
<1>1. SpoolInit => SpoolInv
  BY InitSettled
<1>2. SpoolInv /\ [SpoolNext]_spoolVars => SpoolInv'
  <2> SUFFICES ASSUME SpoolInv, [SpoolNext]_spoolVars PROVE SpoolInv'
    OBVIOUS
  <2>1. ASSUME NEW h \in Hooks,
               ReadBody(h) \/ RLock(h) \/ LoadQueued(h) \/ Reserve(h) \/ SendSpool(h) \/ EmitHook(h)
        PROVE  SpoolInv'
    BY <2>1, ReadBodyKeeps, RLockKeeps, LoadKeeps, ReserveKeeps, SendKeeps, EmitKeeps
  <2>2. ASSUME NEW h \in Hooks, AppendSpoolLine(h) \/ ReleaseBytes(h)
        PROVE  SpoolInv'
    BY <2>2, AppendKeeps, ReleaseKeeps
  <2>3. CASE TakeBody
    BY <2>3, TakeKeeps
  <2>4. CASE NextDay \/ CloseSpool \/ Drained
    BY <2>4, CloseKeeps
  <2>5. CASE UNCHANGED spoolVars
    BY <2>5 DEF spoolVars, SpoolInv, SpoolTypeOK, OnePlace, Counted, Closed, Emitted, Placed, Held,
                InChannel, BytesOf, Readers, Accepted
  <2> QED
    BY <2>1, <2>2, <2>3, <2>4, <2>5 DEF SpoolNext
<1> QED
  BY <1>1, <1>2, PTL DEF SpoolSpec

(* The counter is exactly the bytes reserved, queued or being written, and never    *)
(* above the budget.                                                               *)
THEOREM BudgetKept == SpoolSpec => []SpoolBudget
<1>1. SpoolInv => SpoolBudget
  BY DEF SpoolInv, Counted, SpoolBudget
<1> QED
  BY <1>1, SpoolInvariance, PTL

(* Close finds no sender, and leaves a zero counter and a fate for every body whose *)
(* event went out.                                                                 *)
THEOREM SpoolDrains == SpoolSpec => []SpoolSettles
<1>1. SpoolInv => SpoolSettles
  <2> SUFFICES ASSUME SpoolInv PROVE SpoolSettles
    OBVIOUS
  <2> USE DEF SpoolInv
  <2>1. closing \in {"drain", "done"} => Readers = {}
    BY DEF Closed
  <2>2. ASSUME closing = "done"
        PROVE  queued = 0 /\ Held = {} /\ emitted \subseteq onDisk \cup failed \cup dropped
    <3>1. InChannel = {} /\ writing = {} /\ Readers = {}
      BY <2>2 DEF Closed, InChannel
    <3>2. Held = {}
      BY <3>1 DEF Held, Readers
    <3>3. BytesOf(Held) = {}
      BY <3>2 DEF BytesOf
    <3>4. queued = 0
      BY <3>3, FS_EmptySet DEF Counted
    <3>5. emitted \subseteq onDisk \cup failed \cup dropped
      BY <3>1 DEF Emitted, Placed
    <3> QED
      BY <3>2, <3>4, <3>5
  <2> QED
    BY <2>1, <2>2 DEF SpoolSettles, OnePlace, Emitted
<1> QED
  BY <1>1, SpoolInvariance, PTL

-----------------------------------------------------------------------------
(* config.json and its Loader *)

Contents == [Keys -> Values] \cup {Broken}
Steps == {"new", "have", "idle", "reload", "read", "done"}

ConfigTypeOK ==
    /\ file \in Contents /\ snapshot \in Contents /\ asked \in Contents
    /\ copy \in [Reloaders -> Contents] /\ step \in [Reloaders -> Steps]
    /\ \A w \in Writers : step[w] = "have" => copy[w] \in [Keys -> Values]
    /\ mutex \in Reloaders \cup {Nobody} /\ behind \subseteq Writers

(* One reload reads and stores at a time. *)
MutexHeld == \A r \in Reloaders : step[r] = "read" => mutex = r

(* A writer whose copy is not behind has the file but for its own key. *)
CopiesCurrent ==
    \A w \in Writers : step[w] = "have" /\ w \notin behind =>
        /\ file # Broken
        /\ copy[w] = [file EXCEPT ![Job[w][1]] = Job[w][2]]

(* Whenever a change was not missed, a stale snapshot or a reload that has read an   *)
(* older file leaves something under way that will read the file again.             *)
Pending == fsEvent \/ timer \/ \E r \in Reloaders : step[r] = "reload"
ReloadComes ==
    ~ missed =>
        /\ \A r \in Reloaders : step[r] = "read" /\ copy[r] # file => Pending
        /\ Valid(file) /\ snapshot # file => Pending \/ \E r \in Reloaders : step[r] = "read"

ConfigInv == ConfigTypeOK /\ MutexHeld /\ CopiesCurrent /\ ReloadComes /\ UpdatesKept

-----------------------------------------------------------------------------
(* Every step keeps the invariant *)

USE DEF ToStep, Becomes

(* A writer reads the file and changes its key in a copy. *)
LEMMA ReadFileMapKeeps ==
    ASSUME ConfigInv, NEW w \in Writers, ReadFileMap(w)
    PROVE  ConfigInv'
<1> USE DEF ConfigInv, ReadFileMap
<1>1. ConfigTypeOK'
  BY ConfigAssumption DEF ConfigTypeOK, Contents, Steps, Reloaders, Values, NoSettings
<1>2. MutexHeld'
  BY ConfigAssumption DEF ConfigTypeOK, MutexHeld, Reloaders
<1>3. CopiesCurrent'
  BY ConfigAssumption DEF ConfigTypeOK, CopiesCurrent, Reloaders
<1>4. ReloadComes'
  BY ConfigAssumption DEF ConfigTypeOK, MutexHeld, ReloadComes, Pending, Reloaders, Valid
<1>5. UpdatesKept'
  BY ConfigAssumption DEF ConfigTypeOK, CopiesCurrent, UpdatesKept, Valid
<1> QED
  BY <1>1, <1>2, <1>3, <1>4, <1>5

(* A writer renames its copy into place. *)
LEMMA WriteFileMapKeeps ==
    ASSUME ConfigInv, NEW w \in Writers, WriteFileMap(w)
    PROVE  ConfigInv'
<1> USE DEF ConfigInv, WriteFileMap
<1>1. ConfigTypeOK'
  BY ConfigAssumption DEF ConfigTypeOK, Contents, Steps, Reloaders, Values, NoSettings
<1>2. MutexHeld'
  BY ConfigAssumption DEF ConfigTypeOK, MutexHeld, Reloaders
<1>3. CopiesCurrent'
  BY ConfigAssumption DEF ConfigTypeOK, CopiesCurrent, Reloaders
<1>4. ReloadComes'
  BY ConfigAssumption DEF ConfigTypeOK, MutexHeld, ReloadComes, Pending, Reloaders, Valid
<1>5. UpdatesKept'
  BY ConfigAssumption DEF ConfigTypeOK, CopiesCurrent, UpdatesKept, Valid
<1> QED
  BY <1>1, <1>2, <1>3, <1>4, <1>5

(* An editor truncates the file. *)
LEMMA EditTruncatesKeeps ==
    ASSUME ConfigInv, EditTruncates
    PROVE  ConfigInv'
<1> USE DEF ConfigInv, EditTruncates
<1>1. ConfigTypeOK'
  BY ConfigAssumption DEF ConfigTypeOK, Contents, Steps, Reloaders, Values, NoSettings
<1>2. MutexHeld'
  BY ConfigAssumption DEF ConfigTypeOK, MutexHeld, Reloaders
<1>3. CopiesCurrent'
  BY ConfigAssumption DEF ConfigTypeOK, CopiesCurrent, Reloaders
<1>4. ReloadComes'
  BY ConfigAssumption DEF ConfigTypeOK, MutexHeld, ReloadComes, Pending, Reloaders, Valid
<1>5. UpdatesKept'
  BY ConfigAssumption DEF ConfigTypeOK, CopiesCurrent, UpdatesKept, Valid
<1> QED
  BY <1>1, <1>2, <1>3, <1>4, <1>5

(* An editor writes the file. *)
LEMMA EditWritesKeeps ==
    ASSUME ConfigInv, EditWrites
    PROVE  ConfigInv'
<1> USE DEF ConfigInv, EditWrites
<1>1. ConfigTypeOK'
  BY ConfigAssumption DEF ConfigTypeOK, Contents, Steps, Reloaders, Values, NoSettings
<1>2. MutexHeld'
  BY ConfigAssumption DEF ConfigTypeOK, MutexHeld, Reloaders
<1>3. CopiesCurrent'
  BY ConfigAssumption DEF ConfigTypeOK, CopiesCurrent, Reloaders
<1>4. ReloadComes'
  BY ConfigAssumption DEF ConfigTypeOK, MutexHeld, ReloadComes, Pending, Reloaders, Valid
<1>5. UpdatesKept'
  BY ConfigAssumption DEF ConfigTypeOK, CopiesCurrent, UpdatesKept, Valid
<1> QED
  BY <1>1, <1>2, <1>3, <1>4, <1>5

(* A reload reads the file under the mutex. *)
LEMMA ReloadReadsKeeps ==
    ASSUME ConfigInv, NEW r \in Reloaders, ReloadReads(r)
    PROVE  ConfigInv'
<1> USE DEF ConfigInv, ReloadReads
<1>1. ConfigTypeOK'
  BY ConfigAssumption DEF ConfigTypeOK, Contents, Steps, Reloaders, Values, NoSettings
<1>2. MutexHeld'
  BY ConfigAssumption DEF ConfigTypeOK, MutexHeld, Reloaders
<1>3. CopiesCurrent'
  BY ConfigAssumption DEF ConfigTypeOK, CopiesCurrent, Reloaders
<1>4. ReloadComes'
  BY ConfigAssumption DEF ConfigTypeOK, MutexHeld, ReloadComes, Pending, Reloaders, Valid
<1>5. UpdatesKept'
  BY ConfigAssumption DEF ConfigTypeOK, CopiesCurrent, UpdatesKept, Valid
<1> QED
  BY <1>1, <1>2, <1>3, <1>4, <1>5

(* A reload stores what it read, if that is valid. *)
LEMMA ReloadStoresKeeps ==
    ASSUME ConfigInv, NEW r \in Reloaders, ReloadStores(r)
    PROVE  ConfigInv'
<1> USE DEF ConfigInv, ReloadStores
<1>1. ConfigTypeOK'
  BY ConfigAssumption DEF ConfigTypeOK, Contents, Steps, Reloaders, Values, NoSettings
<1>2. MutexHeld'
  BY ConfigAssumption DEF ConfigTypeOK, MutexHeld, Reloaders
<1>3. CopiesCurrent'
  BY ConfigAssumption DEF ConfigTypeOK, CopiesCurrent, Reloaders
<1>4. ReloadComes'
  BY ConfigAssumption DEF ConfigTypeOK, MutexHeld, ReloadComes, Pending, Reloaders, Valid
<1>5. UpdatesKept'
  BY ConfigAssumption DEF ConfigTypeOK, CopiesCurrent, UpdatesKept, Valid
<1> QED
  BY <1>1, <1>2, <1>3, <1>4, <1>5

(* The watch starts, takes an event, and fires. *)
LEMMA WatchKeeps ==
    ASSUME ConfigInv, WatchStarts \/ WatchEvent \/ DebounceFires
    PROVE  ConfigInv'
<1> USE DEF ConfigInv, WatchStarts, WatchEvent, DebounceFires
<1>1. ConfigTypeOK'
  BY ConfigAssumption DEF ConfigTypeOK, Steps, Reloaders
<1>2. MutexHeld'
  BY ConfigAssumption DEF ConfigTypeOK, MutexHeld, Reloaders
<1>3. CopiesCurrent'
  BY ConfigAssumption DEF ConfigTypeOK, CopiesCurrent, Reloaders
<1>4. ReloadComes'
  BY ConfigAssumption DEF ConfigTypeOK, ReloadComes, Pending, Reloaders, Valid
<1>5. UpdatesKept'
  BY DEF UpdatesKept, Valid
<1> QED
  BY <1>1, <1>2, <1>3, <1>4, <1>5

(* The inductive invariant of config.json and its Loader. *)
THEOREM ConfigInvariance == ConfigSpec => []ConfigInv
<1>1. ConfigInit => ConfigInv
  <2> SUFFICES ASSUME ConfigInit PROVE ConfigInv
    OBVIOUS
  <2>1. NoSettings \in Contents
    BY DEF NoSettings, Contents, Values
  <2>2. ConfigTypeOK
    BY <2>1, ConfigAssumption DEF ConfigInit, ConfigTypeOK, Contents, Steps, Reloaders
  <2>3. MutexHeld /\ CopiesCurrent /\ ReloadComes /\ UpdatesKept
    BY ConfigAssumption DEF ConfigInit, MutexHeld, CopiesCurrent, ReloadComes, UpdatesKept, Reloaders
  <2> QED
    BY <2>2, <2>3 DEF ConfigInv
<1>2. ConfigInv /\ [ConfigNext]_configVars => ConfigInv'
  <2> SUFFICES ASSUME ConfigInv, [ConfigNext]_configVars PROVE ConfigInv'
    OBVIOUS
  <2>1. ASSUME NEW w \in Writers, ReadFileMap(w) \/ WriteFileMap(w)
        PROVE  ConfigInv'
    BY <2>1, ReadFileMapKeeps, WriteFileMapKeeps
  <2>2. ASSUME NEW r \in Reloaders, ReloadReads(r) \/ ReloadStores(r)
        PROVE  ConfigInv'
    BY <2>2, ReloadReadsKeeps, ReloadStoresKeeps
  <2>3. CASE EditTruncates \/ EditWrites
    BY <2>3, EditTruncatesKeeps, EditWritesKeeps
  <2>4. CASE WatchStarts \/ WatchEvent \/ DebounceFires
    BY <2>4, WatchKeeps
  <2>5. CASE UNCHANGED configVars
    BY <2>5 DEF configVars, ConfigInv, ConfigTypeOK, MutexHeld, CopiesCurrent, ReloadComes, Pending,
                UpdatesKept, Valid
  <2> QED
    BY <2>1, <2>2, <2>3, <2>4, <2>5 DEF ConfigNext
<1> QED
  BY <1>1, <1>2, PTL DEF ConfigSpec

(* When nothing is under way the daemon runs with the file, if it is valid and was   *)
(* not changed before the watch was up.                                             *)
THEOREM SnapshotSettles == ConfigSpec => []SettledSnapshot
<1>1. ConfigInv => SettledSnapshot
  BY DEF ConfigInv, ReloadComes, Pending, SettledSnapshot
<1> QED
  BY <1>1, ConfigInvariance, PTL

(* The daemon runs with valid values only, and the file is what the acknowledged      *)
(* updates made of it unless two overlapped.                                        *)
THEOREM SettingsKept == ConfigSpec => []UpdatesKept
<1>1. ConfigInv => UpdatesKept
  BY DEF ConfigInv
<1> QED
  BY <1>1, ConfigInvariance, PTL

-----------------------------------------------------------------------------
(* Filtering a list of hook entries *)

Lists == Seq(Entries)

(* One entry more: it is appended if it is to stay. *)
Stays(list, x, ours) == IF IsToktopHookEntry(x) = ours THEN Append(list, x) ELSE list

(* k is what the loop has kept after each entry. *)
KeptAfter(k, list, ours) ==
    /\ k \in [0 .. Len(list) -> Lists] /\ k[0] = <<>>
    /\ \A i \in 1 .. Len(list) : k[i] = Stays(k[i - 1], list[i], ours)

(* The loop goes through the list once and returns what it has kept at the end. *)
LEMMA FilteredIsKept ==
    ASSUME NEW list \in Lists, NEW ours \in BOOLEAN
    PROVE  \E k : KeptAfter(k, list, ours) /\ Filtered(list, ours) = k[Len(list)]
<1> DEFINE n == Len(list)
           look == [x \in (1 .. n) \X Lists |-> Stays(x[2], list[x[1]], ours)]
           kept[i \in 0 .. Len(list)] ==
               IF i = 0 THEN <<>>
               ELSE IF IsToktopHookEntry(list[i]) = ours THEN Append(kept[i - 1], list[i])
               ELSE kept[i - 1]
<1>1. n \in Nat /\ \A i \in 1 .. n : list[i] \in Entries /\ i - 1 \in 0 .. n /\ i # 0
  <2> HIDE DEF kept
  <2> QED
    BY DEF Lists
<1>2. <<>> \in Lists /\ \A l \in Lists, x \in Entries : Stays(l, x, ours) \in Lists
  <2> HIDE DEF kept, look, n
  <2>1. <<>> \in Lists /\ \A l \in Lists, x \in Entries : Append(l, x) \in Lists
    BY AppendProperties, EmptySeq DEF Lists
  <2> QED
    BY <2>1, Zenon DEF Stays
<1>3. PICK g \in [0 .. n -> Lists] : Follows(g, n, <<>>, look)
  <2>1. look \in [(1 .. n) \X Lists -> Lists]
    <3> HIDE DEF n, kept
    <3> QED
      BY <1>1, <1>2
  <2> HIDE DEF look, n, kept
  <2> QED
    BY <1>1, <1>2, <2>1, RecursionExists
<1>4. \A i \in 1 .. n : look[<<i, g[i - 1]>>] = Stays(g[i - 1], list[i], ours)
  <2> TAKE i \in 1 .. n
  <2>1. <<i, g[i - 1]>> \in (1 .. n) \X Lists
    <3> HIDE DEF n, look, kept
    <3> QED
      BY <1>1, <1>3
  <2> HIDE DEF n, kept
  <2> QED
    BY <2>1
<1>5. g[0] = <<>> /\ \A i \in 1 .. n : g[i] = Stays(g[i - 1], list[i], ours)
  <2>1. \A i \in 0 .. n : g[i] = IF i = 0 THEN <<>> ELSE look[<<i, g[i - 1]>>]
    <3> HIDE DEF look, n, kept
    <3> QED
      BY <1>3 DEF Follows
  <2>2. 0 \in 0 .. n /\ \A i \in 1 .. n : i \in 0 .. n
    <3> HIDE DEF n, look, kept
    <3> QED
      BY <1>1
  <2> HIDE DEF look, n, kept
  <2> QED
    BY <1>1, <1>4, <2>1, <2>2
<1>6. g = [i \in 0 .. Len(list) |->
               IF i = 0 THEN <<>>
               ELSE IF IsToktopHookEntry(list[i]) = ours THEN Append(g[i - 1], list[i])
               ELSE g[i - 1]]
  <2> HIDE DEF look, kept
  <2>1. \A i \in 0 .. n : i = 0 \/ i \in 1 .. n
    BY <1>1
  <2> QED
    BY <1>3, <1>5, <2>1 DEF Stays
<1>7. kept = [i \in 0 .. Len(list) |->
               IF i = 0 THEN <<>>
               ELSE IF IsToktopHookEntry(list[i]) = ours THEN Append(kept[i - 1], list[i])
               ELSE kept[i - 1]]
  BY <1>6, Zenon
<1>8. Filtered(list, ours) = kept[n]
  BY Zenon DEF Filtered
<1> HIDE DEF kept, look
<1>9. KeptAfter(kept, list, ours)
  <2> DEFINE P == {i \in 0 .. n : kept[i] = g[i]}
  <2>1. 0 \in P
    BY <1>1, <1>5, <1>7
  <2>2. ASSUME NEW i \in 1 .. n, i - 1 \in P PROVE i \in P
    <3>1. i \in 0 .. n /\ i # 0 /\ i - 1 \in 0 .. n /\ kept[i - 1] = g[i - 1]
      BY <1>1, <2>2
    <3>2. kept[i] = Stays(kept[i - 1], list[i], ours)
      BY <1>7, <3>1 DEF Stays
    <3> QED
      BY <1>5, <3>1, <3>2
  <2> HIDE DEF P
  <2>3. \A i \in 0 .. n : i \in P
    BY <1>1, <2>1, <2>2, UpTo
  <2>4. kept = g
    BY <1>6, <1>7, <2>3 DEF P
  <2> QED
    BY <1>3, <1>5, <2>4 DEF KeptAfter
<1> QED
  BY <1>8, <1>9

(* What the loop keeps is a list. *)
LEMMA FilteredIsList ==
    ASSUME NEW list \in Lists, NEW ours \in BOOLEAN
    PROVE  Filtered(list, ours) \in Lists
<1>1. PICK k : KeptAfter(k, list, ours) /\ Filtered(list, ours) = k[Len(list)]
  BY FilteredIsKept
<1>2. Len(list) \in 0 .. Len(list)
  BY DEF Lists
<1> QED
  BY <1>1, <1>2 DEF KeptAfter

(* Nothing comes of nothing. *)
LEMMA FilteredEmpty ==
    ASSUME NEW ours \in BOOLEAN
    PROVE  Filtered(<<>>, ours) = <<>> /\ <<>> \in Lists
<1>1. <<>> \in Lists /\ Len(<<>>) = 0
  BY DEF Lists
<1> QED
  BY <1>1, FilteredIsKept DEF KeptAfter

(* An entry at the end is looked at last. *)
LEMMA FilteredAppend ==
    ASSUME NEW list \in Lists, NEW x \in Entries, NEW ours \in BOOLEAN
    PROVE  Filtered(Append(list, x), ours) = Stays(Filtered(list, ours), x, ours)
<1> DEFINE more == Append(list, x)
           n == Len(list)
<1>1. /\ more \in Lists /\ Len(more) = n + 1 /\ n \in Nat /\ more[n + 1] = x
      /\ \A i \in 1 .. n : more[i] = list[i]
  BY DEF Lists
<1> HIDE DEF more
<1>2. PICK k : KeptAfter(k, list, ours) /\ Filtered(list, ours) = k[n]
  BY FilteredIsKept
<1>3. PICK m : KeptAfter(m, more, ours) /\ Filtered(more, ours) = m[n + 1]
  BY <1>1, FilteredIsKept
<1> DEFINE P == {i \in 0 .. n : m[i] = k[i]}
<1>4. 0 \in P
  BY <1>1, <1>2, <1>3 DEF KeptAfter
<1>5. ASSUME NEW i \in 1 .. n, i - 1 \in P PROVE i \in P
  <2>1. i \in 1 .. n + 1 /\ i \in 0 .. n
    BY <1>1
  <2>2. m[i] = Stays(m[i - 1], more[i], ours) /\ k[i] = Stays(k[i - 1], list[i], ours)
    BY <1>1, <1>2, <1>3, <2>1 DEF KeptAfter
  <2> QED
    BY <1>1, <1>5, <2>1, <2>2
<1> HIDE DEF P
<1>6. n \in P
  <2>1. \A i \in 0 .. n : i \in P
    BY <1>1, <1>4, <1>5, UpTo
  <2> QED
    BY <1>1, <2>1
<1>7. m[n + 1] = Stays(m[n], x, ours)
  <2> DEFINE top == n + 1
  <2>1. top \in 1 .. top /\ top - 1 = n /\ Len(more) = top /\ more[top] = x
    BY <1>1
  <2> HIDE DEF top, n
  <2>2. m[top] = Stays(m[top - 1], more[top], ours)
    BY <1>3, <2>1 DEF KeptAfter
  <2> QED
    BY <2>1, <2>2 DEF top
<1> QED
  BY <1>2, <1>3, <1>6, <1>7 DEF P, more

(* Filtering twice is filtering once, and what was filtered out is gone. *)
LEMMA FilteredTwice ==
    ASSUME NEW list \in Lists, NEW ours \in BOOLEAN
    PROVE  /\ Filtered(Filtered(list, ours), ours) = Filtered(list, ours)
           /\ Filtered(Filtered(list, ours), ~ ours) = <<>>
<1> DEFINE n == Len(list)
<1>1. PICK k : KeptAfter(k, list, ours) /\ Filtered(list, ours) = k[n]
  BY FilteredIsKept
<1> DEFINE P == {i \in 0 .. n : Filtered(k[i], ours) = k[i] /\ Filtered(k[i], ~ ours) = <<>>}
<1>2. n \in Nat /\ (\A i \in 0 .. n : k[i] \in Lists) /\ \A i \in 1 .. n : list[i] \in Entries
  <2>1. n \in Nat /\ \A i \in 1 .. n : list[i] \in Entries
    BY DEF Lists
  <2> HIDE DEF P, n
  <2> QED
    BY <1>1, <2>1 DEF KeptAfter, n
<1>3. 0 \in P
  <2>1. k[0] = <<>> /\ 0 \in 0 .. n
    BY <1>1, <1>2 DEF KeptAfter
  <2> QED
    BY <2>1, FilteredEmpty
<1>4. ASSUME NEW i \in 1 .. n, i - 1 \in P PROVE i \in P
  <2>1. i \in 0 .. n /\ k[i - 1] \in Lists /\ list[i] \in Entries
    BY <1>2
  <2>2. k[i] = Stays(k[i - 1], list[i], ours)
    BY <1>1 DEF KeptAfter
  <2>3. CASE IsToktopHookEntry(list[i]) = ours
    <3>1. k[i] = Append(k[i - 1], list[i])
      BY <2>2, <2>3 DEF Stays
    <3>2. Filtered(k[i], ours) = k[i]
      BY <1>4, <2>1, <2>3, <3>1, FilteredAppend DEF Stays
    <3>3. Filtered(k[i], ~ ours) = Filtered(k[i - 1], ~ ours)
      <4>1. (~ ours) \in BOOLEAN /\ ~ (IsToktopHookEntry(list[i]) = (~ ours))
        BY <2>3
      <4> QED
        BY <2>1, <3>1, <4>1, FilteredAppend DEF Stays
    <3> QED
      BY <1>4, <2>1, <3>2, <3>3
  <2>4. CASE ~ (IsToktopHookEntry(list[i]) = ours)
    BY <1>4, <2>1, <2>2, <2>4 DEF Stays
  <2> QED
    BY <2>3, <2>4
<1> HIDE DEF P
<1>5. n \in P
  <2>1. \A i \in 0 .. n : i \in P
    BY <1>2, <1>3, <1>4, UpTo
  <2> QED
    BY <1>2, <2>1
<1> QED
  BY <1>1, <1>5 DEF P

-----------------------------------------------------------------------------
(* What a run writes *)

EventLists ==
    UNION {[events -> [list : BOOLEAN, entries : Seq(Entries)]] : events \in SUBSET AllEvents}
Settings == [json : {"empty", "broken", "object"}, kind : {"none", "other", "map"},
             rest : BOOLEAN, hooks : EventLists]

HookTypeOK ==
    /\ settings \in Settings /\ owner \in Settings /\ draft \in [Runs -> Settings]
    /\ run \in [Runs -> {"new", "have", "write", "done"}]
    /\ cut \in BOOLEAN /\ crossed \in BOOLEAN /\ unread \in BOOLEAN
    /\ stale \subseteq Runs /\ blind \subseteq Runs

(* What is left of the owner's, before and after a run's writing. *)
Base == IF unread THEN Nothing ELSE owner
BaseOf(r) == IF unread \/ r \in blind THEN Nothing ELSE owner

(* What a run is about to write is good unless it is older than the settings, or was *)
(* read from a file that somebody else had truncated.                               *)
DraftGood(r) == Kept(draft[r], BaseOf(r), did \cup {Op[r]}) /\ OursRight(Op[r], draft[r])
DraftsGood ==
    ~ cut /\ ~ crossed =>
        \A r \in Runs \ stale :
            run[r] \in {"have", "write"} /\ (\A q \in Runs \ {r} : run[q] # "write") => DraftGood(r)

(* Only a run that has read the settings, or failed to, is one that could not. *)
BlindOnes == \A r \in blind : run[r] # "new" /\ Op[r] = "install"

(* What a run has truncated is empty until somebody else writes. *)
Emptied == \A r \in Runs \ stale : run[r] = "write" => settings = Nothing

HookInv == HookTypeOK /\ HooksKept /\ DraftsGood /\ BlindOnes /\ Emptied

(* What the owner writes are settings. *)
LEMMA OwnedAreSettings == Owned \subseteq Settings
<1> SUFFICES ASSUME NEW s \in Owned PROVE s \in Settings
  OBVIOUS
<1>1. PICK events \in SUBSET AllEvents : s \in SettingsFor(events)
  BY HookAssumption
<1>2. s.hooks \in EventLists
  BY <1>1 DEF SettingsFor, EventLists
<1> QED
  BY <1>1, <1>2 DEF SettingsFor, Settings

(* An empty file holds settings without events. *)
LEMMA NothingIsSettings == Nothing \in Settings
<1>1. NoEvents \in [{} -> [list : BOOLEAN, entries : Seq(Entries)]] /\ {} \in SUBSET AllEvents
  BY DEF NoEvents
<1>2. NoEvents \in EventLists
  BY <1>1 DEF EventLists
<1> QED
  BY <1>2 DEF Nothing, Settings

LEMMA BrokenIsSettings == BrokenFile \in Settings
  BY NothingIsSettings DEF BrokenFile, Settings

(* The list under an event is one. *)
LEMMA ListAtIsList ==
    ASSUME NEW s \in Settings, NEW e
    PROVE  ListAt(s.hooks, e) \in Lists
<1>1. PICK events \in SUBSET AllEvents : s.hooks \in [events -> [list : BOOLEAN, entries : Lists]]
  BY DEF Settings, EventLists, Lists
<1> QED
  BY <1>1, FilteredEmpty DEF ListAt

(* An install keeps what is not toktop's, and leaves one entry of its own per event. *)
LEMMA InstalledKeeps ==
    ASSUME NEW s \in Settings
    PROVE  /\ Installed(s) \in Settings /\ Installed(s).rest = s.rest
           /\ \A e : Others(ListAt(Installed(s).hooks, e)) = Others(ListAt(s.hooks, e))
           /\ \A e : e \notin HookEvents => Under(Installed(s).hooks, e) = Under(s.hooks, e)
           /\ \A e \in HookEvents : \A v \in Under(Installed(s).hooks, e) : v.list
           /\ OursRight("install", Installed(s))
<1> DEFINE new == Installed(s)
           Entry == [list : BOOLEAN, entries : Lists]
           events == DOMAIN s.hooks \cup HookEvents
<1>1. DOMAIN s.hooks \subseteq AllEvents /\ \A e \in DOMAIN s.hooks : s.hooks[e] \in Entry
  <2>1. PICK given \in SUBSET AllEvents : s.hooks \in [given -> Entry]
    BY DEF Settings, EventLists, Lists
  <2> QED
    BY <2>1
<1>2. /\ new.hooks = [e \in events |->
              IF e \in HookEvents THEN UpsertToktopHookEntry(s.hooks, e) ELSE s.hooks[e]]
      /\ new.rest = s.rest /\ new.json = "object" /\ new.kind = "map"
  BY DEF Installed
<1>3. \A e : /\ Others(ListAt(s.hooks, e)) \in Lists
             /\ Append(Others(ListAt(s.hooks, e)), "own") \in Lists
  <2> TAKE e
  <2>1. ListAt(s.hooks, e) \in Lists /\ FALSE \in BOOLEAN /\ "own" \in Entries
    BY ListAtIsList DEF Entries, Ours
  <2>2. Others(ListAt(s.hooks, e)) \in Lists
    BY <2>1, FilteredIsList DEF Others
  <2> QED
    BY <2>1, <2>2, AppendProperties DEF Lists
<1>4. new \in Settings
  <2>1. \A e \in HookEvents : UpsertToktopHookEntry(s.hooks, e) \in Entry
    BY <1>3 DEF UpsertToktopHookEntry
  <2>2. events \in SUBSET AllEvents /\ new.hooks \in [events -> Entry]
    BY <1>1, <1>2, <2>1 DEF AllEvents
  <2>3. new.rest \in BOOLEAN
    BY <1>2 DEF Settings
  <2>4. new = [json |-> "object", kind |-> "map", rest |-> s.rest, hooks |-> new.hooks]
    BY DEF Installed
  <2>5. new.hooks \in EventLists
    BY <2>2 DEF EventLists, Lists
  <2> HIDE DEF new
  <2> QED
    BY <1>2, <2>3, <2>4, <2>5 DEF Settings
<1>5. \A e \in HookEvents : ListAt(new.hooks, e) = Append(Others(ListAt(s.hooks, e)), "own")
  BY <1>2 DEF ListAt, UpsertToktopHookEntry
<1>6. \A e : e \notin HookEvents => ListAt(new.hooks, e) = ListAt(s.hooks, e)
  BY <1>2 DEF ListAt
<1> HIDE DEF new
<1>7. ASSUME NEW e \in HookEvents
      PROVE  /\ Others(ListAt(new.hooks, e)) = Others(ListAt(s.hooks, e))
             /\ Filtered(ListAt(new.hooks, e), TRUE) = <<"own">>
  <2> DEFINE list == ListAt(s.hooks, e)
             others == Filtered(list, FALSE)
  <2>1. list \in Lists /\ others \in Lists /\ others = Others(list) /\ IsToktopHookEntry("own")
        /\ "own" \in Entries
    BY <1>3, ListAtIsList DEF Others, IsToktopHookEntry, Ours, Entries
  <2>2. ListAt(new.hooks, e) = Append(others, "own")
    BY <1>5 DEF Others
  <2>3. Filtered(others, FALSE) = others /\ Filtered(others, TRUE) = <<>>
    BY <2>1, FilteredTwice
  <2> HIDE DEF list, others
  <2>4. Filtered(Append(others, "own"), FALSE) = others
    <3>1. Filtered(Append(others, "own"), FALSE) = Stays(others, "own", FALSE)
      BY <2>1, <2>3, FilteredAppend
    <3> QED
      BY <2>1, <3>1 DEF Stays
  <2>5. Filtered(Append(others, "own"), TRUE) = Append(<<>>, "own")
    <3>1. Filtered(Append(others, "own"), TRUE) = Stays(<<>>, "own", TRUE)
      BY <2>1, <2>3, FilteredAppend
    <3> QED
      BY <2>1, <3>1 DEF Stays
  <2>6. Append(<<>>, "own") = <<"own">>
    OBVIOUS
  <2> QED
    BY <2>1, <2>2, <2>4, <2>5, <2>6 DEF list, Others
<1> QED
  <2>1. \A e : e \notin HookEvents => Under(new.hooks, e) = Under(s.hooks, e)
    <3> SUFFICES ASSUME NEW e, e \notin HookEvents PROVE Under(new.hooks, e) = Under(s.hooks, e)
      OBVIOUS
    <3> DEFINE there == DOMAIN s.hooks \cap {e}
    <3>1. DOMAIN new.hooks \cap {e} = there /\ \A x \in there : new.hooks[x] = s.hooks[x]
      BY <1>2
    <3> HIDE DEF there
    <3>2. {new.hooks[x] : x \in there} = {s.hooks[x] : x \in there}
      BY <3>1
    <3> QED
      BY <3>1, <3>2 DEF Under, there
  <2>2. \A e \in HookEvents : \A v \in Under(new.hooks, e) : v.list
    <3>1. \A x \in HookEvents : new.hooks[x].list
      BY <1>2 DEF UpsertToktopHookEntry
    <3> QED
      BY <3>1 DEF Under
  <2>3. OursRight("install", new)
    BY <1>7 DEF OursRight
  <2>4. \A e : Others(ListAt(new.hooks, e)) = Others(ListAt(s.hooks, e))
    BY <1>6, <1>7
  <2> QED
    BY <1>2, <1>4, <2>1, <2>2, <2>3, <2>4 DEF new

(* An uninstall keeps what is not toktop's, and nothing else. *)
LEMMA UninstalledKeeps ==
    ASSUME NEW s \in Settings
    PROVE  /\ Uninstalled(s) \in Settings /\ Uninstalled(s).rest = s.rest
           /\ \A e : Others(ListAt(Uninstalled(s).hooks, e)) = Others(ListAt(s.hooks, e))
           /\ \A e, v : v.list \/ (v \in Under(Uninstalled(s).hooks, e) <=> v \in Under(s.hooks, e))
           /\ OursRight("uninstall", Uninstalled(s))
<1> DEFINE new == Uninstalled(s)
           Entry == [list : BOOLEAN, entries : Lists]
           kept == {e \in DOMAIN s.hooks : s.hooks[e].list => Others(s.hooks[e].entries) # <<>>}
           hooks == [e \in kept |->
                       IF s.hooks[e].list
                       THEN [list |-> TRUE, entries |-> Others(s.hooks[e].entries)]
                       ELSE s.hooks[e]]
<1>1. DOMAIN s.hooks \subseteq AllEvents /\ \A e \in DOMAIN s.hooks : s.hooks[e] \in Entry
  <2>1. PICK given \in SUBSET AllEvents : s.hooks \in [given -> Entry]
    BY DEF Settings, EventLists, Lists
  <2> QED
    BY <2>1
<1>2. new = [s EXCEPT !.kind = IF kept = {} THEN "none" ELSE "map", !.hooks = hooks]
  BY DEF Uninstalled
<1>3. \A e \in DOMAIN s.hooks : Others(s.hooks[e].entries) \in Lists
  BY <1>1, FilteredIsList DEF Others
<1>4. hooks \in [kept -> Entry] /\ kept \in SUBSET AllEvents
  BY <1>1, <1>3
<1>5. \A e : ListAt(hooks, e) = Others(ListAt(s.hooks, e))
  <2> SUFFICES ASSUME NEW e PROVE ListAt(hooks, e) = Others(ListAt(s.hooks, e))
    OBVIOUS
  <2>1. Others(<<>>) = <<>>
    BY FilteredEmpty DEF Others
  <2>2. CASE e \in DOMAIN s.hooks /\ s.hooks[e].list
    BY <2>2 DEF ListAt
  <2>3. CASE ~ (e \in DOMAIN s.hooks /\ s.hooks[e].list)
    BY <2>1, <2>3 DEF ListAt
  <2> QED
    BY <2>2, <2>3
<1>6. new \in Settings /\ new.rest = s.rest /\ new.hooks = hooks
  <2> HIDE DEF hooks, kept, new
  <2>1. hooks \in EventLists
    BY <1>4 DEF EventLists, Lists
  <2> QED
    BY <1>2, <2>1 DEF Settings
<1> HIDE DEF hooks, new
<1>7. \A e : Others(ListAt(new.hooks, e)) = Others(ListAt(s.hooks, e))
             /\ Filtered(ListAt(new.hooks, e), TRUE) = <<>>
  <2> TAKE e
  <2> DEFINE list == ListAt(s.hooks, e)
  <2>1. list \in Lists /\ ListAt(new.hooks, e) = Filtered(list, FALSE)
    BY <1>5, <1>6, ListAtIsList DEF Others
  <2> HIDE DEF list
  <2>2. Filtered(Filtered(list, FALSE), FALSE) = Filtered(list, FALSE)
        /\ Filtered(Filtered(list, FALSE), TRUE) = <<>>
    BY <2>1, FilteredTwice
  <2> QED
    BY <2>1, <2>2 DEF Others, list
<1>8. \A e, v : v.list \/ (v \in Under(new.hooks, e) <=> v \in Under(s.hooks, e))
  BY <1>6 DEF Under, hooks
<1>9. \A e : \A v \in Under(new.hooks, e) : v.list => v.entries # <<>>
  BY <1>6 DEF Under, hooks
<1> QED
  BY <1>6, <1>7, <1>8, <1>9 DEF OursRight, new

(* What is kept is kept by one operation more. *)
LEMMA ChangeKeeps ==
    ASSUME NEW s \in Settings, NEW theirs, NEW ops, NEW op \in {"install", "uninstall"},
           Kept(s, theirs, ops)
    PROVE  /\ Applied(op, s) \in Settings /\ Kept(Applied(op, s), theirs, ops \cup {op})
           /\ OursRight(op, Applied(op, s))
<1> DEFINE more == ops \cup {op}
           new == Applied(op, s)
<1>1. CASE op = "install"
  <2>1. /\ new \in Settings /\ new.rest = s.rest
        /\ \A e : Others(ListAt(new.hooks, e)) = Others(ListAt(s.hooks, e))
        /\ \A e : e \notin HookEvents => Under(new.hooks, e) = Under(s.hooks, e)
        /\ \A e \in HookEvents : \A v \in Under(new.hooks, e) : v.list
        /\ OursRight(op, new)
    BY <1>1, InstalledKeeps DEF Applied
  <2>2. \A e : /\ Replaced(more, e) <=> e \in HookEvents
               /\ Touched(more, e) <=> Touched(ops, e) \/ e \in HookEvents
               /\ Replaced(ops, e) => e \in HookEvents
    BY <1>1 DEF Replaced, Touched
  <2> HIDE DEF new, more
  <2>3. Kept(new, theirs, more)
    BY <2>1, <2>2 DEF Kept
  <2> QED
    BY <2>1, <2>3 DEF new, more
<1>2. CASE op = "uninstall"
  <2>1. /\ new \in Settings /\ new.rest = s.rest
        /\ \A e : Others(ListAt(new.hooks, e)) = Others(ListAt(s.hooks, e))
        /\ \A e, v : v.list \/ (v \in Under(new.hooks, e) <=> v \in Under(s.hooks, e))
        /\ OursRight(op, new)
    BY <1>2, UninstalledKeeps DEF Applied
  <2>2. \A e : (Replaced(more, e) <=> Replaced(ops, e)) /\ Touched(more, e)
    BY <1>2 DEF Replaced, Touched
  <2> HIDE DEF new, more
  <2>3. Kept(new, theirs, more)
    BY <2>1, <2>2 DEF Kept
  <2> QED
    BY <2>1, <2>3 DEF new, more
<1> QED
  BY <1>1, <1>2

(* A file taken for empty keeps what there is in none. *)
LEMMA NothingKept == \A ops : Kept(Nothing, Nothing, ops)
  BY DEF Kept, Under, Nothing, NoEvents

-----------------------------------------------------------------------------
(* Every step keeps the invariant *)

USE DEF ToRun, hookHist, written

(* A run reads the settings, when nobody has truncated them, and plans the change; or *)
(* it cannot read them.                                                             *)
LEMMA ReadKeeps ==
    ASSUME HookInv, NEW r \in Runs, ReadSettings(r) \/ FailToRead(r)
    PROVE  HookInv'
<1>1. Op[r] \in {"install", "uninstall"}
  BY HookAssumption
<1>2. /\ run[r] = "new" /\ r \notin blind
      /\ UNCHANGED <<settings, owner, did, last, unread, cut, crossed, stale>>
  BY DEF ReadSettings, FailToRead, HookInv, BlindOnes
<1>3. \/ run' = [run EXCEPT ![r] = "done"] /\ draft' = draft /\ blind' = blind
      \/ /\ run' = [run EXCEPT ![r] = "have"] /\ blind' = blind
         /\ draft' = [draft EXCEPT ![r] = Applied(Op[r], settings)]
      \/ /\ run' = [run EXCEPT ![r] = "have"] /\ blind' = blind \cup {r}
         /\ Op[r] = "install" /\ draft' = [draft EXCEPT ![r] = Applied(Op[r], Nothing)]
  BY <1>1 DEF ReadSettings, FailToRead, Applied
<1>4. settings \in Settings /\ Nothing \in Settings
  BY NothingIsSettings DEF HookInv, HookTypeOK
<1>5. Kept(Nothing, Nothing, did)
  BY NothingKept
<1>6. Applied(Op[r], settings) \in Settings /\ Applied(Op[r], Nothing) \in Settings
  BY <1>1, <1>4, InstalledKeeps, UninstalledKeeps DEF Applied
<1>7. HookTypeOK'
  BY <1>2, <1>3, <1>6 DEF HookInv, HookTypeOK
<1>8. \A q \in Runs : run'[q] = "write" <=> run[q] = "write"
  BY <1>2, <1>3 DEF HookInv, HookTypeOK
<1>9. HooksKept'
  BY <1>2, <1>8 DEF HookInv, HooksKept
<1>10. BlindOnes' /\ Emptied'
  BY <1>2, <1>3, <1>8 DEF HookInv, HookTypeOK, BlindOnes, Emptied
<1>11. DraftsGood'
  <2> SUFFICES ASSUME ~ cut, ~ crossed, NEW q \in Runs \ stale, run'[q] \in {"have", "write"},
                      \A p \in Runs \ {q} : run'[p] # "write"
               PROVE  DraftGood(q)'
    BY <1>2 DEF DraftsGood
  <2>1. CASE q # r
    <3>1. run'[q] = run[q] /\ draft'[q] = draft[q] /\ (q \in blind' <=> q \in blind)
      BY <1>3, <2>1 DEF HookInv, HookTypeOK
    <3>2. DraftGood(q)
      BY <1>8, <3>1 DEF HookInv, DraftsGood
    <3>3. BaseOf(q)' = BaseOf(q)
      BY <1>2, <3>1 DEF BaseOf
    <3> QED
      BY <1>2, <3>1, <3>2, <3>3 DEF DraftGood
  <2>2. CASE q = r
    <3>1. Kept(settings, Base, did)
      BY <1>2, <1>8, <2>2 DEF HookInv, HooksKept, Base
    <3>2. PICK s \in {settings, Nothing} : /\ draft'[r] = Applied(Op[r], s)
                                          /\ Kept(s, BaseOf(r)', did)
      <4>1. run'[r] # "done"
        BY <2>2
      <4>2. CASE draft' = [draft EXCEPT ![r] = Applied(Op[r], settings)] /\ blind' = blind
        <5>1. draft'[r] = Applied(Op[r], settings)
          BY <4>2 DEF HookInv, HookTypeOK
        <5>2. BaseOf(r)' = Base
          BY <1>2, <4>2 DEF BaseOf, Base
        <5> QED
          BY <3>1, <5>1, <5>2
      <4>3. CASE draft' = [draft EXCEPT ![r] = Applied(Op[r], Nothing)] /\ blind' = blind \cup {r}
        <5>1. draft'[r] = Applied(Op[r], Nothing)
          BY <4>3 DEF HookInv, HookTypeOK
        <5>2. BaseOf(r)' = Nothing
          BY <4>3 DEF BaseOf
        <5> QED
          BY <1>5, <5>1, <5>2
      <4>4. run' # [run EXCEPT ![r] = "done"]
        BY <4>1 DEF HookInv, HookTypeOK
      <4> QED
        BY <1>3, <4>2, <4>3, <4>4
    <3>3. s \in Settings
      BY <1>4
    <3>4. Kept(draft'[r], BaseOf(r)', did \cup {Op[r]}) /\ OursRight(Op[r], draft'[r])
      <4> DEFINE base == BaseOf(r)'
                 op == Op[r]
      <4>1. op \in {"install", "uninstall"} /\ Kept(s, base, did)
        BY <1>1, <3>2
      <4> HIDE DEF base, op
      <4>2. Kept(Applied(op, s), base, did \cup {op}) /\ OursRight(op, Applied(op, s))
        BY <3>3, <4>1, ChangeKeeps
      <4> QED
        BY <3>2, <4>2, Zenon DEF base, op
    <3>5. did' = did
      BY <1>2
    <3>6. DraftGood(r)'
      BY <3>4, <3>5, Zenon DEF DraftGood
    <3> QED
      BY <2>2, <3>6
  <2> QED
    BY <2>1, <2>2
<1> QED
  BY <1>7, <1>9, <1>10, <1>11 DEF HookInv

(* The file is truncated. *)
LEMMA TruncateSettingsKeeps ==
    ASSUME HookInv, NEW r \in Runs, TruncateSettings(r)
    PROVE  HookInv'
<1>1. HookTypeOK'
  BY NothingIsSettings DEF HookInv, HookTypeOK, TruncateSettings, Overtaken
<1>2. HooksKept' /\ BlindOnes' /\ Emptied'
  BY DEF HookInv, HookTypeOK, HooksKept, BlindOnes, Emptied, TruncateSettings
<1>3. DraftsGood'
  <2> SUFFICES ASSUME ~ cut', ~ crossed', NEW q \in Runs \ stale', run'[q] \in {"have", "write"},
                      \A p \in Runs \ {q} : run'[p] # "write"
               PROVE  DraftGood(q)'
    BY DEF DraftsGood
  <2>1. q = r
    BY DEF HookInv, HookTypeOK, TruncateSettings
  <2>2. ~ cut /\ ~ crossed /\ r \notin stale /\ run[r] = "have"
    BY DEF TruncateSettings
  <2>3. \A p \in Runs \ {r} : run[p] # "write"
    BY <2>1 DEF HookInv, HookTypeOK, TruncateSettings
  <2>4. DraftGood(r)
    BY <2>2, <2>3 DEF HookInv, DraftsGood
  <2>5. DraftGood(r)' <=> DraftGood(r)
    BY DEF TruncateSettings, DraftGood, BaseOf
  <2> QED
    BY <2>1, <2>4, <2>5
<1> QED
  BY <1>1, <1>2, <1>3 DEF HookInv

(* The run writes what it has planned. *)
LEMMA WriteSettingsKeeps ==
    ASSUME HookInv, NEW r \in Runs, WriteSettings(r)
    PROVE  HookInv'
<1>1. HookTypeOK' /\ BlindOnes' /\ Emptied'
  <2>1. settings' \in {draft[r], BrokenFile}
    BY DEF WriteSettings
  <2>2. settings' \in Settings
    BY <2>1, BrokenIsSettings DEF HookInv, HookTypeOK
  <2>3. HookTypeOK' /\ BlindOnes'
    BY <2>2 DEF HookInv, HookTypeOK, BlindOnes, WriteSettings, Overtaken
  <2>4. Emptied'
    BY DEF HookInv, HookTypeOK, Emptied, WriteSettings, Overtaken
  <2> QED
    BY <2>3, <2>4
<1>2. HooksKept'
  <2> SUFFICES ASSUME ~ cut', ~ crossed', \A q \in Runs : run'[q] # "write"
               PROVE  Kept(settings', Base', did') /\ OursRight(last', settings')
    BY DEF HooksKept, Base
  <2>1. ~ cut /\ ~ crossed /\ r \notin stale /\ run[r] = "write"
    BY DEF WriteSettings
  <2>2. \A q \in Runs \ {r} : run[q] # "write"
    BY DEF WriteSettings, HookInv, HookTypeOK
  <2>3. DraftGood(r)
    BY <2>1, <2>2 DEF HookInv, DraftsGood
  <2>4. Base' = BaseOf(r)
    BY DEF WriteSettings, Base, BaseOf
  <2>5. settings' = draft[r]
    BY <2>1 DEF HookInv, Emptied, WriteSettings
  <2> QED
    BY <2>3, <2>4, <2>5 DEF DraftGood, WriteSettings
<1>3. DraftsGood'
  <2> SUFFICES ASSUME ~ cut', ~ crossed', NEW q \in Runs \ stale', run'[q] \in {"have", "write"}
               PROVE  FALSE
    BY DEF DraftsGood
  <2> QED
    BY DEF HookInv, HookTypeOK, WriteSettings, Overtaken
<1> QED
  BY <1>1, <1>2, <1>3 DEF HookInv

(* A run that is done, however it ended, writes nothing more. *)
LEMMA EndKeeps ==
    ASSUME HookInv, NEW r \in Runs, PluginRun(r) \/ CutRun(r)
    PROVE  HookInv'
<1>1. HookTypeOK' /\ BlindOnes' /\ Emptied'
  BY DEF HookInv, HookTypeOK, BlindOnes, Emptied, PluginRun, CutRun
<1>2. ~ cut' /\ run'[r] # "write" => run[r] # "write" /\ ~ cut
  BY DEF HookInv, HookTypeOK, PluginRun, CutRun
<1>3. /\ run' = [run EXCEPT ![r] = "done"] /\ draft' = draft /\ settings' = settings
      /\ owner' = owner /\ last' = last /\ crossed' = crossed /\ stale' = stale
      /\ did' = did /\ unread' = unread /\ blind' = blind
  BY DEF PluginRun, CutRun
<1>4. HooksKept'
  BY <1>2, <1>3 DEF HookInv, HookTypeOK, HooksKept
<1>5. DraftsGood'
  BY <1>2, <1>3 DEF HookInv, HookTypeOK, DraftsGood, DraftGood, BaseOf
<1> QED
  BY <1>1, <1>4, <1>5 DEF HookInv

(* The owner writes the settings. *)
LEMMA OwnerEditsKeeps ==
    ASSUME HookInv, OwnerEdits
    PROVE  HookInv'
<1>1. HookTypeOK' /\ BlindOnes' /\ Emptied'
  BY OwnedAreSettings DEF HookInv, HookTypeOK, BlindOnes, Emptied, OwnerEdits
<1>2. HooksKept'
  BY DEF HooksKept, OwnerEdits, Kept, OursRight, Replaced, Touched
<1>3. DraftsGood'
  BY DEF DraftsGood, OwnerEdits
<1> QED
  BY <1>1, <1>2, <1>3 DEF HookInv

(* The inductive invariant of a settings file and the runs that change it. *)
THEOREM HookInvariance == HookSpec => []HookInv
<1>1. HookInit => HookInv
  <2> SUFFICES ASSUME HookInit PROVE HookInv
    OBVIOUS
  <2>1. HookTypeOK
    BY NothingIsSettings, OwnedAreSettings DEF HookInit, HookTypeOK
  <2>2. DraftsGood /\ BlindOnes /\ Emptied
    BY DEF HookInit, DraftsGood, BlindOnes, Emptied
  <2>3. HooksKept
    BY DEF HookInit, HooksKept, Kept, OursRight, Replaced, Touched
  <2> QED
    BY <2>1, <2>2, <2>3 DEF HookInv
<1>2. HookInv /\ [HookNext]_hookVars => HookInv'
  <2> SUFFICES ASSUME HookInv, [HookNext]_hookVars PROVE HookInv'
    OBVIOUS
  <2>1. CASE UNCHANGED hookVars
    BY <2>1 DEF hookVars, HookInv, HookTypeOK, HooksKept, DraftsGood, DraftGood, BaseOf, BlindOnes,
                Emptied
  <2>2. CASE HookNext
    BY <2>2, ReadKeeps, TruncateSettingsKeeps, WriteSettingsKeeps, EndKeeps, OwnerEditsKeeps
       DEF HookNext
  <2> QED
    BY <2>1, <2>2
<1> QED
  BY <1>1, <1>2, PTL DEF HookSpec

(* Of what their owner wrote last the settings lose what HooksKept names and nothing  *)
(* else, and each operation has the effect it is asked for.                          *)
THEOREM HookSettingsKept == HookSpec => []HooksKept
<1>1. HookInv => HooksKept
  BY DEF HookInv
<1> QED
  BY <1>1, HookInvariance, PTL
=============================================================================
