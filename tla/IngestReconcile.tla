---------------------------- MODULE IngestReconcile ----------------------------
(***************************************************************************)
(* Passes over the transcripts of one source and the store they fill         *)
(* (internal/ingest, internal/collector, internal/store/sqlite).  A pass      *)
(* loads the recorded fingerprints, walks the roots, takes the fingerprints,  *)
(* reads and saves what changed batch by batch through one writer goroutine,  *)
(* applies codex's thread titles, and purges what has vanished.  Two          *)
(* processes run passes on one store: the daemon, whose own passes and        *)
(* single-file ingests are serialised (RuntimeService), and `toktop ingest`.  *)
(* Retention runs beside them, and the transcripts change underneath.         *)
(***************************************************************************)
EXTENDS SessionStore, Sequences

CONSTANTS
    Sources, SourceOf,  \* providers, and the source a transcript belongs to
    TokenSources, \* fingerprint is a revision read at discovery (opencode)
    TitleSource,  \* has a trailing title round (codex)
    SkillSource,  \* has skills, and roots that a walk may hide (claude-code)
    Passes,       \* processes that run passes
    Daemon,       \* the one that also ingests single files
    FileOrder,    \* the transcripts as discovery sorts them
    Size,         \* bytes of a transcript
    FirstFiles,   \* sets of transcripts that may be there in the beginning
    MaxBatchBytes, \* BatchBytesThreshold
    Empty,        \* <<f, v>>: version v of f holds no event
    UserItems,    \* skills and MCP servers declared below the user's roots
    ProjectItems, \* those declared below the projects of the transcripts
    MaxChanges,   \* bound: changes of files
    MaxFaults,    \* bound: failed reads, saves and scans, and crashes
    MaxPasses     \* bound: passes and single-file ingests

ASSUME PassAssumption ==
    /\ SourceOf \in [Transcripts -> Sources] /\ TokenSources \subseteq Sources
    /\ FileOrder \in Seq(Transcripts) /\ \A f \in Transcripts : \E i \in 1 .. Len(FileOrder) : FileOrder[i] = f
    /\ Daemon \in Passes /\ MaxBatchBytes \in Nat \ {0}
    /\ Size \in [Transcripts -> Nat] /\ FirstFiles \subseteq SUBSET Transcripts
    /\ UserItems \subseteq Nat /\ ProjectItems \subseteq Nat
    /\ MaxChanges \in Nat /\ MaxFaults \in Nat /\ MaxPasses \in Nat

VARIABLES
    source,   \* the source the passes of this behaviour ingest: sources share no row
    disk,     \* per file: its version and whether it exists
    named,    \* external ids session_index.jsonl names, its version being their title
    db,       \* the committed database
    pass,     \* per process, the pass it has under way
    writer,   \* per process, the writer goroutine of StreamSessions
    retain,   \* the retention run: "idle", or "redact" once raw events are pruned
    changes, faults, passes,
    calm,     \* history: processes whose pass met no fault and no change so far
    hidden    \* history: a scan that missed an item was taken for complete

vars == <<source, disk, named, db, pass, writer, retain, changes, faults, passes, calm, hidden>>
envVars == <<source, disk, named, changes>>

Idle == [pc |-> "idle"]
Off == [pc |-> "off"]
At(p, pc) == pass[p].pc = pc

Mine == {f \in Transcripts : SourceOf[f] = source}
There == {f \in Mine : disk[f].there}
Exists(f) == disk[f].there
Prints(files) == [f \in {g \in files : Exists(g)} |-> disk[f].ver]
Items == UserItems \cup ProjectItems

Init ==
    /\ source \in Sources
    /\ \E files \in FirstFiles :
          /\ \A f \in files : SourceOf[f] = source
          /\ disk = [f \in SourceFiles |-> [ver |-> 1, there |-> f \in files]]
    /\ named = {}
    /\ db = [EmptyDatabase EXCEPT !.skills = IF source = SkillSource THEN Items ELSE {},
                                  !.servers = IF source = SkillSource THEN Items ELSE {}]
    /\ pass = [p \in Passes |-> Idle] /\ writer = [p \in Passes |-> Off]
    /\ retain = "idle" /\ changes = 0 /\ faults = 0 /\ passes = 0 /\ calm = {} /\ hidden = FALSE

-----------------------------------------------------------------------------
(* Steps of a pass change its record; a step that fails counts as a fault.       *)

Become(p, r) == pass' = [pass EXCEPT ![p] = r]
Goto(p, pc) == Become(p, [pass[p] EXCEPT !.pc = pc])
End(p) == Become(p, Idle)

Fine == UNCHANGED <<faults, calm>>
Faulty(p) == faults < MaxFaults /\ faults' = faults + 1 /\ calm' = calm \ {p}

(* A transaction commits, and unsettles every other pass, or fails.              *)
Commits(p, dbs) == db' \in dbs /\ calm' = calm \cap {p} /\ UNCHANGED faults
Aborts(p) == UNCHANGED db /\ Faulty(p)

(* RunFull: the fingerprints of the store are loaded before anything is looked at.*)
Start(p) ==
    /\ At(p, "idle") /\ passes < MaxPasses /\ passes' = passes + 1
    /\ Become(p, [pc |-> "discover", known |-> LoadIngestFingerprints(db)])
    /\ calm' = calm \cup {p}
    /\ UNCHANGED <<envVars, db, writer, retain, faults, hidden>>

(* The walk of the roots.  A directory that cannot be read hides its files from   *)
(* the walk, not from the disk; opencode's database hands out its revisions with  *)
(* the list.                                                                      *)
DiscoverSessions(p) ==
    /\ At(p, "discover")
    /\ \E found \in SUBSET There :
          /\ IF found = There THEN Fine ELSE source \notin TokenSources /\ Faulty(p)
          /\ Become(p, [pc |-> "partition", known |-> pass[p].known, found |-> found,
                        prints |-> Prints(found)])
    /\ UNCHANGED <<envVars, db, writer, retain, passes, hidden>>

(* The database of opencode cannot be listed.                                     *)
DiscoverInDBFails(p) ==
    /\ At(p, "discover") /\ source \in TokenSources
    /\ Faulty(p) /\ End(p)
    /\ UNCHANGED <<envVars, db, writer, retain, passes, hidden>>

(* The changed files in their order, cut where the next one no longer fits: a new *)
(* batch starts there, as it does with the first file of all.                     *)
ChunkBySize(changed) ==
    LET listed == {i \in 1 .. Len(FileOrder) : FileOrder[i] \in changed}
        bytes[i \in 0 .. Len(FileOrder)] ==  \* of the open batch, after i files
            IF i = 0 THEN MaxBatchBytes + 1
            ELSE IF i \notin listed THEN bytes[i - 1]
            ELSE IF bytes[i - 1] + Size[FileOrder[i]] > MaxBatchBytes THEN Size[FileOrder[i]]
            ELSE bytes[i - 1] + Size[FileOrder[i]]
        starts == {i \in listed : bytes[i - 1] + Size[FileOrder[i]] > MaxBatchBytes}
        batch(i) == Cardinality({j \in starts : j <= i})
    IN  [b \in 1 .. Cardinality(starts) |-> {FileOrder[i] : i \in {j \in listed : batch(j) = b}}]

(* A file without a fingerprint counts as changed, and is not in the map.         *)
Changed(found, prints, known) ==
    {f \in found : f \in DOMAIN prints \cap DOMAIN known => prints[f] # known[f]}

PartitionByFingerprint(p) ==
    /\ At(p, "partition")
    /\ LET found == pass[p].found
           prints == IF source \in TokenSources THEN pass[p].prints ELSE Prints(found)
           changed == Changed(found, prints, pass[p].known)
       IN  Become(p, [pc |-> "metadata", known |-> pass[p].known, prints |-> prints,
                      projects |-> found # {}, out |-> NoFiles, failed |-> FALSE,
                      todo |-> ChunkBySize(changed)])
    /\ Fine
    /\ UNCHANGED <<envVars, db, writer, retain, passes, hidden>>

-----------------------------------------------------------------------------
(* The metadata round: skills and MCP servers, saved before any session.          *)

(* Project paths come from the transcripts that were found.                       *)
Declared(p) == UserItems \cup (IF pass[p].projects THEN ProjectItems ELSE {})

(* A root or config that cannot be read makes its scan incomplete; one skill that *)
(* cannot be read is skipped and the scan stays complete.                         *)
Scan(found, authoritative) == [found |-> found, auth |-> authoritative]
SkillScans(p) ==
    {Scan(Declared(p), TRUE), Scan({}, FALSE)} \cup {Scan(Declared(p) \ {s}, TRUE) : s \in Declared(p)}
ServerScans(p) == {Scan(Declared(p), TRUE), Scan({}, FALSE)}

AfterMetadata(p) == IF pass[p].todo # << >> THEN "parse"
                    ELSE IF source = TitleSource THEN "titles" ELSE "purge"

MetadataResult(p, skills, servers) ==
    [Result(NoFiles, FALSE, pass[p].prints, NoTitles) EXCEPT
        !.skills = skills.found, !.authSkills = skills.auth,
        !.servers = servers.found, !.authServers = servers.auth]

(* Sources without skills hand in an empty list, complete whenever their config   *)
(* is.                                                                            *)
NextBatch(p) ==
    /\ Goto(p, AfterMetadata(p))
    /\ writer' = [writer EXCEPT ![p] = IF pass[p].todo # << >> THEN [pc |-> "ready"] ELSE Off]

Metadata(p) ==
    /\ At(p, "metadata") /\ source = SkillSource
    /\ \E skills \in SkillScans(p), servers \in ServerScans(p) :
          LET exact == {skills, servers} = {Scan(Declared(p), TRUE)}
          IN  /\ db' \in SaveIngest(db, MetadataResult(p, skills, servers))
              /\ hidden' = (hidden \/ \E scan \in {skills, servers} :
                                          scan.auth /\ scan.found # Items)
              /\ IF exact THEN calm' = calm \cap {p} /\ UNCHANGED faults ELSE Faulty(p)
    /\ NextBatch(p)
    /\ UNCHANGED <<envVars, retain, passes>>

(* Without ~/.claude.json, which both scans share, there is no round; neither is    *)
(* there one whose items matter for a source without any.                         *)
MetadataSkipped(p) ==
    /\ At(p, "metadata")
    /\ IF source = SkillSource THEN Faulty(p) ELSE Fine
    /\ NextBatch(p)
    /\ UNCHANGED <<envVars, db, retain, passes, hidden>>

(* The sink refuses the round: the pass ends.                                     *)
MetadataFails(p) ==
    /\ At(p, "metadata") /\ Aborts(p) /\ End(p)
    /\ UNCHANGED <<envVars, writer, retain, passes, hidden>>

-----------------------------------------------------------------------------
(* Batches: the pass parses, the writer goroutine saves *)

Content(f, v) == IF <<f, v>> \in Empty THEN 0 ELSE v

(* What collecting and parsing a file gives.  opencode's rows are read in several *)
(* statements: what they say together is no newer than the first of them.         *)
Reading(p, f) ==
    IF ~ Exists(f) THEN {Failed}
    ELSE IF source \in TokenSources /\ f \in DOMAIN pass[p].prints
    THEN {Content(f, v) : v \in pass[p].prints[f] .. disk[f].ver}
    ELSE {Content(f, disk[f].ver)}

Readings(p, files) ==
    {read \in [files -> UNION {Reading(p, f) : f \in files}] :
        \A f \in files : read[f] \in Reading(p, f)}

(* IngestBatch: a file that cannot be read is recorded as such and does not stop   *)
(* the others.                                                                    *)
IngestBatch(p) ==
    /\ At(p, "parse")
    /\ \E read \in Readings(p, Head(pass[p].todo)) :
          \/ Fine /\ Become(p, [pass[p] EXCEPT !.pc = "send", !.out = read])
          \/ \E f \in DOMAIN read : 
                Faulty(p) /\ Become(p, [pass[p] EXCEPT !.pc = "send",
                                                       !.out = [read EXCEPT ![f] = Failed]])
    /\ UNCHANGED <<envVars, db, writer, retain, passes, hidden>>

(* Cancelled, or not redacted: the loop ends and waits for the writer.            *)
IngestBatchFails(p) ==
    /\ At(p, "parse") /\ Faulty(p)
    /\ Become(p, [pass[p] EXCEPT !.pc = "join", !.failed = TRUE])
    /\ UNCHANGED <<envVars, db, writer, retain, passes, hidden>>

Send(p) ==
    /\ At(p, "send") /\ writer[p].pc = "ready"
    /\ writer' = [writer EXCEPT ![p] = [pc |-> "saving",
                    res |-> Result(pass[p].out, FALSE, pass[p].prints, NoTitles)]]
    /\ LET rest == Tail(pass[p].todo)
       IN  Become(p, [pass[p] EXCEPT !.todo = rest, !.out = NoFiles,
                                     !.pc = IF rest = << >> THEN "join" ELSE "parse"])
    /\ Fine
    /\ UNCHANGED <<envVars, db, retain, passes, hidden>>

SendUnheard(p) == FALSE

(* The writer has stopped: its error ends the pass, the batch is dropped.         *)
SendAfterFailure(p) ==
    /\ At(p, "send") /\ writer[p].pc = "failed"
    /\ writer' = [writer EXCEPT ![p] = Off] /\ End(p)
    /\ Fine
    /\ UNCHANGED <<envVars, db, retain, passes, hidden>>

WriterSave(p) ==
    /\ writer[p].pc = "saving"
    /\ \/ Commits(p, SaveIngest(db, writer[p].res)) /\ writer' = [writer EXCEPT ![p] = [pc |-> "ready"]]
       \/ Aborts(p) /\ writer' = [writer EXCEPT ![p] = [pc |-> "failed"]]
    /\ UNCHANGED <<envVars, pass, retain, passes, hidden>>

(* The channel is closed and the writer's one answer awaited, whatever happened.  *)
Join(p) ==
    /\ At(p, "join") /\ writer[p].pc \in {"ready", "failed"}
    /\ writer' = [writer EXCEPT ![p] = Off]
    /\ IF pass[p].failed \/ writer[p].pc = "failed" THEN End(p)
       ELSE Goto(p, IF source = TitleSource THEN "titles" ELSE "purge")
    /\ Fine
    /\ UNCHANGED <<envVars, db, retain, passes, hidden>>

-----------------------------------------------------------------------------
(* Titles and purge *)

(* The index is stated before it is read, and skipped when its fingerprint is the *)
(* recorded one; one that cannot be opened names nobody, and counts as read.      *)
TitlesStat(p) ==
    /\ At(p, "titles")
    /\ LET v == disk[IndexFile].ver  known == pass[p].known
       IN  IF ~ Exists(IndexFile) \/ (IndexFile \in DOMAIN known /\ known[IndexFile] = v)
           THEN Goto(p, "purge")
           ELSE Become(p, [pass[p] EXCEPT !.pc = "names", !.out = [f \in {IndexFile} |-> v]])
    /\ Fine
    /\ UNCHANGED <<envVars, db, writer, retain, passes, hidden>>

IndexTitles == IF Exists(IndexFile) THEN [e \in named |-> disk[IndexFile].ver] ELSE NoTitles

ReadSessionTitles(p) ==
    /\ At(p, "names")
    /\ \E titles \in {IndexTitles, NoTitles} :
          /\ IF titles = IndexTitles THEN Fine ELSE Faulty(p)
          /\ Become(p, [pass[p] EXCEPT !.pc = "titlesave",
                            !.out = Result(NoFiles, TRUE, pass[p].out, titles)])
    /\ UNCHANGED <<envVars, db, writer, retain, passes, hidden>>

SaveTitles(p) ==
    /\ At(p, "titlesave")
    /\ \/ Commits(p, SaveIngest(db, pass[p].out)) /\ Goto(p, "purge")
       \/ Aborts(p) /\ End(p)
    /\ UNCHANGED <<envVars, writer, retain, passes, hidden>>

(* Known files without a fingerprint this time, that do not exist.  Asking may     *)
(* fail for any other reason, and then the file counts as there.                  *)
Gone(p) == {f \in DOMAIN pass[p].known \ DOMAIN pass[p].prints : ~ Exists(f)}

PurgeVanished(p) ==
    /\ At(p, "purge")
    /\ \/ Gone(p) # {} /\ Become(p, [pc |-> "delete", gone |-> Gone(p)]) /\ Fine
       \/ Gone(p) = {} /\ End(p) /\ Fine
       \/ Gone(p) # {} /\ End(p) /\ Faulty(p)
    /\ UNCHANGED <<envVars, db, writer, retain, passes, hidden>>

Delete(p) ==
    /\ At(p, "delete") /\ End(p)
    /\ Commits(p, {DeleteSourceFiles(db, pass[p].gone)}) \/ Aborts(p)
    /\ UNCHANGED <<envVars, writer, retain, passes, hidden>>

-----------------------------------------------------------------------------
(* One file, by the daemon: its error is returned, nothing is saved *)

FileStat(p, f) ==
    /\ p = Daemon /\ At(p, "idle") /\ passes < MaxPasses /\ passes' = passes + 1
    /\ Become(p, [pc |-> "fileread", prints |-> Prints({f}), file |-> f])
    /\ UNCHANGED <<envVars, db, writer, retain, faults, calm, hidden>>

IngestSessionFile(p) ==
    /\ At(p, "fileread")
    /\ \E v \in Reading(p, pass[p].file) :
          \/ v # Failed /\ Fine /\ Become(p, [pc |-> "filesave", prints |-> pass[p].prints,
                                               file |-> pass[p].file, read |-> v])
          \/ End(p) /\ IF v = Failed THEN Fine ELSE Faulty(p)
    /\ UNCHANGED <<envVars, db, writer, retain, passes, hidden>>

FileSave(p) ==
    /\ At(p, "filesave") /\ End(p)
    /\ \/ Commits(p, SaveSessionIngest(db, 
                        Result([f \in {pass[p].file} |-> pass[p].read], FALSE,
                               pass[p].prints, NoTitles)))
       \/ Aborts(p)
    /\ UNCHANGED <<envVars, writer, retain, passes, hidden>>

-----------------------------------------------------------------------------
(* Around the passes *)

Crash(p) ==
    /\ ~ At(p, "idle") /\ Faulty(p) /\ End(p) /\ writer' = [writer EXCEPT ![p] = Off]
    /\ UNCHANGED <<envVars, db, retain, passes, hidden>>

(* Retention.Apply: raw events first, then the redaction, each a transaction.     *)
Prune ==
    /\ retain = "idle" /\ PruneRawEvents(db) # db
    /\ db' = PruneRawEvents(db) /\ retain' = "redact" /\ calm' = {}
    /\ UNCHANGED <<envVars, pass, writer, faults, passes, hidden>>

Redact ==
    /\ retain = "redact" /\ retain' = "idle" /\ calm' = {}
    /\ \/ db' = RedactNormalized(db) /\ UNCHANGED faults
       \/ UNCHANGED db /\ faults < MaxFaults /\ faults' = faults + 1
    /\ UNCHANGED <<envVars, pass, writer, passes, hidden>>

Change == changes < MaxChanges /\ changes' = changes + 1 /\ calm' = {}
EnvDone == UNCHANGED <<source, db, pass, writer, retain, faults, passes, hidden>>

Write(f) ==
    /\ Change /\ f \in Mine
    /\ disk' = [disk EXCEPT ![f] = [ver |-> @.ver + 1, there |-> TRUE]]
    /\ UNCHANGED named /\ EnvDone

Unlink(f) ==
    /\ Change /\ f \in There
    /\ disk' = [disk EXCEPT ![f].there = FALSE]
    /\ UNCHANGED named /\ EnvDone

(* A thread gets its name once it has a transcript.                               *)
NameThreads ==
    /\ Change /\ source = TitleSource /\ There # {}
    /\ disk' = [disk EXCEPT ![IndexFile] = [ver |-> @.ver + 1, there |-> TRUE]]
    /\ named' = named \cup {ExternalID[f] : f \in There}
    /\ EnvDone

PassStep(p) ==
    \/ DiscoverSessions(p) \/ DiscoverInDBFails(p) \/ PartitionByFingerprint(p)
    \/ Metadata(p) \/ MetadataSkipped(p) \/ MetadataFails(p)
    \/ IngestBatch(p) \/ IngestBatchFails(p) \/ Send(p) \/ SendAfterFailure(p) \/ Join(p)
    \/ TitlesStat(p) \/ ReadSessionTitles(p) \/ SaveTitles(p) \/ PurgeVanished(p) \/ Delete(p)
    \/ IngestSessionFile(p) \/ FileSave(p)

Next ==
    \/ \E p \in Passes : Start(p) \/ PassStep(p) \/ WriterSave(p) \/ Crash(p)
    \/ \E f \in Mine : FileStat(Daemon, f) \/ Write(f) \/ Unlink(f)
    \/ Prune \/ Redact \/ NameThreads

Spec == Init /\ [][Next]_vars

-----------------------------------------------------------------------------
(* Properties *)

Records == [Transcripts -> Session \cup {NoRow}]

(* The store, the disk and the passes keep their shape; a writer goroutine runs    *)
(* only while its pass does.                                                      *)
TypeOK ==
    /\ source \in Sources /\ db \in Database
    /\ disk \in [SourceFiles -> [ver : 1 .. MaxChanges + 1, there : BOOLEAN]]
    /\ retain \in {"idle", "redact"} /\ calm \subseteq Passes /\ hidden \in BOOLEAN
    /\ faults \in 0 .. MaxFaults /\ changes \in 0 .. MaxChanges /\ passes \in 0 .. MaxPasses
    /\ \A p \in Passes : writer[p].pc # "off" => pass[p].pc \in {"parse", "send", "join"}

(* A file recorded with the fingerprint it has now, which every later pass skips,  *)
(* shows that version: it is stored, or it holds no event, or the attempt to read *)
(* it is on record as a parse error (PartitionByFingerprint, updateIngestOffsets). *)
FingerprintHonest ==
    \A f \in There :
        db.offset[f] = disk[f].ver =>
            \/ f \in Stored(db) /\ db.session[f].ver = disk[f].ver
            \/ f \notin Stored(db) /\ (Content(f, disk[f].ver) = 0 \/ f \in db.errors)

(* What the tables say of a file agrees: a session's raw events and text are those *)
(* of its version unless retention took them, and no session means no rows.       *)
RowsAgree ==
    \A f \in Transcripts :
        LET v == IF f \in Stored(db) THEN db.session[f].ver ELSE NoRow
        IN  /\ db.raw[f] \in {v, NoRow}
            /\ db.text[f] \in {v, Blanked} /\ db.docs[f] \in {v, Blanked}
            /\ db.text[f] = Blanked => f \in Stored(db) /\ f \in Old

(* Redaction never leaves text behind that can still be searched for              *)
(* (RedactNormalized).                                                            *)
SearchHidesRedacted == \A f \in Transcripts : db.text[f] = Blanked => db.docs[f] = Blanked

(* A pass that met no fault and no change leaves the store equal to the disk:      *)
(* every file in its present version, and nothing of a file that has vanished and *)
(* was ever recorded (RunFull, purgeVanished).                                    *)
Settled ==
    /\ \A f \in There : \/ f \in Stored(db) /\ db.session[f].ver = disk[f].ver
                        \/ f \notin Stored(db) /\ (Content(f, disk[f].ver) = 0 \/ f \in db.errors)
    /\ \A f \in Mine \ There : db.offset[f] = NoRow

QuietPassSettles ==
    [][\A p \in Passes :
        pass[p].pc \in {"purge", "delete"} /\ pass'[p].pc = "idle" /\ p \in calm' => Settled']_vars

(* No subagent stays unlinked beside a stored row with its parent's id that is      *)
(* top-level or linked itself, whatever the order in which they were found and    *)
(* however deep it is nested (resolveSubagentParents).                            *)
LinksComplete ==
    \A f \in Stored(db) \cap Subagents :
        db.session[f].parent = NoRow =>
            \A q \in Stored(db) \ {f} :
                ExternalID[q] = ParentExternalID[f] =>
                    q \in Subagents /\ db.session[q].parent = NoRow

(* A subagent linked while its top-level parent is stored is linked to it and not  *)
(* to a sibling, which bears the same id in claude-code (resolveSubagentParents). *)
ParentOverSibling ==
    [][\A f \in Stored(db') \cap Subagents :
        LET q == db'.session[f].parent
            was == IF f \in Stored(db) THEN db.session[f].parent ELSE NoRow
        IN  q # NoRow /\ q # was /\ q \in Subagents =>
                ~ \E top \in Stored(db') \ Subagents : ExternalID[top] = ParentExternalID[f]]_vars

(* A thread's title survives every ingest of its transcript, which inserts the row *)
(* anew and knows no title (captureSessionTitles, restoreSessionTitles).          *)
TitleKept ==
    [][\A f \in Stored(db) \cap Stored(db') :
        db.session[f].title # NoRow => db'.session[f].title # NoRow]_vars

(* A failed scan deletes no skill and no server: unless a scan that missed some    *)
(* passed for complete, all that are declared stay stored (reconcileSkills,       *)
(* reconcileMCPServers).                                                          *)
MetadataKept ==
    source = SkillSource /\ ~ hidden => Items \subseteq db.skills \cap db.servers

(* The pass and its writer never wait for each other: a pass that hands over a     *)
(* batch or waits for the writer's answer gets on, or its writer has a transaction  *)
(* to commit, also after the writer has stopped on an error (StreamSessions).       *)
NeverStuck ==
    \A p \in Passes :
        pass[p].pc \in {"send", "join"} =>
            \/ ENABLED (Send(p) \/ SendAfterFailure(p) \/ Join(p))
            \/ writer[p].pc = "saving" /\ SaveIngest(db, writer[p].res) # {}

=============================================================================
