----------------------------- MODULE SessionStore -----------------------------
(***************************************************************************)
(* The projection in SQLite (internal/store/sqlite): what one transaction of *)
(* the writer does to the rows of one source.  A database is a record; each  *)
(* operator returns the database after a statement or a transaction.  A      *)
(* transcript file yields one session, whose rows are told apart by table    *)
(* because retention and ingest touch different tables:                      *)
(*   session  the session row: version read, title, resolved parent          *)
(*   raw      its raw_events, text its turns and tool_calls, docs its        *)
(*            search_documents: the version they show, NoRow, or Blanked     *)
(*   errors   files with parse_errors rows                                   *)
(*   offset   ingest_offsets: the fingerprint recorded with the rows         *)
(* A fingerprint is the version of the file it was taken from.               *)
(***************************************************************************)
EXTENDS Naturals, FiniteSets

CONSTANTS
    Transcripts,  \* session files of the source
    IndexFile,    \* codex's session_index.jsonl, a processed file without session
    Subagents,    \* files of subagent sessions (is_subagent = 1)
    ExternalID,   \* external_session_id the parser gives a file's session
    ParentExternalID, \* parent_external_id of a subagent
    Old,          \* files whose session and events are older than both cutoffs
    NoRow, Blanked, Failed

Session == [ver : Nat, title : Nat \cup {NoRow}, parent : Transcripts \cup {NoRow}]

ASSUME StoreAssumption ==
    /\ Subagents \subseteq Transcripts /\ Old \subseteq Transcripts
    /\ IndexFile \notin Transcripts
    /\ DOMAIN ExternalID = Transcripts /\ DOMAIN ParentExternalID = Subagents
    /\ NoRow \notin Nat /\ Blanked \notin Nat /\ Failed \notin Nat
    /\ NoRow # Blanked /\ NoRow \notin Transcripts \cup Session

SourceFiles == Transcripts \cup {IndexFile}

Database ==
    [session : [Transcripts -> Session \cup {NoRow}],
     raw : [Transcripts -> Nat \cup {NoRow}],
     text : [Transcripts -> Nat \cup {NoRow, Blanked}],
     docs : [Transcripts -> Nat \cup {NoRow, Blanked}],
     errors : SUBSET Transcripts,
     offset : [SourceFiles -> Nat \cup {NoRow}],
     skills : SUBSET Nat, servers : SUBSET Nat]

EmptyDatabase ==
    [session |-> [f \in Transcripts |-> NoRow], raw |-> [f \in Transcripts |-> NoRow],
     text |-> [f \in Transcripts |-> NoRow], docs |-> [f \in Transcripts |-> NoRow],
     errors |-> {}, offset |-> [f \in SourceFiles |-> NoRow], skills |-> {}, servers |-> {}]

Stored(db) == {f \in Transcripts : db.session[f] # NoRow}

(* What a batch hands to the sink (ingest.Result).  read: per processed         *)
(* transcript the version collected, Failed for a file that could not be        *)
(* collected or parsed, and Nothing for one that held no event; prints: the     *)
(* fingerprints the pass took; titles: thread names by external id.             *)
Result(read, index, prints, titles) ==
    [read |-> read, index |-> index, prints |-> prints, titles |-> titles,
     skills |-> {}, servers |-> {}, authSkills |-> FALSE, authServers |-> FALSE]

NoTitles == [e \in {} |-> 0]
NoFiles == [f \in {} |-> 0]

Processed(res) == DOMAIN res.read \cup (IF res.index THEN {IndexFile} ELSE {})
Projected(res) == {f \in DOMAIN res.read : res.read[f] \in Nat \ {0}}
MetadataOnly(res) == Processed(res) = {}

-----------------------------------------------------------------------------
(* Statements *)

Clear(rows, files) == [f \in DOMAIN rows |-> IF f \in files THEN NoRow ELSE rows[f]]

DeleteKeepingOffset(db, files) ==
    [db EXCEPT !.session = Clear(@, files), !.raw = Clear(@, files), !.text = Clear(@, files),
               !.docs = Clear(@, files), !.errors = @ \ files]

DeleteKeepingDocs(db, files) ==
    [DeleteKeepingOffset(db, files) EXCEPT !.docs = db.docs, !.offset = Clear(@, files)]

DeleteSourceFiles(db, files) ==
    [session |-> Clear(db.session, files), raw |-> Clear(db.raw, files),
     text |-> Clear(db.text, files), docs |-> Clear(db.docs, files),
     errors |-> db.errors \ files, offset |-> Clear(db.offset, files),
     skills |-> db.skills, servers |-> db.servers]

Put(rows, res) == [f \in DOMAIN rows |-> IF f \in Projected(res) THEN res.read[f] ELSE rows[f]]

(* ON CONFLICT DO NOTHING never meets a row: the file was cleared before.        *)
InsertRawEvents(db, res) == [db EXCEPT !.raw = Put(@, res)]

InsertTurnsAndChildren(db, res) == [db EXCEPT !.text = Put(@, res)]

InsertSearchDocuments(db, res) == [db EXCEPT !.docs = Put(@, res)]

InsertSessions(db, res) ==
    [db EXCEPT !.session = [f \in Transcripts |->
        IF f \in Projected(res) THEN [ver |-> res.read[f], title |-> NoRow, parent |-> NoRow]
                                ELSE @[f]]]

InsertParseErrors(db, res) ==
    [db EXCEPT !.errors = @ \cup {f \in DOMAIN res.read : res.read[f] = Failed}]

UpdateEveryOffset(db, res) ==
    [db EXCEPT !.offset = [f \in SourceFiles |->
        IF f \in DOMAIN res.prints THEN res.prints[f] ELSE @[f]]]

(* Only files of this batch, although the map holds those of the whole pass.      *)
UpdateIngestOffsets(db, res) ==
    [db EXCEPT !.offset = [f \in SourceFiles |->
        IF f \in Processed(res) \cap DOMAIN res.prints THEN res.prints[f] ELSE @[f]]]

(* The rows a batch deletes and inserts again, with the title each had.           *)
CapturedTitles(db, res) ==
    [f \in Projected(res) \cap Stored(db) |-> db.session[f].title]

RestoreNothing(db, titles) == db

RestoreSessionTitles(db, titles) ==
    [db EXCEPT !.session = [f \in Transcripts |->
        IF f \in DOMAIN titles THEN [@[f] EXCEPT !.title = titles[f]] ELSE @[f]]]

UpdateSessionTitles(db, titles) ==
    [db EXCEPT !.session = [f \in Transcripts |->
        IF f \in Stored(db) \ Subagents /\ ExternalID[f] \in DOMAIN titles
        THEN [@[f] EXCEPT !.title = titles[ExternalID[f]]] ELSE @[f]]]

-----------------------------------------------------------------------------
(* Subagent links: one UPDATE, repeated until it changes no row *)

Unlinked(ses) == {c \in Subagents : ses[c] # NoRow /\ ses[c].parent = NoRow}

(* A row with the child's parent id that is top-level, or a subagent already      *)
(* resolved; a top-level one is preferred.  Several of a kind are told apart by   *)
(* created_at and id, which is any of them here.                                  *)
Candidates(ses, c) ==
    {p \in Transcripts \ {c} :
        /\ ses[p] # NoRow /\ ExternalID[p] = ParentExternalID[c]
        /\ p \notin Subagents \/ ses[p].parent # NoRow}

AnyCandidate(ses, c) == Candidates(ses, c)

Best(ses, c) ==
    LET all == Candidates(ses, c)  top == all \ Subagents IN IF top # {} THEN top ELSE all

Resolvable(ses) == {c \in Unlinked(ses) : Candidates(ses, c) # {}}

(* The table in which some children have been given these parents.               *)
Link(ses, parents) ==
    [f \in Transcripts |->
        IF f \in DOMAIN parents THEN [ses[f] EXCEPT !.parent = parents[f]] ELSE ses[f]]

(* A row of the UPDATE sees the rows updated before it, in this or an earlier     *)
(* round: each child got a best candidate of its turn.                            *)
InTurns(ses, parents) ==
    \E turn \in [DOMAIN parents -> 1 .. Cardinality(DOMAIN parents)] :
        \A c \in DOMAIN parents :
            LET before == {d \in DOMAIN parents : turn[d] < turn[c]}
            IN  parents[c] \in Best(Link(ses, [d \in before |-> parents[d]]), c)

Updates(ses) ==
    {Link(ses, parents) : parents \in
        {ps \in UNION {[cs -> {f \in Transcripts : ses[f] # NoRow}] : cs \in SUBSET Unlinked(ses)} :
            InTurns(ses, ps)}}

ResolveOneLevel(ses) ==
    {Link(ses, parents) : parents \in
        {ps \in [Resolvable(ses) -> Transcripts] : \A c \in DOMAIN ps : ps[c] \in Best(ses, c)}}

(* Repeated until no row is left that has a candidate, one level of nesting       *)
(* after the other: the tables it can end in.                                     *)
ResolveSubagentParents(ses) == {t \in Updates(ses) : Resolvable(t) = {}}

-----------------------------------------------------------------------------
(* Skills and MCP servers: a metadata round that scanned a kind completely        *)
(* replaces it, anything else only adds.                                          *)

ReconcileAnyway(stored, found, authoritative) == found

Reconcile(stored, found, authoritative) == IF authoritative THEN found ELSE stored

SaveMetadata(db, res) ==
    IF MetadataOnly(res)
    THEN [db EXCEPT !.skills = Reconcile(@, res.skills, res.authSkills),
                    !.servers = Reconcile(@, res.servers, res.authServers)]
    ELSE [db EXCEPT !.skills = @ \cup res.skills, !.servers = @ \cup res.servers]

-----------------------------------------------------------------------------
(* Transactions *)

(* SaveIngestPartial: everything a batch brings, or nothing.  A set, because of   *)
(* the links.                                                                     *)
SaveIngest(db, res) ==
    LET cleared == DeleteSourceFiles(db, Processed(res))
        inserted == InsertSessions(InsertRawEvents(cleared, res), res)
        finish(d) == UpdateIngestOffsets(InsertSearchDocuments(InsertParseErrors(SaveMetadata(
                        InsertTurnsAndChildren(d, res), res), res), res), res)
    IN  {finish(UpdateSessionTitles(
            RestoreSessionTitles([inserted EXCEPT !.session = ses], CapturedTitles(db, res)),
            res.titles)) : ses \in ResolveSubagentParents(inserted.session)}

(* The result of a single file; without any event nothing is saved at all.        *)
SaveSessionIngest(db, res) == IF Projected(res) = {} THEN {db} ELSE SaveIngest(db, res)

LoadIngestFingerprints(db) ==
    [f \in {g \in SourceFiles : db.offset[g] # NoRow} |-> db.offset[f]]

PruneRawEvents(db) == [db EXCEPT !.raw = Clear(@, Old)]

Blank(rows) ==
    [f \in DOMAIN rows |-> IF f \in Old /\ rows[f] # NoRow THEN Blanked ELSE rows[f]]

RedactTurnsOnly(db) == [db EXCEPT !.text = Blank(@)]

(* One transaction blanks the text of the old sessions and what is indexed of it. *)
RedactNormalized(db) == [db EXCEPT !.text = Blank(@), !.docs = Blank(@)]

=============================================================================
