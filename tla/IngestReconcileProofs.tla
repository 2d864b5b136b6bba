------------------------ MODULE IngestReconcileProofs ------------------------
(***************************************************************************)
(* What passes, single-file ingests, retention and crashes leave in the store, *)
(* for any files, sources, processes and interleaving.                         *)
(***************************************************************************)
EXTENDS IngestReconcile, FiniteSetTheorems, Recursion, TLAPS

-----------------------------------------------------------------------------
(* The transactions of the store *)

(* What a result may hold, whoever made it. *)
ResultOK(res) ==
    /\ DOMAIN res.read \subseteq Transcripts
    /\ \A f \in DOMAIN res.read : res.read[f] \in Nat \cup {Failed}
    /\ \A f \in DOMAIN res.prints : res.prints[f] \in Nat
    /\ \A e \in DOMAIN res.titles : res.titles[e] \in Nat
    /\ res.skills \subseteq Nat /\ res.servers \subseteq Nat

(* A database by its tables. *)
Tables(session, raw, text, docs, errors, offset, skills, servers) ==
    [session |-> session, raw |-> raw, text |-> text, docs |-> docs, errors |-> errors,
     offset |-> offset, skills |-> skills, servers |-> servers]

(* Clearing files leaves rows of the same kind. *)
LEMMA ClearedType ==
    ASSUME NEW S, NEW T, NoRow \in T, NEW rows \in [S -> T], NEW files
    PROVE  Clear(rows, files) \in [S -> T]
BY DEF Clear

(* A database from which files were deleted is one. *)
LEMMA DeletedType ==
    ASSUME NEW d \in Database, NEW files
    PROVE  DeleteSourceFiles(d, files) \in Database
<1>1. Clear(d.session, files) \in [Transcripts -> Session \cup {NoRow}]
  BY ClearedType DEF Database
<1>2. Clear(d.raw, files) \in [Transcripts -> Nat \cup {NoRow}]
  BY ClearedType DEF Database
<1>3. /\ Clear(d.text, files) \in [Transcripts -> Nat \cup {NoRow, Blanked}]
      /\ Clear(d.docs, files) \in [Transcripts -> Nat \cup {NoRow, Blanked}]
  BY ClearedType DEF Database
<1>4. Clear(d.offset, files) \in [SourceFiles -> Nat \cup {NoRow}]
  BY ClearedType DEF Database
<1> QED
  BY <1>1, <1>2, <1>3, <1>4 DEF Database, DeleteSourceFiles

(* A projected file is a processed transcript. *)
LEMMA ProjectedIsProcessed ==
    ASSUME NEW res, ResultOK(res)
    PROVE  /\ Projected(res) \subseteq Transcripts /\ Projected(res) \subseteq Processed(res)
           /\ \A f \in Projected(res) : res.read[f] \in Nat \ {0}
BY DEF ResultOK, Projected, Processed

(* The session rows once the batch is inserted, before children are linked. *)
Inserted(d, res) ==
    [f \in Transcripts |->
        IF f \in Projected(res) THEN [ver |-> res.read[f], title |-> NoRow, parent |-> NoRow]
        ELSE IF f \in Processed(res) THEN NoRow ELSE d.session[f]]

(* They are session rows. *)
LEMMA InsertedType ==
    ASSUME NEW d \in Database, NEW res, ResultOK(res)
    PROVE  Inserted(d, res) \in Records
BY ProjectedIsProcessed DEF Inserted, Records, Database, Session

(* Linking changes the parents of children without one, and of nothing else. *)
LEMMA LinkedRows ==
    ASSUME NEW ses \in Records, NEW t \in ResolveSubagentParents(ses)
    PROVE  /\ t \in Records /\ Resolvable(t) = {}
           /\ \A f \in Transcripts :
                 /\ t[f] = NoRow <=> ses[f] = NoRow
                 /\ t[f] # NoRow => t[f].ver = ses[f].ver /\ t[f].title = ses[f].title
                 /\ t[f] # NoRow /\ t[f].parent # ses[f].parent =>
                       /\ f \in Subagents /\ t[f].parent \in Transcripts
                       /\ t[f].parent \in Subagents =>
                             \A p \in Transcripts \ Subagents :
                                t[p] # NoRow => ExternalID[p] # ParentExternalID[f]
<1> DEFINE there == {f \in Transcripts : ses[f] # NoRow}
<1>0. PICK cs \in SUBSET Unlinked(ses) :
          \E ps \in [cs -> there] : t = Link(ses, ps) /\ InTurns(ses, ps) /\ Resolvable(t) = {}
  <2>1. /\ t \in {Link(ses, ps) : ps \in {qs \in UNION {[cs -> there] : cs \in SUBSET Unlinked(ses)} :
                                            InTurns(ses, qs)}}
        /\ Resolvable(t) = {}
    BY DEF ResolveSubagentParents, Updates
  <2>2. PICK ps \in UNION {[cs -> there] : cs \in SUBSET Unlinked(ses)} :
            InTurns(ses, ps) /\ t = Link(ses, ps)
    BY <2>1
  <2> QED
    BY <2>1, <2>2
<1>1. PICK parents \in [cs -> there] :
          t = Link(ses, parents) /\ InTurns(ses, parents) /\ Resolvable(t) = {}
  BY <1>0
<1>2. \A c \in cs : c \in Transcripts /\ c \in Subagents /\ ses[c] # NoRow /\ ses[c] \in Session
  BY StoreAssumption DEF Unlinked, Records
<1>3. \A f \in Transcripts : t[f] = IF f \in cs THEN [ses[f] EXCEPT !.parent = parents[f]] ELSE ses[f]
  BY <1>1 DEF Link
<1>4. \A c \in cs : /\ t[c] \in Session /\ t[c].parent = parents[c]
                    /\ t[c].ver = ses[c].ver /\ t[c].title = ses[c].title
  <2> TAKE c \in cs
  <2>1. t[c] = [ses[c] EXCEPT !.parent = parents[c]] /\ ses[c] \in Session /\ parents[c] \in Transcripts
    BY <1>2, <1>3
  <2> QED
    BY <2>1 DEF Session
<1>5. t \in Records
  BY <1>1, <1>3, <1>4 DEF Records, Link
<1>6. \A f \in Transcripts : t[f] = NoRow <=> ses[f] = NoRow
  BY <1>2, <1>3, <1>4, StoreAssumption
<1>7. ASSUME NEW c \in cs, parents[c] \in Subagents, NEW p \in Transcripts \ Subagents, t[p] # NoRow
      PROVE  ExternalID[p] # ParentExternalID[c]
  <2>1. PICK turn \in [cs -> 1 .. Cardinality(cs)] :
            \A b \in cs :
                parents[b] \in Best(Link(ses, [a \in {e \in cs : turn[e] < turn[b]} |-> parents[a]]), b)
    BY <1>1 DEF InTurns
  <2> DEFINE before == {e \in cs : turn[e] < turn[c]}
             seen == Link(ses, [a \in before |-> parents[a]])
  <2>2. parents[c] \in Best(seen, c)
    BY <2>1
  <2>3. seen[p] = ses[p] /\ ses[p] # NoRow /\ p # c
    BY <1>2, <1>6, <1>7 DEF Link
  <2> HIDE DEF seen
  <2>4. Candidates(seen, c) \ Subagents = {}
    BY <2>2, <1>7 DEF Best
  <2> QED
    BY <2>3, <2>4 DEF Candidates
<1> QED
  BY <1>1, <1>2, <1>3, <1>4, <1>5, <1>6, <1>7

(* The titles a batch leaves: those the rows had before, then those it brings. *)
Restored(d, res, t) ==
    [f \in Transcripts |-> IF f \in Projected(res) \cap Stored(d)
                           THEN [t[f] EXCEPT !.title = d.session[f].title] ELSE t[f]]
Titled(d, res, t) ==
    [f \in Transcripts |->
        IF Restored(d, res, t)[f] # NoRow /\ f \notin Subagents /\ ExternalID[f] \in DOMAIN res.titles
        THEN [Restored(d, res, t)[f] EXCEPT !.title = res.titles[ExternalID[f]]]
        ELSE Restored(d, res, t)[f]]

(* The fingerprints a batch leaves. *)
Recorded(d, res) ==
    [f \in SourceFiles |->
        IF f \in Processed(res) THEN IF f \in DOMAIN res.prints THEN res.prints[f] ELSE NoRow
        ELSE d.offset[f]]

(* The items a result leaves. *)
Kept(stored, res, found, authoritative) ==
    IF MetadataOnly(res) THEN Reconcile(stored, found, authoritative) ELSE stored \cup found

(* What a batch leaves in the tables, the links being any that cannot be extended. *)
Saved(d, res, t) ==
    Tables(Titled(d, res, t),
           Put(Clear(d.raw, Processed(res)), res), Put(Clear(d.text, Processed(res)), res),
           Put(Clear(d.docs, Processed(res)), res),
           (d.errors \ Processed(res)) \cup {f \in DOMAIN res.read : res.read[f] = Failed},
           Recorded(d, res),
           Kept(d.skills, res, res.skills, res.authSkills),
           Kept(d.servers, res, res.servers, res.authServers))

(* A metadata round replaces two tables. *)
LEMMA MetadataTables ==
    ASSUME NEW s, NEW r, NEW t, NEW d, NEW e, NEW o, NEW k, NEW v, NEW res
    PROVE  SaveMetadata(Tables(s, r, t, d, e, o, k, v), res)
             = Tables(s, r, t, d, e, o, Kept(k, res, res.skills, res.authSkills),
                      Kept(v, res, res.servers, res.authServers))
<1> DEFINE w == Tables(s, r, t, d, e, o, k, v)
           k2 == Kept(k, res, res.skills, res.authSkills)
           v2 == Kept(v, res, res.servers, res.authServers)
           w1 == [w EXCEPT !.skills = k2]
           w2 == [w1 EXCEPT !.servers = v2]
<1>1. w.skills = k /\ w.servers = v
  BY DEF Tables
<1>2. w1 = Tables(s, r, t, d, e, o, k2, v)
  <2> HIDE DEF k2
  <2> QED
    BY DEF Tables
<1>3. w2 = Tables(s, r, t, d, e, o, k2, v2)
  <2> HIDE DEF k2, v2, w1
  <2> QED
    BY <1>2 DEF Tables
<1>4. SaveMetadata(w, res) = w2
  <2>1. CASE MetadataOnly(res)
    <3>1. k2 = Reconcile(w.skills, res.skills, res.authSkills)
      BY <1>1, <2>1 DEF Kept
    <3>2. v2 = Reconcile(w.servers, res.servers, res.authServers)
      BY <1>1, <2>1 DEF Kept
    <3> HIDE DEF w, k2, v2
    <3> QED
      BY <2>1, <3>1, <3>2, Zenon DEF SaveMetadata
  <2>2. CASE ~ MetadataOnly(res)
    <3>1. k2 = w.skills \cup res.skills
      BY <1>1, <2>2 DEF Kept
    <3>2. v2 = w.servers \cup res.servers
      BY <1>1, <2>2 DEF Kept
    <3> HIDE DEF w, k2, v2
    <3> QED
      BY <2>2, <3>1, <3>2, Zenon DEF SaveMetadata
  <2> QED
    BY <2>1, <2>2
<1> QED
  BY <1>3, <1>4, Zenon

(* SaveIngest leaves such tables. *)
LEMMA SavedTables ==
    ASSUME NEW d \in Database, NEW res, NEW new \in SaveIngest(d, res)
    PROVE  \E t \in ResolveSubagentParents(Inserted(d, res)) : new = Saved(d, res, t)
<1> DEFINE files == Processed(res)
           raw1 == Put(Clear(d.raw, files), res)
           w0 == DeleteSourceFiles(d, files)
           w1 == InsertRawEvents(w0, res)
           w2 == InsertSessions(w1, res)
           text0 == Clear(d.text, files)
           docs0 == Clear(d.docs, files)
           errors0 == d.errors \ files
           offset0 == Clear(d.offset, files)
<1>1. w0 = Tables(Clear(d.session, files), Clear(d.raw, files), text0, docs0, errors0, offset0,
                  d.skills, d.servers)
  BY DEF DeleteSourceFiles, Tables
<1>2. w1 = Tables(Clear(d.session, files), raw1, text0, docs0, errors0, offset0, d.skills, d.servers)
  <2> HIDE DEF w0, files, text0, docs0, errors0, offset0
  <2>1. w0.raw = Clear(d.raw, files)
    BY <1>1 DEF Tables
  <2> QED
    BY <1>1, <2>1 DEF InsertRawEvents, Tables
<1>3. w2 = Tables(Inserted(d, res), raw1, text0, docs0, errors0, offset0, d.skills, d.servers)
  <2> HIDE DEF raw1, text0, docs0, errors0, offset0
  <2> DEFINE ses == [f \in Transcripts |->
                IF f \in Projected(res) THEN [ver |-> res.read[f], title |-> NoRow, parent |-> NoRow]
                                        ELSE w1.session[f]]
  <2>1. w1.session = Clear(d.session, files)
    BY <1>2 DEF Tables
  <2>2. ses = Inserted(d, res)
    BY <2>1 DEF Inserted, Clear, Database
  <2>3. w2 = [w1 EXCEPT !.session = ses]
    BY Zenon DEF InsertSessions
  <2> HIDE DEF ses, w1, w2, files
  <2> QED
    BY <1>2, <2>2, <2>3 DEF Tables
<1> DEFINE S(t) == [w2 EXCEPT !.session = t]
           R(t) == RestoreSessionTitles(S(t), CapturedTitles(d, res))
           U(t) == UpdateSessionTitles(R(t), res.titles)
           T(t) == InsertTurnsAndChildren(U(t), res)
           M(t) == SaveMetadata(T(t), res)
           E(t) == InsertParseErrors(M(t), res)
           D(t) == InsertSearchDocuments(E(t), res)
           O(t) == UpdateIngestOffsets(D(t), res)
<1>4. PICK t \in ResolveSubagentParents(Inserted(d, res)) : new = O(t)
  <2>1. w2.session = Inserted(d, res)
    BY <1>3 DEF Tables
  <2>2. PICK t \in ResolveSubagentParents(w2.session) : new = O(t)
    BY Zenon DEF SaveIngest
  <2> HIDE DEF w2, O
  <2> QED
    BY <2>1, <2>2
<1> HIDE DEF w0, w1, w2, files, raw1, text0, docs0, errors0, offset0
<1> DEFINE text1 == Put(text0, res)
           docs1 == Put(docs0, res)
           errors1 == errors0 \cup {f \in DOMAIN res.read : res.read[f] = Failed}
           skills1 == Kept(d.skills, res, res.skills, res.authSkills)
           servers1 == Kept(d.servers, res, res.servers, res.authServers)
<1>5. S(t) = Tables(t, raw1, text0, docs0, errors0, offset0, d.skills, d.servers)
  BY <1>3 DEF Tables
<1>6. R(t) = Tables(Restored(d, res, t), raw1, text0, docs0, errors0, offset0, d.skills, d.servers)
  <2> DEFINE ses == [f \in Transcripts |-> IF f \in DOMAIN CapturedTitles(d, res)
                       THEN [S(t).session[f] EXCEPT !.title = CapturedTitles(d, res)[f]]
                       ELSE S(t).session[f]]
  <2>1. R(t) = [S(t) EXCEPT !.session = ses]
    BY Zenon DEF RestoreSessionTitles
  <2>2. S(t).session = t
    BY <1>5 DEF Tables
  <2> HIDE DEF S, R
  <2>3. ses = Restored(d, res, t)
    BY <2>2 DEF CapturedTitles, Restored
  <2> HIDE DEF ses
  <2> QED
    BY <1>5, <2>1, <2>3 DEF Tables
<1>7. U(t) = Tables(Titled(d, res, t), raw1, text0, docs0, errors0, offset0, d.skills, d.servers)
  <2> DEFINE ses == [f \in Transcripts |->
                IF f \in Stored(R(t)) \ Subagents /\ ExternalID[f] \in DOMAIN res.titles
                THEN [R(t).session[f] EXCEPT !.title = res.titles[ExternalID[f]]]
                ELSE R(t).session[f]]
  <2>1. U(t) = [R(t) EXCEPT !.session = ses]
    BY Zenon DEF UpdateSessionTitles
  <2>2. R(t).session = Restored(d, res, t)
    BY <1>6 DEF Tables
  <2> HIDE DEF R, U
  <2>3. ses = Titled(d, res, t)
    BY <2>2 DEF Stored, Titled
  <2> HIDE DEF ses
  <2> QED
    BY <1>6, <2>1, <2>3 DEF Tables
<1>8. T(t) = Tables(Titled(d, res, t), raw1, text1, docs0, errors0, offset0, d.skills, d.servers)
  <2> HIDE DEF U
  <2>1. U(t).text = text0
    BY <1>7 DEF Tables
  <2> QED
    BY <1>7, <2>1 DEF InsertTurnsAndChildren, Tables
<1>9. M(t) = Tables(Titled(d, res, t), raw1, text1, docs0, errors0, offset0, skills1, servers1)
  <2> HIDE DEF T, text1
  <2> QED
    BY <1>8, MetadataTables
<1>10. E(t) = Tables(Titled(d, res, t), raw1, text1, docs0, errors1, offset0, skills1, servers1)
  <2> HIDE DEF M, text1, skills1, servers1
  <2>1. M(t).errors = errors0
    BY <1>9 DEF Tables
  <2>2. E(t) = [M(t) EXCEPT !.errors = errors1]
    BY <2>1, Zenon DEF InsertParseErrors
  <2> HIDE DEF E, errors1
  <2> QED
    BY <1>9, <2>2 DEF Tables
<1>11. D(t) = Tables(Titled(d, res, t), raw1, text1, docs1, errors1, offset0, skills1, servers1)
  <2> HIDE DEF E, text1, skills1, servers1, errors1
  <2>1. E(t).docs = docs0
    BY <1>10 DEF Tables
  <2> QED
    BY <1>10, <2>1 DEF InsertSearchDocuments, Tables
<1>12. O(t) = Tables(Titled(d, res, t), raw1, text1, docs1, errors1, Recorded(d, res), skills1, servers1)
  <2> DEFINE off == [f \in SourceFiles |->
                IF f \in Processed(res) \cap DOMAIN res.prints THEN res.prints[f] ELSE D(t).offset[f]]
  <2>1. O(t) = [D(t) EXCEPT !.offset = off]
    BY Zenon DEF UpdateIngestOffsets
  <2>2. D(t).offset = offset0
    BY <1>11 DEF Tables
  <2> HIDE DEF D, O
  <2>3. off = Recorded(d, res)
    BY <2>2 DEF Recorded, offset0, files, Clear, Database
  <2> HIDE DEF off, text1, docs1, skills1, servers1, errors1
  <2> QED
    BY <1>11, <2>1, <2>3 DEF Tables
<1> QED
  BY <1>4, <1>12, Zenon DEF Saved, files, raw1, text0, docs0, errors0, offset0
(* Titles are given to rows that are there, and change nothing else of them. *)
LEMMA TitledRows ==
    ASSUME NEW d \in Database, NEW res, ResultOK(res),
           NEW t \in Records, \A f \in Projected(res) : t[f] # NoRow
    PROVE  /\ Titled(d, res, t) \in Records
           /\ \A f \in Transcripts :
                 /\ Titled(d, res, t)[f] = NoRow <=> t[f] = NoRow
                 /\ t[f] # NoRow => /\ Titled(d, res, t)[f].ver = t[f].ver
                                    /\ Titled(d, res, t)[f].parent = t[f].parent
                                    /\ f \notin Projected(res) /\ t[f].title # NoRow =>
                                          Titled(d, res, t)[f].title # NoRow
                 /\ f \in Projected(res) \cap Stored(d) /\ d.session[f].title # NoRow =>
                       Titled(d, res, t)[f].title # NoRow
<1> DEFINE r == Restored(d, res, t)
<1>1. ASSUME NEW f \in Transcripts
      PROVE  /\ r[f] = NoRow <=> t[f] = NoRow
             /\ r[f] \in Session \cup {NoRow}
             /\ t[f] # NoRow => /\ r[f].ver = t[f].ver /\ r[f].parent = t[f].parent
                                /\ f \notin Projected(res) \cap Stored(d) => r[f].title = t[f].title
             /\ f \in Projected(res) \cap Stored(d) => r[f].title = d.session[f].title
  <2>1. CASE f \in Projected(res) \cap Stored(d)
    <3>1. t[f] \in Session /\ t[f] # NoRow /\ d.session[f] \in Session
      BY <2>1, StoreAssumption DEF Records, Stored, Database
    <3>2. r[f] = [t[f] EXCEPT !.title = d.session[f].title]
      BY <2>1 DEF Restored
    <3>3. /\ r[f] \in Session /\ r[f].ver = t[f].ver /\ r[f].parent = t[f].parent
          /\ r[f].title = d.session[f].title
      <4> HIDE DEF r
      <4> QED
        BY <3>1, <3>2 DEF Session
    <3> QED
      BY <2>1, <3>1, <3>3, StoreAssumption
  <2>2. CASE f \notin Projected(res) \cap Stored(d)
    BY <2>2 DEF Restored, Records
  <2> QED
    BY <2>1, <2>2
<1>2. ASSUME NEW f \in Transcripts
      PROVE  /\ Titled(d, res, t)[f] \in Session \cup {NoRow}
             /\ Titled(d, res, t)[f] = NoRow <=> r[f] = NoRow
             /\ r[f] # NoRow => /\ Titled(d, res, t)[f].ver = r[f].ver
                                /\ Titled(d, res, t)[f].parent = r[f].parent
                                /\ r[f].title # NoRow => Titled(d, res, t)[f].title # NoRow
  <2> HIDE DEF r
  <2> DEFINE e == ExternalID[f]
             titled == r[f] # NoRow /\ f \notin Subagents /\ e \in DOMAIN res.titles
  <2>1. Titled(d, res, t)[f] = IF titled THEN [r[f] EXCEPT !.title = res.titles[e]] ELSE r[f]
    BY DEF Titled, r
  <2>2. CASE titled
    <3>1. r[f] \in Session /\ res.titles[e] \in Nat
      BY <1>1, <2>2 DEF ResultOK
    <3>2. Titled(d, res, t)[f] = [r[f] EXCEPT !.title = res.titles[e]]
      BY <2>1, <2>2
    <3> HIDE DEF titled, e
    <3>3. /\ Titled(d, res, t)[f] \in Session /\ Titled(d, res, t)[f].title = res.titles[e]
          /\ Titled(d, res, t)[f].ver = r[f].ver /\ Titled(d, res, t)[f].parent = r[f].parent
      BY <3>1, <3>2 DEF Session
    <3> QED
      BY <2>2, <3>1, <3>3, StoreAssumption DEF titled
  <2>3. CASE ~ titled
    BY <1>1, <2>1, <2>3
  <2> QED
    BY <2>2, <2>3
<1>3. Titled(d, res, t) \in Records
  BY <1>2 DEF Titled, Records
<1> HIDE DEF r
<1> QED
  BY <1>1, <1>2, <1>3 DEF Stored

(* What a saved batch leaves of a file it processed, and of every other file. *)
LEMMA SavedRows ==
    ASSUME NEW d \in Database, NEW res, ResultOK(res), NEW new \in SaveIngest(d, res)
    PROVE  /\ new \in Database /\ Resolvable(new.session) = {}
           /\ \A f \in Transcripts :
                 /\ f \in Projected(res) =>
                       /\ f \in Stored(new) /\ new.session[f].ver = res.read[f]
                       /\ new.raw[f] = res.read[f] /\ new.text[f] = res.read[f]
                       /\ new.docs[f] = res.read[f]
                 /\ f \in Processed(res) \ Projected(res) =>
                       /\ f \notin Stored(new)
                       /\ new.raw[f] = NoRow /\ new.text[f] = NoRow /\ new.docs[f] = NoRow
                 /\ f \in Processed(res) =>
                       (f \in DOMAIN res.read /\ res.read[f] = Failed => f \in new.errors)
                 /\ f \notin Processed(res) =>
                       /\ f \in Stored(new) <=> f \in Stored(d)
                       /\ f \in Stored(d) => new.session[f].ver = d.session[f].ver
                       /\ new.raw[f] = d.raw[f] /\ new.text[f] = d.text[f]
                       /\ new.docs[f] = d.docs[f] /\ (f \in d.errors => f \in new.errors)
           /\ new.offset = Recorded(d, res)
           /\ new.skills = Kept(d.skills, res, res.skills, res.authSkills)
           /\ new.servers = Kept(d.servers, res, res.servers, res.authServers)
           /\ \A f \in Stored(d) \cap Stored(new) :
                 d.session[f].title # NoRow => new.session[f].title # NoRow
           /\ \A f \in Stored(new) \cap Subagents :
                 LET q == new.session[f].parent
                     was == IF f \in Stored(d) THEN d.session[f].parent ELSE NoRow
                 IN  q # NoRow /\ q # was /\ q \in Subagents =>
                        ~ \E top \in Stored(new) \ Subagents : ExternalID[top] = ParentExternalID[f]
<1> DEFINE ses == Inserted(d, res)
           files == Processed(res)
<1>1. PICK t \in ResolveSubagentParents(ses) : new = Saved(d, res, t)
  BY SavedTables
<1>2. ses \in Records
  BY InsertedType
<1>3. \A f \in Transcripts :
          /\ f \in Projected(res) => /\ ses[f] # NoRow /\ ses[f].ver = res.read[f]
                                     /\ ses[f].parent = NoRow
          /\ f \in files \ Projected(res) => ses[f] = NoRow
          /\ f \notin files => f \notin Projected(res) /\ ses[f] = d.session[f]
  BY ProjectedIsProcessed, StoreAssumption DEF Inserted, Session
<1> HIDE DEF ses
<1>4. /\ t \in Records /\ Resolvable(t) = {}
      /\ \A f \in Transcripts :
            /\ t[f] = NoRow <=> ses[f] = NoRow
            /\ t[f] # NoRow => t[f].ver = ses[f].ver /\ t[f].title = ses[f].title
            /\ t[f] # NoRow /\ t[f].parent # ses[f].parent =>
                  /\ f \in Subagents /\ t[f].parent \in Transcripts
                  /\ t[f].parent \in Subagents =>
                        \A p \in Transcripts \ Subagents :
                           t[p] # NoRow => ExternalID[p] # ParentExternalID[f]
  BY <1>2, LinkedRows
<1>5. \A f \in Projected(res) : f \in Transcripts /\ f \in files /\ t[f] # NoRow
  BY <1>3, <1>4, ProjectedIsProcessed
<1> DEFINE n == Titled(d, res, t)
<1>6. /\ n \in Records
      /\ \A f \in Transcripts :
            /\ n[f] = NoRow <=> t[f] = NoRow
            /\ t[f] # NoRow => /\ n[f].ver = t[f].ver /\ n[f].parent = t[f].parent
                               /\ f \notin Projected(res) /\ t[f].title # NoRow => n[f].title # NoRow
            /\ f \in Projected(res) \cap Stored(d) /\ d.session[f].title # NoRow => n[f].title # NoRow
  BY <1>4, <1>5, TitledRows
<1> HIDE DEF n, files
<1>7. new.session = n
  BY <1>1 DEF Saved, Tables, n
<1>8. Resolvable(n) = {}
  <2>1. ASSUME NEW c \in Subagents, n[c] # NoRow, n[c].parent = NoRow,
               NEW p \in Transcripts \ {c}, n[p] # NoRow, ExternalID[p] = ParentExternalID[c],
               p \notin Subagents \/ n[p].parent # NoRow
        PROVE  FALSE
    <3>1. c \in Unlinked(t) /\ p \in Candidates(t, c)
      BY <1>6, <2>1, StoreAssumption DEF Unlinked, Candidates
    <3> QED
      BY <1>4, <3>1 DEF Resolvable
  <2> QED
    BY <2>1 DEF Resolvable, Unlinked, Candidates
<1>9. ASSUME NEW rows, DOMAIN rows = Transcripts
      PROVE  /\ rows \in [Transcripts -> Nat \cup {NoRow}] =>
                   Put(Clear(rows, files), res) \in [Transcripts -> Nat \cup {NoRow}]
             /\ rows \in [Transcripts -> Nat \cup {NoRow, Blanked}] =>
                   Put(Clear(rows, files), res) \in [Transcripts -> Nat \cup {NoRow, Blanked}]
             /\ \A f \in Transcripts :
                   Put(Clear(rows, files), res)[f] =
                      IF f \in Projected(res) THEN res.read[f] ELSE IF f \in files THEN NoRow ELSE rows[f]
  BY <1>9, ProjectedIsProcessed DEF Put, Clear
<1>10. /\ new.raw = Put(Clear(d.raw, files), res) /\ new.text = Put(Clear(d.text, files), res)
       /\ new.docs = Put(Clear(d.docs, files), res)
       /\ new.errors = (d.errors \ files) \cup {f \in DOMAIN res.read : res.read[f] = Failed}
       /\ new.offset = Recorded(d, res)
       /\ new.skills = Kept(d.skills, res, res.skills, res.authSkills)
       /\ new.servers = Kept(d.servers, res, res.servers, res.authServers)
  BY <1>1 DEF Saved, Tables, files
<1>11. /\ d.raw \in [Transcripts -> Nat \cup {NoRow}]
       /\ d.text \in [Transcripts -> Nat \cup {NoRow, Blanked}]
       /\ d.docs \in [Transcripts -> Nat \cup {NoRow, Blanked}]
       /\ d.session \in Records /\ d.errors \subseteq Transcripts
       /\ d.offset \in [SourceFiles -> Nat \cup {NoRow}]
       /\ d.skills \subseteq Nat /\ d.servers \subseteq Nat
  BY DEF Database, Records
<1>12. \A f \in Transcripts :
          /\ new.raw[f] = IF f \in Projected(res) THEN res.read[f] ELSE IF f \in files THEN NoRow ELSE d.raw[f]
          /\ new.text[f] = IF f \in Projected(res) THEN res.read[f] ELSE IF f \in files THEN NoRow ELSE d.text[f]
          /\ new.docs[f] = IF f \in Projected(res) THEN res.read[f] ELSE IF f \in files THEN NoRow ELSE d.docs[f]
  BY <1>9, <1>10, <1>11
<1>13. new \in Database
  <2>1. /\ new.raw \in [Transcripts -> Nat \cup {NoRow}]
        /\ new.text \in [Transcripts -> Nat \cup {NoRow, Blanked}]
        /\ new.docs \in [Transcripts -> Nat \cup {NoRow, Blanked}]
    BY <1>9, <1>10, <1>11
  <2>2. new.errors \subseteq Transcripts
    BY <1>10, <1>11 DEF ResultOK
  <2>3. new.offset \in [SourceFiles -> Nat \cup {NoRow}]
    BY <1>10, <1>11 DEF ResultOK, Recorded
  <2>4. new.skills \subseteq Nat /\ new.servers \subseteq Nat
    BY <1>10, <1>11 DEF ResultOK, Kept, Reconcile
  <2>5. new = [session |-> new.session, raw |-> new.raw, text |-> new.text, docs |-> new.docs,
               errors |-> new.errors, offset |-> new.offset, skills |-> new.skills,
               servers |-> new.servers]
    BY <1>1 DEF Saved, Tables
  <2> QED
    BY <1>6, <1>7, <2>1, <2>2, <2>3, <2>4, <2>5 DEF Database, Records
<1>14. \A f \in Transcripts : f \in Stored(new) <=> ses[f] # NoRow
  BY <1>4, <1>6, <1>7 DEF Stored
<1>15. \A f \in Stored(new) : new.session[f].ver = ses[f].ver
  BY <1>4, <1>6, <1>7, <1>14 DEF Stored
<1>16. \A f \in Stored(d) \cap Stored(new) :
          d.session[f].title # NoRow => new.session[f].title # NoRow
  BY <1>3, <1>4, <1>6, <1>7, <1>14 DEF Stored
<1>17. ASSUME NEW f \in Stored(new) \cap Subagents, NEW q, q = new.session[f].parent,
              q # NoRow, q # IF f \in Stored(d) THEN d.session[f].parent ELSE NoRow, q \in Subagents,
              NEW top \in Stored(new) \ Subagents
       PROVE  ExternalID[top] # ParentExternalID[f]
  <2>1. f \in Transcripts /\ t[f] # NoRow /\ t[f].parent = q
    BY <1>6, <1>7, <1>17 DEF Stored
  <2>2. t[f].parent # ses[f].parent
    BY <1>3, <1>4, <1>17, <2>1 DEF Stored
  <2>3. top \in Transcripts \ Subagents /\ t[top] # NoRow
    BY <1>6, <1>7, <1>17 DEF Stored
  <2> QED
    BY <1>4, <1>17, <2>1, <2>2, <2>3
<1>18. \A f \in Transcripts :
          /\ f \in Projected(res) => f \in Stored(new) /\ new.session[f].ver = res.read[f]
          /\ f \in files \ Projected(res) => f \notin Stored(new)
          /\ f \notin files => /\ f \in Stored(new) <=> f \in Stored(d)
                               /\ f \in Stored(d) => new.session[f].ver = d.session[f].ver
  BY <1>3, <1>14, <1>15 DEF Stored
<1> QED
  BY <1>5, <1>7, <1>8, <1>10, <1>12, <1>13, <1>16, <1>17, <1>18 DEF files
-----------------------------------------------------------------------------
(* The inductive invariant *)

(* Fingerprints a pass holds are no newer than the files of a disk. *)
PrintsOK(prints, dsk) ==
    /\ DOMAIN prints \subseteq SourceFiles
    /\ \A f \in DOMAIN prints : prints[f] \in Nat /\ prints[f] <= dsk[f].ver

(* What was read of a file whose fingerprint is still that of the disk is the file. *)
ReadOK(read, prints, dsk) ==
    /\ DOMAIN read \subseteq Transcripts
    /\ \A f \in DOMAIN read :
          /\ read[f] \in Nat \cup {Failed}
          /\ f \in DOMAIN prints /\ prints[f] = dsk[f].ver =>
                read[f] \in {Content(f, dsk[f].ver), Failed}

(* A result on its way to the store. *)
Truthful(res, dsk) ==
    ResultOK(res) /\ PrintsOK(res.prints, dsk) /\ ReadOK(res.read, res.prints, dsk)

(* It takes no list of items for complete, unless it is a metadata round. *)
OnlyAdds(res) == ~ res.authSkills /\ ~ res.authServers
InFlight(res, dsk) == Truthful(res, dsk) /\ OnlyAdds(res)

Rounds == {"metadata", "parse", "send", "join", "titles", "names", "titlesave", "purge"}
Fields == {"pc", "known", "prints", "projects", "out", "failed", "todo"}

(* The record r of a pass. *)
PassOK(r, dsk) ==
    /\ r.pc \in Rounds \cup {"partition", "fileread", "filesave"} => PrintsOK(r.prints, dsk)
    /\ r.pc = "partition" => r.found \subseteq Transcripts
    /\ r.pc \in Rounds => DOMAIN r = Fields /\ r.todo \in Seq(SUBSET Transcripts)
    /\ r.pc \in {"parse", "send"} => r.todo # << >>
    /\ r.pc = "send" => ReadOK(r.out, r.prints, dsk)
    /\ r.pc = "names" => PrintsOK(r.out, dsk)
    /\ r.pc = "titlesave" => InFlight(r.out, dsk)
    /\ r.pc \in {"fileread", "filesave"} => r.file \in Transcripts
    /\ r.pc = "filesave" =>
          r.read \in Nat /\ ReadOK([f \in {r.file} |-> r.read], r.prints, dsk)

(* The writer goroutine w is there while its pass may hand it a batch or awaits it. *)
WriterOK(w, r, dsk) ==
    /\ w.pc \in {"off", "ready", "saving", "failed"}
    /\ w.pc = "saving" => InFlight(w.res, dsk)
    /\ w.pc # "off" <=> r.pc \in {"parse", "send", "join"}

Running ==
    /\ DOMAIN pass = Passes /\ DOMAIN writer = Passes
    /\ \A p \in Passes : PassOK(pass[p], disk) /\ WriterOK(writer[p], pass[p], disk)

(* A recorded fingerprint is no newer than the file, and with that of the disk the *)
(* rows show the file, whether it is still there or not.                          *)
OffsetsTrue ==
    /\ \A f \in SourceFiles : db.offset[f] # NoRow => db.offset[f] <= disk[f].ver
    /\ \A f \in Transcripts :
          db.offset[f] = disk[f].ver =>
            \/ f \in Stored(db) /\ db.session[f].ver = disk[f].ver
            \/ f \notin Stored(db) /\ (Content(f, disk[f].ver) = 0 \/ f \in db.errors)

Bounded ==
    /\ faults \in 0 .. MaxFaults /\ changes \in 0 .. MaxChanges /\ passes \in 0 .. MaxPasses
    /\ retain \in {"idle", "redact"} /\ calm \subseteq Passes /\ hidden \in BOOLEAN

Files(dsk) == dsk \in [SourceFiles -> [ver : Nat \ {0}, there : BOOLEAN]]

Disk == source \in Sources /\ Files(disk) /\ \A f \in SourceFiles : disk[f].ver <= changes + 1

Tidy == RowsAgree /\ SearchHidesRedacted /\ Resolvable(db.session) = {}

ReconcileInv ==
    /\ Bounded /\ Disk /\ db \in Database
    /\ OffsetsTrue /\ Tidy /\ MetadataKept /\ Running

(* What a step never does: lose a title, or link a child to a sibling. *)
TitleStep ==
    \A f \in Stored(db) \cap Stored(db') :
        db.session[f].title # NoRow => db'.session[f].title # NoRow
LinkStep ==
    \A f \in Stored(db') \cap Subagents :
        LET q == db'.session[f].parent
            was == IF f \in Stored(db) THEN db.session[f].parent ELSE NoRow
        IN  q # NoRow /\ q # was /\ q \in Subagents =>
                ~ \E top \in Stored(db') \ Subagents : ExternalID[top] = ParentExternalID[f]
StepOK == TitleStep /\ LinkStep

(* It implies the invariants. *)
LEMMA InvImplies ==
    ASSUME ReconcileInv
    PROVE  TypeOK /\ FingerprintHonest /\ RowsAgree /\ SearchHidesRedacted /\ LinksComplete /\ MetadataKept
<1> USE DEF ReconcileInv
<1>1. TypeOK
  <2>1. disk \in [SourceFiles -> [ver : 1 .. MaxChanges + 1, there : BOOLEAN]]
    <3>1. ASSUME NEW f \in SourceFiles
          PROVE  disk[f] \in [ver : 1 .. MaxChanges + 1, there : BOOLEAN]
      <4>1. /\ disk[f] \in [ver : Nat \ {0}, there : BOOLEAN] /\ disk[f].ver <= changes + 1
            /\ changes \in Nat /\ changes <= MaxChanges
        BY PassAssumption DEF Disk, Files, Bounded
      <4>2. disk[f].ver \in 1 .. MaxChanges + 1
        BY <4>1, PassAssumption
      <4> QED
        BY <4>1, <4>2
    <3> QED
      BY <3>1 DEF Disk, Files
  <2> QED
    BY <2>1 DEF TypeOK, Bounded, Disk, Running, WriterOK
<1>2. FingerprintHonest
  BY DEF FingerprintHonest, OffsetsTrue, There, Mine
<1>3. LinksComplete
  <2>1. ASSUME NEW f \in Stored(db) \cap Subagents, db.session[f].parent = NoRow,
               NEW q \in Stored(db) \ {f}, ExternalID[q] = ParentExternalID[f]
        PROVE  q \in Subagents /\ db.session[q].parent = NoRow
    <3>1. f \in Unlinked(db.session)
      BY <2>1 DEF Unlinked, Stored
    <3>2. q \notin Candidates(db.session, f)
      BY <3>1 DEF Tidy, Resolvable
    <3> QED
      BY <2>1, <3>2 DEF Candidates, Stored
  <2> QED
    BY <2>1 DEF LinksComplete
<1> QED
  BY <1>1, <1>2, <1>3 DEF Tidy

-----------------------------------------------------------------------------
(* What the steps have in common *)

(* A batch is a set of transcripts. *)
LEMMA BatchesTyped ==
    ASSUME NEW changed
    PROVE  ChunkBySize(changed) \in Seq(SUBSET Transcripts)
<1> DEFINE listed == {i \in 1 .. Len(FileOrder) : FileOrder[i] \in changed}
           bytes[i \in 0 .. Len(FileOrder)] ==
               IF i = 0 THEN MaxBatchBytes + 1
               ELSE IF i \notin listed THEN bytes[i - 1]
               ELSE IF bytes[i - 1] + Size[FileOrder[i]] > MaxBatchBytes THEN Size[FileOrder[i]]
               ELSE bytes[i - 1] + Size[FileOrder[i]]
           starts == {i \in listed : bytes[i - 1] + Size[FileOrder[i]] > MaxBatchBytes}
           batch(i) == Cardinality({j \in starts : j <= i})
           files(b) == {FileOrder[i] : i \in {j \in listed : batch(j) = b}}
<1>1. Len(FileOrder) \in Nat /\ \A i \in 1 .. Len(FileOrder) : FileOrder[i] \in Transcripts
  BY PassAssumption
<1>2. \A b : files(b) \in SUBSET Transcripts
  <2> HIDE DEF starts
  <2> QED
    BY <1>1
<1>3. Cardinality(starts) \in Nat
  <2>1. starts \subseteq 1 .. Len(FileOrder)
    <3> HIDE DEF bytes
    <3> QED
      OBVIOUS
  <2> HIDE DEF starts
  <2>2. IsFiniteSet(starts)
    <3>1. IsFiniteSet(1 .. Len(FileOrder))
      BY <1>1, FS_Interval
    <3> QED
      BY <2>1, <3>1, FS_Subset
  <2> QED
    BY <2>2, FS_CardinalityType
<1>4. ChunkBySize(changed) = [b \in 1 .. Cardinality(starts) |-> files(b)]
  BY Zenon DEF ChunkBySize
<1> HIDE DEF starts, files
<1> QED
  BY <1>2, <1>3, <1>4

(* Fingerprints just taken are those of the disk. *)
LEMMA FreshPrints ==
    ASSUME Disk, NEW files \in SUBSET SourceFiles
    PROVE  PrintsOK(Prints(files), disk)
BY DEF Disk, Files, Prints, Exists, PrintsOK

(* Files only get newer, so what a pass holds stays as true as it was. *)
LEMMA NewerFiles ==
    ASSUME NEW old, NEW new, Files(old), Files(new), \A f \in SourceFiles : old[f].ver <= new[f].ver
    PROVE  /\ \A pr : PrintsOK(pr, old) => PrintsOK(pr, new)
           /\ \A pr, rd : PrintsOK(pr, old) /\ ReadOK(rd, pr, old) => ReadOK(rd, pr, new)
           /\ \A res : InFlight(res, old) => InFlight(res, new)
           /\ \A r : PassOK(r, old) => PassOK(r, new)
           /\ \A w, r : WriterOK(w, r, old) => WriterOK(w, r, new)
<1>0. \A f \in SourceFiles : old[f].ver \in Nat /\ new[f].ver \in Nat /\ old[f].ver <= new[f].ver
  BY DEF Files
<1>1. ASSUME NEW pr, PrintsOK(pr, old)
      PROVE  PrintsOK(pr, new)
  BY <1>0, <1>1 DEF PrintsOK
<1>2. ASSUME NEW pr, NEW rd, PrintsOK(pr, old), ReadOK(rd, pr, old)
      PROVE  ReadOK(rd, pr, new)
  <2>1. \A f \in DOMAIN pr : pr[f] = new[f].ver => old[f].ver = new[f].ver
    BY <1>0, <1>2 DEF PrintsOK
  <2> QED
    BY <1>2, <2>1 DEF ReadOK
<1>3. ASSUME NEW res, InFlight(res, old)
      PROVE  InFlight(res, new)
  BY <1>1, <1>2, <1>3 DEF InFlight, Truthful
<1>4. ASSUME NEW r, PassOK(r, old)
      PROVE  PassOK(r, new)
  BY <1>1, <1>2, <1>3, <1>4 DEF PassOK, Rounds
<1>5. ASSUME NEW w, NEW r, WriterOK(w, r, old)
      PROVE  WriterOK(w, r, new)
  BY <1>3, <1>5 DEF WriterOK
<1> QED
  BY <1>1, <1>2, <1>3, <1>4, <1>5

(* The steps of one pass and its writer leave the others alone. *)
OnlyRuns(p) ==
    /\ DOMAIN pass' = Passes /\ DOMAIN writer' = Passes
    /\ \A q \in Passes \ {p} : pass'[q] = pass[q] /\ writer'[q] = writer[q]
    /\ PassOK(pass'[p], disk) /\ WriterOK(writer'[p], pass'[p], disk)

(* A step of a pass that leaves the store alone. *)
LEMMA QuietStep ==
    ASSUME ReconcileInv, NEW p \in Passes, OnlyRuns(p), Bounded', UNCHANGED <<envVars, db, hidden>>
    PROVE  ReconcileInv' /\ StepOK
<1> USE DEF ReconcileInv, envVars
<1>1. Disk' /\ (db \in Database)' /\ OffsetsTrue'
  BY DEF Disk, OffsetsTrue
<1>2. Tidy'
  BY DEF Tidy, RowsAgree, SearchHidesRedacted
<1>3. MetadataKept'
  BY DEF MetadataKept
<1>4. Running'
  BY DEF Running, OnlyRuns
<1>5. StepOK
  BY DEF StepOK, TitleStep, LinkStep
<1> QED
  BY <1>1, <1>2, <1>3, <1>4, <1>5
(* A fingerprint that is recorded goes with rows read no earlier. *)
LEMMA SaveKeeps ==
    ASSUME ReconcileInv, UNCHANGED <<source, disk, changes>>,
           NEW res, Truthful(res, disk), NEW new \in SaveIngest(db, res), db' = new
    PROVE  (db \in Database)' /\ Disk' /\ OffsetsTrue' /\ Tidy' /\ StepOK
<1> USE DEF ReconcileInv
<1> DEFINE files == Processed(res)
           made == Projected(res)
<1>1. /\ new \in Database /\ Resolvable(new.session) = {}
      /\ \A f \in Transcripts :
            /\ f \in made => /\ f \in Stored(new) /\ new.session[f].ver = res.read[f]
                             /\ new.raw[f] = res.read[f] /\ new.text[f] = res.read[f]
                             /\ new.docs[f] = res.read[f]
            /\ f \in files \ made => /\ f \notin Stored(new)
                                     /\ new.raw[f] = NoRow /\ new.text[f] = NoRow /\ new.docs[f] = NoRow
            /\ f \in files => (f \in DOMAIN res.read /\ res.read[f] = Failed => f \in new.errors)
            /\ f \notin files => /\ f \in Stored(new) <=> f \in Stored(db)
                                 /\ f \in Stored(db) => new.session[f].ver = db.session[f].ver
                                 /\ new.raw[f] = db.raw[f] /\ new.text[f] = db.text[f]
                                 /\ new.docs[f] = db.docs[f] /\ (f \in db.errors => f \in new.errors)
      /\ new.offset = Recorded(db, res)
  BY SavedRows DEF Truthful
<1>2. TitleStep /\ LinkStep
  BY SavedRows DEF TitleStep, LinkStep, Truthful
<1>3. \A f \in SourceFiles :
          new.offset[f] = IF f \in files THEN IF f \in DOMAIN res.prints THEN res.prints[f] ELSE NoRow
                          ELSE db.offset[f]
  BY <1>1 DEF Recorded
<1>4. \A f \in made : res.read[f] \in Nat \ {0} /\ f \in Transcripts /\ f \in files
  BY ProjectedIsProcessed DEF Truthful
<1>5. \A f \in Transcripts : f \in files => f \in DOMAIN res.read /\ (f \notin made => res.read[f] \in {0, Failed})
  BY StoreAssumption DEF Processed, Projected, Truthful, ResultOK
<1>6. \A f \in SourceFiles : disk[f].ver \in Nat \ {0}
  BY DEF Disk, Files
<1> HIDE DEF files, made
<1>7. Disk'
  BY DEF Disk
<1>8. OffsetsTrue'
  <2>1. ASSUME NEW f \in SourceFiles, new.offset[f] # NoRow
        PROVE  new.offset[f] <= disk[f].ver
    BY <1>3, <2>1 DEF OffsetsTrue, Truthful, PrintsOK
  <2>2. ASSUME NEW f \in Transcripts, new.offset[f] = disk[f].ver
        PROVE  \/ f \in Stored(new) /\ new.session[f].ver = disk[f].ver
               \/ f \notin Stored(new) /\ (Content(f, disk[f].ver) = 0 \/ f \in new.errors)
    <3>0. f \in SourceFiles /\ disk[f].ver \in Nat \ {0} /\ disk[f].ver # NoRow
      BY <1>6, StoreAssumption DEF SourceFiles
    <3>1. CASE f \notin files
      BY <1>1, <1>3, <2>2, <3>0, <3>1 DEF OffsetsTrue
    <3>2. CASE f \in files
      <4>1. f \in DOMAIN res.prints /\ res.prints[f] = disk[f].ver
        BY <1>3, <2>2, <3>0, <3>2
      <4>2. f \in DOMAIN res.read /\ res.read[f] \in {Content(f, disk[f].ver), Failed}
        BY <1>5, <3>2, <4>1 DEF Truthful, ReadOK
      <4>3. CASE f \in made
        BY <1>1, <1>4, <3>0, <4>2, <4>3, StoreAssumption DEF Content
      <4>4. CASE f \notin made
        <5>1. f \notin Stored(new)
          BY <1>1, <3>2, <4>4
        <5>2. res.read[f] = Failed => f \in new.errors
          BY <1>1, <3>2, <4>2
        <5>3. res.read[f] # Failed => Content(f, disk[f].ver) = 0
          BY <1>5, <3>2, <4>2, <4>4
        <5> QED
          BY <5>1, <5>2, <5>3
      <4> QED
        BY <4>3, <4>4
    <3> QED
      BY <3>1, <3>2
  <2> QED
    BY <2>1, <2>2 DEF OffsetsTrue
<1>9. RowsAgree'
  <2>1. ASSUME NEW f \in Transcripts
        PROVE  LET v == IF f \in Stored(new) THEN new.session[f].ver ELSE NoRow
               IN  /\ new.raw[f] \in {v, NoRow}
                   /\ new.text[f] \in {v, Blanked} /\ new.docs[f] \in {v, Blanked}
                   /\ new.text[f] = Blanked => f \in Stored(new) /\ f \in Old
    <3>1. CASE f \in made
      BY <1>1, <1>4, <3>1, StoreAssumption
    <3>2. CASE f \in files \ made
      BY <1>1, <3>2, StoreAssumption
    <3>3. CASE f \notin files
      <4>1. f \notin made
        BY <1>4, <3>3
      <4> QED
        BY <1>1, <3>3 DEF Tidy, RowsAgree
    <3> QED
      BY <3>1, <3>2, <3>3
  <2> QED
    BY <2>1 DEF RowsAgree
<1>10. SearchHidesRedacted'
  <2>1. ASSUME NEW f \in Transcripts, new.text[f] = Blanked
        PROVE  new.docs[f] = Blanked
    <3>1. f \notin files
      BY <1>1, <1>4, <2>1, StoreAssumption
    <3> QED
      BY <1>1, <2>1, <3>1 DEF Tidy, SearchHidesRedacted
  <2> QED
    BY <2>1 DEF SearchHidesRedacted
<1> QED
  BY <1>1, <1>2, <1>7, <1>8, <1>9, <1>10 DEF Tidy, StepOK

(* A step that saves a result which takes no list of items for complete. *)
LEMMA SaveStep ==
    ASSUME ReconcileInv, NEW p \in Passes, OnlyRuns(p), Bounded', UNCHANGED <<envVars, hidden>>,
           NEW res, InFlight(res, disk), db' \in SaveIngest(db, res)
    PROVE  ReconcileInv' /\ StepOK
<1>1. /\ Disk' /\ (db \in Database)' /\ OffsetsTrue' /\ Tidy' /\ StepOK
  BY SaveKeeps DEF envVars, InFlight
<1>2. Running'
  BY DEF ReconcileInv, Running, OnlyRuns, envVars
<1>3. db'.skills = Kept(db.skills, res, res.skills, res.authSkills)
      /\ db'.servers = Kept(db.servers, res, res.servers, res.authServers)
  BY SavedRows DEF InFlight, Truthful, ReconcileInv
<1>4. MetadataKept'
  BY <1>3 DEF InFlight, OnlyAdds, Kept, Reconcile, MetadataKept, ReconcileInv, envVars
<1> QED
  BY <1>1, <1>2, <1>4 DEF ReconcileInv

-----------------------------------------------------------------------------
(* The steps of a pass *)

(* Steps that count no fault, count one, or commit, keep the bounds. *)
LEMMA CountsKept ==
    ASSUME Bounded, NEW p \in Passes,
           Fine \/ Faulty(p) \/ (calm' = calm \cap {p} /\ UNCHANGED faults),
           UNCHANGED <<changes, retain, passes>>, hidden' \in BOOLEAN
    PROVE  Bounded'
BY PassAssumption DEF Bounded, Fine, Faulty

(* A pass in a round that moves on to a step which asks nothing more of its record. *)
LEMMA Moved ==
    ASSUME NEW r, NEW dsk, PassOK(r, dsk), r.pc \in Rounds,
           NEW pc \in Rounds \ {"send", "names", "titlesave"}, pc = "parse" => r.todo # << >>
    PROVE  PassOK([r EXCEPT !.pc = pc], dsk) /\ [r EXCEPT !.pc = pc].pc = pc
<1> DEFINE n == [r EXCEPT !.pc = pc]
<1>1. DOMAIN r = Fields
  BY DEF PassOK
<1>2. DOMAIN n = Fields /\ n.pc = pc /\ n.prints = r.prints /\ n.todo = r.todo
  BY <1>1 DEF Fields
<1> HIDE DEF n
<1>3. PassOK(n, dsk)
  BY <1>2 DEF PassOK, Rounds
<1> QED
  BY <1>2, <1>3 DEF n

(* A pass that takes up a new record, beside its writer. *)
LEMMA RunsOn ==
    ASSUME ReconcileInv, NEW p \in Passes, NEW r, Become(p, r), PassOK(r, disk),
           NEW w, WriterOK(w, r, disk),
           (UNCHANGED writer /\ w = writer[p]) \/ writer' = [writer EXCEPT ![p] = w]
    PROVE  OnlyRuns(p)
<1>1. DOMAIN pass' = Passes /\ pass'[p] = r /\ \A q \in Passes \ {p} : pass'[q] = pass[q]
  BY Zenon DEF Become, ReconcileInv, Running
<1>2. DOMAIN writer' = Passes /\ writer'[p] = w /\ \A q \in Passes \ {p} : writer'[q] = writer[q]
  BY Zenon DEF ReconcileInv, Running
<1> QED
  BY <1>1, <1>2 DEF OnlyRuns

(* A pass that ends, with its writer. *)
LEMMA Ends ==
    ASSUME ReconcileInv, NEW p \in Passes, End(p),
           (UNCHANGED writer /\ ~ pass[p].pc \in {"parse", "send", "join"})
           \/ writer' = [writer EXCEPT ![p] = Off]
    PROVE  OnlyRuns(p)
<1>1. PassOK(Idle, disk)
  BY DEF PassOK, Rounds, Idle
<1>2. WriterOK(Off, Idle, disk)
  BY DEF WriterOK, Idle, Off
<1>3. ~ pass[p].pc \in {"parse", "send", "join"} => WriterOK(writer[p], Idle, disk)
  BY DEF WriterOK, Idle, ReconcileInv, Running
<1> QED
  BY <1>1, <1>2, <1>3, RunsOn DEF End

(* A pass without a writer that takes up a record which needs none. *)
LEMMA RunsAlone ==
    ASSUME ReconcileInv, NEW p \in Passes, NEW r, Become(p, r), PassOK(r, disk), UNCHANGED writer,
           ~ pass[p].pc \in {"parse", "send", "join"}, ~ r.pc \in {"parse", "send", "join"}
    PROVE  OnlyRuns(p)
<1>1. WriterOK(writer[p], r, disk)
  BY DEF WriterOK, ReconcileInv, Running
<1> QED
  BY <1>1, RunsOn

(* The walk of the roots, and its failures. *)
LEMMA DiscoverKeeps ==
    ASSUME ReconcileInv, NEW p \in Passes, DiscoverSessions(p) \/ DiscoverInDBFails(p)
    PROVE  ReconcileInv' /\ StepOK
<1>1. CASE DiscoverSessions(p)
  <2>1. PICK found \in SUBSET There :
           /\ Fine \/ Faulty(p)
           /\ Become(p, [pc |-> "partition", known |-> pass[p].known, found |-> found,
                         prints |-> Prints(found)])
    BY <1>1 DEF DiscoverSessions
  <2>2. found \in SUBSET SourceFiles /\ found \subseteq Transcripts
    BY DEF There, Mine, SourceFiles
  <2>3. PrintsOK(Prints(found), disk)
    BY <2>2, FreshPrints DEF ReconcileInv
  <2> DEFINE r == [pc |-> "partition", known |-> pass[p].known, found |-> found, prints |-> Prints(found)]
  <2>4. PassOK(r, disk) /\ r.pc = "partition"
    BY <2>2, <2>3 DEF PassOK, Rounds
  <2>5. Become(p, r)
    BY <2>1
  <2> HIDE DEF r
  <2>6. OnlyRuns(p)
    BY <1>1, <2>4, <2>5, RunsAlone DEF DiscoverSessions, At
  <2>7. Bounded'
    BY <1>1, <2>1, CountsKept DEF DiscoverSessions, envVars, ReconcileInv, Bounded
  <2> QED
    BY <1>1, <2>6, <2>7, QuietStep DEF DiscoverSessions
<1>2. CASE DiscoverInDBFails(p)
  <2>1. OnlyRuns(p)
    BY <1>2, Ends DEF DiscoverInDBFails, At
  <2>2. Bounded'
    BY <1>2, CountsKept DEF DiscoverInDBFails, envVars, ReconcileInv, Bounded
  <2> QED
    BY <1>2, <2>1, <2>2, QuietStep DEF DiscoverInDBFails
<1> QED
  BY <1>1, <1>2

(* The files found are told apart by their fingerprints. *)
LEMMA PartitionKeeps ==
    ASSUME ReconcileInv, NEW p \in Passes, PartitionByFingerprint(p)
    PROVE  ReconcileInv' /\ StepOK
<1> DEFINE found == pass[p].found
           prints == IF source \in TokenSources THEN pass[p].prints ELSE Prints(found)
           changed == Changed(found, prints, pass[p].known)
           r == [pc |-> "metadata", known |-> pass[p].known, prints |-> prints,
                 projects |-> found # {}, out |-> NoFiles, failed |-> FALSE,
                 todo |-> ChunkBySize(changed)]
<1>1. PassOK(pass[p], disk) /\ pass[p].pc = "partition"
  BY DEF PartitionByFingerprint, At, ReconcileInv, Running
<1>2. PrintsOK(prints, disk)
  <2>1. found \in SUBSET SourceFiles
    BY <1>1 DEF PassOK, SourceFiles
  <2>2. PrintsOK(Prints(found), disk)
    BY <2>1, FreshPrints DEF ReconcileInv
  <2> QED
    BY <1>1, <2>2 DEF PassOK
<1>3. ChunkBySize(changed) \in Seq(SUBSET Transcripts)
  BY BatchesTyped
<1>4. Become(p, r)
  BY Zenon DEF PartitionByFingerprint
<1>5. PassOK(r, disk) /\ r.pc = "metadata"
  <2> HIDE DEF prints, changed, found
  <2>1. /\ r.pc = "metadata" /\ r.prints = prints /\ r.todo = ChunkBySize(changed)
        /\ DOMAIN r = Fields
    BY DEF Fields
  <2> HIDE DEF r
  <2> QED
    BY <1>2, <1>3, <2>1 DEF PassOK, Rounds
<1> HIDE DEF r
<1>6. OnlyRuns(p)
  BY <1>1, <1>4, <1>5, RunsAlone DEF PartitionByFingerprint
<1>7. Bounded'
  BY CountsKept DEF PartitionByFingerprint, envVars, ReconcileInv, Bounded
<1> QED
  BY <1>6, <1>7, QuietStep DEF PartitionByFingerprint

(* After the metadata round come the batches, or what follows them. *)
LEMMA NextBatchRuns ==
    ASSUME ReconcileInv, NEW p \in Passes, At(p, "metadata"), NextBatch(p)
    PROVE  OnlyRuns(p)
<1> DEFINE pc == AfterMetadata(p)
           r == [pass[p] EXCEPT !.pc = pc]
           w == IF pass[p].todo # << >> THEN [pc |-> "ready"] ELSE Off
<1>1. PassOK(pass[p], disk) /\ pass[p].pc = "metadata" /\ pass[p].pc \in Rounds
  BY DEF At, ReconcileInv, Running, Rounds
<1>2. /\ pc \in Rounds \ {"send", "names", "titlesave"}
      /\ pc \notin {"send", "join"} /\ (pc = "parse" <=> pass[p].todo # << >>)
  BY DEF AfterMetadata, Rounds
<1>3. PassOK(r, disk) /\ r.pc = pc
  <2> HIDE DEF pc
  <2> QED
    BY <1>1, <1>2, Moved
<1>4. WriterOK(w, r, disk)
  <2> HIDE DEF r
  <2> QED
    BY <1>2, <1>3 DEF WriterOK, Off
<1>5. Become(p, r) /\ writer' = [writer EXCEPT ![p] = w]
  BY Zenon DEF NextBatch, Goto
<1> HIDE DEF r, w
<1> QED
  BY <1>3, <1>4, <1>5, RunsOn

(* The metadata round: it replaces a list only by one taken for complete. *)
LEMMA MetadataKeeps ==
    ASSUME ReconcileInv, NEW p \in Passes, Metadata(p)
    PROVE  ReconcileInv' /\ StepOK
<1>1. PICK skills \in SkillScans(p), servers \in ServerScans(p) :
          /\ db' \in SaveIngest(db, MetadataResult(p, skills, servers))
          /\ hidden' = (hidden \/ \E scan \in {skills, servers} : scan.auth /\ scan.found # Items)
          /\ Faulty(p) \/ (calm' = calm \cap {p} /\ UNCHANGED faults)
  BY DEF Metadata
<1> DEFINE res == MetadataResult(p, skills, servers)
<1>2. PassOK(pass[p], disk) /\ pass[p].pc = "metadata" /\ PrintsOK(pass[p].prints, disk)
  BY DEF Metadata, At, ReconcileInv, Running, PassOK, Rounds
<1>3. /\ res.read = NoFiles /\ res.index = FALSE /\ res.prints = pass[p].prints /\ res.titles = NoTitles
      /\ res.skills = skills.found /\ res.authSkills = skills.auth
      /\ res.servers = servers.found /\ res.authServers = servers.auth
  BY DEF MetadataResult, Result
<1>4. skills.found \subseteq Nat /\ servers.found \subseteq Nat
  <2>1. Declared(p) \subseteq Nat
    BY PassAssumption DEF Declared
  <2>2. \A scan \in SkillScans(p) : scan.found \subseteq Nat
    BY <2>1 DEF SkillScans, Scan
  <2>3. \A scan \in ServerScans(p) : scan.found \subseteq Nat
    BY <2>1 DEF ServerScans, Scan
  <2> QED
    BY <2>2, <2>3
<1> HIDE DEF res
<1>5. Truthful(res, disk)
  BY <1>2, <1>3, <1>4 DEF Truthful, ResultOK, ReadOK, PrintsOK, NoFiles, NoTitles
<1>6. Processed(res) = {}
  BY <1>3 DEF Processed, NoFiles
<1>7. /\ Disk' /\ (db \in Database)' /\ OffsetsTrue' /\ Tidy' /\ StepOK
  BY <1>1, <1>5, SaveKeeps DEF Metadata, envVars, res
<1>8. OnlyRuns(p)
  BY NextBatchRuns DEF Metadata
<1>9. Running'
  BY <1>8 DEF ReconcileInv, Running, OnlyRuns, Metadata, envVars
<1>10. Bounded'
  BY <1>1, CountsKept DEF Metadata, envVars, ReconcileInv, Bounded
<1>11. MetadataKept'
  <2>1. /\ db'.skills = Kept(db.skills, res, res.skills, res.authSkills)
        /\ db'.servers = Kept(db.servers, res, res.servers, res.authServers)
    BY <1>1, <1>5, SavedRows DEF Truthful, ReconcileInv, res
  <2>2. ~ hidden' => /\ skills.auth => skills.found = Items
                     /\ servers.auth => servers.found = Items
    BY <1>1
  <2> QED
    BY <1>1, <1>3, <1>6, <2>1, <2>2
       DEF Kept, MetadataOnly, Reconcile, MetadataKept, ReconcileInv, Metadata, envVars
<1> QED
  BY <1>7, <1>9, <1>10, <1>11 DEF ReconcileInv

(* No metadata round, or one that is refused. *)
LEMMA NoMetadataKeeps ==
    ASSUME ReconcileInv, NEW p \in Passes, MetadataSkipped(p) \/ MetadataFails(p)
    PROVE  ReconcileInv' /\ StepOK
<1>1. CASE MetadataSkipped(p)
  <2>1. OnlyRuns(p)
    BY <1>1, NextBatchRuns DEF MetadataSkipped
  <2>2. Bounded'
    BY <1>1, CountsKept DEF MetadataSkipped, envVars, ReconcileInv, Bounded
  <2> QED
    BY <1>1, <2>1, <2>2, QuietStep DEF MetadataSkipped
<1>2. CASE MetadataFails(p)
  <2>1. OnlyRuns(p)
    BY <1>2, Ends DEF MetadataFails, At
  <2>2. Bounded'
    BY <1>2, CountsKept DEF MetadataFails, Aborts, envVars, ReconcileInv, Bounded
  <2> QED
    BY <1>2, <2>1, <2>2, QuietStep DEF MetadataFails, Aborts
<1> QED
  BY <1>1, <1>2
(* What is read of a file is a version of it, and the present one if nothing newer  *)
(* than its fingerprint was written.                                               *)
LEMMA ReadingTrue ==
    ASSUME Disk, NEW p, NEW f \in Transcripts, NEW v \in Reading(p, f),
           PrintsOK(pass[p].prints, disk)
    PROVE  /\ v \in Nat \cup {Failed}
           /\ f \in DOMAIN pass[p].prints /\ pass[p].prints[f] = disk[f].ver =>
                 v \in {Content(f, disk[f].ver), Failed}
<1>1. disk[f].ver \in Nat \ {0}
  BY DEF Disk, Files, SourceFiles
<1>2. \A n \in Nat : Content(f, n) \in Nat
  BY DEF Content
<1>3. CASE ~ Exists(f)
  BY <1>3 DEF Reading
<1>4. CASE Exists(f) /\ source \in TokenSources /\ f \in DOMAIN pass[p].prints
  <2>1. PICK n \in pass[p].prints[f] .. disk[f].ver : v = Content(f, n)
    BY <1>4 DEF Reading
  <2>2. pass[p].prints[f] \in Nat
    BY <1>4 DEF PrintsOK
  <2>3. n \in Nat /\ (pass[p].prints[f] = disk[f].ver => n = disk[f].ver)
    BY <1>1, <2>1, <2>2
  <2> QED
    BY <1>2, <2>1, <2>3
<1>5. CASE Exists(f) /\ ~ (source \in TokenSources /\ f \in DOMAIN pass[p].prints)
  BY <1>1, <1>2, <1>5 DEF Reading
<1> QED
  BY <1>3, <1>4, <1>5

(* A batch is parsed. *)
LEMMA IngestBatchKeeps ==
    ASSUME ReconcileInv, NEW p \in Passes, IngestBatch(p)
    PROVE  ReconcileInv' /\ StepOK
<1> DEFINE files == Head(pass[p].todo)
           prints == pass[p].prints
<1>1. /\ PassOK(pass[p], disk) /\ pass[p].pc = "parse" /\ WriterOK(writer[p], pass[p], disk)
      /\ PrintsOK(prints, disk)
  BY DEF IngestBatch, At, ReconcileInv, Running, PassOK, Rounds
<1>2. /\ DOMAIN pass[p] = Fields /\ pass[p].todo \in Seq(SUBSET Transcripts) /\ pass[p].todo # << >>
  BY <1>1 DEF PassOK, Rounds
<1>3. files \in SUBSET Transcripts
  BY <1>2
<1>4. PICK read \in Readings(p, files) :
          \/ Fine /\ Become(p, [pass[p] EXCEPT !.pc = "send", !.out = read])
          \/ \E f \in DOMAIN read :
                Faulty(p) /\ Become(p, [pass[p] EXCEPT !.pc = "send", !.out = [read EXCEPT ![f] = Failed]])
  BY DEF IngestBatch
<1> HIDE DEF files
<1>5. DOMAIN read = files /\ \A f \in files : read[f] \in Reading(p, f)
  BY DEF Readings
<1>6. ReadOK(read, prints, disk)
  <2>1. \A f \in files : /\ read[f] \in Nat \cup {Failed}
                         /\ f \in DOMAIN prints /\ prints[f] = disk[f].ver =>
                               read[f] \in {Content(f, disk[f].ver), Failed}
    BY <1>1, <1>3, <1>5, ReadingTrue DEF ReconcileInv
  <2> QED
    BY <1>3, <1>5, <2>1 DEF ReadOK
<1>7. \A f \in DOMAIN read : ReadOK([read EXCEPT ![f] = Failed], prints, disk)
  BY <1>6 DEF ReadOK
<1>8. PICK out : ReadOK(out, prints, disk) /\ Become(p, [pass[p] EXCEPT !.pc = "send", !.out = out])
  BY <1>4, <1>6, <1>7
<1> DEFINE r == [pass[p] EXCEPT !.pc = "send", !.out = out]
<1>9. /\ DOMAIN r = Fields /\ r.pc = "send" /\ r.out = out /\ r.prints = prints
      /\ r.todo = pass[p].todo
  BY <1>2 DEF Fields
<1>10. Become(p, r)
  BY <1>8
<1> HIDE DEF r
<1>11. PassOK(r, disk) /\ WriterOK(writer[p], r, disk)
  BY <1>1, <1>2, <1>8, <1>9 DEF PassOK, Rounds, WriterOK
<1>12. OnlyRuns(p)
  BY <1>10, <1>11, RunsOn DEF IngestBatch
<1>13. Bounded'
  BY <1>4, CountsKept DEF IngestBatch, envVars, ReconcileInv, Bounded
<1> QED
  BY <1>12, <1>13, QuietStep DEF IngestBatch

(* A batch cannot be parsed: the loop ends. *)
LEMMA IngestBatchFailsKeeps ==
    ASSUME ReconcileInv, NEW p \in Passes, IngestBatchFails(p)
    PROVE  ReconcileInv' /\ StepOK
<1> DEFINE r == [pass[p] EXCEPT !.pc = "join", !.failed = TRUE]
<1>1. PassOK(pass[p], disk) /\ pass[p].pc = "parse" /\ WriterOK(writer[p], pass[p], disk)
  BY DEF IngestBatchFails, At, ReconcileInv, Running
<1>2. DOMAIN pass[p] = Fields /\ pass[p].todo \in Seq(SUBSET Transcripts)
  BY <1>1 DEF PassOK, Rounds
<1>3. /\ DOMAIN r = Fields /\ r.pc = "join" /\ r.prints = pass[p].prints
      /\ r.todo = pass[p].todo
  BY <1>2 DEF Fields
<1>4. Become(p, r)
  BY DEF IngestBatchFails
<1> HIDE DEF r
<1>5. PassOK(r, disk) /\ WriterOK(writer[p], r, disk)
  BY <1>1, <1>2, <1>3 DEF PassOK, Rounds, WriterOK
<1>6. OnlyRuns(p)
  BY <1>4, <1>5, RunsOn DEF IngestBatchFails
<1>7. Bounded'
  BY CountsKept DEF IngestBatchFails, envVars, ReconcileInv, Bounded
<1> QED
  BY <1>6, <1>7, QuietStep DEF IngestBatchFails

(* The batch is handed to the writer. *)
LEMMA SendKeeps ==
    ASSUME ReconcileInv, NEW p \in Passes, Send(p)
    PROVE  ReconcileInv' /\ StepOK
<1> DEFINE rest == Tail(pass[p].todo)
           r == [pass[p] EXCEPT !.todo = rest, !.out = NoFiles,
                                !.pc = IF rest = << >> THEN "join" ELSE "parse"]
           res == Result(pass[p].out, FALSE, pass[p].prints, NoTitles)
           w == [pc |-> "saving", res |-> res]
<1>1. PassOK(pass[p], disk) /\ pass[p].pc = "send"
  BY DEF Send, At, ReconcileInv, Running
<1>2. /\ DOMAIN pass[p] = Fields /\ pass[p].todo \in Seq(SUBSET Transcripts) /\ pass[p].todo # << >>
      /\ PrintsOK(pass[p].prints, disk) /\ ReadOK(pass[p].out, pass[p].prints, disk)
  BY <1>1 DEF PassOK, Rounds
<1>3. rest \in Seq(SUBSET Transcripts)
  BY <1>2
<1>4. InFlight(res, disk)
  BY <1>2 DEF InFlight, OnlyAdds, Truthful, ResultOK, Result, NoTitles, PrintsOK, ReadOK
<1> HIDE DEF rest, res
<1>5. /\ DOMAIN r = Fields /\ r.pc = (IF rest = << >> THEN "join" ELSE "parse")
      /\ r.prints = pass[p].prints /\ r.todo = rest
  BY <1>2 DEF Fields
<1>6. w.pc = "saving" /\ w.res = res
  OBVIOUS
<1>7. Become(p, r) /\ writer' = [writer EXCEPT ![p] = w]
  BY DEF Send, rest, res
<1> HIDE DEF r, w
<1>8. PassOK(r, disk)
  BY <1>2, <1>3, <1>5 DEF PassOK, Rounds
<1>9. WriterOK(w, r, disk)
  BY <1>4, <1>5, <1>6 DEF WriterOK
<1>10. OnlyRuns(p)
  BY <1>7, <1>8, <1>9, RunsOn
<1>11. Bounded'
  BY CountsKept DEF Send, envVars, ReconcileInv, Bounded
<1> QED
  BY <1>10, <1>11, QuietStep DEF Send

(* The writer has stopped, and the pass ends. *)
LEMMA SendAfterFailureKeeps ==
    ASSUME ReconcileInv, NEW p \in Passes, SendAfterFailure(p)
    PROVE  ReconcileInv' /\ StepOK
<1>1. OnlyRuns(p)
  BY Ends DEF SendAfterFailure
<1>2. Bounded'
  BY CountsKept DEF SendAfterFailure, envVars, ReconcileInv, Bounded
<1> QED
  BY <1>1, <1>2, QuietStep DEF SendAfterFailure

(* The writer saves the batch, or stops. *)
LEMMA WriterSaveKeeps ==
    ASSUME ReconcileInv, NEW p \in Passes, WriterSave(p)
    PROVE  ReconcileInv' /\ StepOK
<1>1. /\ PassOK(pass[p], disk) /\ WriterOK(writer[p], pass[p], disk)
      /\ InFlight(writer[p].res, disk) /\ pass[p].pc \in {"parse", "send", "join"}
  BY DEF WriterSave, ReconcileInv, Running, WriterOK
<1>2. PICK pc \in {"ready", "failed"} : writer' = [writer EXCEPT ![p] = [pc |-> pc]]
  BY DEF WriterSave
<1> DEFINE w == [pc |-> pc]
<1>3. WriterOK(w, pass[p], disk)
  BY <1>1 DEF WriterOK
<1>4. DOMAIN writer' = Passes /\ writer'[p] = w /\ \A q \in Passes \ {p} : writer'[q] = writer[q]
  BY <1>2, Zenon DEF ReconcileInv, Running
<1> HIDE DEF w
<1>5. OnlyRuns(p)
  BY <1>1, <1>3, <1>4 DEF OnlyRuns, WriterSave, ReconcileInv, Running
<1>6. Bounded'
  BY CountsKept DEF WriterSave, Commits, Aborts, envVars, ReconcileInv, Bounded
<1>7. db' \in SaveIngest(db, writer[p].res) \/ db' = db
  BY DEF WriterSave, Commits, Aborts
<1> QED
  BY <1>1, <1>5, <1>6, <1>7, QuietStep, SaveStep DEF WriterSave

(* The writer's answer is awaited. *)
LEMMA JoinKeeps ==
    ASSUME ReconcileInv, NEW p \in Passes, Join(p)
    PROVE  ReconcileInv' /\ StepOK
<1>1. PassOK(pass[p], disk) /\ pass[p].pc = "join" /\ pass[p].pc \in Rounds
  BY DEF Join, At, ReconcileInv, Running, Rounds
<1>2. OnlyRuns(p)
  <2>1. CASE End(p)
    BY <2>1, Ends DEF Join
  <2>2. CASE ~ End(p)
    <3> DEFINE pc == IF source = TitleSource THEN "titles" ELSE "purge"
               r == [pass[p] EXCEPT !.pc = pc]
    <3>1. Become(p, r)
      BY <2>2 DEF Join, Goto
    <3>2. pc \in Rounds \ {"send", "names", "titlesave"} /\ pc \notin {"parse", "send", "join"}
      BY DEF Rounds
    <3>3. PassOK(r, disk) /\ r.pc = pc
      <4> HIDE DEF pc
      <4> QED
        BY <1>1, <3>2, Moved
    <3> HIDE DEF r
    <3>4. WriterOK(Off, r, disk)
      BY <3>2, <3>3 DEF WriterOK, Off
    <3> QED
      BY <3>1, <3>3, <3>4, RunsOn DEF Join
  <2> QED
    BY <2>1, <2>2
<1>3. Bounded'
  BY CountsKept DEF Join, envVars, ReconcileInv, Bounded
<1> QED
  BY <1>2, <1>3, QuietStep DEF Join
(* The index of titles is stated and read. *)
LEMMA TitlesReadKeeps ==
    ASSUME ReconcileInv, NEW p \in Passes, TitlesStat(p) \/ ReadSessionTitles(p)
    PROVE  ReconcileInv' /\ StepOK
<1>1. PassOK(pass[p], disk) /\ pass[p].pc \in {"titles", "names"} /\ pass[p].pc \in Rounds
  BY DEF TitlesStat, ReadSessionTitles, At, ReconcileInv, Running, Rounds
<1>2. /\ DOMAIN pass[p] = Fields /\ pass[p].todo \in Seq(SUBSET Transcripts)
      /\ PrintsOK(pass[p].prints, disk)
  BY <1>1 DEF PassOK, Rounds
<1>3. IndexFile \in SourceFiles /\ disk[IndexFile].ver \in Nat
  BY DEF SourceFiles, ReconcileInv, Disk, Files
<1>4. OnlyRuns(p)
  <2>1. CASE TitlesStat(p) /\ Goto(p, "purge")
    <3> DEFINE r == [pass[p] EXCEPT !.pc = "purge"]
    <3>1. Become(p, r)
      BY <2>1 DEF Goto
    <3>2. PassOK(r, disk) /\ r.pc = "purge"
      BY <1>1, Moved DEF Rounds
    <3> HIDE DEF r
    <3> QED
      BY <1>1, <2>1, <3>1, <3>2, RunsAlone DEF TitlesStat
  <2>2. CASE TitlesStat(p) /\ ~ Goto(p, "purge")
    <3> DEFINE out == [f \in {IndexFile} |-> disk[IndexFile].ver]
               r == [pass[p] EXCEPT !.pc = "names", !.out = out]
    <3>1. Become(p, r)
      BY <2>2 DEF TitlesStat
    <3>2. PrintsOK(out, disk)
      BY <1>3 DEF PrintsOK
    <3> HIDE DEF out
    <3>3. /\ DOMAIN r = Fields /\ r.pc = "names" /\ r.out = out /\ r.prints = pass[p].prints
          /\ r.todo = pass[p].todo
      BY <1>2 DEF Fields
    <3> HIDE DEF r
    <3>4. PassOK(r, disk)
      BY <1>2, <3>2, <3>3 DEF PassOK, Rounds
    <3> QED
      BY <1>1, <2>2, <3>1, <3>3, <3>4, RunsAlone DEF TitlesStat
  <2>3. CASE ReadSessionTitles(p)
    <3>1. PICK titles \in {IndexTitles, NoTitles} :
              Become(p, [pass[p] EXCEPT !.pc = "titlesave",
                                        !.out = Result(NoFiles, TRUE, pass[p].out, titles)])
      BY <2>3 DEF ReadSessionTitles
    <3> DEFINE res == Result(NoFiles, TRUE, pass[p].out, titles)
               r == [pass[p] EXCEPT !.pc = "titlesave", !.out = res]
    <3>2. PrintsOK(pass[p].out, disk)
      BY <1>1, <2>3 DEF PassOK, ReadSessionTitles, At
    <3>3. \A e \in DOMAIN titles : titles[e] \in Nat
      BY <1>3 DEF IndexTitles, NoTitles
    <3>4. InFlight(res, disk)
      BY <3>2, <3>3 DEF InFlight, OnlyAdds, Truthful, ResultOK, Result, NoFiles, PrintsOK, ReadOK
    <3> HIDE DEF res
    <3>5. /\ DOMAIN r = Fields /\ r.pc = "titlesave" /\ r.out = res /\ r.prints = pass[p].prints
          /\ r.todo = pass[p].todo
      BY <1>2 DEF Fields
    <3>6. Become(p, r)
      BY <3>1 DEF res
    <3> HIDE DEF r
    <3>7. PassOK(r, disk)
      BY <1>2, <3>4, <3>5 DEF PassOK, Rounds
    <3> QED
      BY <1>1, <2>3, <3>5, <3>6, <3>7, RunsAlone DEF ReadSessionTitles
  <2> QED
    BY <2>1, <2>2, <2>3
<1>5. Bounded'
  BY CountsKept DEF TitlesStat, ReadSessionTitles, envVars, ReconcileInv, Bounded
<1> QED
  BY <1>4, <1>5, QuietStep DEF TitlesStat, ReadSessionTitles

(* The titles are saved. *)
LEMMA SaveTitlesKeeps ==
    ASSUME ReconcileInv, NEW p \in Passes, SaveTitles(p)
    PROVE  ReconcileInv' /\ StepOK
<1>1. /\ PassOK(pass[p], disk) /\ pass[p].pc = "titlesave" /\ pass[p].pc \in Rounds
      /\ InFlight(pass[p].out, disk)
  BY DEF SaveTitles, At, ReconcileInv, Running, Rounds, PassOK
<1>2. OnlyRuns(p)
  <2>1. CASE End(p)
    BY <1>1, <2>1, Ends DEF SaveTitles
  <2>2. CASE ~ End(p)
    <3> DEFINE r == [pass[p] EXCEPT !.pc = "purge"]
    <3>1. Become(p, r)
      BY <2>2 DEF SaveTitles, Goto
    <3>2. PassOK(r, disk) /\ r.pc = "purge"
      BY <1>1, Moved DEF Rounds
    <3> HIDE DEF r
    <3> QED
      BY <1>1, <3>1, <3>2, RunsAlone DEF SaveTitles
  <2> QED
    BY <2>1, <2>2
<1>3. Bounded'
  BY CountsKept DEF SaveTitles, Commits, Aborts, envVars, ReconcileInv, Bounded
<1>4. db' \in SaveIngest(db, pass[p].out) \/ db' = db
  BY DEF SaveTitles, Commits, Aborts
<1> QED
  BY <1>1, <1>2, <1>3, <1>4, QuietStep, SaveStep DEF SaveTitles

(* What has vanished is looked up. *)
LEMMA PurgeKeeps ==
    ASSUME ReconcileInv, NEW p \in Passes, PurgeVanished(p)
    PROVE  ReconcileInv' /\ StepOK
<1>1. OnlyRuns(p)
  <2>1. CASE End(p)
    BY <2>1, Ends DEF PurgeVanished, At
  <2>2. CASE ~ End(p)
    <3> DEFINE r == [pc |-> "delete", gone |-> Gone(p)]
    <3>1. Become(p, r)
      BY <2>2 DEF PurgeVanished
    <3>2. PassOK(r, disk) /\ r.pc = "delete"
      BY DEF PassOK, Rounds
    <3> HIDE DEF r
    <3> QED
      BY <3>1, <3>2, RunsAlone DEF PurgeVanished, At
  <2> QED
    BY <2>1, <2>2
<1>2. Bounded'
  BY CountsKept DEF PurgeVanished, envVars, ReconcileInv, Bounded
<1> QED
  BY <1>1, <1>2, QuietStep DEF PurgeVanished

(* The rows of files are deleted, all of them and with their fingerprints. *)
LEMMA DeletedKeeps ==
    ASSUME ReconcileInv, UNCHANGED <<source, disk, changes, hidden>>,
           NEW files, db' = DeleteSourceFiles(db, files)
    PROVE  /\ (db \in Database)' /\ Disk' /\ OffsetsTrue' /\ Tidy' /\ MetadataKept' /\ StepOK
<1> USE DEF ReconcileInv
<1>1. /\ db.session \in Records /\ db.raw \in [Transcripts -> Nat \cup {NoRow}]
      /\ db.text \in [Transcripts -> Nat \cup {NoRow, Blanked}]
      /\ db.docs \in [Transcripts -> Nat \cup {NoRow, Blanked}]
      /\ db.offset \in [SourceFiles -> Nat \cup {NoRow}]
  BY DEF Database, Records
<1>2. \A f \in Transcripts :
          /\ db'.session[f] = IF f \in files THEN NoRow ELSE db.session[f]
          /\ db'.raw[f] = IF f \in files THEN NoRow ELSE db.raw[f]
          /\ db'.text[f] = IF f \in files THEN NoRow ELSE db.text[f]
          /\ db'.docs[f] = IF f \in files THEN NoRow ELSE db.docs[f]
          /\ f \in db.errors /\ f \notin files => f \in db'.errors
  BY <1>1 DEF DeleteSourceFiles, Clear, Records
<1>3. /\ \A f \in SourceFiles : db'.offset[f] = IF f \in files THEN NoRow ELSE db.offset[f]
      /\ db'.skills = db.skills /\ db'.servers = db.servers
  BY <1>1 DEF DeleteSourceFiles, Clear
<1>4. \A f \in Transcripts : f \in Stored(db') <=> f \in Stored(db) /\ f \notin files
  BY <1>2 DEF Stored
<1>5. (db \in Database)'
  BY DeletedType
<1>6. Disk'
  BY DEF Disk
<1>7. \A f \in SourceFiles : disk[f].ver \in Nat /\ disk[f].ver # NoRow
  BY StoreAssumption DEF Disk, Files
<1>8. OffsetsTrue'
  <2>1. \A f \in SourceFiles : db'.offset[f] # NoRow => db'.offset[f] <= disk[f].ver
    BY <1>3 DEF OffsetsTrue
  <2>2. ASSUME NEW f \in Transcripts, db'.offset[f] = disk[f].ver
        PROVE  \/ f \in Stored(db') /\ db'.session[f].ver = disk[f].ver
               \/ f \notin Stored(db') /\ (Content(f, disk[f].ver) = 0 \/ f \in db'.errors)
    <3>1. f \in SourceFiles
      BY DEF SourceFiles
    <3>2. f \notin files /\ db.offset[f] = disk[f].ver
      BY <1>3, <1>7, <2>2, <3>1
    <3> QED
      BY <1>2, <1>4, <3>2 DEF OffsetsTrue
  <2> QED
    BY <2>1, <2>2 DEF OffsetsTrue
<1>9. RowsAgree' /\ SearchHidesRedacted'
  BY <1>2, <1>4, StoreAssumption DEF Tidy, RowsAgree, SearchHidesRedacted
<1>10. Resolvable(db'.session) = {}
  <2>1. ASSUME NEW c \in Unlinked(db'.session), NEW q \in Candidates(db'.session, c)
        PROVE  FALSE
    <3>1. c \in Unlinked(db.session)
      BY <1>2, <2>1, StoreAssumption DEF Unlinked
    <3>2. q \in Candidates(db.session, c)
      BY <1>2, <2>1, StoreAssumption DEF Candidates
    <3> QED
      BY <3>1, <3>2 DEF Tidy, Resolvable
  <2> QED
    BY <2>1 DEF Resolvable
<1>11. MetadataKept'
  BY <1>3 DEF MetadataKept
<1>12. StepOK
  BY <1>2, <1>4 DEF StepOK, TitleStep, LinkStep, Stored
<1> QED
  BY <1>5, <1>6, <1>8, <1>9, <1>10, <1>11, <1>12 DEF Tidy

(* What has vanished is deleted. *)
LEMMA DeleteKeeps ==
    ASSUME ReconcileInv, NEW p \in Passes, Delete(p)
    PROVE  ReconcileInv' /\ StepOK
<1>1. OnlyRuns(p)
  BY Ends DEF Delete, At
<1>2. Bounded'
  BY CountsKept DEF Delete, Commits, Aborts, envVars, ReconcileInv, Bounded
<1>3. CASE db' = db
  BY <1>1, <1>2, <1>3, QuietStep DEF Delete
<1>4. CASE db' # db
  <2>1. db' = DeleteSourceFiles(db, pass[p].gone)
    BY <1>4 DEF Delete, Commits, Aborts
  <2>2. /\ (db \in Database)' /\ Disk' /\ OffsetsTrue' /\ Tidy' /\ MetadataKept' /\ StepOK
    BY <2>1, DeletedKeeps DEF Delete, envVars
  <2>3. Running'
    BY <1>1 DEF ReconcileInv, Running, OnlyRuns, Delete, envVars
  <2> QED
    BY <1>2, <2>2, <2>3 DEF ReconcileInv
<1> QED
  BY <1>3, <1>4
-----------------------------------------------------------------------------
(* Single files, retention, crashes and the files themselves *)

(* A single file is stated. *)
LEMMA FileStatKeeps ==
    ASSUME ReconcileInv, NEW p \in Passes, NEW f \in Mine, FileStat(p, f)
    PROVE  ReconcileInv' /\ StepOK
<1> DEFINE r == [pc |-> "fileread", prints |-> Prints({f}), file |-> f]
<1>1. Become(p, r)
  BY DEF FileStat
<1>2. f \in Transcripts /\ f \in SourceFiles
  BY DEF Mine, SourceFiles
<1>3. PrintsOK(Prints({f}), disk)
  BY <1>2, FreshPrints DEF ReconcileInv
<1>4. PassOK(r, disk) /\ r.pc = "fileread"
  BY <1>2, <1>3 DEF PassOK, Rounds
<1> HIDE DEF r
<1>5. OnlyRuns(p)
  BY <1>1, <1>4, RunsAlone DEF FileStat, At
<1>6. Bounded'
  BY PassAssumption DEF FileStat, envVars, ReconcileInv, Bounded
<1> QED
  BY <1>5, <1>6, QuietStep DEF FileStat

(* It is read. *)
LEMMA FileReadKeeps ==
    ASSUME ReconcileInv, NEW p \in Passes, IngestSessionFile(p)
    PROVE  ReconcileInv' /\ StepOK
<1>1. /\ PassOK(pass[p], disk) /\ pass[p].pc = "fileread" /\ pass[p].file \in Transcripts
      /\ PrintsOK(pass[p].prints, disk)
  BY DEF IngestSessionFile, At, ReconcileInv, Running, PassOK
<1>2. PICK v \in Reading(p, pass[p].file) :
          \/ v # Failed /\ Become(p, [pc |-> "filesave", prints |-> pass[p].prints,
                                      file |-> pass[p].file, read |-> v])
          \/ End(p)
  BY DEF IngestSessionFile
<1>3. /\ v \in Nat \cup {Failed}
      /\ pass[p].file \in DOMAIN pass[p].prints /\ pass[p].prints[pass[p].file] = disk[pass[p].file].ver =>
            v \in {Content(pass[p].file, disk[pass[p].file].ver), Failed}
  BY <1>1, ReadingTrue DEF ReconcileInv
<1>4. OnlyRuns(p)
  <2>1. CASE End(p)
    BY <1>1, <2>1, Ends DEF IngestSessionFile
  <2>2. CASE ~ End(p)
    <3> DEFINE r == [pc |-> "filesave", prints |-> pass[p].prints, file |-> pass[p].file, read |-> v]
    <3>1. Become(p, r) /\ v \in Nat
      BY <1>2, <1>3, <2>2
    <3>2. ReadOK([g \in {pass[p].file} |-> v], pass[p].prints, disk)
      BY <1>1, <1>3 DEF ReadOK
    <3>3. PassOK(r, disk) /\ r.pc = "filesave"
      BY <1>1, <3>1, <3>2 DEF PassOK, Rounds
    <3> HIDE DEF r
    <3> QED
      BY <1>1, <3>1, <3>3, RunsAlone DEF IngestSessionFile
  <2> QED
    BY <2>1, <2>2
<1>5. Bounded'
  BY CountsKept DEF IngestSessionFile, envVars, ReconcileInv, Bounded
<1> QED
  BY <1>4, <1>5, QuietStep DEF IngestSessionFile

(* It is saved, unless it holds no event. *)
LEMMA FileSaveKeeps ==
    ASSUME ReconcileInv, NEW p \in Passes, FileSave(p)
    PROVE  ReconcileInv' /\ StepOK
<1> DEFINE read == [f \in {pass[p].file} |-> pass[p].read]
           res == Result(read, FALSE, pass[p].prints, NoTitles)
<1>1. /\ PassOK(pass[p], disk) /\ pass[p].pc = "filesave"
      /\ PrintsOK(pass[p].prints, disk) /\ ReadOK(read, pass[p].prints, disk)
  BY DEF FileSave, At, ReconcileInv, Running, PassOK
<1> HIDE DEF read
<1>2. InFlight(res, disk)
  BY <1>1 DEF InFlight, OnlyAdds, Truthful, ResultOK, Result, NoTitles, PrintsOK, ReadOK
<1> HIDE DEF res
<1>3. OnlyRuns(p)
  BY Ends DEF FileSave, At
<1>4. Bounded'
  BY CountsKept DEF FileSave, Commits, Aborts, envVars, ReconcileInv, Bounded
<1>5. db' \in SaveSessionIngest(db, res) \/ db' = db
  BY DEF FileSave, Commits, Aborts, res, read
<1>6. db' \in SaveIngest(db, res) \/ db' = db
  BY <1>5 DEF SaveSessionIngest
<1> QED
  BY <1>2, <1>3, <1>4, <1>6, QuietStep, SaveStep DEF FileSave

(* A process starts a pass or dies. *)
LEMMA StartCrashKeeps ==
    ASSUME ReconcileInv, NEW p \in Passes, Start(p) \/ Crash(p)
    PROVE  ReconcileInv' /\ StepOK
<1>1. CASE Start(p)
  <2> DEFINE r == [pc |-> "discover", known |-> LoadIngestFingerprints(db)]
  <2>1. Become(p, r)
    BY <1>1 DEF Start
  <2>2. PassOK(r, disk) /\ r.pc = "discover"
    BY DEF PassOK, Rounds
  <2> HIDE DEF r
  <2>3. OnlyRuns(p)
    BY <1>1, <2>1, <2>2, RunsAlone DEF Start, At
  <2>4. Bounded'
    BY <1>1, PassAssumption DEF Start, envVars, ReconcileInv, Bounded
  <2> QED
    BY <1>1, <2>3, <2>4, QuietStep DEF Start
<1>2. CASE Crash(p)
  <2>1. OnlyRuns(p)
    BY <1>2, Ends DEF Crash
  <2>2. Bounded'
    BY <1>2, CountsKept DEF Crash, envVars, ReconcileInv, Bounded
  <2> QED
    BY <1>2, <2>1, <2>2, QuietStep DEF Crash
<1> QED
  BY <1>1, <1>2

(* A retention step changes raw events, text and search documents only. *)
LEMMA RetentionKeeps ==
    ASSUME ReconcileInv, Prune \/ Redact
    PROVE  ReconcileInv' /\ StepOK
<1> USE DEF ReconcileInv
<1>1. Bounded'
  <2>1. /\ calm' = {} /\ retain' \in {"idle", "redact"} /\ UNCHANGED <<changes, passes, hidden>>
        /\ faults' = faults \/ (faults < MaxFaults /\ faults' = faults + 1)
    BY Zenon DEF Prune, Redact, envVars
  <2> QED
    BY <2>1, PassAssumption DEF Bounded
<1>2. Disk' /\ Running'
  BY DEF Prune, Redact, envVars, Disk, Running
<1>3. /\ db.raw \in [Transcripts -> Nat \cup {NoRow}]
      /\ db.text \in [Transcripts -> Nat \cup {NoRow, Blanked}]
      /\ db.docs \in [Transcripts -> Nat \cup {NoRow, Blanked}]
      /\ db.session \in Records
  BY DEF Database, Records
<1>4. /\ db'.session = db.session /\ db'.errors = db.errors /\ db'.offset = db.offset
      /\ db'.skills = db.skills /\ db'.servers = db.servers
      /\ \A f \in Transcripts : db'.raw[f] \in {db.raw[f], NoRow}
      /\ \/ db'.text = db.text /\ db'.docs = db.docs
         \/ \A f \in Transcripts :
               /\ db'.text[f] = IF f \in Old /\ db.text[f] # NoRow THEN Blanked ELSE db.text[f]
               /\ db'.docs[f] = IF f \in Old /\ db.docs[f] # NoRow THEN Blanked ELSE db.docs[f]
      /\ db' \in Database
  <2>1. CASE Prune
    <3>1. db' = [db EXCEPT !.raw = Clear(db.raw, Old)]
      BY <2>1 DEF Prune, PruneRawEvents
    <3>2. Clear(db.raw, Old) \in [Transcripts -> Nat \cup {NoRow}]
      BY <1>3, ClearedType
    <3>3. \A f \in Transcripts : Clear(db.raw, Old)[f] \in {db.raw[f], NoRow}
      BY <1>3 DEF Clear
    <3> QED
      BY <3>1, <3>2, <3>3 DEF Database
  <2>2. CASE Redact /\ db' = RedactNormalized(db)
    <3>1. db' = [db EXCEPT !.text = Blank(db.text), !.docs = Blank(db.docs)]
      BY <2>2 DEF RedactNormalized
    <3>2. /\ Blank(db.text) \in [Transcripts -> Nat \cup {NoRow, Blanked}]
          /\ Blank(db.docs) \in [Transcripts -> Nat \cup {NoRow, Blanked}]
          /\ \A f \in Transcripts :
               /\ Blank(db.text)[f] = IF f \in Old /\ db.text[f] # NoRow THEN Blanked ELSE db.text[f]
               /\ Blank(db.docs)[f] = IF f \in Old /\ db.docs[f] # NoRow THEN Blanked ELSE db.docs[f]
      BY <1>3 DEF Blank
    <3> DEFINE d1 == [db EXCEPT !.text = Blank(db.text)]
    <3>3. d1 \in Database /\ \A t \in {"session", "raw", "docs", "errors", "offset", "skills", "servers"} :
                                d1[t] = db[t]
      BY <3>2 DEF Database
    <3>4. d1.text = Blank(db.text)
      BY DEF Database
    <3>5. db' = [d1 EXCEPT !.docs = Blank(db.docs)]
      BY <3>1, Zenon
    <3> HIDE DEF d1
    <3>6. db' \in Database /\ db'.text = d1.text /\ db'.docs = Blank(db.docs)
          /\ db'.session = d1.session /\ db'.raw = d1.raw /\ db'.errors = d1.errors
          /\ db'.offset = d1.offset /\ db'.skills = d1.skills /\ db'.servers = d1.servers
      BY <3>2, <3>3, <3>5 DEF Database
    <3> QED
      BY <3>2, <3>3, <3>4, <3>6
  <2>3. CASE db' = db
    BY <2>3
  <2> QED
    BY <2>1, <2>2, <2>3 DEF Redact
<1>5. OffsetsTrue'
  BY <1>4 DEF OffsetsTrue, Stored, Prune, Redact, envVars
<1>6. Stored(db') = Stored(db)
  BY <1>4 DEF Stored
<1>7. \A f \in Stored(db) : db.session[f].ver \in Nat
  BY <1>3 DEF Stored, Records, Session
<1>8. RowsAgree'
  BY <1>3, <1>4, <1>6, <1>7, StoreAssumption DEF Tidy, RowsAgree
<1>9. SearchHidesRedacted'
  BY <1>3, <1>4, <1>6, <1>7, StoreAssumption DEF Tidy, RowsAgree, SearchHidesRedacted
<1>10. MetadataKept' /\ StepOK /\ Resolvable(db'.session) = {}
  BY <1>4 DEF MetadataKept, Prune, Redact, envVars, StepOK, TitleStep, LinkStep, Stored, Tidy
<1> QED
  BY <1>1, <1>2, <1>4, <1>5, <1>8, <1>9, <1>10 DEF Tidy

(* A file is written, vanishes, or threads get names: nothing gets older. *)
LEMMA ChangeKeeps ==
    ASSUME ReconcileInv, NameThreads \/ \E f \in Mine : Write(f) \/ Unlink(f)
    PROVE  ReconcileInv' /\ StepOK
<1> USE DEF ReconcileInv
<1>1. Change /\ EnvDone
  BY DEF NameThreads, Write, Unlink
<1>2. PICK g \in SourceFiles :
          \/ disk' = [disk EXCEPT ![g] = [ver |-> disk[g].ver + 1, there |-> TRUE]]
          \/ disk' = [disk EXCEPT ![g].there = FALSE]
  BY DEF NameThreads, Write, Unlink, Mine, SourceFiles
<1>3. disk \in [SourceFiles -> [ver : Nat \ {0}, there : BOOLEAN]]
  BY DEF Disk, Files
<1>4. changes \in Nat /\ changes' = changes + 1
  BY <1>1, PassAssumption DEF Change, Bounded
<1>5. Files(disk') /\ \A f \in SourceFiles : \/ disk'[f].ver = disk[f].ver
                                              \/ disk'[f].ver = disk[f].ver + 1
  <2>1. CASE disk' = [disk EXCEPT ![g] = [ver |-> disk[g].ver + 1, there |-> TRUE]]
    BY <1>3, <2>1 DEF Files
  <2>2. CASE disk' = [disk EXCEPT ![g].there = FALSE]
    BY <1>3, <2>2 DEF Files
  <2> QED
    BY <1>2, <2>1, <2>2
<1>6. \A f \in SourceFiles : disk[f].ver \in Nat /\ disk'[f].ver \in Nat /\ disk[f].ver <= disk'[f].ver
  BY <1>3, <1>5
<1>7. Disk'
  BY <1>1, <1>4, <1>5, <1>6 DEF Disk, EnvDone
<1>8. Bounded'
  BY <1>1, PassAssumption DEF Change, EnvDone, Bounded
<1>9. Running'
  BY <1>1, <1>5, <1>6, NewerFiles DEF EnvDone, Running, Disk
<1>10. OffsetsTrue'
  <2>1. \A f \in SourceFiles : db.offset[f] # NoRow => db.offset[f] <= disk'[f].ver
    BY <1>6 DEF OffsetsTrue, Database
  <2>2. \A f \in Transcripts : db.offset[f] = disk'[f].ver => disk'[f].ver = disk[f].ver
    BY <1>5, <1>6, StoreAssumption DEF OffsetsTrue, SourceFiles
  <2> QED
    BY <1>1, <2>1, <2>2 DEF OffsetsTrue, EnvDone
<1>11. Tidy' /\ MetadataKept' /\ (db \in Database)' /\ StepOK
  BY <1>1 DEF EnvDone, Tidy, RowsAgree, SearchHidesRedacted, MetadataKept, StepOK, TitleStep, LinkStep
<1> QED
  BY <1>7, <1>8, <1>9, <1>10, <1>11

-----------------------------------------------------------------------------
(* The theorems *)

(* The store starts empty, and no pass runs. *)
LEMMA InitKeeps ==
    ASSUME Init
    PROVE  ReconcileInv
<1> USE DEF Init
<1>1. db.session = [f \in Transcripts |-> NoRow] /\ db.raw = [f \in Transcripts |-> NoRow]
      /\ db.text = [f \in Transcripts |-> NoRow] /\ db.docs = [f \in Transcripts |-> NoRow]
      /\ db.errors = {} /\ db.offset = [f \in SourceFiles |-> NoRow]
      /\ db.skills = (IF source = SkillSource THEN Items ELSE {})
      /\ db.servers = (IF source = SkillSource THEN Items ELSE {})
      /\ DOMAIN db = {"session", "raw", "text", "docs", "errors", "offset", "skills", "servers"}
  BY DEF EmptyDatabase
<1>2. Items \subseteq Nat
  BY PassAssumption DEF Items
<1>3. db \in Database
  BY <1>1, <1>2 DEF Database, EmptyDatabase
<1>4. Disk
  BY PassAssumption DEF Disk, Files
<1>5. Stored(db) = {}
  BY <1>1 DEF Stored
<1>6. OffsetsTrue
  BY <1>1, <1>4, StoreAssumption DEF OffsetsTrue, Disk, Files, SourceFiles
<1>7. Tidy
  BY <1>1, <1>5, StoreAssumption DEF Tidy, RowsAgree, SearchHidesRedacted, Resolvable, Unlinked
<1>8. MetadataKept
  BY <1>1 DEF MetadataKept
<1>9. Running
  BY DEF Running, PassOK, WriterOK, Idle, Off, Rounds
<1>10. Bounded
  <2>1. /\ retain = "idle" /\ changes = 0 /\ faults = 0 /\ passes = 0 /\ calm = {} /\ hidden = FALSE
    BY Zenon
  <2> HIDE DEF Init
  <2>2. faults \in 0 .. MaxFaults /\ changes \in 0 .. MaxChanges /\ passes \in 0 .. MaxPasses
    BY <2>1, PassAssumption
  <2>3. hidden \in BOOLEAN /\ calm \subseteq Passes /\ retain \in {"idle", "redact"}
    BY <2>1
  <2> QED
    BY <2>2, <2>3 DEF Bounded
<1> QED
  BY <1>3, <1>4, <1>6, <1>7, <1>8, <1>9, <1>10 DEF ReconcileInv

(* Every step keeps the invariant, a title, and the choice of parents. *)
LEMMA StepKeeps ==
    ASSUME ReconcileInv, [Next]_vars
    PROVE  ReconcileInv' /\ StepOK
<1>1. CASE UNCHANGED vars
  BY <1>1 DEF vars, ReconcileInv, Bounded, Disk, OffsetsTrue, Tidy, RowsAgree, SearchHidesRedacted,
              MetadataKept, Running, StepOK, TitleStep, LinkStep
<1>2. ASSUME NEW p \in Passes, PassStep(p)
      PROVE  ReconcileInv' /\ StepOK
  BY <1>2, DiscoverKeeps, PartitionKeeps, MetadataKeeps, NoMetadataKeeps, IngestBatchKeeps,
     IngestBatchFailsKeeps, SendKeeps, SendAfterFailureKeeps, JoinKeeps, TitlesReadKeeps,
     SaveTitlesKeeps, PurgeKeeps, DeleteKeeps, FileReadKeeps, FileSaveKeeps DEF PassStep
<1>3. ASSUME NEW p \in Passes, Start(p) \/ WriterSave(p) \/ Crash(p)
      PROVE  ReconcileInv' /\ StepOK
  BY <1>3, StartCrashKeeps, WriterSaveKeeps
<1>4. ASSUME NEW f \in Mine, FileStat(Daemon, f) \/ Write(f) \/ Unlink(f)
      PROVE  ReconcileInv' /\ StepOK
  BY <1>4, FileStatKeeps, ChangeKeeps, PassAssumption
<1>5. CASE Prune \/ Redact \/ NameThreads
  BY <1>5, RetentionKeeps, ChangeKeeps
<1> QED
  BY <1>1, <1>2, <1>3, <1>4, <1>5 DEF Next

(* Passes, single-file ingests, retention, crashes and changes keep the invariant. *)
THEOREM ReconcileInvariance == Spec => []ReconcileInv
BY InitKeeps, StepKeeps, PTL DEF Spec

(* Store, disk and passes keep their shape, and a writer goroutine runs only while  *)
(* its pass does.                                                                 *)
THEOREM PassTypeCorrect == Spec => []TypeOK
BY ReconcileInvariance, InvImplies, PTL

(* A file that later passes skip shows its present version (updateIngestOffsets). *)
THEOREM SkippedIsShown == Spec => []FingerprintHonest
BY ReconcileInvariance, InvImplies, PTL

(* The tables agree on every file. *)
THEOREM TablesAgree == Spec => []RowsAgree
BY ReconcileInvariance, InvImplies, PTL

(* Text that was redacted is not found by a search. *)
THEOREM RedactedIsHidden == Spec => []SearchHidesRedacted
BY ReconcileInvariance, InvImplies, PTL

(* No subagent is left unlinked beside its parent. *)
THEOREM NoneUnlinked == Spec => []LinksComplete
BY ReconcileInvariance, InvImplies, PTL

(* A scan that failed deletes no skill and no server. *)
THEOREM FailedScanDeletesNothing == Spec => []MetadataKept
BY ReconcileInvariance, InvImplies, PTL

(* A thread keeps its title when its transcript is ingested again. *)
THEOREM TitlesSurvive == Spec => TitleKept
<1>1. ReconcileInv /\ [Next]_vars => [TitleStep]_vars
  BY StepKeeps DEF StepOK
<1> QED
  BY <1>1, ReconcileInvariance, PTL DEF Spec, TitleKept, TitleStep

(* A subagent is linked to its top-level parent rather than to a sibling. *)
THEOREM ParentPreferred == Spec => ParentOverSibling
<1>1. ReconcileInv /\ [Next]_vars => [LinkStep]_vars
  BY StepKeeps DEF StepOK
<1> QED
  BY <1>1, ReconcileInvariance, PTL DEF Spec, ParentOverSibling, LinkStep

-----------------------------------------------------------------------------
(* The batches *)

(* Every changed file is in a batch. *)
LEMMA BatchesCover ==
    ASSUME NEW changed, NEW f \in Transcripts, f \in changed
    PROVE  \E b \in 1 .. Len(ChunkBySize(changed)) : f \in ChunkBySize(changed)[b]
<1> DEFINE n == Len(FileOrder)
           listed == {i \in 1 .. Len(FileOrder) : FileOrder[i] \in changed}
           bytes[i \in 0 .. Len(FileOrder)] ==
               IF i = 0 THEN MaxBatchBytes + 1
               ELSE IF i \notin listed THEN bytes[i - 1]
               ELSE IF bytes[i - 1] + Size[FileOrder[i]] > MaxBatchBytes THEN Size[FileOrder[i]]
               ELSE bytes[i - 1] + Size[FileOrder[i]]
           starts == {i \in listed : bytes[i - 1] + Size[FileOrder[i]] > MaxBatchBytes}
           batch(i) == Cardinality({j \in starts : j <= i})
           files(b) == {FileOrder[i] : i \in {j \in listed : batch(j) = b}}
           next(i, x) == IF i \notin listed THEN x
                         ELSE IF x + Size[FileOrder[i]] > MaxBatchBytes THEN Size[FileOrder[i]]
                         ELSE x + Size[FileOrder[i]]
           step == [x \in (1 .. n) \X Nat |-> next(x[1], x[2])]
<1>0. n \in Nat
  BY PassAssumption
<1>1. listed \subseteq 1 .. n /\ MaxBatchBytes \in Nat
      /\ \A i \in 1 .. n : FileOrder[i] \in Transcripts /\ Size[FileOrder[i]] \in Nat
  <2>1. \A i \in 1 .. n : FileOrder[i] \in Transcripts
    BY PassAssumption
  <2> HIDE DEF bytes
  <2> QED
    BY <2>1, PassAssumption
<1>2. ChunkBySize(changed) = [b \in 1 .. Cardinality(starts) |-> files(b)]
  BY Zenon DEF ChunkBySize
<1>3. PICK k \in listed : FileOrder[k] = f
  BY PassAssumption
<1>4. bytes[0] = MaxBatchBytes + 1
      /\ \A i \in 1 .. n : i \notin listed => bytes[i] = bytes[i - 1]
  <2>1. PICK g \in [0 .. n -> Nat] : Follows(g, n, MaxBatchBytes + 1, step)
    <3> HIDE DEF bytes, listed
    <3>1. \A i \in 1 .. n, x \in Nat : next(i, x) \in Nat
      BY <1>0, <1>1
    <3>2. step \in [(1 .. n) \X Nat -> Nat]
      <4> HIDE DEF next, n
      <4> QED
        BY <3>1
    <3>3. MaxBatchBytes + 1 \in Nat
      BY <1>0, <1>1
    <3> HIDE DEF step, n
    <3> QED
      BY <1>0, <3>2, <3>3, RecursionExists
  <2>2. g = [i \in 0 .. Len(FileOrder) |->
               IF i = 0 THEN MaxBatchBytes + 1
               ELSE IF i \notin listed THEN g[i - 1]
               ELSE IF g[i - 1] + Size[FileOrder[i]] > MaxBatchBytes THEN Size[FileOrder[i]]
               ELSE g[i - 1] + Size[FileOrder[i]]]
    <3> HIDE DEF bytes, listed
    <3>1. \A i \in 1 .. n : step[<<i, g[i - 1]>>] = next(i, g[i - 1])
      <4> TAKE i \in 1 .. n
      <4>1. i - 1 \in 0 .. n /\ g[i - 1] \in Nat
        <5>1. i - 1 \in 0 .. n
          BY <1>0, <1>1
        <5> HIDE DEF step, next, n
        <5> QED
          BY <2>1, <5>1
      <4>2. <<i, g[i - 1]>> \in (1 .. n) \X Nat
        BY <4>1
      <4> HIDE DEF next, n
      <4> QED
        BY <4>2
    <3> HIDE DEF step
    <3>2. g = [i \in 0 .. n |-> IF i = 0 THEN MaxBatchBytes + 1 ELSE next(i, g[i - 1])]
      <4>1. \A i \in 0 .. n : i = 0 \/ i \in 1 .. n
        BY <1>0, <1>1
      <4> HIDE DEF next, n
      <4> QED
        BY <2>1, <3>1, <4>1 DEF Follows
    <3> QED
      BY <3>2, Zenon
  <2>3. bytes = [i \in 0 .. Len(FileOrder) |->
               IF i = 0 THEN MaxBatchBytes + 1
               ELSE IF i \notin listed THEN bytes[i - 1]
               ELSE IF bytes[i - 1] + Size[FileOrder[i]] > MaxBatchBytes THEN Size[FileOrder[i]]
               ELSE bytes[i - 1] + Size[FileOrder[i]]]
    <3> HIDE DEF listed
    <3> QED
      BY <2>2, Zenon
  <2> HIDE DEF bytes, listed
  <2> QED
    BY <1>0, <1>1, <2>3
<1> HIDE DEF bytes
<1> DEFINE done == {i \in 0 .. n : bytes[i] = MaxBatchBytes + 1 \/ \E j \in starts : j <= i}
<1>5. \A i \in 0 .. n : i \in done
  <2>1. 0 \in done
    BY <1>0, <1>1, <1>4
  <2>2. ASSUME NEW i \in 1 .. n, i - 1 \in done
        PROVE  i \in done
    <3>1. CASE \E j \in starts : j <= i - 1
      <4>1. PICK j \in starts : j <= i - 1
        BY <3>1
      <4>2. j \in 1 .. n /\ j <= i
        BY <1>0, <1>1, <4>1
      <4> QED
        BY <1>0, <1>1, <4>2
    <3>2. CASE bytes[i - 1] = MaxBatchBytes + 1 /\ i \notin listed
      BY <1>0, <1>1, <1>4, <3>2
    <3>3. CASE bytes[i - 1] = MaxBatchBytes + 1 /\ i \in listed
      <4>1. i \in starts
        BY <1>0, <1>1, <3>3
      <4> QED
        BY <1>0, <1>1, <4>1
    <3> QED
      BY <2>2, <3>1, <3>2, <3>3
  <2> HIDE DEF done
  <2> QED
    BY <1>0, <1>1, <2>1, <2>2, UpTo
<1>6. PICK j \in starts : j <= k
  <2>1. k - 1 \in done /\ k \in 1 .. n
    BY <1>0, <1>1, <1>3, <1>5
  <2>2. CASE bytes[k - 1] = MaxBatchBytes + 1
    BY <1>0, <1>1, <1>3, <2>1, <2>2
  <2>3. CASE \E j \in starts : j <= k - 1
    BY <1>0, <1>1, <2>1, <2>3
  <2> QED
    BY <2>1, <2>2, <2>3
<1> DEFINE upTo == {i \in starts : i <= k}
<1>7. starts \subseteq 1 .. n
  BY <1>0, <1>1
<1>8. Cardinality(starts) \in Nat /\ batch(k) \in 1 .. Cardinality(starts)
  <2>1. j \in upTo /\ upTo \subseteq starts
    BY <1>6
  <2> HIDE DEF starts, upTo
  <2>2. IsFiniteSet(starts)
    <3>1. IsFiniteSet(1 .. n)
      BY <1>0, FS_Interval
    <3> QED
      BY <1>7, <3>1, FS_Subset
  <2>3. IsFiniteSet(upTo) /\ Cardinality(upTo) <= Cardinality(starts)
    BY <2>1, <2>2, FS_Subset
  <2>4. Cardinality(upTo) \in Nat /\ Cardinality(starts) \in Nat /\ Cardinality(upTo) # 0
    BY <2>1, <2>2, <2>3, FS_CardinalityType, FS_EmptySet
  <2>5. Cardinality(upTo) \in 1 .. Cardinality(starts)
    BY <2>3, <2>4
  <2> QED
    BY <2>4, <2>5 DEF upTo
<1> HIDE DEF starts, upTo
<1>9. f \in files(batch(k))
  BY <1>3
<1> HIDE DEF batch, files
<1> QED
  BY <1>2, <1>8, <1>9

-----------------------------------------------------------------------------
(* A pass that meets no fault and no change *)

(* The rows of a database show a file as it is. *)
Shown(d, f) ==
    \/ f \in Stored(d) /\ d.session[f].ver = disk[f].ver
    \/ f \notin Stored(d) /\ (Content(f, disk[f].ver) = 0 \/ f \in d.errors)

(* The files a pass has yet to save: those of the batches left, and of the batch   *)
(* that its writer holds.                                                         *)
Due(r, w) == {f \in Transcripts : \/ \E b \in 1 .. Len(r.todo) : f \in r.todo[b]
                                  \/ w.pc = "saving" /\ f \in DOMAIN w.res.read}

(* What is recorded of files that are not there is in a set somebody will purge. *)
Leftover(d, files) == \A f \in Mine \ There : d.offset[f] # NoRow => f \in files

(* What the record of a pass says of the store and the disk, as long as neither a   *)
(* fault nor a change by anybody else has come between.                            *)
Undisturbed(d, r, w) ==
    /\ r.pc \in {"discover", "partition"} => r.known = LoadIngestFingerprints(d)
    /\ r.pc = "partition" => r.found = There /\ r.prints = Prints(There)
    /\ r.pc \in Rounds =>
          /\ r.prints = Prints(There) /\ Leftover(d, DOMAIN r.known)
          /\ \A f \in There : Shown(d, f) \/ f \in Due(r, w)
          /\ r.pc \notin {"metadata", "parse", "send"} => r.todo = << >>
    /\ r.pc = "send" => DOMAIN r.out = Head(r.todo)
    /\ w.pc = "saving" => w.res.prints = r.prints /\ ~ w.res.index
    /\ r.pc = "titlesave" => r.out.read = NoFiles
    /\ r.pc = "delete" =>
          /\ \A f \in There : Shown(d, f) /\ f \notin r.gone
          /\ Leftover(d, r.gone)

CalmInv == \A p \in calm : Undisturbed(db, pass[p], writer[p])

(* What is saved of a file read under the fingerprint it has shows it, and of every  *)
(* other transcript nothing changes that matters here.                             *)
LEMMA SaveShows ==
    ASSUME ReconcileInv, NEW res, Truthful(res, disk), NEW new \in SaveIngest(db, res)
    PROVE  /\ \A f \in Transcripts \ DOMAIN res.read : Shown(db, f) => Shown(new, f)
           /\ \A f \in DOMAIN res.read \cap DOMAIN res.prints :
                 res.prints[f] = disk[f].ver => Shown(new, f)
           /\ \A f \in Transcripts \ DOMAIN res.prints :
                 new.offset[f] # NoRow => db.offset[f] # NoRow
           /\ Processed(res) = {} => new.offset = db.offset
<1> DEFINE files == Processed(res)
           made == Projected(res)
<1>1. /\ \A f \in Transcripts :
            /\ f \in made => f \in Stored(new) /\ new.session[f].ver = res.read[f]
            /\ f \in files \ made => f \notin Stored(new)
            /\ f \in files => (f \in DOMAIN res.read /\ res.read[f] = Failed => f \in new.errors)
            /\ f \notin files => /\ f \in Stored(new) <=> f \in Stored(db)
                                 /\ f \in Stored(db) => new.session[f].ver = db.session[f].ver
                                 /\ f \in db.errors => f \in new.errors
      /\ new.offset = Recorded(db, res)
  BY SavedRows DEF Truthful, ReconcileInv
<1>2. \A f \in SourceFiles :
          new.offset[f] = IF f \in files THEN IF f \in DOMAIN res.prints THEN res.prints[f] ELSE NoRow
                          ELSE db.offset[f]
  BY <1>1 DEF Recorded
<1>3. DOMAIN res.read \subseteq Transcripts /\ \A f \in DOMAIN res.read : res.read[f] \in Nat \cup {Failed}
  BY DEF Truthful, ResultOK
<1>4. \A f \in Transcripts : /\ f \in files <=> f \in DOMAIN res.read
                             /\ f \in made <=> f \in DOMAIN res.read /\ res.read[f] \in Nat \ {0}
  BY StoreAssumption DEF Processed, Projected
<1>5. files = {} => new.offset = db.offset
  <2>1. db.offset \in [SourceFiles -> Nat \cup {NoRow}]
    BY DEF ReconcileInv, Database
  <2>2. DOMAIN new.offset = SourceFiles /\ new.offset = [f \in SourceFiles |-> new.offset[f]]
    BY <1>1 DEF Recorded
  <2> HIDE DEF files
  <2> QED
    BY <1>2, <2>1, <2>2
<1> HIDE DEF files, made
<1>6. \A f \in Transcripts \ DOMAIN res.read : Shown(db, f) => Shown(new, f)
  BY <1>1, <1>4 DEF Shown
<1>7. ASSUME NEW f \in DOMAIN res.read \cap DOMAIN res.prints, res.prints[f] = disk[f].ver
      PROVE  Shown(new, f)
  <2>1. f \in Transcripts /\ disk[f].ver \in Nat \ {0} /\ Failed \notin Nat
    BY <1>3, StoreAssumption DEF ReconcileInv, Disk, Files, SourceFiles
  <2>2. res.read[f] \in {Content(f, disk[f].ver), Failed}
    BY <1>7 DEF Truthful, ReadOK
  <2>3. CASE res.read[f] = Failed
    BY <1>1, <1>4, <2>1, <2>3 DEF Shown
  <2>4. CASE res.read[f] = 0 /\ res.read[f] # Failed
    BY <1>1, <1>4, <2>1, <2>2, <2>4 DEF Shown
  <2>5. CASE res.read[f] \in Nat \ {0}
    BY <1>1, <1>4, <2>1, <2>2, <2>5 DEF Shown, Content
  <2> QED
    BY <1>3, <2>3, <2>4, <2>5
<1>8. \A f \in Transcripts \ DOMAIN res.prints : new.offset[f] # NoRow => db.offset[f] # NoRow
  BY <1>2 DEF SourceFiles
<1> QED
  BY <1>5, <1>6, <1>7, <1>8 DEF files

-----------------------------------------------------------------------------
(* What a step of one process leaves to the others *)

StepOf(p) ==
    Start(p) \/ PassStep(p) \/ WriterSave(p) \/ Crash(p) \/ \E f \in Mine : FileStat(p, f)

(* A step changes the record of its own process and its own writer only, and when it *)
(* changes the store only its process may still count as undisturbed.             *)
LEMMA Apart ==
    ASSUME ReconcileInv, NEW p \in Passes, StepOf(p)
    PROVE  /\ UNCHANGED <<source, disk>>
           /\ \A q \in Passes \ {p} : pass'[q] = pass[q] /\ writer'[q] = writer[q]
           /\ calm' \subseteq calm \cup {p}
           /\ Metadata(p) \/ db' = db \/ calm' \subseteq {p}
<1>1. /\ \A q \in Passes \ {p} : \A r : Become(p, r) => pass'[q] = pass[q]
      /\ \A q \in Passes \ {p} : \A w : writer' = [writer EXCEPT ![p] = w] => writer'[q] = writer[q]
  BY Zenon DEF Become, ReconcileInv, Running
<1>2. CASE Start(p) \/ Crash(p) \/ \E f \in Mine : FileStat(p, f)
  BY <1>1, <1>2 DEF Start, Crash, FileStat, Faulty, End, envVars
<1>3. CASE DiscoverSessions(p) \/ DiscoverInDBFails(p) \/ PartitionByFingerprint(p)
  BY <1>1, <1>3 DEF DiscoverSessions, DiscoverInDBFails, PartitionByFingerprint, Fine, Faulty, End, envVars
<1>4. CASE Metadata(p) \/ MetadataSkipped(p) \/ MetadataFails(p)
  BY <1>1, <1>4 DEF Metadata, MetadataSkipped, MetadataFails, Aborts, NextBatch, Goto, Fine, Faulty, End, envVars
<1>5. CASE IngestBatch(p) \/ IngestBatchFails(p) \/ Send(p) \/ SendAfterFailure(p) \/ Join(p)
  BY <1>1, <1>5 DEF IngestBatch, IngestBatchFails, Send, SendAfterFailure, Join, Goto, Fine, Faulty, End, envVars
<1>6. CASE WriterSave(p)
  BY <1>1, <1>6 DEF WriterSave, Commits, Aborts, Faulty, envVars
<1>7. CASE TitlesStat(p) \/ ReadSessionTitles(p) \/ SaveTitles(p) \/ PurgeVanished(p) \/ Delete(p)
  BY <1>1, <1>7 DEF TitlesStat, ReadSessionTitles, SaveTitles, PurgeVanished, Delete, Commits, Aborts,
                    Goto, Fine, Faulty, End, envVars
<1>8. CASE IngestSessionFile(p) \/ FileSave(p)
  BY <1>1, <1>8 DEF IngestSessionFile, FileSave, Commits, Aborts, Fine, Faulty, End, envVars
<1> QED
  BY <1>2, <1>3, <1>4, <1>5, <1>6, <1>7, <1>8 DEF StepOf, PassStep

(* Without fault a metadata round leaves what is shown and recorded. *)
LEMMA MetadataShows ==
    ASSUME ReconcileInv, NEW p \in Passes, Metadata(p)
    PROVE  db'.offset = db.offset /\ \A f \in Transcripts : Shown(db, f) => Shown(db', f)
<1>1. PICK skills \in SkillScans(p), servers \in ServerScans(p) :
          db' \in SaveIngest(db, MetadataResult(p, skills, servers))
  BY DEF Metadata
<1> DEFINE res == MetadataResult(p, skills, servers)
<1>2. PrintsOK(pass[p].prints, disk)
  BY DEF Metadata, At, ReconcileInv, Running, PassOK, Rounds
<1>3. /\ res.read = NoFiles /\ res.index = FALSE /\ res.prints = pass[p].prints /\ res.titles = NoTitles
      /\ res.skills = skills.found /\ res.servers = servers.found
  BY DEF MetadataResult, Result
<1>4. skills.found \subseteq Nat /\ servers.found \subseteq Nat
  <2>1. Declared(p) \subseteq Nat
    BY PassAssumption DEF Declared
  <2>2. \A scan \in SkillScans(p) : scan.found \subseteq Nat
    BY <2>1 DEF SkillScans, Scan
  <2>3. \A scan \in ServerScans(p) : scan.found \subseteq Nat
    BY <2>1 DEF ServerScans, Scan
  <2> QED
    BY <2>2, <2>3
<1>5. db' \in SaveIngest(db, res)
  BY <1>1
<1> HIDE DEF res
<1>6. Truthful(res, disk)
  BY <1>2, <1>3, <1>4 DEF Truthful, ResultOK, ReadOK, PrintsOK, NoFiles, NoTitles
<1>7. Processed(res) = {} /\ DOMAIN res.read = {}
  BY <1>3 DEF Processed, NoFiles
<1> QED
  BY <1>5, <1>6, <1>7, SaveShows

(* What another process knows stays true. *)
LEMMA OthersKeep ==
    ASSUME ReconcileInv, CalmInv, NEW p \in Passes, StepOf(p), NEW q \in calm' \ {p}
    PROVE  Undisturbed(db', pass'[q], writer'[q])
<1>1. q \in calm /\ q \in Passes /\ pass'[q] = pass[q] /\ writer'[q] = writer[q]
  BY Apart DEF ReconcileInv, Bounded
<1>2. Undisturbed(db, pass[q], writer[q])
  BY <1>1 DEF CalmInv
<1>3. db'.offset = db.offset /\ \A f \in Transcripts : Shown(db, f) => Shown(db', f)
  BY <1>1, Apart, MetadataShows
<1>4. There \subseteq Transcripts
  BY DEF There, Mine
<1> QED
  BY <1>1, <1>2, <1>3, <1>4 DEF Undisturbed, Leftover, LoadIngestFingerprints

-----------------------------------------------------------------------------
(* What a step leaves to its own pass *)

(* The pass knows what it has loaded and walked over. *)
LEMMA WalkUndisturbed ==
    ASSUME ReconcileInv, CalmInv, NEW p \in Passes, p \in calm', Start(p) \/ DiscoverSessions(p)
    PROVE  Undisturbed(db', pass'[p], writer'[p])
<1>1. writer[p].pc # "saving" /\ DOMAIN pass = Passes
  BY DEF ReconcileInv, Running, WriterOK, Start, DiscoverSessions, At
<1>2. CASE Start(p)
  <2> DEFINE r == [pc |-> "discover", known |-> LoadIngestFingerprints(db)]
  <2>1. pass'[p] = r /\ writer' = writer /\ db' = db
    BY <1>1, <1>2 DEF Start, Become
  <2>2. Undisturbed(db, r, writer[p])
    BY <1>1 DEF Undisturbed, Rounds
  <2> QED
    BY <2>1, <2>2
<1>3. CASE DiscoverSessions(p)
  <2> DEFINE r == [pc |-> "partition", known |-> pass[p].known, found |-> There, prints |-> Prints(There)]
  <2>1. pass'[p] = r /\ writer' = writer /\ db' = db /\ p \in calm
    BY <1>1, <1>3 DEF DiscoverSessions, Become, Fine, Faulty
  <2>2. pass[p].known = LoadIngestFingerprints(db)
    BY <1>3, <2>1 DEF CalmInv, Undisturbed, DiscoverSessions, At
  <2>3. Undisturbed(db, r, writer[p])
    BY <1>1, <2>2 DEF Undisturbed, Rounds
  <2> QED
    BY <2>1, <2>3
<1> QED
  BY <1>2, <1>3

(* Every file that is there is in a batch, or its rows already show it. *)
LEMMA PartitionUndisturbed ==
    ASSUME ReconcileInv, CalmInv, NEW p \in Passes, p \in calm', PartitionByFingerprint(p)
    PROVE  Undisturbed(db', pass'[p], writer'[p])
<1> DEFINE prints == IF source \in TokenSources THEN pass[p].prints ELSE Prints(pass[p].found)
           changed == Changed(pass[p].found, prints, pass[p].known)
           r == [pc |-> "metadata", known |-> pass[p].known, prints |-> prints,
                 projects |-> pass[p].found # {}, out |-> NoFiles, failed |-> FALSE,
                 todo |-> ChunkBySize(changed)]
<1>1. writer[p].pc # "saving" /\ DOMAIN pass = Passes
  BY DEF ReconcileInv, Running, WriterOK, PartitionByFingerprint, At
<1>2. pass'[p] = r /\ writer' = writer /\ db' = db /\ p \in calm
  <2>1. Become(p, r)
    BY Zenon DEF PartitionByFingerprint
  <2> HIDE DEF r
  <2> QED
    BY <1>1, <2>1 DEF PartitionByFingerprint, Become, Fine
<1>3. /\ pass[p].known = LoadIngestFingerprints(db)
      /\ pass[p].found = There /\ pass[p].prints = Prints(There)
  BY <1>2 DEF CalmInv, Undisturbed, PartitionByFingerprint, At
<1>4. prints = Prints(There)
  BY <1>3
<1>5. /\ r.pc = "metadata" /\ r.known = pass[p].known /\ r.prints = prints
      /\ r.todo = ChunkBySize(changed)
  OBVIOUS
<1>6. Leftover(db, DOMAIN r.known)
  <2> HIDE DEF r
  <2> QED
    BY <1>3, <1>5 DEF Leftover, LoadIngestFingerprints, Mine, SourceFiles
<1>7. ASSUME NEW f \in There
      PROVE  Shown(db, f) \/ f \in Due(r, writer[p])
  <2>1. f \in Transcripts /\ f \in SourceFiles /\ Exists(f)
    BY DEF There, Mine, Exists, SourceFiles
  <2>2. f \in DOMAIN prints /\ prints[f] = disk[f].ver
    <3> HIDE DEF prints
    <3> QED
      BY <1>4, <2>1 DEF Prints
  <2>3. CASE f \in changed
    <3>1. PICK b \in 1 .. Len(ChunkBySize(changed)) : f \in ChunkBySize(changed)[b]
      BY <2>1, <2>3, BatchesCover
    <3> HIDE DEF r, changed
    <3> QED
      BY <1>5, <2>1, <3>1 DEF Due
  <2>4. CASE f \notin changed
    <3>1. f \in DOMAIN pass[p].known /\ prints[f] = pass[p].known[f]
      <4> HIDE DEF prints
      <4> QED
        BY <1>3, <2>2, <2>4 DEF Changed
    <3>2. db.offset[f] = disk[f].ver
      <4> HIDE DEF prints
      <4> QED
        BY <1>3, <2>2, <3>1 DEF LoadIngestFingerprints
    <3> QED
      BY <2>1, <3>2 DEF ReconcileInv, OffsetsTrue, Shown
  <2> QED
    BY <2>3, <2>4
<1> HIDE DEF r, prints, changed
<1>8. Undisturbed(db, r, writer[p])
  BY <1>1, <1>4, <1>5, <1>6, <1>7 DEF Undisturbed
<1> QED
  BY <1>2, <1>8

(* The metadata round leaves the batches to the rounds that follow. *)
LEMMA MetadataUndisturbed ==
    ASSUME ReconcileInv, CalmInv, NEW p \in Passes, p \in calm', Metadata(p) \/ MetadataSkipped(p)
    PROVE  Undisturbed(db', pass'[p], writer'[p])
<1> DEFINE r == [pass[p] EXCEPT !.pc = AfterMetadata(p)]
           w == IF pass[p].todo # << >> THEN [pc |-> "ready"] ELSE Off
<1>1. /\ pass[p].pc = "metadata" /\ DOMAIN pass[p] = Fields /\ DOMAIN pass = Passes
      /\ DOMAIN writer = Passes /\ writer[p].pc = "off"
  BY DEF ReconcileInv, Running, PassOK, WriterOK, Metadata, MetadataSkipped, At, Rounds
<1>2. pass'[p] = r /\ writer'[p] = w
  BY <1>1, Zenon DEF Metadata, MetadataSkipped, NextBatch, Goto, Become
<1>3. p \in calm
  BY DEF Metadata, MetadataSkipped, Fine, Faulty
<1>4. db'.offset = db.offset /\ \A f \in Transcripts : Shown(db, f) => Shown(db', f)
  BY MetadataShows DEF MetadataSkipped
<1>5. Undisturbed(db, pass[p], writer[p])
  BY <1>3 DEF CalmInv
<1>6. /\ r.pc = AfterMetadata(p) /\ r.todo = pass[p].todo /\ r.known = pass[p].known
      /\ r.prints = pass[p].prints
  BY <1>1 DEF Fields
<1>7. w.pc # "saving"
  BY DEF Off
<1> HIDE DEF r, w
<1>8. Due(r, w) = Due(pass[p], writer[p])
  BY <1>1, <1>6, <1>7 DEF Due
<1>9. There \subseteq Transcripts
  BY DEF There, Mine
<1>10. /\ r.pc \in {"parse", "titles", "purge"} /\ (r.pc # "parse" => r.todo = << >>)
  BY <1>6 DEF AfterMetadata
<1>11. Undisturbed(db', r, w)
  BY <1>1, <1>4, <1>5, <1>6, <1>7, <1>8, <1>9, <1>10 DEF Undisturbed, Leftover, Rounds
<1> QED
  BY <1>2, <1>11

(* A batch is parsed whole. *)
LEMMA BatchUndisturbed ==
    ASSUME ReconcileInv, CalmInv, NEW p \in Passes, p \in calm', IngestBatch(p)
    PROVE  Undisturbed(db', pass'[p], writer'[p])
<1>1. /\ pass[p].pc = "parse" /\ DOMAIN pass[p] = Fields /\ DOMAIN pass = Passes
  BY DEF ReconcileInv, Running, PassOK, IngestBatch, At, Rounds
<1>2. /\ p \in calm /\ writer' = writer /\ db' = db
  BY DEF IngestBatch, Fine, Faulty
<1>3. PICK read \in Readings(p, Head(pass[p].todo)) :
          Become(p, [pass[p] EXCEPT !.pc = "send", !.out = read])
  BY <1>2 DEF IngestBatch, Faulty
<1> DEFINE r == [pass[p] EXCEPT !.pc = "send", !.out = read]
<1>4. pass'[p] = r
  BY <1>1, <1>3 DEF Become
<1>5. /\ r.pc = "send" /\ r.todo = pass[p].todo /\ r.known = pass[p].known
      /\ r.prints = pass[p].prints /\ r.out = read
  BY <1>1 DEF Fields
<1>6. DOMAIN read = Head(pass[p].todo)
  BY DEF Readings
<1> HIDE DEF r
<1>7. Due(r, writer[p]) = Due(pass[p], writer[p])
  BY <1>5 DEF Due
<1>8. Undisturbed(db, pass[p], writer[p])
  BY <1>2 DEF CalmInv
<1>9. Undisturbed(db, r, writer[p])
  BY <1>1, <1>5, <1>6, <1>7, <1>8 DEF Undisturbed, Rounds
<1> QED
  BY <1>2, <1>4, <1>9

(* What leaves the list of batches is with the writer. *)
LEMMA SendUndisturbed ==
    ASSUME ReconcileInv, CalmInv, NEW p \in Passes, p \in calm', Send(p)
    PROVE  Undisturbed(db', pass'[p], writer'[p])
<1> DEFINE rest == Tail(pass[p].todo)
           r == [pass[p] EXCEPT !.todo = rest, !.out = NoFiles,
                                !.pc = IF rest = << >> THEN "join" ELSE "parse"]
           w == [pc |-> "saving", res |-> Result(pass[p].out, FALSE, pass[p].prints, NoTitles)]
<1>1. /\ pass[p].pc = "send" /\ DOMAIN pass[p] = Fields /\ DOMAIN pass = Passes
      /\ DOMAIN writer = Passes
      /\ pass[p].todo \in Seq(SUBSET Transcripts) /\ pass[p].todo # << >>
  BY DEF ReconcileInv, Running, PassOK, Send, At, Rounds
<1>2. p \in calm /\ db' = db /\ writer[p].pc = "ready"
  BY DEF Send, Fine
<1>3. pass'[p] = r /\ writer'[p] = w
  BY <1>1, Zenon DEF Send, Become
<1>4. /\ r.pc = (IF rest = << >> THEN "join" ELSE "parse") /\ r.todo = rest
      /\ r.known = pass[p].known /\ r.prints = pass[p].prints
  BY <1>1 DEF Fields
<1>5. /\ w.pc = "saving" /\ w.res.read = pass[p].out /\ w.res.prints = pass[p].prints
      /\ w.res.index = FALSE
  BY DEF Result
<1>6. Undisturbed(db, pass[p], writer[p])
  BY <1>2 DEF CalmInv
<1> HIDE DEF r, w
<1>7. ASSUME NEW f \in Due(pass[p], writer[p])
      PROVE  f \in Due(r, w)
  <2>1. f \in Transcripts
    BY DEF Due
  <2>2. PICK b \in 1 .. Len(pass[p].todo) : f \in pass[p].todo[b]
    BY <1>2, <1>7 DEF Due
  <2>3. CASE b = 1
    BY <1>1, <1>5, <1>6, <2>1, <2>2, <2>3 DEF Undisturbed, Due
  <2>4. CASE b # 1
    <3>1. b - 1 \in 1 .. Len(rest) /\ rest[b - 1] = pass[p].todo[b]
      BY <1>1, <2>2, <2>4
    <3> HIDE DEF rest
    <3> QED
      BY <1>4, <2>1, <2>2, <3>1 DEF Due
  <2> QED
    BY <2>3, <2>4
<1> HIDE DEF rest
<1>8. Undisturbed(db, r, w)
  BY <1>1, <1>4, <1>5, <1>6, <1>7 DEF Undisturbed, Rounds
<1> QED
  BY <1>2, <1>3, <1>8

(* A batch that was saved is shown. *)
LEMMA WriterUndisturbed ==
    ASSUME ReconcileInv, CalmInv, NEW p \in Passes, p \in calm', WriterSave(p)
    PROVE  Undisturbed(db', pass'[p], writer'[p])
<1> DEFINE w == [pc |-> "ready"]
           res == writer[p].res
<1>1. /\ pass[p].pc \in {"parse", "send", "join"} /\ DOMAIN writer = Passes /\ Truthful(res, disk)
      /\ writer[p].pc = "saving"
  BY DEF ReconcileInv, Running, WriterOK, WriterSave, InFlight
<1>2. /\ p \in calm /\ pass' = pass /\ db' \in SaveIngest(db, res) /\ writer'[p] = w
  BY <1>1 DEF WriterSave, Commits, Aborts, Faulty
<1>3. Undisturbed(db, pass[p], writer[p])
  BY <1>2 DEF CalmInv
<1>4. res.prints = Prints(There) /\ pass[p].prints = Prints(There)
  BY <1>1, <1>3 DEF Undisturbed, Rounds
<1>5. /\ \A f \in Transcripts \ DOMAIN res.read : Shown(db, f) => Shown(db', f)
      /\ \A f \in DOMAIN res.read \cap DOMAIN res.prints :
            res.prints[f] = disk[f].ver => Shown(db', f)
      /\ \A f \in Transcripts \ DOMAIN res.prints :
            db'.offset[f] # NoRow => db.offset[f] # NoRow
  BY <1>1, <1>2, SaveShows
<1>6. There \subseteq Transcripts /\ Mine \subseteq Transcripts
  BY DEF There, Mine
<1>7. DOMAIN Prints(There) = There /\ \A f \in There : Prints(There)[f] = disk[f].ver
  BY DEF Prints, There, Exists
<1>8. w.pc = "ready"
  OBVIOUS
<1> HIDE DEF w
<1>9. ASSUME NEW f \in There
      PROVE  Shown(db', f) \/ f \in Due(pass[p], w)
  <2>1. CASE f \in DOMAIN res.read
    BY <1>4, <1>5, <1>7, <2>1
  <2>2. CASE f \notin DOMAIN res.read
    <3>1. Shown(db, f) \/ f \in Due(pass[p], writer[p])
      BY <1>1, <1>3 DEF Undisturbed, Rounds
    <3> QED
      BY <1>5, <1>6, <2>2, <3>1 DEF Due
  <2> QED
    BY <2>1, <2>2
<1>10. Leftover(db', DOMAIN pass[p].known)
  <2>1. Leftover(db, DOMAIN pass[p].known)
    BY <1>1, <1>3 DEF Undisturbed, Rounds
  <2> QED
    BY <1>4, <1>5, <1>6, <1>7, <2>1 DEF Leftover
<1>11. Undisturbed(db', pass[p], w)
  BY <1>1, <1>3, <1>8, <1>9, <1>10 DEF Undisturbed, Rounds
<1> QED
  BY <1>2, <1>11

(* After the writer's answer no batch is left. *)
LEMMA JoinUndisturbed ==
    ASSUME ReconcileInv, CalmInv, NEW p \in Passes, p \in calm', Join(p)
    PROVE  Undisturbed(db', pass'[p], writer'[p])
<1> DEFINE to == IF source = TitleSource THEN "titles" ELSE "purge"
           r == [pass[p] EXCEPT !.pc = to]
<1>1. /\ pass[p].pc = "join" /\ DOMAIN pass[p] = Fields /\ DOMAIN pass = Passes
      /\ DOMAIN writer = Passes /\ writer[p].pc \in {"ready", "failed"}
  BY DEF ReconcileInv, Running, PassOK, Join, At, Rounds
<1>2. p \in calm /\ db' = db /\ writer'[p] = Off
  BY <1>1 DEF Join, Fine
<1>3. Off.pc = "off" /\ Idle.pc = "idle"
  BY DEF Off, Idle
<1>4. pass'[p] = Idle \/ pass'[p] = r
  BY <1>1, Zenon DEF Join, End, Goto, Become
<1>5. CASE pass'[p] = Idle
  BY <1>2, <1>3, <1>5 DEF Undisturbed, Rounds
<1>6. CASE pass'[p] = r
  <2>1. /\ r.pc = to /\ r.todo = pass[p].todo /\ r.known = pass[p].known
        /\ r.prints = pass[p].prints
    BY <1>1 DEF Fields
  <2>2. to \in {"titles", "purge"}
    OBVIOUS
  <2> HIDE DEF r, to
  <2>3. Undisturbed(db, pass[p], writer[p])
    BY <1>2 DEF CalmInv
  <2>4. Due(r, Off) = Due(pass[p], writer[p])
    BY <1>1, <1>3, <2>1 DEF Due
  <2>5. Undisturbed(db, r, Off)
    BY <1>1, <1>3, <2>1, <2>2, <2>3, <2>4 DEF Undisturbed, Rounds
  <2> QED
    BY <1>2, <1>6, <2>5
<1> QED
  BY <1>4, <1>5, <1>6

(* The title round looks at the index and at no transcript. *)
LEMMA TitlesUndisturbed ==
    ASSUME ReconcileInv, CalmInv, NEW p \in Passes, p \in calm',
           TitlesStat(p) \/ ReadSessionTitles(p)
    PROVE  Undisturbed(db', pass'[p], writer'[p])
<1>1. /\ pass[p].pc \in {"titles", "names"} /\ DOMAIN pass[p] = Fields /\ DOMAIN pass = Passes
      /\ writer[p].pc = "off"
  BY DEF ReconcileInv, Running, PassOK, WriterOK, TitlesStat, ReadSessionTitles, At, Rounds
<1>2. p \in calm /\ db' = db /\ writer' = writer
  BY DEF TitlesStat, ReadSessionTitles, Fine, Faulty
<1>3. PICK to \in {"purge", "names", "titlesave"} : \E out :
          /\ pass'[p] = [pass[p] EXCEPT !.pc = to, !.out = out]
          /\ to = "titlesave" => out.read = NoFiles
  <2>1. CASE TitlesStat(p)
    <3>1. [pass[p] EXCEPT !.pc = "purge", !.out = pass[p].out] = [pass[p] EXCEPT !.pc = "purge"]
      BY <1>1 DEF Fields
    <3>2. \/ pass' = [pass EXCEPT ![p] = [pass[p] EXCEPT !.pc = "purge"]]
          \/ \E out : pass' = [pass EXCEPT ![p] = [pass[p] EXCEPT !.pc = "names", !.out = out]]
      BY <2>1, Zenon DEF TitlesStat, Goto, Become
    <3> QED
      BY <1>1, <3>1, <3>2
  <2>2. CASE ReadSessionTitles(p)
    <3>1. PICK titles : Become(p, [pass[p] EXCEPT !.pc = "titlesave",
                                      !.out = Result(NoFiles, TRUE, pass[p].out, titles)])
      BY <2>2 DEF ReadSessionTitles
    <3>2. Result(NoFiles, TRUE, pass[p].out, titles).read = NoFiles
      BY DEF Result
    <3> DEFINE new == Result(NoFiles, TRUE, pass[p].out, titles)
    <3>3. pass'[p] = [pass[p] EXCEPT !.pc = "titlesave", !.out = new]
      BY <1>1, <3>1, Zenon DEF Become
    <3> HIDE DEF new
    <3> QED
      BY <3>2, <3>3 DEF new
  <2> QED
    BY <2>1, <2>2
<1>4. PICK out : /\ pass'[p] = [pass[p] EXCEPT !.pc = to, !.out = out]
                 /\ to = "titlesave" => out.read = NoFiles
  BY <1>3
<1> DEFINE r == [pass[p] EXCEPT !.pc = to, !.out = out]
<1>5. /\ r.pc = to /\ r.todo = pass[p].todo /\ r.known = pass[p].known
      /\ r.prints = pass[p].prints /\ r.out = out
  BY <1>1 DEF Fields
<1>6. pass'[p] = r
  BY <1>4
<1> HIDE DEF r
<1>7. Undisturbed(db, pass[p], writer[p])
  BY <1>2 DEF CalmInv
<1>8. Due(r, writer[p]) = Due(pass[p], writer[p])
  BY <1>1, <1>5 DEF Due
<1>9. Undisturbed(db, r, writer[p])
  BY <1>1, <1>4, <1>5, <1>7, <1>8 DEF Undisturbed, Rounds
<1> QED
  BY <1>2, <1>6, <1>9

(* Titles are saved. *)
LEMMA SaveTitlesUndisturbed ==
    ASSUME ReconcileInv, CalmInv, NEW p \in Passes, p \in calm', SaveTitles(p)
    PROVE  Undisturbed(db', pass'[p], writer'[p])
<1> DEFINE r == [pass[p] EXCEPT !.pc = "purge"]
           res == pass[p].out
<1>1. /\ pass[p].pc = "titlesave" /\ DOMAIN pass[p] = Fields /\ DOMAIN pass = Passes
      /\ writer[p].pc = "off" /\ Truthful(res, disk)
  BY DEF ReconcileInv, Running, PassOK, WriterOK, SaveTitles, At, Rounds, InFlight
<1>2. /\ p \in calm /\ writer' = writer /\ db' \in SaveIngest(db, res)
      /\ pass'[p] = r
  BY <1>1 DEF SaveTitles, Commits, Aborts, Faulty, Goto, Become
<1>3. Undisturbed(db, pass[p], writer[p])
  BY <1>2 DEF CalmInv
<1>4. DOMAIN res.read = {}
  BY <1>1, <1>3 DEF Undisturbed, NoFiles
<1>5. /\ \A f \in Transcripts : Shown(db, f) => Shown(db', f)
      /\ \A f \in Transcripts \ DOMAIN res.prints : db'.offset[f] # NoRow => db.offset[f] # NoRow
  BY <1>1, <1>2, <1>4, SaveShows
<1>6. \A f \in Transcripts : db'.offset[f] = db.offset[f]
  <2>1. db'.offset = Recorded(db, res)
    BY <1>1, <1>2, SavedRows DEF Truthful, ReconcileInv
  <2>2. \A f \in Transcripts : f \notin Processed(res)
    BY <1>4, StoreAssumption DEF Processed
  <2> QED
    BY <2>1, <2>2 DEF Recorded, SourceFiles
<1>7. /\ r.pc = "purge" /\ r.todo = pass[p].todo /\ r.known = pass[p].known
      /\ r.prints = pass[p].prints
  BY <1>1 DEF Fields
<1>8. There \subseteq Transcripts /\ Mine \subseteq Transcripts
  BY DEF There, Mine
<1> HIDE DEF r
<1>9. Due(r, writer[p]) = Due(pass[p], writer[p])
  BY <1>1, <1>7 DEF Due
<1>10. Undisturbed(db', r, writer[p])
  BY <1>1, <1>3, <1>5, <1>6, <1>7, <1>8, <1>9 DEF Undisturbed, Leftover, Rounds
<1> QED
  BY <1>2, <1>10

(* With no batch left all files are shown. *)
LEMMA AllShown ==
    ASSUME ReconcileInv, CalmInv, NEW p \in calm, pass[p].pc = "purge"
    PROVE  /\ \A f \in There : Shown(db, f)
           /\ \A f \in Mine \ There : db.offset[f] # NoRow => f \in Gone(p)
           /\ \A f \in There : f \notin Gone(p)
<1>1. p \in Passes
  BY DEF ReconcileInv, Bounded
<1>2. Undisturbed(db, pass[p], writer[p]) /\ writer[p].pc = "off"
  BY <1>1 DEF CalmInv, ReconcileInv, Running, WriterOK
<1>3. Due(pass[p], writer[p]) = {}
  BY <1>2 DEF Due, Undisturbed, Rounds
<1>4. \A f \in There : Shown(db, f)
  BY <1>2, <1>3 DEF Undisturbed, Rounds
<1>5. DOMAIN pass[p].prints = There
  BY <1>2 DEF Undisturbed, Rounds, Prints, There, Exists
<1>6. \A f \in Mine \ There : ~ Exists(f)
  BY DEF There, Exists
<1>7. \A f \in Mine \ There : db.offset[f] # NoRow => f \in Gone(p)
  BY <1>2, <1>5, <1>6 DEF Undisturbed, Rounds, Leftover, Gone
<1> QED
  BY <1>4, <1>5, <1>7 DEF Gone

(* What has vanished is about to be deleted. *)
LEMMA PurgeUndisturbed ==
    ASSUME ReconcileInv, CalmInv, NEW p \in Passes, p \in calm', PurgeVanished(p)
    PROVE  Undisturbed(db', pass'[p], writer'[p])
<1> DEFINE r == [pc |-> "delete", gone |-> Gone(p)]
<1>1. pass[p].pc = "purge" /\ DOMAIN pass = Passes /\ writer[p].pc = "off"
  BY DEF ReconcileInv, Running, WriterOK, PurgeVanished, At
<1>2. p \in calm /\ db' = db /\ writer' = writer
  BY DEF PurgeVanished, Fine, Faulty
<1>3. pass'[p] = Idle \/ pass'[p] = r
  BY <1>1, Zenon DEF PurgeVanished, End, Become
<1>4. r.pc = "delete" /\ r.gone = Gone(p)
  OBVIOUS
<1> HIDE DEF r
<1>5. Undisturbed(db, r, writer[p])
  BY <1>1, <1>2, <1>4, AllShown DEF Undisturbed, Leftover, Rounds
<1>6. Undisturbed(db, Idle, writer[p])
  BY <1>1 DEF Undisturbed, Rounds, Idle
<1> QED
  BY <1>2, <1>3, <1>5, <1>6

(* A pass that has ended, or ingests one file, has nothing to know. *)
LEMMA OthersUndisturbed ==
    ASSUME ReconcileInv, CalmInv, NEW p \in Passes, p \in calm',
           \/ DiscoverInDBFails(p) \/ MetadataFails(p) \/ IngestBatchFails(p) \/ SendAfterFailure(p)
           \/ Delete(p) \/ IngestSessionFile(p) \/ FileSave(p) \/ Crash(p)
           \/ \E f \in Mine : FileStat(p, f)
    PROVE  Undisturbed(db', pass'[p], writer'[p])
<1>1. DOMAIN pass = Passes /\ DOMAIN writer = Passes
  BY DEF ReconcileInv, Running
<1>2. ~ Faulty(p) /\ ~ Aborts(p) /\ ~ Crash(p)
  BY DEF Faulty, Aborts, Crash
<1>3. pass[p].pc \notin {"parse", "send", "join"} => writer[p].pc = "off"
  BY DEF ReconcileInv, Running, WriterOK
<1>4. CASE \E f \in Mine : FileStat(p, f)
  <2>1. pass'[p].pc = "fileread" /\ pass[p].pc = "idle" /\ writer' = writer
    BY <1>1, <1>4 DEF FileStat, Become, At
  <2> QED
    BY <1>3, <2>1 DEF Undisturbed, Rounds
<1>5. CASE IngestSessionFile(p)
  <2>1. pass'[p].pc \in {"idle", "filesave"} /\ pass[p].pc = "fileread" /\ writer' = writer
    BY <1>1, <1>2, <1>5 DEF IngestSessionFile, Become, At, End, Idle
  <2> QED
    BY <1>3, <2>1 DEF Undisturbed, Rounds
<1>6. CASE FileSave(p) \/ Delete(p)
  <2>1. pass'[p].pc = "idle" /\ pass[p].pc \in {"filesave", "delete"} /\ writer' = writer
    <3>1. CASE FileSave(p)
      <4>1. /\ pass[p].pc = "filesave" /\ writer' = writer
            /\ pass' = [pass EXCEPT ![p] = Idle]
        BY <3>1, Zenon DEF FileSave, Become, At, End
      <4> QED
        BY <1>1, <4>1 DEF Idle
    <3>2. CASE Delete(p)
      <4>1. /\ pass[p].pc = "delete" /\ writer' = writer
            /\ pass' = [pass EXCEPT ![p] = Idle]
        BY <3>2, Zenon DEF Delete, Become, At, End
      <4> QED
        BY <1>1, <4>1 DEF Idle
    <3> QED
      BY <1>6, <3>1, <3>2
  <2> QED
    BY <1>3, <2>1 DEF Undisturbed, Rounds
<1>7. CASE SendAfterFailure(p)
  <2>1. pass'[p].pc = "idle" /\ writer'[p].pc = "off"
    BY <1>1, <1>7 DEF SendAfterFailure, Become, End, Idle, Off
  <2> QED
    BY <2>1 DEF Undisturbed, Rounds
<1>8. CASE DiscoverInDBFails(p) \/ MetadataFails(p) \/ IngestBatchFails(p)
  <2>1. DiscoverInDBFails(p)
    BY <1>2, <1>8 DEF MetadataFails, IngestBatchFails
  <2>2. pass'[p].pc = "idle" /\ pass[p].pc = "discover" /\ writer' = writer
    BY <1>1, <1>2, <2>1 DEF DiscoverInDBFails, Become, At, End, Idle
  <2> QED
    BY <1>3, <2>2 DEF Undisturbed, Rounds
<1> QED
  BY <1>2, <1>4, <1>5, <1>6, <1>7, <1>8

(* Undisturbed passes stay so until somebody disturbs them. *)
LEMMA CalmStep ==
    ASSUME ReconcileInv, CalmInv, [Next]_vars
    PROVE  CalmInv'
<1>1. CASE UNCHANGED vars
  BY <1>1 DEF vars, CalmInv, Undisturbed, Leftover, Shown, Content, Due, There, Mine, Prints, Exists
<1>2. CASE Prune \/ Redact \/ NameThreads \/ \E f \in Mine : Write(f) \/ Unlink(f)
  <2>1. calm' = {}
    BY <1>2, Zenon DEF Prune, Redact, NameThreads, Write, Unlink, Change
  <2> QED
    BY <2>1 DEF CalmInv
<1>3. ASSUME NEW p \in Passes, StepOf(p)
      PROVE  CalmInv'
  <2>1. ASSUME NEW q \in calm'
        PROVE  Undisturbed(db', pass'[q], writer'[q])
    <3>1. CASE q # p
      BY <1>3, <3>1, OthersKeep
    <3>2. CASE q = p
      BY <1>3, <3>2, WalkUndisturbed, PartitionUndisturbed, MetadataUndisturbed, BatchUndisturbed,
         SendUndisturbed, WriterUndisturbed, JoinUndisturbed, TitlesUndisturbed,
         SaveTitlesUndisturbed, PurgeUndisturbed, OthersUndisturbed DEF StepOf, PassStep
    <3> QED
      BY <3>1, <3>2
  <2>2. UNCHANGED <<source, disk>>
    BY <1>3, Apart
  <2> QED
    BY <2>1, <2>2 DEF CalmInv, Undisturbed, Leftover, Shown, Due, There, Mine, Prints, Exists
<1> QED
  BY <1>1, <1>2, <1>3, PassAssumption DEF Next, StepOf

(* The step that ends an undisturbed pass leaves the store settled. *)
SettleStep ==
    \A p \in Passes :
        pass[p].pc \in {"purge", "delete"} /\ pass'[p].pc = "idle" /\ p \in calm' => Settled'

(* It is a purge or a delete, after which all files are shown. *)
LEMMA LastStepSettles ==
    ASSUME ReconcileInv, CalmInv, [Next]_vars
    PROVE  SettleStep
<1> SUFFICES ASSUME NEW p \in Passes, pass[p].pc \in {"purge", "delete"}, pass'[p].pc = "idle",
                    p \in calm'
             PROVE  Settled'
  BY DEF SettleStep
<1>1. PurgeVanished(p) \/ Delete(p)
  <2>1. ASSUME NEW q \in Passes, StepOf(q) PROVE q = p
    BY <2>1, Apart
  <2>2. ~ UNCHANGED pass
    OBVIOUS
  <2>3. StepOf(p)
    BY <2>1, <2>2, PassAssumption DEF Next, vars, Prune, Redact, NameThreads, Write, Unlink, EnvDone, StepOf
  <2>4. ~ Crash(p) /\ ~ WriterSave(p) /\ ~ Start(p) /\ \A f \in Mine : ~ FileStat(p, f)
    BY <2>2 DEF Crash, Faulty, WriterSave, Start, FileStat, At
  <2>5. PassStep(p)
    BY <2>3, <2>4 DEF StepOf
  <2> QED
    BY <2>5 DEF PassStep, At, DiscoverSessions, DiscoverInDBFails, PartitionByFingerprint, Metadata,
       MetadataSkipped, MetadataFails, IngestBatch, IngestBatchFails, Send, SendAfterFailure, Join,
       TitlesStat, ReadSessionTitles, SaveTitles, IngestSessionFile, FileSave
<1>2. UNCHANGED <<source, disk>> /\ p \in calm
  BY <1>1 DEF PurgeVanished, Delete, envVars, Fine, Faulty, Commits, Aborts
<1>3. There' = There /\ Mine' = Mine /\ There \subseteq Mine /\ Mine \subseteq Transcripts
  BY <1>2 DEF There, Mine
<1>4. (\A f \in There : Shown(db', f)) /\ \A f \in Mine \ There : db'.offset[f] = NoRow
  <2>1. CASE PurgeVanished(p)
    <3>1. Gone(p) = {} /\ db' = db
      <4>1. pass[p].pc = "purge" /\ DOMAIN pass = Passes
        BY <2>1 DEF PurgeVanished, At, ReconcileInv, Running
      <4> QED
        BY <2>1, <4>1 DEF PurgeVanished, Become, Faulty
    <3> QED
      BY <1>2, <2>1, <3>1, AllShown DEF PurgeVanished, At
  <2>2. CASE Delete(p)
    <3>1. pass[p].pc = "delete" /\ db' = DeleteSourceFiles(db, pass[p].gone)
      BY <2>2 DEF Delete, At, Commits, Aborts, Faulty
    <3>2. Undisturbed(db, pass[p], writer[p])
      BY <1>2 DEF CalmInv
    <3>3. /\ db.session \in Records /\ db.offset \in [SourceFiles -> Nat \cup {NoRow}]
      BY DEF ReconcileInv, Database, Records
    <3>4. \A f \in Transcripts :
              /\ db'.session[f] = IF f \in pass[p].gone THEN NoRow ELSE db.session[f]
              /\ f \in db.errors /\ f \notin pass[p].gone => f \in db'.errors
              /\ db'.offset[f] = IF f \in pass[p].gone THEN NoRow ELSE db.offset[f]
      BY <3>1, <3>3 DEF DeleteSourceFiles, Clear, Records, SourceFiles
    <3>5. \A f \in There : Shown(db', f)
      BY <1>3, <3>1, <3>2, <3>4 DEF Undisturbed, Shown, Stored
    <3>6. \A f \in Mine \ There : db'.offset[f] = NoRow
      BY <1>3, <3>1, <3>2, <3>4 DEF Undisturbed, Leftover
    <3> QED
      BY <3>5, <3>6
  <2> QED
    BY <1>1, <2>1, <2>2
<1> QED
  BY <1>2, <1>3, <1>4 DEF Settled, Shown

(* A pass without fault or change leaves the store equal to the disk. *)
THEOREM QuietPassesSettle == Spec => QuietPassSettles
<1>1. Init => CalmInv
  BY DEF Init, CalmInv
<1>2. ReconcileInv /\ CalmInv /\ [Next]_vars => CalmInv' /\ [SettleStep]_vars
  BY CalmStep, LastStepSettles
<1> QED
  BY <1>1, <1>2, ReconcileInvariance, PTL DEF Spec, QuietPassSettles, SettleStep

-----------------------------------------------------------------------------
(* A pass and its writer never wait for each other *)

(* There are finitely many files. *)
LEMMA FilesFinite == IsFiniteSet(Transcripts)
<1>1. Len(FileOrder) \in Nat /\ FileOrder \in [1 .. Len(FileOrder) -> Transcripts]
  BY PassAssumption
<1>2. \A f \in Transcripts : \E i \in 1 .. Len(FileOrder) : FileOrder[i] = f
  BY PassAssumption, Zenon
<1>3. FileOrder \in Surjection(1 .. Len(FileOrder), Transcripts)
  BY <1>1, <1>2, Zenon DEF Surjection
<1>4. IsFiniteSet(1 .. Len(FileOrder))
  BY <1>1, FS_Interval
<1> QED
  BY <1>3, <1>4, FS_Surjection, Zenon

(* One more child takes its turn after the others, when a candidate is left for it. *)
LEMMA OneMoreTurn ==
    ASSUME NEW ses \in Records, NEW cs \in SUBSET Unlinked(ses), IsFiniteSet(cs),
           NEW ps \in [cs -> {f \in Transcripts : ses[f] # NoRow}], InTurns(ses, ps),
           NEW c \in Resolvable(Link(ses, ps))
    PROVE  /\ c \in Unlinked(ses) \ cs
           /\ \E qs \in [cs \cup {c} -> {f \in Transcripts : ses[f] # NoRow}] : InTurns(ses, qs)
<1> DEFINE there == {f \in Transcripts : ses[f] # NoRow}
           t == Link(ses, ps)
           n == Cardinality(cs)
<1>1. /\ c \in Subagents /\ c \in Transcripts /\ t[c] # NoRow /\ t[c].parent = NoRow
      /\ Candidates(t, c) # {}
  BY StoreAssumption DEF Resolvable, Unlinked
<1>2. \A f \in Transcripts : t[f] = IF f \in cs THEN [ses[f] EXCEPT !.parent = ps[f]] ELSE ses[f]
  BY DEF Link
<1>3. \A f \in cs : f \in Transcripts /\ ses[f] # NoRow /\ ses[f] \in Session /\ ps[f] \in Transcripts
  BY StoreAssumption DEF Unlinked, Records
<1>4. c \notin cs
  <2> SUFFICES ASSUME c \in cs PROVE FALSE
    OBVIOUS
  <2>1. t[c] = [ses[c] EXCEPT !.parent = ps[c]] /\ ses[c] \in Session
    BY <1>1, <1>2, <1>3
  <2>2. t[c].parent = ps[c]
    BY <2>1 DEF Session
  <2> QED
    BY <1>1, <1>3, <2>2, StoreAssumption
<1>5. c \in Unlinked(ses)
  BY <1>1, <1>2, <1>4 DEF Unlinked
<1>6. PICK q \in Best(t, c) : TRUE
  BY <1>1 DEF Best
<1>7. q \in there
  <2>1. q \in Candidates(t, c)
    BY <1>6 DEF Best
  <2>2. q \in Transcripts /\ t[q] # NoRow
    BY <2>1 DEF Candidates
  <2> QED
    BY <1>2, <1>3, <2>2
<1>8. n \in Nat /\ Cardinality(cs \cup {c}) = n + 1
  BY <1>4, FS_AddElement, FS_CardinalityType
<1>9. PICK turn \in [cs -> 1 .. n] :
          \A b \in cs : ps[b] \in Best(Link(ses, [a \in {e \in cs : turn[e] < turn[b]} |-> ps[a]]), b)
  BY DEF InTurns
<1> DEFINE all == cs \cup {c}
           qs == [a \in all |-> IF a = c THEN q ELSE ps[a]]
           turns == [a \in all |-> IF a = c THEN n + 1 ELSE turn[a]]
           before(b) == {e \in all : turns[e] < turns[b]}
<1>10. qs \in [all -> there] /\ DOMAIN qs = all
  BY <1>7
<1>11. turns \in [all -> 1 .. n + 1]
  BY <1>8, <1>9
<1>12. ASSUME NEW b \in all
       PROVE  qs[b] \in Best(Link(ses, [a \in before(b) |-> qs[a]]), b)
  <2>1. CASE b = c
    <3>1. before(b) = cs
      BY <1>4, <1>8, <1>9, <2>1
    <3>2. [a \in before(b) |-> qs[a]] = ps
      BY <1>4, <3>1
    <3> QED
      BY <1>6, <2>1, <3>2
  <2>2. CASE b \in cs
    <3>1. before(b) = {e \in cs : turn[e] < turn[b]}
      BY <1>4, <1>8, <1>9, <2>2
    <3>2. [a \in before(b) |-> qs[a]] = [a \in {e \in cs : turn[e] < turn[b]} |-> ps[a]]
      BY <1>4, <3>1
    <3>3. qs[b] = ps[b]
      BY <1>4, <2>2
    <3> QED
      BY <1>9, <2>2, <3>2, <3>3
  <2> QED
    BY <2>1, <2>2
<1>13. InTurns(ses, qs)
  <2> SUFFICES \E u \in [DOMAIN qs -> 1 .. Cardinality(DOMAIN qs)] : \A b \in DOMAIN qs :
                  qs[b] \in Best(Link(ses, [d \in {d \in DOMAIN qs : u[d] < u[b]} |-> qs[d]]), b)
    BY DEF InTurns
  <2>1. turns \in [DOMAIN qs -> 1 .. Cardinality(DOMAIN qs)]
    BY <1>8, <1>10, <1>11
  <2>2. \A b \in DOMAIN qs :
            qs[b] \in Best(Link(ses, [d \in {d \in DOMAIN qs : turns[d] < turns[b]} |-> qs[d]]), b)
    BY <1>10, <1>12
  <2> HIDE DEF qs, turns
  <2> QED
    BY <2>1, <2>2
<1> QED
  BY <1>4, <1>5, <1>10, <1>13

(* Linking comes to an end: whatever rows are stored, there is a table of links     *)
(* that cannot be extended, and it is reached one child after the other.          *)
LEMMA LinkingEnds ==
    ASSUME NEW ses \in Records
    PROVE  ResolveSubagentParents(ses) # {}
<1> SUFFICES ASSUME ResolveSubagentParents(ses) = {} PROVE FALSE
  OBVIOUS
<1> DEFINE there == {f \in Transcripts : ses[f] # NoRow}
           free == Unlinked(ses)
           Linkable(cs) == \E ps \in [cs -> there] : InTurns(ses, ps)
           P == {i \in Nat : \E cs \in SUBSET free : Cardinality(cs) = i /\ Linkable(cs)}
<1>1. IsFiniteSet(free) /\ Cardinality(free) \in Nat
  <2>1. free \subseteq Transcripts
    BY StoreAssumption DEF Unlinked
  <2> QED
    BY <2>1, FilesFinite, FS_Subset, FS_CardinalityType
<1>2. 0 \in P
  <2> DEFINE ps == [c \in {} |-> c]
  <2>1. ps \in [{} -> there] /\ DOMAIN ps = {} /\ Cardinality({}) = 0
    BY FS_EmptySet
  <2>2. [c \in {} |-> 0] \in [DOMAIN ps -> 1 .. Cardinality(DOMAIN ps)]
    BY <2>1
  <2>3. InTurns(ses, ps)
    BY <2>1, <2>2 DEF InTurns
  <2> HIDE DEF ps
  <2>4. Linkable({})
    BY <2>1, <2>3
  <2> QED
    BY <2>1, <2>4
<1>3. ASSUME NEW cs \in SUBSET free, Linkable(cs)
      PROVE  \E more \in SUBSET free : Cardinality(more) = Cardinality(cs) + 1 /\ Linkable(more)
  <2>1. PICK ps \in [cs -> there] : InTurns(ses, ps)
    BY <1>3
  <2>2. Link(ses, ps) \in Updates(ses)
    BY <2>1 DEF Updates
  <2>3. PICK c \in Resolvable(Link(ses, ps)) : TRUE
    BY <2>2 DEF ResolveSubagentParents
  <2>4. IsFiniteSet(cs)
    BY <1>1, FS_Subset
  <2>5. c \in free \ cs /\ Linkable(cs \cup {c})
    BY <2>1, <2>3, <2>4, OneMoreTurn
  <2>6. Cardinality(cs \cup {c}) = Cardinality(cs) + 1
    BY <2>4, <2>5, FS_AddElement
  <2> QED
    BY <2>5, <2>6
<1>4. \A i \in 1 .. Cardinality(free) + 1 : i - 1 \in P => i \in P
  <2> TAKE i \in 1 .. Cardinality(free) + 1
  <2> HAVE i - 1 \in P
  <2>1. PICK cs \in SUBSET free : Cardinality(cs) = i - 1 /\ Linkable(cs)
    BY DEF P
  <2>2. PICK more \in SUBSET free : Cardinality(more) = Cardinality(cs) + 1 /\ Linkable(more)
    BY <1>3, <2>1
  <2>3. Cardinality(more) = i /\ i \in Nat
    BY <1>1, <2>1, <2>2
  <2> QED
    BY <2>2, <2>3
<1>5. Cardinality(free) + 1 \in P
  <2> HIDE DEF P
  <2> DEFINE n == Cardinality(free) + 1
  <2>1. n \in Nat /\ n \in 0 .. n
    BY <1>1
  <2>2. \A i \in 1 .. n : i - 1 \in P => i \in P
    BY <1>4
  <2> HIDE DEF n
  <2>3. \A i \in 0 .. n : i \in P
    BY <1>2, <2>1, <2>2, UpTo
  <2> QED
    BY <2>1, <2>3 DEF n
<1>6. PICK cs \in SUBSET free : Cardinality(cs) = Cardinality(free) + 1
  BY <1>5
<1> QED
  BY <1>1, <1>6, FS_Subset

(* A transaction has an outcome for every result a batch can bring. *)
LEMMA SaveHasOutcome ==
    ASSUME NEW d \in Database, NEW res, ResultOK(res)
    PROVE  SaveIngest(d, res) # {}
<1> DEFINE cleared == DeleteSourceFiles(d, Processed(res))
           inserted == InsertSessions(InsertRawEvents(cleared, res), res)
<1>1. inserted.session \in Records
  <2>1. cleared.session = Clear(d.session, Processed(res)) /\ DOMAIN cleared = DOMAIN d
    BY DEF DeleteSourceFiles, Database
  <2>2. cleared.session \in Records
    BY <2>1 DEF Clear, Database, Records
  <2> HIDE DEF cleared
  <2>3. InsertRawEvents(cleared, res).session = cleared.session /\ "session" \in DOMAIN InsertRawEvents(cleared, res)
    BY <2>1 DEF InsertRawEvents, Database
  <2> DEFINE w == InsertRawEvents(cleared, res)
  <2> HIDE DEF w
  <2>4. inserted.session = [f \in Transcripts |->
                IF f \in Projected(res) THEN [ver |-> res.read[f], title |-> NoRow, parent |-> NoRow]
                                        ELSE w.session[f]]
    BY <2>3 DEF InsertSessions, w
  <2> QED
    BY <2>2, <2>3, <2>4 DEF Records, Session, Projected, w
<1> HIDE DEF inserted
<1>2. PICK ses \in ResolveSubagentParents(inserted.session) : TRUE
  BY <1>1, LinkingEnds
<1> QED
  BY <1>2, Zenon DEF SaveIngest, inserted, cleared

(* What NeverStuck says of ENABLED, in the guards of the steps: the writer of a      *)
(* pass that sends or joins is there and takes the batch or answers, or it is     *)
(* saving, and the transaction has an outcome; so have those of the titles and of *)
(* a single file, which the pass makes itself.                                    *)
WriterAnswers ==
    \A p \in Passes :
        /\ pass[p].pc \in {"send", "join"} =>
              \/ writer[p].pc \in {"ready", "failed"}
              \/ writer[p].pc = "saving" /\ SaveIngest(db, writer[p].res) # {}
        /\ pass[p].pc = "titlesave" => SaveIngest(db, pass[p].out) # {}
        /\ pass[p].pc = "filesave" =>
              SaveSessionIngest(db, Result([f \in {pass[p].file} |-> pass[p].read], FALSE,
                                           pass[p].prints, NoTitles)) # {}

(* A pass and its writer never wait for each other, whatever the batches, the files *)
(* and the order, also after the writer failed (StreamSessions).                  *)
THEOREM WriterNeverSilent == Spec => []WriterAnswers
<1>1. ASSUME ReconcileInv PROVE WriterAnswers
  <2> SUFFICES ASSUME NEW p \in Passes
               PROVE  /\ pass[p].pc \in {"send", "join"} =>
                            \/ writer[p].pc \in {"ready", "failed"}
                            \/ writer[p].pc = "saving" /\ SaveIngest(db, writer[p].res) # {}
                      /\ pass[p].pc = "titlesave" => SaveIngest(db, pass[p].out) # {}
                      /\ pass[p].pc = "filesave" =>
                            SaveSessionIngest(db, Result([f \in {pass[p].file} |-> pass[p].read], FALSE,
                                                         pass[p].prints, NoTitles)) # {}
    BY DEF WriterAnswers
  <2>1. PassOK(pass[p], disk) /\ WriterOK(writer[p], pass[p], disk) /\ db \in Database
    BY <1>1, Zenon DEF ReconcileInv, Running
  <2>2. CASE pass[p].pc \in {"send", "join"}
    <3>1. writer[p].pc \in {"ready", "saving", "failed"}
      BY <2>1, <2>2 DEF WriterOK
    <3>2. writer[p].pc = "saving" => ResultOK(writer[p].res)
      BY <2>1 DEF WriterOK, InFlight, Truthful
    <3> QED
      BY <2>1, <2>2, <3>1, <3>2, SaveHasOutcome
  <2>3. CASE pass[p].pc = "titlesave"
    <3>1. ResultOK(pass[p].out)
      BY <2>1, <2>3 DEF PassOK, InFlight, Truthful
    <3> QED
      BY <2>1, <2>3, <3>1, SaveHasOutcome
  <2>4. CASE pass[p].pc = "filesave"
    <3> DEFINE read == [f \in {pass[p].file} |-> pass[p].read]
               res == Result(read, FALSE, pass[p].prints, NoTitles)
    <3>1. ReadOK(read, pass[p].prints, disk) /\ PrintsOK(pass[p].prints, disk)
      BY <2>1, <2>4 DEF PassOK
    <3>2. ResultOK(res)
      <4> HIDE DEF read
      <4> QED
        BY <3>1 DEF ReadOK, PrintsOK, ResultOK, Result, NoTitles
    <3> HIDE DEF res
    <3>3. SaveSessionIngest(db, res) # {}
      BY <2>1, <3>2, SaveHasOutcome DEF SaveSessionIngest
    <3> QED
      BY <2>4, <3>3 DEF res
  <2> QED
    BY <2>2, <2>3, <2>4
<1> QED
  BY <1>1, ReconcileInvariance, PTL

=============================================================================
