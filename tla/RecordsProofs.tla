------------------------------- MODULE RecordsProofs -------------------------------
(***************************************************************************)
(* What is read of the records.  A client that pages through the turns        *)
(* misses none, for any transcripts, sizes of pages and interleaving of its    *)
(* two reads with what is stored: a turn it has not seen never has fewer rows   *)
(* before it than the offset it goes on from.  What the listings count adds up:  *)
(* each is a grouping of turns, calls or steps, and counting groups is counting   *)
(* what they are made of.  And a row of the status shows the newest of what was    *)
(* told of its session: the table drops an event only for a newer one under the   *)
(* same key, and one key is one name of one session.  Its pages are stretches of    *)
(* one ordered list that follow each other without a gap, and the query for one       *)
(* target of a watch finds what the query for all of them finds for it.                *)
(***************************************************************************)
EXTENDS StatusOverlay, Recursion, FiniteSetTheorems, FunctionTheorems, WellFoundedInduction, TLAPS

All == DOMAIN Transcripts
Rows == TurnWhere(stored, NoFilter)
Ids(S) == {t.id : t \in S}
\* the names of the rows that come before a turn
Before(t, rows) == Ids({u \in rows : TurnOrder(u, t)})

WalkTypeOK ==
    /\ stored \subseteq All
    /\ walk \in [stage : {"idle", "rows", "count", "done"}, offset : Nat, page : SUBSET Ids(Turns(All)),
                 seen : SUBSET Ids(Turns(All)), first : SUBSET Ids(Turns(All)), removed : BOOLEAN]
    /\ walk.stage = "rows" => walk.page = {}

\* A session is stored in one version.
OneVersion ==
    \A x, y \in stored : Transcripts[x].session.id = Transcripts[y].session.id => x = y

\* What the client has still to see is not before the offset of its next page.
Remaining == walk.first \ (walk.seen \cup walk.page)
Ahead ==
    walk.stage \in {"rows", "count"} /\ ~walk.removed =>
       /\ walk.first \subseteq Known(stored)
       /\ \A t \in Rows : t.id \in Remaining /\ Fixed(t.id) =>
             walk.offset + Cardinality(walk.page) <= Cardinality(Before(t, Rows))

WalkInv == WalkTypeOK /\ OneVersion /\ Ahead /\ WalkComplete

-----------------------------------------------------------------------------
(* Rows *)

(* The fields of a row, which a turn's own do not overwrite. *)
LEMMA RowFields ==
    ASSUME NEW x \in All, NEW i \in DOMAIN Transcripts[x].turns
    PROVE  /\ TurnRow(x, i).id = <<Transcripts[x].session.id, i>>
           /\ TurnRow(x, i).index = i /\ i \in Nat
           /\ TurnRow(x, i).subagent = Transcripts[x].session.subagent
           /\ ActivityTime(TurnRow(x, i)) = ActivityTime(Transcripts[x].turns[i])
           /\ ActivityTime(TurnRow(x, i)) \in Nat
<1> DEFINE turn == Transcripts[x].turns[i]
<1>1. {"started", "ended"} \subseteq DOMAIN turn /\ turn.started \in Nat /\ turn.ended \in Nat /\ i \in Nat
  BY ListAssumption DEF All
<1>2. /\ TurnRow(x, i).id = <<Transcripts[x].session.id, i>> /\ TurnRow(x, i).index = i
      /\ TurnRow(x, i).subagent = Transcripts[x].session.subagent
  BY DEF TurnRow, RowOf
<1>3. TurnRow(x, i).started = turn.started /\ TurnRow(x, i).ended = turn.ended
  BY <1>1 DEF TurnRow, RowOf
<1>4. ActivityTime(TurnRow(x, i)) = ActivityTime(turn) /\ ActivityTime(turn) \in Nat
  BY <1>1, <1>3 DEF ActivityTime, FirstTime
<1> QED
  BY <1>1, <1>2, <1>4

(* The filter of the walk drops the subagents' turns and nothing else. *)
LEMMA RowsOf ==
    ASSUME NEW db \in SUBSET All
    PROVE  TurnWhere(db, NoFilter) =
             {t \in UNION {{TurnRow(x, i) : i \in DOMAIN Transcripts[x].turns} : x \in db} : ~t.subagent}
BY DEF TurnWhere, Turns, NoFilter, Allows, Names, SubagentExclude, InWindow

LEMMA PageRows == TurnWhere(stored, PageFilter) = Rows
BY DEF Rows, TurnWhere, PageFilter, NoFilter, Allows, Names, SubagentExclude, InWindow

(* A row of the store, and where it comes from. *)
LEMMA RowOrigin ==
    ASSUME NEW db \in SUBSET All, NEW t
    PROVE  t \in TurnWhere(db, NoFilter) <=>
             \E x \in db : \E i \in DOMAIN Transcripts[x].turns :
                t = TurnRow(x, i) /\ ~Transcripts[x].session.subagent
<1>1. \A x \in db : \A i \in DOMAIN Transcripts[x].turns :
         TurnRow(x, i).subagent = Transcripts[x].session.subagent
  BY RowFields
<1> QED
  BY <1>1, RowsOf

LEMMA RowTypes ==
    ASSUME NEW db \in SUBSET All, NEW t \in TurnWhere(db, NoFilter)
    PROVE  t \in Turns(All) /\ t.index \in Nat /\ ActivityTime(t) \in Nat
<1>1. PICK x \in db : \E i \in DOMAIN Transcripts[x].turns : t = TurnRow(x, i)
  BY RowOrigin
<1>2. PICK i \in DOMAIN Transcripts[x].turns : t = TurnRow(x, i)
  BY <1>1
<1> QED
  BY <1>2, RowFields DEF Turns

LEMMA RowsFinite ==
    ASSUME NEW db \in SUBSET All
    PROVE  IsFiniteSet(TurnWhere(db, NoFilter))
<1>1. TurnWhere(db, NoFilter) \subseteq Turns(All)
  BY RowTypes
<1> QED
  BY <1>1, GrownAssumption, FS_Subset DEF All

(* With one version of a session, a name stands for one row. *)
LEMMA OneRow ==
    ASSUME stored \subseteq All, OneVersion, NEW t \in Rows, NEW u \in Rows, t.id = u.id
    PROVE  t = u
<1>a. PICK x \in stored : \E i \in DOMAIN Transcripts[x].turns : t = TurnRow(x, i)
  BY RowOrigin DEF Rows
<1>b. PICK y \in stored : \E j \in DOMAIN Transcripts[y].turns : u = TurnRow(y, j)
  BY RowOrigin DEF Rows
<1>1. PICK i \in DOMAIN Transcripts[x].turns : t = TurnRow(x, i)
  BY <1>a
<1>2. PICK j \in DOMAIN Transcripts[y].turns : u = TurnRow(y, j)
  BY <1>b
<1>3. <<Transcripts[x].session.id, i>> = <<Transcripts[y].session.id, j>>
  BY <1>1, <1>2, RowFields
<1> QED
  BY <1>1, <1>2, <1>3 DEF OneVersion

LEMMA IdsCounted ==
    ASSUME stored \subseteq All, OneVersion, NEW S \in SUBSET Rows
    PROVE  IsFiniteSet(S) /\ IsFiniteSet(Ids(S)) /\ Cardinality(Ids(S)) = Cardinality(S)
<1>1. IsFiniteSet(S)
  BY RowsFinite, FS_Subset DEF Rows
<1> DEFINE name == [t \in S |-> t.id]
<1>2. name \in Surjection(S, Ids(S))
  BY DEF Surjection, Ids
<1>3. name \in Injection(S, Ids(S))
  <2>1. \A t, u \in S : name[t] = name[u] => t = u
    BY OneRow
  <2>2. name \in [S -> Ids(S)]
    BY <1>2 DEF Surjection
  <2> QED
    BY <2>1, <2>2 DEF Injection, IsInjective
<1> HIDE DEF name
<1> QED
  BY <1>1, <1>2, <1>3, FS_Surjection

LEMMA IdsFinite == IsFiniteSet(Ids(Turns(All)))
<1> DEFINE name == [t \in Turns(All) |-> t.id]
<1>1. name \in Surjection(Turns(All), Ids(Turns(All)))
  BY DEF Surjection, Ids
<1> HIDE DEF name
<1> QED
  BY <1>1, GrownAssumption, FS_Surjection DEF All

-----------------------------------------------------------------------------
(* A page *)

(* What is in no page yet and not skipped has all of the page before it. *)
LEMMA PagePasses ==
    ASSUME stored \subseteq All, OneVersion, NEW p, p.offset \in Nat, p.limit \in Nat,
           NEW page \in SUBSET Rows, IsPage(page, Rows, p),
           NEW t \in Rows \ page, Fixed(t.id), p.offset <= Cardinality(Before(t, Rows))
    PROVE  p.offset + Cardinality(Ids(page)) <= Cardinality(Before(t, Rows))
<1>1. PICK skipped \in SUBSET (Rows \ page) :
         /\ Cardinality(skipped) = AtMost(p.offset, Cardinality(Rows))
         /\ InOrder(skipped, Rows \ skipped) /\ InOrder(page, Rows \ (skipped \cup page))
  BY DEF IsPage
<1> DEFINE before == {u \in Rows : TurnOrder(u, t)}
<1>2. /\ IsFiniteSet(before) /\ IsFiniteSet(skipped) /\ IsFiniteSet(page) /\ IsFiniteSet(Rows)
      /\ Cardinality(Before(t, Rows)) = Cardinality(before)
      /\ Cardinality(Ids(page)) = Cardinality(page)
  BY IdsCounted DEF Before
<1>3. \A S \in SUBSET Rows : Cardinality(S) \in Nat
  BY IdsCounted, FS_CardinalityType
<1>4. t \notin before
  BY RowTypes DEF TurnOrder, Rows
<1>5. p.offset < Cardinality(Rows) /\ Cardinality(skipped) = p.offset
  <2>1. Cardinality(before) < Cardinality(Rows)
    BY <1>2, <1>3, <1>4, FS_Subset
  <2> QED
    BY <1>1, <1>2, <1>3, <2>1 DEF AtMost
<1>6. t \notin skipped
  <2> SUFFICES ASSUME t \in skipped PROVE FALSE
    OBVIOUS
  <2>1. before \subseteq skipped
    BY <1>1 DEF InOrder
  <2>2. Cardinality(before) < Cardinality(skipped)
    BY <1>2, <1>3, <1>4, <2>1, FS_Subset
  <2> QED
    BY <1>2, <1>3, <1>5, <2>2
<1>7. skipped \cup page \subseteq before
  <2> SUFFICES ASSUME NEW u \in skipped \cup page PROVE TurnOrder(u, t)
    OBVIOUS
  <2>1. ~TurnOrder(t, u) /\ u \in Rows /\ u # t
    BY <1>1, <1>6 DEF InOrder
  <2>2. u.id # t.id
    BY <2>1, OneRow
  <2>3. <<ActivityTime(u), u.index>> # <<ActivityTime(t), t.index>>
    BY <2>1, <2>2, RowTypes DEF Fixed, Rows, All
  <2>4. ActivityTime(u) \in Nat /\ u.index \in Nat /\ ActivityTime(t) \in Nat /\ t.index \in Nat
    BY <2>1, RowTypes DEF Rows
  <2> QED
    BY <2>1, <2>3, <2>4 DEF TurnOrder
<1>8. Cardinality(skipped \cup page) = Cardinality(skipped) + Cardinality(page)
  <2>1. Cardinality(skipped \cap page) = 0
    <3>1. skipped \cap page = {}
      OBVIOUS
    <3> QED
      BY <3>1, FS_EmptySet
  <2>2. Cardinality(skipped \cup page)
          = Cardinality(skipped) + Cardinality(page) - Cardinality(skipped \cap page)
    BY <1>2, FS_Union
  <2>3. Cardinality(skipped) \in Nat /\ Cardinality(page) \in Nat
    BY <1>2, FS_CardinalityType
  <2> QED
    BY <2>1, <2>2, <2>3
<1>9. Cardinality(skipped \cup page) <= Cardinality(before)
  BY <1>2, <1>7, FS_Subset
<1> QED
  BY <1>2, <1>5, <1>8, <1>9

-----------------------------------------------------------------------------
(* What is stored *)

(* A version that is stored replaces the older one, and there is no newer. *)
LEMMA SaveKeepsVersions ==
    ASSUME stored \subseteq All, OneVersion, NEW x \in All, Save(x)
    PROVE  (stored \subseteq All)' /\ OneVersion'
<1>1. stored' = {y \in stored : <<y, x>> \notin Grown} \cup {x}
  BY DEF Save
<1>2. \A y \in stored' : y # x => Transcripts[y].session.id # Transcripts[x].session.id
  BY <1>1, ListAssumption DEF Save, All
<1>3. stored' \subseteq All /\ \A y \in stored' : y # x => y \in stored
  BY <1>1
<1>4. OneVersion'
  BY <1>2, <1>3 DEF OneVersion
<1> QED
  BY <1>3, <1>4 DEF All

(* Every row is still there, and comes no later in the list than it did. *)
LEMMA SaveKeepsRow ==
    ASSUME stored \subseteq All, NEW x \in All \ stored, Save(x), NEW u \in Rows
    PROVE  \E v \in Rows' : v.id = u.id /\ v.index = u.index /\ ActivityTime(u) <= ActivityTime(v)
<1>1. PICK y \in stored : \E i \in DOMAIN Transcripts[y].turns :
         u = TurnRow(y, i) /\ ~Transcripts[y].session.subagent
  BY RowOrigin DEF Rows
<1>2. PICK i \in DOMAIN Transcripts[y].turns : u = TurnRow(y, i) /\ ~Transcripts[y].session.subagent
  BY <1>1
<1>3. stored' \in SUBSET All /\ Rows' = TurnWhere(stored', NoFilter)
  BY DEF Save, Rows
<1>4. u.id = <<Transcripts[y].session.id, i>> /\ u.index = i
      /\ ActivityTime(u) = ActivityTime(Transcripts[y].turns[i]) /\ ActivityTime(u) \in Nat
  BY <1>2, RowFields
<1>5. CASE <<y, x>> \notin Grown
  <2>1. y \in stored'
    BY <1>5 DEF Save
  <2>2. u \in Rows'
    BY <1>2, <1>3, <2>1, RowOrigin
  <2> QED
    BY <1>4, <2>2
<1>6. CASE <<y, x>> \in Grown
  <2>1. /\ Transcripts[y].session.id = Transcripts[x].session.id
        /\ Transcripts[y].session.subagent = Transcripts[x].session.subagent
        /\ i \in DOMAIN Transcripts[x].turns
        /\ ActivityTime(Transcripts[y].turns[i]) <= ActivityTime(Transcripts[x].turns[i])
    BY <1>6, GrownAssumption DEF All
  <2>2. x \in stored'
    BY DEF Save
  <2>3. TurnRow(x, i) \in Rows'
    BY <1>2, <1>3, <2>1, <2>2, RowOrigin
  <2>4. /\ TurnRow(x, i).id = <<Transcripts[x].session.id, i>> /\ TurnRow(x, i).index = i
        /\ ActivityTime(TurnRow(x, i)) = ActivityTime(Transcripts[x].turns[i])
    BY <2>1, RowFields
  <2> QED
    BY <1>4, <2>1, <2>3, <2>4
<1> QED
  BY <1>5, <1>6

(* What came before a turn whose place is fixed still does. *)
LEMMA SaveKeepsPlace ==
    ASSUME stored \subseteq All, OneVersion, NEW x \in All \ stored, Save(x),
           NEW t \in Rows', t.id \in Known(stored), Fixed(t.id)
    PROVE  \E s \in Rows : s.id = t.id /\ Cardinality(Before(s, Rows)) <= Cardinality(Before(t, Rows'))
<1>1. PICK s \in Rows : s.id = t.id
  BY DEF Known, Rows
<1>2. stored' \in SUBSET All /\ Rows' = TurnWhere(stored', NoFilter)
  BY DEF Save, Rows
<1>3. s \in Turns(All) /\ t \in Turns(All) /\ \A v \in Rows' : v \in Turns(All)
  BY <1>2, RowTypes DEF Rows
<1>4. ActivityTime(s) = ActivityTime(t)
  BY <1>1, <1>3 DEF Fixed, All
<1>5. s.index = t.index
  <2>1. PICK v \in Rows' : v.id = s.id /\ v.index = s.index
    BY SaveKeepsRow
  <2>2. (stored \subseteq All)' /\ OneVersion'
    BY SaveKeepsVersions
  <2>3. v = t
    <3>1. PICK y \in stored' : \E i \in DOMAIN Transcripts[y].turns : v = TurnRow(y, i)
      BY <1>2, RowOrigin
    <3>2. PICK z \in stored' : \E j \in DOMAIN Transcripts[z].turns : t = TurnRow(z, j)
      BY <1>2, RowOrigin
    <3>3. PICK i \in DOMAIN Transcripts[y].turns : v = TurnRow(y, i)
      BY <3>1
    <3>4. PICK j \in DOMAIN Transcripts[z].turns : t = TurnRow(z, j)
      BY <3>2
    <3>5. <<Transcripts[y].session.id, i>> = <<Transcripts[z].session.id, j>>
      BY <1>1, <1>2, <2>1, <3>3, <3>4, RowFields
    <3> QED
      BY <2>2, <3>3, <3>4, <3>5 DEF OneVersion
  <2> QED
    BY <2>1, <2>3
<1>6. Before(s, Rows) \subseteq Before(t, Rows')
  <2> SUFFICES ASSUME NEW u \in Rows, TurnOrder(u, s) PROVE u.id \in Before(t, Rows')
    BY DEF Before, Ids
  <2>1. PICK v \in Rows' : v.id = u.id /\ v.index = u.index /\ ActivityTime(u) <= ActivityTime(v)
    BY SaveKeepsRow
  <2>2. /\ ActivityTime(u) \in Nat /\ ActivityTime(v) \in Nat /\ ActivityTime(s) \in Nat
        /\ u.index \in Nat /\ s.index \in Nat
    BY <1>2, RowTypes DEF Rows
  <2>3. TurnOrder(v, t)
    BY <1>4, <1>5, <2>1, <2>2 DEF TurnOrder
  <2> QED
    BY <2>1, <2>3 DEF Before, Ids
<1>7. IsFiniteSet(Before(t, Rows'))
  <2>1. Before(t, Rows') \subseteq Ids(Turns(All))
    BY <1>3 DEF Before, Ids
  <2> QED
    BY <2>1, IdsFinite, FS_Subset
<1> QED
  BY <1>1, <1>6, <1>7, FS_Subset

-----------------------------------------------------------------------------
(* Every step keeps the invariant *)

LEMMA StartKeeps ==
    ASSUME WalkInv, StartWalk
    PROVE  WalkInv'
<1> USE DEF WalkInv, StartWalk, Idle
<1>1. Known(stored) \subseteq Ids(Turns(All)) /\ Cardinality({}) = 0
  BY RowTypes, FS_EmptySet DEF Known, Ids, WalkTypeOK
<1>2. WalkTypeOK'
  BY <1>1 DEF WalkTypeOK, All
<1>3. OneVersion'
  BY DEF OneVersion
<1>4. Ahead'
  <2>1. Rows' = Rows
    BY DEF Rows
  <2>2. \A t \in Rows : IsFiniteSet(Before(t, Rows))
    BY IdsCounted DEF Before, WalkTypeOK
  <2>3. \A t \in Rows : Cardinality(Before(t, Rows)) \in Nat
    BY <2>2, FS_CardinalityType
  <2>4. walk'.first = Known(stored) /\ walk'.offset = 0 /\ walk'.page = {} /\ stored' = stored
    OBVIOUS
  <2>5. \A t \in Rows' : walk'.offset + Cardinality(walk'.page) <= Cardinality(Before(t, Rows'))
    BY <1>1, <2>1, <2>3, <2>4
  <2> QED
    BY <2>4, <2>5 DEF Ahead
<1>5. WalkComplete'
  BY DEF WalkComplete
<1> QED
  BY <1>2, <1>3, <1>4, <1>5

LEMMA PaginationOfPages ==
    ASSUME WalkTypeOK
    PROVE  LET p == Pagination(PageFilter, 50) IN p.offset = walk.offset /\ p.limit \in Nat
BY ListAssumption DEF WalkTypeOK, Pagination, PageFilter, NoFilter, maxPageSize

LEMMA RowsKeep ==
    ASSUME WalkInv, ListTurnsRows
    PROVE  WalkInv'
<1> USE DEF WalkInv, ListTurnsRows
<1> DEFINE p == Pagination(PageFilter, 50)
<1>1. PICK page \in SUBSET Rows :
         IsPage(page, Rows, p) /\ walk' = [walk EXCEPT !.stage = "count", !.page = {t.id : t \in page}]
  BY PageRows
<1>2. walk' = [walk EXCEPT !.stage = "count", !.page = Ids(page)] /\ stored' = stored
  BY <1>1 DEF Ids
<1>3. WalkTypeOK'
  <2>1. Ids(page) \subseteq Ids(Turns(All))
    BY RowTypes DEF Ids, Rows, WalkTypeOK
  <2> QED
    BY <1>2, <2>1 DEF WalkTypeOK, All
<1>4. OneVersion'
  BY DEF OneVersion
<1>5. p.offset = walk.offset /\ p.limit \in Nat /\ walk.offset \in Nat
  BY PaginationOfPages DEF WalkTypeOK
<1> HIDE DEF p
<1>6. Ahead'
  <2> SUFFICES ASSUME ~walk.removed
               PROVE  /\ walk'.first \subseteq Known(stored')
                      /\ \A t \in Rows' : t.id \in Remaining' /\ Fixed(t.id) =>
                            walk'.offset + Cardinality(walk'.page) <= Cardinality(Before(t, Rows'))
    BY <1>2 DEF Ahead, WalkTypeOK
  <2>1. Rows' = Rows /\ walk'.offset = walk.offset /\ walk'.page = Ids(page)
        /\ walk'.first = walk.first /\ walk'.seen = walk.seen
    BY <1>2 DEF Rows, WalkTypeOK
  <2>2. walk.page = {} /\ Cardinality({}) = 0
    BY FS_EmptySet DEF WalkTypeOK
  <2>3. ASSUME NEW t \in Rows, t.id \in Remaining', Fixed(t.id)
        PROVE  walk.offset + Cardinality(Ids(page)) <= Cardinality(Before(t, Rows))
    <3>1. t.id \in Remaining /\ t \notin page
      BY <2>1, <2>2, <2>3 DEF Remaining, Ids
    <3>2. walk.offset <= Cardinality(Before(t, Rows))
      BY <1>5, <2>2, <2>3, <3>1 DEF Ahead
    <3> QED
      BY <1>1, <1>5, <2>3, <3>1, <3>2, PagePasses DEF WalkTypeOK
  <2> QED
    BY <1>2, <2>1, <2>3 DEF Ahead, Known
<1>7. WalkComplete'
  BY <1>2 DEF WalkComplete, WalkTypeOK
<1> QED
  BY <1>3, <1>4, <1>6, <1>7

LEMMA CountKeeps ==
    ASSUME WalkInv, ListTurnsCount
    PROVE  WalkInv'
<1> USE DEF WalkInv, ListTurnsCount
<1> DEFINE total == Cardinality(Rows)
           count == Cardinality(walk.page)
           next == NextOffset(walk.offset, count, total)
<1>1. /\ walk' = [walk EXCEPT !.stage = IF next < total THEN "rows" ELSE "done", !.offset = next,
                              !.seen = @ \cup walk.page, !.page = {}]
      /\ stored' = stored
  BY PageRows, PaginationOfPages
<1>2. total \in Nat /\ count \in Nat /\ walk.offset \in Nat
  <2>1. IsFiniteSet(Rows)
    BY IdsCounted DEF WalkTypeOK
  <2>2. IsFiniteSet(Ids(Turns(All)))
    BY IdsFinite
  <2>3. IsFiniteSet(walk.page)
    BY <2>2, FS_Subset DEF WalkTypeOK
  <2> QED
    BY <2>1, <2>3, FS_CardinalityType DEF WalkTypeOK
<1>3. next \in Nat /\ (next < total => next <= walk.offset + count)
      /\ (walk.offset + count < total => next < total)
  BY <1>2 DEF NextOffset
<1>5. OneVersion'
  BY <1>1 DEF OneVersion
<1>6. walk'.first = walk.first /\ walk'.seen = walk.seen \cup walk.page /\ walk'.page = {}
      /\ walk'.removed = walk.removed /\ walk'.offset = next /\ Rows' = Rows
      /\ walk'.stage = IF next < total THEN "rows" ELSE "done"
  BY <1>1 DEF WalkTypeOK, Rows
<1> HIDE DEF next
<1>4. WalkTypeOK'
  <2>1. walk'.stage \in {"rows", "done"} /\ walk'.seen \in SUBSET Ids(Turns(All))
    BY <1>6 DEF WalkTypeOK
  <2>2. walk' \in [stage : {"idle", "rows", "count", "done"}, offset : Nat, page : SUBSET Ids(Turns(All)),
                   seen : SUBSET Ids(Turns(All)), first : SUBSET Ids(Turns(All)), removed : BOOLEAN]
    BY <1>1, <1>3, <2>1 DEF WalkTypeOK
  <2> QED
    BY <1>1, <1>6, <2>2 DEF WalkTypeOK, All
<1>7. ASSUME ~walk.removed, NEW t \in Rows, t.id \in Remaining, Fixed(t.id)
      PROVE  /\ walk.offset + count <= Cardinality(Before(t, Rows))
             /\ Cardinality(Before(t, Rows)) \in Nat /\ Cardinality(Before(t, Rows)) < total
  <2>1. walk.offset + count <= Cardinality(Before(t, Rows))
    BY <1>7 DEF Ahead
  <2> DEFINE before == {u \in Rows : TurnOrder(u, t)}
  <2>2. t \notin before
    BY RowTypes DEF TurnOrder, Rows, WalkTypeOK
  <2>3. IsFiniteSet(Rows) /\ IsFiniteSet(before) /\ Cardinality(Before(t, Rows)) = Cardinality(before)
    BY IdsCounted DEF Before, WalkTypeOK
  <2>4. Cardinality(before) \in Nat /\ Cardinality(before) < total
    BY <1>2, <2>2, <2>3, FS_Subset, FS_CardinalityType
  <2> QED
    BY <2>1, <2>3, <2>4
<1> HIDE DEF total, count
<1>8. Ahead'
  <2> SUFFICES ASSUME ~walk.removed, next < total
               PROVE  /\ walk.first \subseteq Known(stored)
                      /\ \A t \in Rows : t.id \in Remaining /\ Fixed(t.id) =>
                            next + Cardinality({}) <= Cardinality(Before(t, Rows))
    <3>1. Remaining' = Remaining
      BY <1>6 DEF Remaining
    <3>2. Known(stored)' = Known(stored)
      BY <1>1 DEF Known
    <3> QED
      BY <1>6, <3>1, <3>2 DEF Ahead
  <2>1. Cardinality({}) = 0
    BY FS_EmptySet
  <2> QED
    BY <1>2, <1>3, <1>7, <2>1 DEF Ahead
<1>9. WalkComplete'
  <2> SUFFICES ASSUME ~walk.removed, ~(next < total), NEW id \in walk.first, Fixed(id), id \notin walk.seen \cup walk.page
               PROVE  FALSE
    BY <1>6 DEF WalkComplete
  <2>1. PICK t \in Rows : t.id = id
    BY DEF Ahead, Known, Rows
  <2>2. t.id \in Remaining
    BY <2>1 DEF Remaining
  <2> QED
    BY <1>2, <1>3, <1>7, <2>1, <2>2
<1> QED
  BY <1>4, <1>5, <1>8, <1>9

LEMMA SaveKeeps ==
    ASSUME WalkInv, SaveSession
    PROVE  WalkInv'
<1> USE DEF WalkInv
<1>1. PICK x \in All \ stored : Save(x)
  BY DEF SaveSession, All
<1>2. walk' = walk /\ stored \subseteq All
  BY DEF SaveSession, WalkTypeOK
<1>3. WalkTypeOK' /\ OneVersion'
  BY <1>1, <1>2, SaveKeepsVersions DEF WalkTypeOK, All
<1>4. Ahead'
  <2> SUFFICES ASSUME walk.stage \in {"rows", "count"}, ~walk.removed
               PROVE  /\ walk.first \subseteq Known(stored')
                      /\ \A t \in Rows' : t.id \in Remaining /\ Fixed(t.id) =>
                            walk.offset + Cardinality(walk.page) <= Cardinality(Before(t, Rows'))
    BY <1>2 DEF Ahead, Remaining
  <2>1. walk.first \subseteq Known(stored)
    BY DEF Ahead
  <2>2. Known(stored) \subseteq Known(stored')
    BY <1>1, <1>2, SaveKeepsRow DEF Known, Rows
  <2>3. ASSUME NEW t \in Rows', t.id \in Remaining, Fixed(t.id)
        PROVE  walk.offset + Cardinality(walk.page) <= Cardinality(Before(t, Rows'))
    <3>1. t.id \in Known(stored)
      BY <2>1, <2>3 DEF Remaining
    <3>2. PICK s \in Rows : s.id = t.id /\ Cardinality(Before(s, Rows)) <= Cardinality(Before(t, Rows'))
      BY <1>1, <1>2, <2>3, <3>1, SaveKeepsPlace
    <3>3. walk.offset + Cardinality(walk.page) <= Cardinality(Before(s, Rows))
      BY <2>3, <3>2 DEF Ahead
    <3>4. /\ walk.offset \in Nat /\ Cardinality(walk.page) \in Nat
          /\ Cardinality(Before(s, Rows)) \in Nat /\ Cardinality(Before(t, Rows')) \in Nat
      <4>1. IsFiniteSet(walk.page) /\ IsFiniteSet(Before(s, Rows)) /\ IsFiniteSet(Before(t, Rows'))
        <5>1. Rows' = TurnWhere(stored', NoFilter) /\ stored' \in SUBSET All
          BY <1>3 DEF Rows, WalkTypeOK, All
        <5>2. Rows \subseteq Turns(All) /\ Rows' \subseteq Turns(All)
          BY <1>2, <5>1, RowTypes DEF Rows
        <5>3. Before(s, Rows) \subseteq Ids(Turns(All)) /\ Before(t, Rows') \subseteq Ids(Turns(All))
          BY <5>2 DEF Before, Ids
        <5> QED
          BY <5>3, IdsFinite, FS_Subset DEF WalkTypeOK
      <4> QED
        BY <4>1, FS_CardinalityType DEF WalkTypeOK
    <3> QED
      BY <3>2, <3>3, <3>4
  <2> QED
    BY <2>1, <2>2, <2>3
<1>5. WalkComplete'
  BY <1>2 DEF WalkComplete
<1> QED
  BY <1>3, <1>4, <1>5

LEMMA DeleteKeeps ==
    ASSUME WalkInv, DeleteSession
    PROVE  WalkInv'
<1> USE DEF WalkInv, DeleteSession
<1>1. stored' \subseteq stored
  OBVIOUS
<1>2. WalkTypeOK'
  BY <1>1 DEF WalkTypeOK, All
<1>3. OneVersion'
  BY <1>1 DEF OneVersion
<1>4. Ahead'
  BY DEF Ahead, WalkTypeOK
<1>5. WalkComplete'
  BY DEF WalkComplete, WalkTypeOK
<1> QED
  BY <1>2, <1>3, <1>4, <1>5

LEMMA WalkStarts == ListInit => WalkInv
<1> SUFFICES ASSUME ListInit PROVE WalkInv
  OBVIOUS
<1>1. WalkTypeOK
  BY DEF ListInit, Idle, WalkTypeOK
<1> QED
  BY <1>1 DEF ListInit, Idle, WalkInv, OneVersion, Ahead, WalkComplete

LEMMA WalkGoesOn ==
    ASSUME WalkInv, [ListNext]_listVars
    PROVE  WalkInv'
<1>1. CASE StartWalk
  BY <1>1, StartKeeps
<1>2. CASE ListTurnsRows
  BY <1>2, RowsKeep
<1>3. CASE ListTurnsCount
  BY <1>3, CountKeeps
<1>4. CASE SaveSession
  BY <1>4, SaveKeeps
<1>5. CASE DeleteSession
  BY <1>5, DeleteKeeps
<1>6. CASE UNCHANGED listVars
  <2>1. stored' = stored /\ walk' = walk
    BY <1>6 DEF listVars
  <2>2. WalkTypeOK' /\ OneVersion' /\ WalkComplete'
    BY <2>1 DEF WalkInv, WalkTypeOK, OneVersion, WalkComplete, All
  <2>3. Ahead'
    BY <2>1 DEF WalkInv, Ahead, Remaining, Known, Rows
  <2> QED
    BY <2>2, <2>3 DEF WalkInv
<1> QED
  BY <1>1, <1>2, <1>3, <1>4, <1>5, <1>6 DEF ListNext

-----------------------------------------------------------------------------
(* WalkMissesNothing. A client that pages through the turns, newest first, sees every turn   *)
(* there was when it began whose place no growth and no other turn can change, however many   *)
(* transcripts are stored, and stored again, between its reads (ListTurnsFiltered, makePage).   *)
THEOREM WalkMissesNothing == ListSpec => []WalkComplete
<1>1. ListInit => WalkInv
  BY WalkStarts
<1>2. WalkInv /\ [ListNext]_listVars => WalkInv'
  BY WalkGoesOn
<1>3. WalkInv => WalkComplete
  BY DEF WalkInv
<1> QED
  BY <1>1, <1>2, <1>3, PTL DEF ListSpec

-----------------------------------------------------------------------------
(* Counting.  A sum over rows is the number of its units, and what is counted over groups   *)
(* is one count over what is grouped, each in the group of its name.                          *)

(* Numbers have a least one. *)
LEMMA LeastNumber ==
    ASSUME NEW T \in SUBSET Nat, T # {}
    PROVE  \E n \in T : \A m \in T : n <= m
<1> DEFINE less == OpToRel(<, Nat)
<1>1. IsWellFoundedOn(less, Nat)
  BY NatLessThanWellFounded
<1>2. \A m, n \in Nat : <<m, n>> \in less <=> m < n
  BY DEF OpToRel
<1> HIDE DEF less
<1>3. PICK n \in T : \A m \in T : <<m, n>> \notin less
  BY <1>1, WFMin
<1>4. \A m \in T : ~(m < n)
  BY <1>2, <1>3
<1>5. \A m \in T : m \in Int
  OBVIOUS
<1> QED
  BY <1>4, <1>5

(* The units of a weight. *)
LEMMA UnitsOf ==
    ASSUME NEW w, NEW u
    PROVE  u \in Units(w) <=> \E r \in DOMAIN w : \E n \in 1..w[r] : u = <<r, n>>
BY DEF Units

(* What bears a name. *)
Part(S, key, n) == {s \in S : key[s] = n}

(* A finite set is counted by the parts a function divides it into. *)
LEMMA Fibres ==
    ASSUME NEW S, IsFiniteSet(S), NEW R, NEW h \in [S -> R], NEW w, DOMAIN w = R,
           \A r \in R : w[r] = Cardinality(Part(S, h, r))
    PROVE  IsFiniteSet(Units(w)) /\ Cardinality(Units(w)) = Cardinality(S)
<1> DEFINE part(r) == Part(S, h, r)
           g == [r \in R |-> CHOOSE b : b \in Bijection(part(r), 1..w[r])]
           f == [s \in S |-> <<h[s], g[h[s]][s]>>]
<1>1. ASSUME NEW r \in R
      PROVE  g[r] \in Bijection(part(r), 1..w[r])
  <2>1. IsFiniteSet(part(r))
    BY FS_Subset DEF Part
  <2>2. ExistsBijection(1..w[r], part(r))
    BY <2>1, FS_CardinalityType
  <2>3. ExistsBijection(part(r), 1..w[r])
    BY <2>2, Fun_ExistsBijSymmetric
  <2> HIDE DEF part
  <2> QED
    BY <2>3 DEF ExistsBijection
<1> HIDE DEF g
<1>2. \A r \in R : /\ g[r] \in [part(r) -> 1..w[r]]
                   /\ \A s, t \in part(r) : g[r][s] = g[r][t] => s = t
                   /\ \A n \in 1..w[r] : \E s \in part(r) : g[r][s] = n
  <2>1. ASSUME NEW r \in R
        PROVE  /\ g[r] \in [part(r) -> 1..w[r]]
               /\ \A s, t \in part(r) : g[r][s] = g[r][t] => s = t
               /\ \A n \in 1..w[r] : \E s \in part(r) : g[r][s] = n
    <3> HIDE DEF part
    <3> QED
      BY <1>1 DEF Bijection, Injection, Surjection, IsInjective
  <2> QED
    BY <2>1
<1>3. f \in [S -> Units(w)]
  <2>1. ASSUME NEW s \in S
        PROVE  <<h[s], g[h[s]][s]>> \in Units(w)
    <3>1. h[s] \in R /\ s \in part(h[s])
      BY DEF Part
    <3> DEFINE r == h[s]
    <3>a. g[r] \in [part(r) -> 1..w[r]]
      BY <1>2, <3>1
    <3>b. s \in part(r)
      BY <3>1
    <3> HIDE DEF part
    <3>2. g[r][s] \in 1..w[r]
      BY <3>a, <3>b
    <3> QED
      BY <3>1, <3>2, UnitsOf
  <2> QED
    BY <2>1
<1>4. \A s, t \in S : f[s] = f[t] => s = t
  <2>1. ASSUME NEW s \in S, NEW t \in S, f[s] = f[t]
        PROVE  s = t
    <3>1. h[s] = h[t] /\ g[h[s]][s] = g[h[t]][t]
      BY <2>1
    <3>2. h[s] \in R /\ s \in part(h[s]) /\ t \in part(h[s])
      BY <3>1 DEF Part
    <3>3. g[h[s]][s] = g[h[s]][t]
      BY <3>1
    <3> HIDE DEF part
    <3> QED
      BY <1>2, <3>2, <3>3
  <2> QED
    BY <2>1
<1>5. \A u \in Units(w) : \E s \in S : f[s] = u
  <2>1. ASSUME NEW u \in Units(w)
        PROVE  \E s \in S : f[s] = u
    <3>1. PICK r \in R : \E n \in 1..w[r] : u = <<r, n>>
      BY UnitsOf
    <3>2. PICK n \in 1..w[r] : u = <<r, n>>
      BY <3>1
    <3>3. PICK s \in part(r) : g[r][s] = n
      BY <1>2
    <3>4. s \in S /\ h[s] = r
      BY DEF Part
    <3> QED
      BY <3>2, <3>3, <3>4
  <2> QED
    BY <2>1
<1> HIDE DEF f
<1>6. f \in Bijection(S, Units(w))
  BY <1>3, <1>4, <1>5 DEF Bijection, Injection, Surjection, IsInjective
<1> QED
  BY <1>6, FS_Bijection DEF ExistsBijection

(* What is listed bears the names of rows, and a name is that of one row. *)
Lists(R, name, S, key) ==
    /\ \A r, q \in R : name[r] = name[q] => r = q
    /\ \A s \in S : \E r \in R : name[r] = key[s]

(* Rows that differ by their names count what bears the names. *)
LEMMA Grouped ==
    ASSUME NEW S, IsFiniteSet(S), NEW key, NEW R, NEW name, Lists(R, name, S, key), NEW w, DOMAIN w = R,
           \A r \in R : w[r] = Cardinality(Part(S, key, name[r]))
    PROVE  IsFiniteSet(Units(w)) /\ Cardinality(Units(w)) = Cardinality(S)
<1> DEFINE h == [s \in S |-> CHOOSE r \in R : name[r] = key[s]]
<1>0. \A r, q \in R : name[r] = name[q] => r = q
  BY DEF Lists
<1>1. \A s \in S : h[s] \in R /\ name[h[s]] = key[s]
  BY DEF Lists
<1>2. h \in [S -> R]
  BY <1>1
<1> HIDE DEF h
<1>3. \A r \in R : Part(S, h, r) = Part(S, key, name[r])
  BY <1>0, <1>1 DEF Part
<1>4. \A r \in R : w[r] = Cardinality(Part(S, h, r))
  BY <1>3
<1> QED
  BY <1>2, <1>4, Fibres

(* Finitely many rows of finite weights have finitely many units. *)
LEMMA UnitsFinite ==
    ASSUME NEW S, IsFiniteSet(S), NEW w \in [S -> Nat]
    PROVE  IsFiniteSet(Units(w)) /\ Cardinality(Units(w)) \in Nat
<1> DEFINE of == [s \in S |-> {<<s, n>> : n \in 1..w[s]}]
           parts == {of[s] : s \in S}
<1>1. IsFiniteSet(parts)
  <2>1. of \in Surjection(S, parts)
    BY DEF Surjection
  <2> HIDE DEF of, parts
  <2> QED
    BY <2>1, FS_Surjection
<1>2. \A p \in parts : IsFiniteSet(p)
  <2>1. ASSUME NEW s \in S
        PROVE  IsFiniteSet(of[s])
    <3> DEFINE g == [n \in 1..w[s] |-> <<s, n>>]
    <3>1. g \in Surjection(1..w[s], of[s])
      BY DEF Surjection
    <3>2. IsFiniteSet(1..w[s])
      BY FS_Interval
    <3> HIDE DEF g, of
    <3> QED
      BY <3>1, <3>2, FS_Surjection
  <2> HIDE DEF of
  <2> QED
    BY <2>1
<1>3. Units(w) = UNION parts
  BY DEF Units
<1> HIDE DEF of, parts
<1>4. IsFiniteSet(Units(w))
  BY <1>1, <1>2, <1>3, FS_UNION
<1> QED
  BY <1>4, FS_CardinalityType

(* And rows that differ by their names sum what bears the names. *)
LEMMA GroupedSum ==
    ASSUME NEW S, IsFiniteSet(S), NEW v \in [S -> Nat], NEW key, NEW R, NEW name,
           Lists(R, name, S, key), NEW w, DOMAIN w = R,
           \A r \in R : w[r] = Cardinality(Units([s \in Part(S, key, name[r]) |-> v[s]]))
    PROVE  IsFiniteSet(Units(w)) /\ Cardinality(Units(w)) = Cardinality(Units(v))
<1> DEFINE U == Units(v)
           k == [u \in U |-> key[u[1]]]
<1>1. \A u \in U : u[1] \in S /\ u[2] \in 1..v[u[1]] /\ u = <<u[1], u[2]>>
  BY UnitsOf
<1>3. Lists(R, name, U, k)
  BY <1>1 DEF Lists
<1>4. ASSUME NEW r \in R
      PROVE  w[r] = Cardinality(Part(U, k, name[r]))
  <2> DEFINE part == Part(S, key, name[r])
             vp == [s \in part |-> v[s]]
  <2>1. Units(vp) \subseteq {u \in U : k[u] = name[r]}
    <3>1. ASSUME NEW u \in Units(vp)
          PROVE  u \in U /\ k[u] = name[r]
      <4>1. PICK s \in part : \E n \in 1..vp[s] : u = <<s, n>>
        BY UnitsOf
      <4>a. s \in S /\ key[s] = name[r]
        BY DEF Part
      <4>2. PICK n \in 1..v[s] : u = <<s, n>>
        BY <4>1
      <4>3. u \in U
        BY <4>2, <4>a, UnitsOf
      <4> QED
        BY <4>2, <4>3, <4>a
    <3> QED
      BY <3>1
  <2>2. ASSUME NEW u \in U, k[u] = name[r]
        PROVE  u \in Units(vp)
    <3>1. u[1] \in part /\ u[2] \in 1..vp[u[1]]
      BY <1>1, <2>2 DEF Part
    <3> HIDE DEF vp, part
    <3>2. DOMAIN vp = part
      BY DEF vp
    <3> QED
      BY <1>1, <3>1, <3>2, UnitsOf
  <2>3. Units(vp) = Part(U, k, name[r])
    BY <2>1, <2>2 DEF Part
  <2> QED
    BY <2>3
<1>5. IsFiniteSet(U)
  BY UnitsFinite
<1> HIDE DEF U, k
<1>7. \A r \in R : w[r] = Cardinality(Part(U, k, name[r]))
  BY <1>4
<1>6. IsFiniteSet(Units(w)) /\ Cardinality(Units(w)) = Cardinality(U)
  BY <1>3, <1>5, <1>7, Grouped
<1> QED
  BY <1>6 DEF U

(* A list is a sequence. *)
LEMMA Listed ==
    ASSUME NEW s, IsList(s)
    PROVE  Len(s) \in Nat /\ DOMAIN s = 1..Len(s)
<1> DEFINE R == Range(s)
<1>1. s \in Seq(R)
  BY DEF IsList
<1> HIDE DEF R
<1> QED
  BY <1>1

(* The fields of a session's row. *)
LEMMA SessionFields ==
    ASSUME NEW x \in All
    PROVE  /\ SessionAt(x).id = Transcripts[x].session.id
           /\ SessionAt(x).project = Transcripts[x].session.project
           /\ SessionAt(x).source = Transcripts[x].session.source
           /\ SessionAt(x).external = Transcripts[x].session.external
           /\ SessionAt(x).subagent = Transcripts[x].session.subagent
           /\ SessionAt(x).subagent \in BOOLEAN
           /\ SessionAt(x).turns = Len(Transcripts[x].turns)
           /\ SessionAt(x).turns \in Nat
           /\ DOMAIN Transcripts[x].turns = 1..SessionAt(x).turns
<1> DEFINE s == Transcripts[x].session
           turns == Transcripts[x].turns
<1>1. /\ {"id", "source", "project", "external", "subagent"} \subseteq DOMAIN s
      /\ s.subagent \in BOOLEAN /\ IsList(turns)
  BY RowAssumption DEF All
<1>2. Len(turns) \in Nat /\ DOMAIN turns = 1..Len(turns)
  BY <1>1, Listed
<1> HIDE DEF s, turns
<1>3. SessionAt(x) = RowOf([turns |-> Len(turns)], s)
  BY DEF SessionAt, s, turns
<1>4. /\ SessionAt(x).id = s.id /\ SessionAt(x).project = s.project /\ SessionAt(x).source = s.source
      /\ SessionAt(x).external = s.external /\ SessionAt(x).subagent = s.subagent
      /\ SessionAt(x).turns = Len(turns)
  BY <1>1, <1>3 DEF RowOf
<1> QED
  BY <1>1, <1>2, <1>4 DEF s, turns

(* The fields of a turn's row. *)
LEMMA TurnFields ==
    ASSUME NEW x \in All, NEW i \in DOMAIN Transcripts[x].turns
    PROVE  LET t == TurnRow(x, i)
               turn == Transcripts[x].turns[i]
           IN /\ t.id = <<Transcripts[x].session.id, i>> /\ t.index = i
              /\ t.session = SessionAt(x) /\ t.subagent = t.session.subagent
              /\ t.calls = turn.calls /\ t.invocations = turn.invocations /\ t.tokens = turn.tokens
              /\ t.project = t.session.project /\ t.status = turn.status
              /\ ActivityTime(t) = ActivityTime(turn) /\ ActivityTime(t) \in Nat
<1> DEFINE t == TurnRow(x, i)
           turn == Transcripts[x].turns[i]
           s == Transcripts[x].session
<1>1. /\ {"status", "calls", "invocations", "tokens"} \subseteq DOMAIN turn
      /\ {"started", "ended"} \subseteq DOMAIN turn /\ turn.started \in Nat /\ turn.ended \in Nat
  BY RowAssumption, ListAssumption DEF All
<1>2. s.subagent = SessionAt(x).subagent
  BY SessionFields
<1> DEFINE own == [id |-> <<s.id, i>>, session |-> SessionAt(x), index |-> i,
                   project |-> s.project, subagent |-> s.subagent]
<1>3. t = RowOf(own, turn)
  BY DEF TurnRow
<1>4. own.id = <<s.id, i>> /\ own.session = SessionAt(x) /\ own.index = i /\ own.subagent = s.subagent
  OBVIOUS
<1>5. DOMAIN own = {"id", "session", "index", "project", "subagent"} /\ own.project = SessionAt(x).project
  BY SessionFields
<1> HIDE DEF t, turn, own
<1>6. t.id = own.id /\ t.session = own.session /\ t.index = own.index /\ t.subagent = own.subagent
  BY <1>3, <1>5 DEF RowOf
<1>7. /\ t.calls = turn.calls /\ t.invocations = turn.invocations /\ t.tokens = turn.tokens
      /\ t.project = t.session.project /\ t.status = turn.status
      /\ t.started = turn.started /\ t.ended = turn.ended
  <2>1. t.project = own.project
    BY <1>3, <1>5 DEF RowOf
  <2>2. /\ t.calls = turn.calls /\ t.invocations = turn.invocations /\ t.tokens = turn.tokens
        /\ t.status = turn.status /\ t.started = turn.started /\ t.ended = turn.ended
    BY <1>1, <1>3, <1>5 DEF RowOf
  <2> QED
    BY <1>4, <1>5, <1>6, <2>1, <2>2
<1>8. ActivityTime(t) = ActivityTime(turn) /\ ActivityTime(t) \in Nat
  BY <1>1, <1>7 DEF ActivityTime, FirstTime
<1> QED
  BY <1>2, <1>4, <1>6, <1>7, <1>8 DEF t, turn

(* A row comes from a transcript. *)
LEMMA TurnFrom ==
    ASSUME NEW db \in SUBSET All, NEW t
    PROVE  t \in Turns(db) <=> \E x \in db : \E i \in DOMAIN Transcripts[x].turns : t = TurnRow(x, i)
BY DEF Turns

(* What is listed of a turn. *)
InputOf(v) == v.tokens.input
LEMMA TurnTyped ==
    ASSUME NEW t \in Turns(All)
    PROVE  /\ t.subagent = t.session.subagent /\ t.subagent \in BOOLEAN /\ ActivityTime(t) \in Nat
           /\ Size(t) \in Nat /\ DOMAIN t.calls = 1..Size(t)
           /\ Len(t.invocations) \in Nat /\ DOMAIN t.invocations = 1..Len(t.invocations)
           /\ Input(t) \in Nat
           /\ \A k \in DOMAIN t.calls : {"name", "status"} \subseteq DOMAIN t.calls[k]
           /\ \A k \in DOMAIN t.invocations :
                 "tokens" \in DOMAIN t.invocations[k] /\ t.invocations[k].tokens.input \in Nat
           /\ Cardinality(Units([k \in DOMAIN t.invocations |-> t.invocations[k].tokens.input])) <= Input(t)
<1>1. PICK x \in All : \E i \in DOMAIN Transcripts[x].turns : t = TurnRow(x, i)
  BY TurnFrom
<1>2. PICK i \in DOMAIN Transcripts[x].turns : t = TurnRow(x, i)
  BY <1>1
<1> DEFINE turn == Transcripts[x].turns[i]
           spent == [k \in DOMAIN turn.invocations |-> turn.invocations[k].tokens.input]
<1>3. /\ t.subagent = t.session.subagent /\ t.subagent \in BOOLEAN /\ ActivityTime(t) \in Nat
      /\ t.calls = turn.calls /\ t.invocations = turn.invocations /\ t.tokens = turn.tokens
  BY <1>2, TurnFields, SessionFields
<1>4. /\ IsList(turn.calls) /\ IsList(turn.invocations) /\ turn.tokens.input \in Nat
      /\ \A k \in DOMAIN turn.calls : {"name", "status"} \subseteq DOMAIN turn.calls[k]
      /\ \A k \in DOMAIN turn.invocations :
            "tokens" \in DOMAIN turn.invocations[k] /\ turn.invocations[k].tokens.input \in Nat
      /\ Cardinality(Units(spent)) <= turn.tokens.input
  BY RowAssumption DEF All, Total
<1>5. /\ Len(turn.calls) \in Nat /\ DOMAIN turn.calls = 1..Len(turn.calls)
      /\ Len(turn.invocations) \in Nat /\ DOMAIN turn.invocations = 1..Len(turn.invocations)
  BY <1>4, Listed
<1> HIDE DEF turn
<1> QED
  BY <1>3, <1>4, <1>5 DEF Size, Input

LEMMA TurnsFinite ==
    ASSUME NEW db \in SUBSET All, NEW f
    PROVE  /\ Turns(db) \subseteq Turns(All) /\ IsFiniteSet(Turns(db))
           /\ TurnWhere(db, f) \subseteq Turns(db) /\ IsFiniteSet(TurnWhere(db, f))
<1>1. Turns(db) \subseteq Turns(All)
  BY TurnFrom
<1>2. TurnWhere(db, f) \subseteq Turns(db)
  BY DEF TurnWhere
<1> QED
  BY <1>1, <1>2, GrownAssumption, FS_Subset DEF All

(* The filter is the same over a turn and joined with it. *)
LEMMA JoinedTurns ==
    ASSUME NEW db \in SUBSET All, NEW f, NEW t \in Turns(db), NEW other
    PROVE  JoinedTurnWhere(other, f, t, ActivityTime(t)) <=> t \in TurnWhere(db, f)
<1>1. t.subagent = t.session.subagent
  BY TurnsFinite, TurnTyped
<1> QED
  BY <1>1 DEF JoinedTurnWhere, TurnWhere, SubagentExclude

(* Without a window the time of the listed row is any. *)
LEMMA JoinedAnytime ==
    ASSUME NEW db \in SUBSET All, NEW f, ~Windowed(f), NEW t \in Turns(db), NEW other, NEW time
    PROVE  JoinedTurnWhere(other, f, t, time) <=> t \in TurnWhere(db, f)
<1>1. JoinedTurnWhere(other, f, t, time) <=> JoinedTurnWhere(other, f, t, ActivityTime(t))
  BY DEF JoinedTurnWhere, InWindow, Windowed
<1> QED
  BY <1>1, JoinedTurns

-----------------------------------------------------------------------------
(* Rows of a turn *)

(* The rows that come of units are as many. *)
LEMMA Children ==
    ASSUME NEW S, IsFiniteSet(S), NEW v \in [S -> Nat], NEW C, NEW row,
           \A u \in Units(v) : row[u] \in C,
           \A c \in C : \E u \in Units(v) : row[u] = c,
           \A a, b \in Units(v) : row[a] = row[b] => a = b
    PROVE  IsFiniteSet(C) /\ Cardinality(C) = Cardinality(Units(v))
<1> DEFINE U == Units(v)
           g == [u \in U |-> row[u]]
<1>1. IsFiniteSet(U)
  BY UnitsFinite
<1>2. g \in Bijection(U, C)
  <2>1. g \in [U -> C] /\ \A a, b \in U : g[a] = g[b] => a = b
    OBVIOUS
  <2>2. \A c \in C : \E u \in U : g[u] = c
    OBVIOUS
  <2> HIDE DEF g, U
  <2> QED
    BY <2>1, <2>2 DEF Bijection, Injection, Surjection, IsInjective
<1> HIDE DEF g
<1> QED
  BY <1>1, <1>2, FS_Bijection DEF ExistsBijection

(* The calls and the invocations of some turns. *)
CallsIn(T) == UNION {{CallRow(t, k) : k \in DOMAIN t.calls} : t \in T}
InvocationsIn(T) == UNION {{InvocationRow(t, k) : k \in DOMAIN t.invocations} : t \in T}
Steps(t) == Len(t.invocations)

LEMMA CallFields ==
    ASSUME NEW t \in Turns(All), NEW k \in DOMAIN t.calls
    PROVE  LET c == CallRow(t, k)
           IN /\ c.turn = t /\ c.index = k /\ c.kind = ClassifyToolKind(t.calls[k].name)
              /\ c.name = t.calls[k].name /\ c.status = t.calls[k].status
<1>1. {"name", "status"} \subseteq DOMAIN t.calls[k]
  BY TurnTyped
<1> DEFINE own == [turn |-> t, index |-> k, kind |-> ClassifyToolKind(t.calls[k].name)]
           call == t.calls[k]
           c == CallRow(t, k)
<1>2. /\ DOMAIN own = {"turn", "index", "kind"}
      /\ own.turn = t /\ own.index = k /\ own.kind = ClassifyToolKind(t.calls[k].name)
  OBVIOUS
<1>3. c = RowOf(own, call)
  BY DEF CallRow
<1> HIDE DEF own, call, c
<1>4. c.turn = own.turn /\ c.index = own.index /\ c.kind = own.kind
  BY <1>2, <1>3 DEF RowOf
<1>5. c.name = call.name /\ c.status = call.status
  BY <1>1, <1>2, <1>3 DEF RowOf, call
<1> QED
  BY <1>2, <1>4, <1>5 DEF c, call

LEMMA InvocationFields ==
    ASSUME NEW t \in Turns(All), NEW k \in DOMAIN t.invocations
    PROVE  LET v == InvocationRow(t, k)
           IN v.turn = t /\ v.index = k /\ v.tokens = t.invocations[k].tokens
<1>1. "tokens" \in DOMAIN t.invocations[k]
  BY TurnTyped
<1> DEFINE own == [turn |-> t, index |-> k]
           step == t.invocations[k]
           v == InvocationRow(t, k)
<1>2. DOMAIN own = {"turn", "index"} /\ own.turn = t /\ own.index = k
  OBVIOUS
<1>3. v = RowOf(own, step)
  BY DEF InvocationRow
<1> HIDE DEF own, step, v
<1>4. v.turn = own.turn /\ v.index = own.index
  BY <1>2, <1>3 DEF RowOf
<1>5. v.tokens = step.tokens
  BY <1>1, <1>2, <1>3 DEF RowOf, step
<1> QED
  BY <1>2, <1>4, <1>5 DEF v, step

(* There are as many calls as the turns count. *)
LEMMA CallsCounted ==
    ASSUME NEW T \in SUBSET Turns(All)
    PROVE  IsFiniteSet(CallsIn(T)) /\ Cardinality(CallsIn(T)) = Total(Size, T)
<1> DEFINE v == [t \in T |-> Size(t)]
           U == Units(v)
           row == [u \in U |-> CallRow(u[1], u[2])]
           C == CallsIn(T)
<1>1. IsFiniteSet(T)
  BY GrownAssumption, FS_Subset DEF All
<1>2. \A t \in T : Size(t) \in Nat /\ DOMAIN t.calls = 1..Size(t)
  BY TurnTyped
<1>3. v \in [T -> Nat]
  BY <1>2
<1>4. ASSUME NEW u \in U
      PROVE  /\ u[1] \in T /\ u[2] \in DOMAIN u[1].calls /\ u = <<u[1], u[2]>>
             /\ row[u].turn = u[1] /\ row[u].index = u[2] /\ row[u] \in C
  <2>1. PICK t \in T : \E n \in 1..v[t] : u = <<t, n>>
    BY UnitsOf
  <2>2. PICK n \in 1..v[t] : u = <<t, n>>
    BY <2>1
  <2>3. n \in DOMAIN t.calls
    BY <1>2
  <2>4. row[u] = CallRow(t, n)
    BY <2>2
  <2>5. CallRow(t, n) \in C
    BY <2>3 DEF CallsIn
  <2>6. CallRow(t, n).turn = t /\ CallRow(t, n).index = n
    BY <2>3, CallFields
  <2> HIDE DEF row, C, U, v
  <2> QED
    BY <2>2, <2>3, <2>4, <2>5, <2>6
<1>5. ASSUME NEW c \in C
      PROVE  \E u \in U : row[u] = c
  <2>1. PICK t \in T : \E n \in DOMAIN t.calls : c = CallRow(t, n)
    BY DEF CallsIn
  <2>2. PICK n \in DOMAIN t.calls : c = CallRow(t, n)
    BY <2>1
  <2>3. <<t, n>> \in U
    BY <1>2, UnitsOf
  <2> QED
    BY <2>2, <2>3
<1>6. \A a, b \in U : row[a] = row[b] => a = b
  <2> HIDE DEF row, C, U, v
  <2> QED
    BY <1>4
<1> HIDE DEF row, C
<1>7. IsFiniteSet(C) /\ Cardinality(C) = Cardinality(Units(v))
  <2>1. \A u \in Units(v) : row[u] \in C
    BY <1>4
  <2>2. \A c \in C : \E u \in Units(v) : row[u] = c
    BY <1>5
  <2>3. \A a, b \in Units(v) : row[a] = row[b] => a = b
    BY <1>6
  <2> HIDE DEF v, U
  <2> QED
    BY <1>1, <1>3, <2>1, <2>2, <2>3, Children
<1> QED
  BY <1>7 DEF Total, C

LEMMA InvocationsCounted ==
    ASSUME NEW T \in SUBSET Turns(All)
    PROVE  IsFiniteSet(InvocationsIn(T)) /\ Cardinality(InvocationsIn(T)) = Total(Steps, T)
<1> DEFINE v == [t \in T |-> Steps(t)]
           U == Units(v)
           row == [u \in U |-> InvocationRow(u[1], u[2])]
           C == InvocationsIn(T)
<1>1. IsFiniteSet(T)
  BY GrownAssumption, FS_Subset DEF All
<1>2. \A t \in T : Steps(t) \in Nat /\ DOMAIN t.invocations = 1..Steps(t)
  BY TurnTyped DEF Steps
<1>3. v \in [T -> Nat]
  BY <1>2
<1>4. ASSUME NEW u \in U
      PROVE  /\ u[1] \in T /\ u[2] \in DOMAIN u[1].invocations /\ u = <<u[1], u[2]>>
             /\ row[u].turn = u[1] /\ row[u].index = u[2] /\ row[u] \in C
  <2>1. PICK t \in T : \E n \in 1..v[t] : u = <<t, n>>
    BY UnitsOf
  <2>2. PICK n \in 1..v[t] : u = <<t, n>>
    BY <2>1
  <2>3. n \in DOMAIN t.invocations
    BY <1>2
  <2>4. row[u] = InvocationRow(t, n)
    BY <2>2
  <2>5. InvocationRow(t, n) \in C
    BY <2>3 DEF InvocationsIn
  <2>6. InvocationRow(t, n).turn = t /\ InvocationRow(t, n).index = n
    BY <2>3, InvocationFields
  <2> HIDE DEF row, C, U, v
  <2> QED
    BY <2>2, <2>3, <2>4, <2>5, <2>6
<1>5. ASSUME NEW c \in C
      PROVE  \E u \in U : row[u] = c
  <2>1. PICK t \in T : \E n \in DOMAIN t.invocations : c = InvocationRow(t, n)
    BY DEF InvocationsIn
  <2>2. PICK n \in DOMAIN t.invocations : c = InvocationRow(t, n)
    BY <2>1
  <2>3. <<t, n>> \in U
    BY <1>2, UnitsOf
  <2> QED
    BY <2>2, <2>3
<1>6. \A a, b \in U : row[a] = row[b] => a = b
  <2> HIDE DEF row, C, U, v
  <2> QED
    BY <1>4
<1> HIDE DEF row, C
<1>7. IsFiniteSet(C) /\ Cardinality(C) = Cardinality(Units(v))
  <2>1. \A u \in Units(v) : row[u] \in C
    BY <1>4
  <2>2. \A c \in C : \E u \in Units(v) : row[u] = c
    BY <1>5
  <2>3. \A a, b \in Units(v) : row[a] = row[b] => a = b
    BY <1>6
  <2> HIDE DEF v, U
  <2> QED
    BY <1>1, <1>3, <2>1, <2>2, <2>3, Children
<1> QED
  BY <1>7 DEF Total, C

-----------------------------------------------------------------------------
(* The activity *)

BucketOf(t, width) == (ActivityTime(t) \div width) * width
InBucket(T, width, b) == {t \in T : BucketOf(t, width) = b}
BucketRow(T, width, b) ==
    [bucket |-> b, sessions |-> Cardinality({t.session : t \in InBucket(T, width, b)}),
     turns |-> Cardinality(InBucket(T, width, b)), toolCalls |-> Total(Size, InBucket(T, width, b)),
     tokens |-> Total(Input, InBucket(T, width, b))]
SeriesOver(T, width) == {BucketRow(T, width, b) : b \in {BucketOf(t, width) : t \in T}}
Timed(db, f) == {t \in TurnWhere(db, f) : ActivityTime(t) # 0}

LEMMA SeriesRows ==
    ASSUME NEW db \in SUBSET All, NEW f, NEW width
    PROVE  ActivitySeries(db, f, width) = SeriesOver(Timed(db, f), width)
<1> DEFINE T == {t \in Turns(db) : ActivityTime(t) # 0 /\ JoinedTurnWhere(db, f, t, ActivityTime(t))}
<1>1. T = Timed(db, f)
  <2>1. \A t \in Turns(db) : JoinedTurnWhere(db, f, t, ActivityTime(t)) <=> t \in TurnWhere(db, f)
    BY JoinedTurns
  <2>2. TurnWhere(db, f) \subseteq Turns(db)
    BY TurnsFinite
  <2> QED
    BY <2>1, <2>2 DEF Timed
<1>2. ActivitySeries(db, f, width) = SeriesOver(T, width)
  BY DEF ActivitySeries, SeriesOver, BucketRow, InBucket, BucketOf
<1> QED
  BY <1>1, <1>2

(* The buckets count the turns that have a time, and their calls. *)
LEMMA SeriesCounts ==
    ASSUME NEW T \in SUBSET Turns(All), NEW width
    PROVE  /\ Total(TurnCount, SeriesOver(T, width)) = Cardinality(T)
           /\ Total(ToolCallCount, SeriesOver(T, width)) = Total(Size, T)
<1> DEFINE R == SeriesOver(T, width)
           name == [r \in R |-> r.bucket]
           key == [t \in T |-> BucketOf(t, width)]
           turns == [r \in R |-> TurnCount(r)]
           calls == [r \in R |-> ToolCallCount(r)]
           v == [t \in T |-> Size(t)]
<1>1. IsFiniteSet(T)
  BY GrownAssumption, FS_Subset DEF All
<1>2. v \in [T -> Nat]
  BY TurnTyped
<1>3. ASSUME NEW r \in R
      PROVE  \E t \in T : r = BucketRow(T, width, BucketOf(t, width))
  BY DEF SeriesOver
<1>4. ASSUME NEW b
      PROVE  /\ BucketRow(T, width, b).bucket = b /\ InBucket(T, width, b) = Part(T, key, b)
             /\ BucketRow(T, width, b).turns = Cardinality(InBucket(T, width, b))
             /\ BucketRow(T, width, b).toolCalls = Total(Size, InBucket(T, width, b))
  BY DEF BucketRow, InBucket, Part
<1>5. \A t \in T : BucketRow(T, width, BucketOf(t, width)) \in R
  BY DEF SeriesOver
<1>6. ASSUME NEW r \in R
      PROVE  /\ r = BucketRow(T, width, name[r])
             /\ turns[r] = Cardinality(Part(T, key, name[r]))
             /\ calls[r] = Cardinality(Units([t \in Part(T, key, name[r]) |-> v[t]]))
  <2>1. PICK t \in T : r = BucketRow(T, width, BucketOf(t, width))
    BY <1>3
  <2> DEFINE b == BucketOf(t, width)
             P == Part(T, key, b)
  <2>2. r.bucket = b /\ r.turns = Cardinality(P) /\ r.toolCalls = Total(Size, P)
    BY <2>1, <1>4
  <2>3. name[r] = b /\ turns[r] = r.turns /\ calls[r] = r.toolCalls
    BY <2>2 DEF TurnCount, ToolCallCount
  <2>4. Total(Size, P) = Cardinality(Units([t_1 \in P |-> v[t_1]]))
    <3>1. P \subseteq T
      BY DEF Part
    <3>2. [t_1 \in P |-> Size(t_1)] = [t_1 \in P |-> v[t_1]]
      BY <3>1
    <3> QED
      BY <3>2 DEF Total
  <2> HIDE DEF name, turns, calls, v, P
  <2> QED
    BY <2>1, <2>2, <2>3, <2>4 DEF P
<1>7. Lists(R, name, T, key)
  <2>1. \A r, q \in R : name[r] = name[q] => r = q
    <3> HIDE DEF name, R
    <3> QED
      BY <1>6
  <2>2. ASSUME NEW t \in T
        PROVE  \E r \in R : name[r] = key[t]
    <3> DEFINE r == BucketRow(T, width, BucketOf(t, width))
    <3>1. r \in R /\ r.bucket = key[t]
      BY <1>4, <1>5
    <3> HIDE DEF r, R
    <3> QED
      BY <3>1
  <2> HIDE DEF name, key, R
  <2> QED
    BY <2>1, <2>2 DEF Lists
<1>8. Total(TurnCount, R) = Cardinality(Units(turns)) /\ Total(ToolCallCount, R) = Cardinality(Units(calls))
  BY DEF Total
<1>9. Total(Size, T) = Cardinality(Units(v))
  BY DEF Total
<1>a. DOMAIN turns = R /\ DOMAIN calls = R
  OBVIOUS
<1> HIDE DEF R, name, key, turns, calls, v
<1>b. Cardinality(Units(turns)) = Cardinality(T)
  <2>1. \A r \in R : turns[r] = Cardinality(Part(T, key, name[r]))
    BY <1>6
  <2> QED
    BY <1>1, <1>7, <1>a, <2>1, Grouped
<1>c. Cardinality(Units(calls)) = Cardinality(Units(v))
  <2>1. \A r \in R : calls[r] = Cardinality(Units([t \in Part(T, key, name[r]) |-> v[t]]))
    BY <1>6
  <2> QED
    BY <1>1, <1>2, <1>7, <1>a, <2>1, GroupedSum
<1> QED
  BY <1>8, <1>9, <1>b, <1>c DEF R

(* A sum over two halves. *)
LEMMA TotalOfHalves ==
    ASSUME NEW T, IsFiniteSet(T), NEW v \in [T -> Nat], NEW A, NEW B, T = A \cup B, A \cap B = {}
    PROVE  /\ Cardinality(T) = Cardinality(A) + Cardinality(B)
           /\ Cardinality(Units(v)) =
                 Cardinality(Units([t \in A |-> v[t]])) + Cardinality(Units([t \in B |-> v[t]]))
<1> DEFINE va == [t \in A |-> v[t]]
           vb == [t \in B |-> v[t]]
<1>1. IsFiniteSet(A) /\ IsFiniteSet(B)
  BY FS_Subset
<1>2. va \in [A -> Nat] /\ vb \in [B -> Nat]
  OBVIOUS
<1>3. Units(v) = Units(va) \cup Units(vb)
  <2>1. \A u : u \in Units(v) <=> u \in Units(va) \/ u \in Units(vb)
    <3>1. /\ DOMAIN v = T /\ DOMAIN va = A /\ DOMAIN vb = B
          /\ \A t \in A : va[t] = v[t]
          /\ \A t \in B : vb[t] = v[t]
      OBVIOUS
    <3> HIDE DEF va, vb
    <3> QED
      BY <3>1, UnitsOf
  <2> QED
    BY <2>1
<1>4. Units(va) \cap Units(vb) = {}
  <2>1. ASSUME NEW u \in Units(va), u \in Units(vb)
        PROVE  FALSE
    <3>1. PICK a \in A : \E n \in 1..va[a] : u = <<a, n>>
      BY UnitsOf
    <3>2. PICK b \in B : \E n \in 1..vb[b] : u = <<b, n>>
      BY <2>1, UnitsOf
    <3>3. a = b
      BY <3>1, <3>2
    <3> QED
      BY <3>3
  <2> QED
    BY <2>1
<1>5. /\ IsFiniteSet(Units(va)) /\ Cardinality(Units(va)) \in Nat
      /\ IsFiniteSet(Units(vb)) /\ Cardinality(Units(vb)) \in Nat
  <2> HIDE DEF va, vb
  <2> QED
    BY <1>1, <1>2, UnitsFinite
<1>6. Cardinality({}) = 0 /\ Cardinality(A) \in Nat /\ Cardinality(B) \in Nat
  BY <1>1, FS_EmptySet, FS_CardinalityType
<1> HIDE DEF va, vb
<1>7. Cardinality(Units(v)) = Cardinality(Units(va)) + Cardinality(Units(vb))
  <2> DEFINE X == Units(va)
             Y == Units(vb)
  <2>1. IsFiniteSet(X) /\ IsFiniteSet(Y) /\ X \cap Y = {} /\ Units(v) = X \cup Y
        /\ Cardinality(X) \in Nat /\ Cardinality(Y) \in Nat
    BY <1>3, <1>4, <1>5
  <2> HIDE DEF X, Y
  <2>2. Cardinality(X \cup Y) = Cardinality(X) + Cardinality(Y) - Cardinality(X \cap Y)
    BY <2>1, FS_Union
  <2>3. Cardinality(X \cap Y) = 0
    BY <1>6, <2>1
  <2>4. Cardinality(Units(v)) = Cardinality(X) + Cardinality(Y)
    BY <2>1, <2>2, <2>3
  <2> QED
    BY <2>4 DEF X, Y
<1>8. Cardinality(T) = Cardinality(A) + Cardinality(B)
  BY <1>1, <1>6, FS_Union
<1> QED
  BY <1>7, <1>8 DEF va, vb

(* The activity and the turns without a time are the summary's turns and calls. *)
LEMMA ActivityAdds ==
    ASSUME stored \in SUBSET All, NEW f, NEW width
    PROVE  ActivityAddsUp(f, width)
<1> DEFINE T == TurnWhere(stored, f)
           A == Timed(stored, f)
           B == Timeless(f)
           v == [t \in T |-> Size(t)]
           activity == ActivitySeries(stored, f, width)
<1>1. T \subseteq Turns(All) /\ IsFiniteSet(T) /\ A \subseteq T /\ B \subseteq T
  BY TurnsFinite DEF Timed, Timeless
<1>2. T = A \cup B /\ A \cap B = {}
  BY DEF Timed, Timeless
<1>3. v \in [T -> Nat]
  BY <1>1, TurnTyped
<1>4. activity = SeriesOver(A, width)
  BY SeriesRows
<1>5. Total(TurnCount, activity) = Cardinality(A) /\ Total(ToolCallCount, activity) = Total(Size, A)
  BY <1>1, <1>4, SeriesCounts
<1>6. /\ Total(Size, T) = Cardinality(Units(v))
      /\ Total(Size, A) = Cardinality(Units([t \in A |-> v[t]]))
      /\ Total(Size, B) = Cardinality(Units([t \in B |-> v[t]]))
  <2>1. [t \in A |-> Size(t)] = [t \in A |-> v[t]] /\ [t \in B |-> Size(t)] = [t \in B |-> v[t]]
    BY <1>1
  <2> QED
    BY <2>1 DEF Total
<1>7. SummaryOf(f).turns = Cardinality(T) /\ SummaryOf(f).toolCalls = Total(Size, T)
  BY DEF SummaryOf, Summary
<1> HIDE DEF v, T, A, B
<1>8. /\ Cardinality(T) = Cardinality(A) + Cardinality(B)
      /\ Cardinality(Units(v)) = Cardinality(Units([t \in A |-> v[t]])) + Cardinality(Units([t \in B |-> v[t]]))
  BY <1>1, <1>2, <1>3, TotalOfHalves
<1> QED
  BY <1>5, <1>6, <1>7, <1>8 DEF ActivityAddsUp, ActivityMatches, B

-----------------------------------------------------------------------------
(* The tools *)

ToolKey(c) == <<c.kind, c.name>>
OfTool(C, k) == {c \in C : ToolKey(c) = k}
ToolRow(C, k) ==
    [key |-> k, calls |-> Cardinality(OfTool(C, k)), turns |-> Cardinality({c.turn : c \in OfTool(C, k)}),
     failed |-> Cardinality({c \in OfTool(C, k) : c.status = "failed"}),
     rejected |-> Cardinality({c \in OfTool(C, k) : c.status = "rejected"})]
ToolsOver(C) == {ToolRow(C, k) : k \in {ToolKey(c) : c \in C}}

LEMMA ToolRows ==
    ASSUME NEW db, NEW f
    PROVE  ListTools(db, f) = ToolsOver(CallRows(db, f))
BY DEF ListTools, ToolsOver, ToolRow, OfTool, ToolKey

(* The calls of a database and of some of its turns. *)
LEMMA CallsOfTurns ==
    ASSUME NEW db \in SUBSET All, NEW f
    PROVE  /\ Calls(db) = CallsIn(Turns(db)) /\ IsFiniteSet(Calls(db))
           /\ CallRows(db, f) \subseteq Calls(db) /\ IsFiniteSet(CallRows(db, f))
           /\ ~Windowed(f) => CallRows(db, f) = CallsIn(TurnWhere(db, f))
<1>1. Calls(db) = CallsIn(Turns(db))
  BY DEF Calls, CallsIn
<1>2. IsFiniteSet(CallsIn(Turns(db)))
  BY TurnsFinite, CallsCounted
<1>3. CallRows(db, f) \subseteq Calls(db)
  BY DEF CallRows
<1>4. IsFiniteSet(CallRows(db, f))
  BY <1>1, <1>2, <1>3, FS_Subset
<1>5. ASSUME ~Windowed(f)
      PROVE  CallRows(db, f) = CallsIn(TurnWhere(db, f))
  <2>1. ASSUME NEW c \in CallRows(db, f)
        PROVE  c \in CallsIn(TurnWhere(db, f))
    <3>1. PICK t \in Turns(db) : \E k \in DOMAIN t.calls : c = CallRow(t, k)
      BY <1>1, <1>3 DEF CallsIn
    <3>2. PICK k \in DOMAIN t.calls : c = CallRow(t, k)
      BY <3>1
    <3>3. c.turn = t
      BY <3>2, CallFields, TurnsFinite
    <3>4. JoinedTurnWhere(db, f, t, c.at)
      BY <3>3 DEF CallRows
    <3>5. t \in TurnWhere(db, f)
      BY <1>5, <3>4, JoinedAnytime
    <3> QED
      BY <3>2, <3>5 DEF CallsIn
  <2>2. ASSUME NEW c \in CallsIn(TurnWhere(db, f))
        PROVE  c \in CallRows(db, f)
    <3>1. PICK t \in TurnWhere(db, f) : \E k \in DOMAIN t.calls : c = CallRow(t, k)
      BY DEF CallsIn
    <3>2. PICK k \in DOMAIN t.calls : c = CallRow(t, k)
      BY <3>1
    <3>3. t \in Turns(db) /\ t \in Turns(All)
      BY TurnsFinite
    <3>4. c.turn = t
      BY <3>2, <3>3, CallFields
    <3>5. JoinedTurnWhere(db, f, t, c.at)
      BY <1>5, <3>3, JoinedAnytime
    <3>6. c \in Calls(db)
      BY <1>1, <3>2, <3>3 DEF CallsIn
    <3> QED
      BY <3>4, <3>5, <3>6 DEF CallRows
  <2> QED
    BY <2>1, <2>2
<1> QED
  BY <1>1, <1>2, <1>3, <1>4, <1>5

LEMMA ToolRowOf ==
    ASSUME NEW C, NEW r \in ToolsOver(C)
    PROVE  \E c \in C : r = ToolRow(C, ToolKey(c)) /\ r.key = ToolKey(c)
<1>1. PICK c \in C : r = ToolRow(C, ToolKey(c))
  BY DEF ToolsOver
<1>2. ToolRow(C, ToolKey(c)).key = ToolKey(c)
  BY DEF ToolRow
<1> QED
  BY <1>1, <1>2

(* The rows of tools count the calls, those of MCP tools the calls of servers. *)
LEMMA ToolCounts ==
    ASSUME NEW C, IsFiniteSet(C)
    PROVE  /\ Total(CallCount, ToolsOver(C)) = Cardinality(C)
           /\ Total(McpCallCount, ToolsOver(C)) = Cardinality({c \in C : c.kind = "mcp"})
<1> DEFINE R == ToolsOver(C)
           M == {c \in C : c.kind = "mcp"}
           name == [r \in R |-> r.key]
           key == [c \in C |-> ToolKey(c)]
           calls == [r \in R |-> CallCount(r)]
           mcp == [r \in R |-> McpCallCount(r)]
<1>1. IsFiniteSet(M)
  BY FS_Subset
<1>2. ASSUME NEW r \in R
      PROVE  /\ r = ToolRow(C, name[r]) /\ calls[r] = Cardinality(Part(C, key, name[r]))
             /\ mcp[r] = Cardinality(Part(M, key, name[r]))
  <2>1. PICK c \in C : r = ToolRow(C, ToolKey(c))
    BY ToolRowOf
  <2> DEFINE k == ToolKey(c)
  <2>2. r.key = k /\ r.calls = Cardinality(OfTool(C, k))
    BY <2>1 DEF ToolRow
  <2>3. name[r] = k /\ calls[r] = r.calls
    BY <2>2 DEF CallCount
  <2>4. OfTool(C, k) = Part(C, key, k)
    BY DEF OfTool, Part
  <2>5. mcp[r] = IF k[1] = "mcp" THEN r.calls ELSE 0
    BY <2>2 DEF McpCallCount
  <2>6. k[1] = c.kind /\ \A d \in C : key[d] = k => d.kind = k[1]
    BY DEF ToolKey
  <2>7. CASE k[1] = "mcp"
    <3>1. Part(M, key, k) = Part(C, key, k)
      BY <2>6, <2>7 DEF Part
    <3> QED
      BY <2>1, <2>2, <2>3, <2>4, <2>5, <2>7, <3>1
  <2>8. CASE k[1] # "mcp"
    <3>1. Part(M, key, k) = {}
      BY <2>6, <2>8 DEF Part
    <3> QED
      BY <2>1, <2>2, <2>3, <2>4, <2>5, <2>8, <3>1, FS_EmptySet
  <2> QED
    BY <2>7, <2>8
<1>3. ASSUME NEW c \in C
      PROVE  \E r \in R : name[r] = key[c]
  <2> DEFINE r == ToolRow(C, ToolKey(c))
  <2>1. r \in R /\ r.key = ToolKey(c)
    BY DEF ToolsOver, ToolRow
  <2> HIDE DEF r, R
  <2> QED
    BY <2>1
<1>4. Lists(R, name, C, key) /\ Lists(R, name, M, key)
  <2>1. \A r, q \in R : name[r] = name[q] => r = q
    <3> HIDE DEF name, R
    <3> QED
      BY <1>2
  <2> HIDE DEF name, key, R
  <2> QED
    BY <1>3, <2>1 DEF Lists
<1>5. Total(CallCount, R) = Cardinality(Units(calls)) /\ Total(McpCallCount, R) = Cardinality(Units(mcp))
  BY DEF Total
<1>6. DOMAIN calls = R /\ DOMAIN mcp = R
  OBVIOUS
<1>7. /\ \A r \in R : calls[r] = Cardinality(Part(C, key, name[r]))
      /\ \A r \in R : mcp[r] = Cardinality(Part(M, key, name[r]))
  <2> HIDE DEF R, name, key, calls, mcp, M
  <2> QED
    BY <1>2
<1> HIDE DEF R, name, key, calls, mcp, M
<1>8. Cardinality(Units(calls)) = Cardinality(C)
  BY <1>4, <1>6, <1>7, Grouped
<1>9. Cardinality(Units(mcp)) = Cardinality(M)
  BY <1>1, <1>4, <1>6, <1>7, Grouped
<1> QED
  BY <1>5, <1>8, <1>9 DEF R, M

(* A row of the tools and the calls it drills down to. *)
LEMMA DrillDowns ==
    ASSUME NEW f
    PROVE  DrillDownsAgree(f)
<1> DEFINE C == CallRows(stored, f)
<1>1. ASSUME NEW t \in ListTools(stored, f)
      PROVE  /\ t.calls = Cardinality(ListToolCalls(stored, f, t.key, {}))
             /\ t.failed = Cardinality(ListToolCalls(stored, f, t.key, {"failed"}))
  <2>1. PICK c \in C : t = ToolRow(C, ToolKey(c))
    BY ToolRows, ToolRowOf
  <2> DEFINE k == ToolKey(c)
  <2>2. /\ t.key = k /\ t.calls = Cardinality(OfTool(C, k))
        /\ t.failed = Cardinality({d \in OfTool(C, k) : d.status = "failed"})
    BY <2>1 DEF ToolRow
  <2>3. \A d : ToolKey(d) = k <=> d.kind = k[1] /\ d.name = k[2]
    BY DEF ToolKey
  <2>4. OfTool(C, k) = ListToolCalls(stored, f, k, {})
    BY <2>3 DEF OfTool, ListToolCalls, Allows
  <2>5. {d \in OfTool(C, k) : d.status = "failed"} = ListToolCalls(stored, f, k, {"failed"})
    BY <2>3 DEF OfTool, ListToolCalls, Allows
  <2> QED
    BY <2>2, <2>4, <2>5
<1> QED
  BY <1>1 DEF DrillDownsAgree

-----------------------------------------------------------------------------
(* The models *)

InvocationRows(db, f) == {v \in Invocations(db) : JoinedTurnWhere(db, f, v.turn, v.at)}
ModelKey(v) == <<v.provider, v.model>>
OfModel(V, m) == {v \in V : ModelKey(v) = m}
ModelRow(V, m) ==
    [key |-> m, calls |-> Cardinality(OfModel(V, m)), turns |-> Cardinality({v.turn : v \in OfModel(V, m)}),
     tokens |-> Total(InputOf, OfModel(V, m))]
ModelsOver(V) == {ModelRow(V, m) : m \in {ModelKey(v) : v \in V}}

LEMMA ModelRows ==
    ASSUME NEW db, NEW f
    PROVE  ListModels(db, f) = ModelsOver(InvocationRows(db, f))
BY DEF ListModels, ModelsOver, ModelRow, ModelKey, OfModel, InvocationRows, Total, InputOf

(* The models count the invocations and their tokens. *)
LEMMA ModelCounts ==
    ASSUME NEW V, IsFiniteSet(V), \A v \in V : v.tokens.input \in Nat
    PROVE  /\ Total(CallCount, ModelsOver(V)) = Cardinality(V)
           /\ Total(TokenCount, ModelsOver(V)) = Cardinality(Units([v \in V |-> v.tokens.input]))
<1> DEFINE R == ModelsOver(V)
           name == [r \in R |-> r.key]
           key == [v \in V |-> ModelKey(v)]
           calls == [r \in R |-> CallCount(r)]
           tokens == [r \in R |-> TokenCount(r)]
           input == [v \in V |-> v.tokens.input]
<1>1. input \in [V -> Nat]
  OBVIOUS
<1>2. ASSUME NEW r \in R
      PROVE  /\ r = ModelRow(V, name[r]) /\ calls[r] = Cardinality(Part(V, key, name[r]))
             /\ tokens[r] = Cardinality(Units([v \in Part(V, key, name[r]) |-> input[v]]))
  <2>1. PICK m \in {ModelKey(v) : v \in V} : r = ModelRow(V, m)
    BY DEF ModelsOver
  <2>2. r.key = m /\ r.calls = Cardinality(OfModel(V, m)) /\ r.tokens = Total(InputOf, OfModel(V, m))
    BY <2>1 DEF ModelRow
  <2>3. name[r] = m /\ calls[r] = r.calls /\ tokens[r] = r.tokens
    BY <2>2 DEF CallCount, TokenCount
  <2>4. OfModel(V, m) = Part(V, key, m)
    BY DEF OfModel, Part
  <2> DEFINE P == Part(V, key, m)
  <2>5. [v \in P |-> InputOf(v)] = [v \in P |-> input[v]]
    BY DEF Part, InputOf
  <2>6. Total(InputOf, P) = Cardinality(Units([v \in P |-> input[v]]))
    BY <2>5 DEF Total
  <2> HIDE DEF P, name, calls, tokens, key, input
  <2> QED
    BY <2>1, <2>2, <2>3, <2>4, <2>6 DEF P
<1>3. ASSUME NEW v \in V
      PROVE  \E r \in R : name[r] = key[v]
  <2> DEFINE r == ModelRow(V, ModelKey(v))
  <2>1. r \in R /\ r.key = ModelKey(v)
    BY DEF ModelsOver, ModelRow
  <2> HIDE DEF r, R
  <2> QED
    BY <2>1
<1>4. Lists(R, name, V, key)
  <2>1. \A r, q \in R : name[r] = name[q] => r = q
    <3> HIDE DEF name, R
    <3> QED
      BY <1>2
  <2> HIDE DEF name, key, R
  <2> QED
    BY <1>3, <2>1 DEF Lists
<1>5. Total(CallCount, R) = Cardinality(Units(calls)) /\ Total(TokenCount, R) = Cardinality(Units(tokens))
  BY DEF Total
<1>6. DOMAIN calls = R /\ DOMAIN tokens = R
  OBVIOUS
<1>7. /\ \A r \in R : calls[r] = Cardinality(Part(V, key, name[r]))
      /\ \A r \in R : tokens[r] = Cardinality(Units([v \in Part(V, key, name[r]) |-> input[v]]))
  <2> HIDE DEF R, name, key, calls, tokens, input
  <2> QED
    BY <1>2
<1> HIDE DEF R, name, key, calls, tokens, input
<1>8. Cardinality(Units(calls)) = Cardinality(V)
  BY <1>4, <1>6, <1>7, Grouped
<1>9. Cardinality(Units(tokens)) = Cardinality(Units(input))
  BY <1>1, <1>4, <1>6, <1>7, GroupedSum
<1> QED
  BY <1>5, <1>8, <1>9 DEF R, input

LEMMA InvocationsOfTurns ==
    ASSUME NEW db \in SUBSET All, NEW f, ~Windowed(f)
    PROVE  InvocationRows(db, f) = InvocationsIn(TurnWhere(db, f))
<1>1. Invocations(db) = InvocationsIn(Turns(db))
  BY DEF Invocations, InvocationsIn
<1>2. ASSUME NEW v \in InvocationRows(db, f)
      PROVE  v \in InvocationsIn(TurnWhere(db, f))
  <2>1. v \in InvocationsIn(Turns(db))
    BY <1>1 DEF InvocationRows
  <2>2. PICK t \in Turns(db) : \E k \in DOMAIN t.invocations : v = InvocationRow(t, k)
    BY <2>1 DEF InvocationsIn
  <2>3. PICK k \in DOMAIN t.invocations : v = InvocationRow(t, k)
    BY <2>2
  <2>4. v.turn = t
    BY <2>3, InvocationFields, TurnsFinite
  <2>5. JoinedTurnWhere(db, f, t, v.at)
    BY <2>4 DEF InvocationRows
  <2>6. t \in TurnWhere(db, f)
    BY <2>5, JoinedAnytime
  <2> QED
    BY <2>3, <2>6 DEF InvocationsIn
<1>3. ASSUME NEW v \in InvocationsIn(TurnWhere(db, f))
      PROVE  v \in InvocationRows(db, f)
  <2>1. PICK t \in TurnWhere(db, f) : \E k \in DOMAIN t.invocations : v = InvocationRow(t, k)
    BY DEF InvocationsIn
  <2>2. PICK k \in DOMAIN t.invocations : v = InvocationRow(t, k)
    BY <2>1
  <2>3. t \in Turns(db) /\ t \in Turns(All)
    BY TurnsFinite
  <2>4. v.turn = t
    BY <2>2, <2>3, InvocationFields
  <2>5. JoinedTurnWhere(db, f, t, v.at)
    BY <2>3, JoinedAnytime
  <2>6. v \in Invocations(db)
    BY <1>1, <2>2, <2>3 DEF InvocationsIn
  <2> QED
    BY <2>4, <2>5, <2>6 DEF InvocationRows
<1> QED
  BY <1>2, <1>3

(* Rows in place of others, each of the same weight, have as many units. *)
LEMMA Renamed ==
    ASSUME NEW S, IsFiniteSet(S), NEW v \in [S -> Nat], NEW C, NEW w, DOMAIN w = C, NEW row,
           \A s \in S : row[s] \in C /\ w[row[s]] = v[s],
           \A c \in C : \E s \in S : row[s] = c,
           \A a, b \in S : row[a] = row[b] => a = b
    PROVE  Cardinality(Units(w)) = Cardinality(Units(v))
<1> DEFINE U == Units(v)
           W == Units(w)
           new == [u \in U |-> <<row[u[1]], u[2]>>]
<1>1. ASSUME NEW u \in U
      PROVE  /\ u[1] \in S /\ u = <<u[1], u[2]>> /\ new[u] = <<row[u[1]], u[2]>> /\ new[u] \in W
  <2>1. PICK s \in S : \E n \in 1..v[s] : u = <<s, n>>
    BY UnitsOf
  <2>2. PICK n \in 1..v[s] : u = <<s, n>>
    BY <2>1
  <2>3. row[s] \in DOMAIN w /\ n \in 1..w[row[s]]
    OBVIOUS
  <2>4. <<row[s], n>> \in W
    BY <2>3, UnitsOf
  <2> QED
    BY <2>2, <2>4
<1>2. ASSUME NEW c \in W
      PROVE  \E u \in U : new[u] = c
  <2>1. PICK r \in C : \E n \in 1..w[r] : c = <<r, n>>
    BY UnitsOf
  <2>2. PICK n \in 1..w[r] : c = <<r, n>>
    BY <2>1
  <2>3. PICK s \in S : row[s] = r
    OBVIOUS
  <2>4. s \in DOMAIN v /\ n \in 1..v[s]
    BY <2>3
  <2>5. <<s, n>> \in U
    BY <2>4, UnitsOf
  <2>6. new[<<s, n>>] = c
    BY <2>2, <2>3, <2>5
  <2> QED
    BY <2>5, <2>6
<1>3. \A a, b \in U : new[a] = new[b] => a = b
  <2>1. ASSUME NEW a \in U, NEW b \in U, new[a] = new[b]
        PROVE  a = b
    <3>1. row[a[1]] = row[b[1]] /\ a[2] = b[2]
      BY <2>1
    <3>2. a[1] \in S /\ b[1] \in S /\ a = <<a[1], a[2]>> /\ b = <<b[1], b[2]>>
      BY <1>1
    <3>3. a[1] = b[1]
      BY <3>1, <3>2
    <3> QED
      BY <3>1, <3>2, <3>3
  <2> QED
    BY <2>1
<1>4. \A u \in U : new[u] \in W
  BY <1>1
<1> HIDE DEF new, W
<1>5. Cardinality(W) = Cardinality(Units(v))
  BY <1>2, <1>3, <1>4, Children
<1> QED
  BY <1>5 DEF W

(* The invocations of some turns have no more tokens than the turns. *)
LEMMA TokensBounded ==
    ASSUME NEW T \in SUBSET Turns(All)
    PROVE  /\ Cardinality(Units([v \in InvocationsIn(T) |-> v.tokens.input])) <= Total(Input, T)
           /\ Cardinality(Units([v \in InvocationsIn(T) |-> v.tokens.input])) \in Nat
           /\ Total(Input, T) \in Nat
<1> DEFINE V == InvocationsIn(T)
           input == [v \in V |-> v.tokens.input]
           key == [v \in V |-> v.turn]
           name == [t \in T |-> t]
           spent == [t \in T |-> Cardinality(Units([v \in Part(V, key, t) |-> input[v]]))]
           has == [t \in T |-> Input(t)]
<1>1. IsFiniteSet(T) /\ IsFiniteSet(V)
  BY GrownAssumption, FS_Subset, InvocationsCounted DEF All
<1>2. ASSUME NEW v \in V
      PROVE  v.turn \in T /\ v.tokens.input \in Nat
             /\ \E k \in DOMAIN v.turn.invocations : v = InvocationRow(v.turn, k)
  <2>1. PICK t \in T : \E k \in DOMAIN t.invocations : v = InvocationRow(t, k)
    BY DEF InvocationsIn
  <2>2. PICK k \in DOMAIN t.invocations : v = InvocationRow(t, k)
    BY <2>1
  <2>3. v.turn = t /\ v.tokens = t.invocations[k].tokens
    BY <2>2, InvocationFields
  <2>4. t.invocations[k].tokens.input \in Nat
    BY TurnTyped
  <2> QED
    BY <2>2, <2>3, <2>4
<1>3. ASSUME NEW t \in T
      PROVE  spent[t] = Cardinality(Units([k \in DOMAIN t.invocations |-> t.invocations[k].tokens.input]))
  <2> DEFINE S == DOMAIN t.invocations
             w == [k \in S |-> t.invocations[k].tokens.input]
             row == [k \in S |-> InvocationRow(t, k)]
             C == Part(V, key, t)
             c == [v \in C |-> input[v]]
  <2>1. IsFiniteSet(S)
    <3>1. S = 1..Len(t.invocations) /\ Len(t.invocations) \in Int /\ 1 \in Int
      BY TurnTyped
    <3> HIDE DEF S
    <3> QED
      BY <3>1, FS_Interval
  <2>2. w \in [S -> Nat]
    BY TurnTyped
  <2>3. ASSUME NEW k \in S
        PROVE  row[k] \in C /\ c[row[k]] = w[k] /\ row[k].index = k
    <3> DEFINE v == InvocationRow(t, k)
    <3>1. v.turn = t /\ v.index = k /\ v.tokens = t.invocations[k].tokens
      BY InvocationFields
    <3>2. v \in V
      BY DEF InvocationsIn
    <3>3. v \in C
      BY <3>1, <3>2 DEF Part
    <3> HIDE DEF v, C, V
    <3>4. c[v] = v.tokens.input
      BY <3>2, <3>3
    <3> QED
      BY <3>1, <3>3, <3>4 DEF v
  <2>4. ASSUME NEW v \in C
        PROVE  \E k \in S : row[k] = v
    <3>1. v \in V /\ v.turn = t
      BY DEF Part
    <3> QED
      BY <1>2, <3>1
  <2>5. \A a, b \in S : row[a] = row[b] => a = b
    <3> HIDE DEF row, S
    <3> QED
      BY <2>3
  <2>6. DOMAIN c = C
    OBVIOUS
  <2> HIDE DEF S, w, row, C, c
  <2>7. \A k \in S : row[k] \in C /\ c[row[k]] = w[k]
    BY <2>3
  <2>8. \A v \in C : \E k \in S : row[k] = v
    BY <2>4
  <2>9. Cardinality(Units(c)) = Cardinality(Units(w))
    BY <2>1, <2>2, <2>5, <2>6, <2>7, <2>8, Renamed
  <2> QED
    BY <2>9 DEF S, w, C, c
<1>4. \A t \in T : spent[t] \in Nat /\ spent[t] <= has[t] /\ has[t] \in Nat
  <2>1. ASSUME NEW t \in T
        PROVE  spent[t] \in Nat /\ spent[t] <= has[t] /\ has[t] \in Nat
    <3> DEFINE S == DOMAIN t.invocations
               w == [k \in S |-> t.invocations[k].tokens.input]
    <3>1. IsFiniteSet(S)
      <4>1. S = 1..Len(t.invocations) /\ Len(t.invocations) \in Int /\ 1 \in Int
        BY TurnTyped
      <4> HIDE DEF S
      <4> QED
        BY <4>1, FS_Interval
    <3>2. w \in [S -> Nat] /\ Cardinality(Units(w)) <= Input(t) /\ Input(t) \in Nat
      BY TurnTyped
    <3>3. spent[t] = Cardinality(Units(w))
      BY <1>3
    <3>4. has[t] = Input(t)
      OBVIOUS
    <3> HIDE DEF S, w, spent, has
    <3>5. Cardinality(Units(w)) \in Nat
      BY <3>1, <3>2, UnitsFinite
    <3> QED
      BY <3>2, <3>3, <3>4, <3>5
  <2> QED
    BY <2>1
<1>5. input \in [V -> Nat]
  BY <1>2
<1>6. Lists(T, name, V, key)
  BY <1>2 DEF Lists
<1>7. \A t \in T : spent[t] = Cardinality(Units([v \in Part(V, key, name[t]) |-> input[v]]))
  OBVIOUS
<1>8. DOMAIN spent = T /\ has \in [T -> Nat] /\ spent \in [T -> Nat]
  BY <1>4
<1>9. Total(Input, T) = Cardinality(Units(has))
  BY DEF Total
<1> HIDE DEF V, input, key, name, spent, has
<1>a. Cardinality(Units(spent)) = Cardinality(Units(input))
  BY <1>1, <1>5, <1>6, <1>7, <1>8, GroupedSum
<1>b. Units(spent) \subseteq Units(has)
  <2>1. ASSUME NEW u \in Units(spent)
        PROVE  u \in Units(has)
    <3>1. PICK t \in T : \E n \in 1..spent[t] : u = <<t, n>>
      BY <1>8, UnitsOf
    <3>2. PICK n \in 1..spent[t] : u = <<t, n>>
      BY <3>1
    <3>3. t \in DOMAIN has /\ n \in 1..has[t]
      BY <1>4, <1>8
    <3> QED
      BY <3>2, <3>3, UnitsOf
  <2> QED
    BY <2>1
<1>c. IsFiniteSet(Units(has)) /\ Cardinality(Units(has)) \in Nat /\ Cardinality(Units(spent)) \in Nat
  BY <1>1, <1>8, UnitsFinite
<1>d. Cardinality(Units(spent)) <= Cardinality(Units(has))
  BY <1>b, <1>c, FS_Subset
<1> QED
  BY <1>9, <1>a, <1>c, <1>d DEF V, input

(* The tools and the models are the summary's calls and invocations. *)
LEMMA CallsAdd ==
    ASSUME stored \in SUBSET All, NEW f
    PROVE  CallsAddUp(f)
<1> SUFFICES ASSUME ~Windowed(f)
             PROVE  /\ SummaryOf(f).toolCalls = Total(CallCount, ListTools(stored, f))
                    /\ SummaryOf(f).invocations = Total(CallCount, ListModels(stored, f))
                    /\ SummaryOf(f).tokens >= Total(TokenCount, ListModels(stored, f))
  BY DEF CallsAddUp, CallsMatch
<1> DEFINE T == TurnWhere(stored, f)
           V == InvocationsIn(T)
<1>1. T \in SUBSET Turns(All)
  BY TurnsFinite
<1>2. /\ SummaryOf(f).toolCalls = Total(Size, T) /\ SummaryOf(f).invocations = Total(Steps, T)
      /\ SummaryOf(f).tokens = Total(Input, T)
  BY DEF SummaryOf, Summary, Total, Steps
<1>3. Total(CallCount, ListTools(stored, f)) = Total(Size, T)
  <2>1. ListTools(stored, f) = ToolsOver(CallsIn(T))
    BY ToolRows, CallsOfTurns
  <2>2. IsFiniteSet(CallsIn(T)) /\ Cardinality(CallsIn(T)) = Total(Size, T)
    BY <1>1, CallsCounted
  <2> QED
    BY <2>1, <2>2, ToolCounts
<1>4. ListModels(stored, f) = ModelsOver(V)
  BY ModelRows, InvocationsOfTurns
<1>5. IsFiniteSet(V) /\ Cardinality(V) = Total(Steps, T)
  BY <1>1, InvocationsCounted
<1>6. \A v \in V : v.tokens.input \in Nat
  <2>1. ASSUME NEW v \in V
        PROVE  v.tokens.input \in Nat
    <3>1. PICK t \in T : \E k \in DOMAIN t.invocations : v = InvocationRow(t, k)
      BY DEF InvocationsIn
    <3>2. PICK k \in DOMAIN t.invocations : v = InvocationRow(t, k)
      BY <3>1
    <3>3. t \in Turns(All)
      BY <1>1
    <3>4. v.tokens = t.invocations[k].tokens
      BY <3>2, <3>3, InvocationFields
    <3>5. t.invocations[k].tokens.input \in Nat
      BY <3>3, TurnTyped
    <3> QED
      BY <3>4, <3>5
  <2> QED
    BY <2>1
<1>7. /\ Cardinality(Units([v \in V |-> v.tokens.input])) <= Total(Input, T)
      /\ Cardinality(Units([v \in V |-> v.tokens.input])) \in Nat /\ Total(Input, T) \in Nat
  BY <1>1, TokensBounded
<1> HIDE DEF T, V
<1>8. /\ Total(CallCount, ListModels(stored, f)) = Cardinality(V)
      /\ Total(TokenCount, ListModels(stored, f)) = Cardinality(Units([v \in V |-> v.tokens.input]))
  BY <1>4, <1>5, <1>6, ModelCounts
<1> QED
  BY <1>2, <1>3, <1>5, <1>7, <1>8

-----------------------------------------------------------------------------
(* The windows of a day *)

AllFields == {"sources", "projects", "sessions", "statuses", "since", "until", "subagents", "limit", "offset"}
LEMMA FilterFields ==
    ASSUME NEW f \in Filters
    PROVE  DOMAIN f = AllFields /\ f.subagents \in BOOLEAN /\ f.since \in Nat /\ f.until \in Nat
BY FilterAssumption DEF NoFilter, AllFields

LEMMA WindowsAdd ==
    ASSUME stored \in SUBSET All, NEW f \in Filters
    PROVE  WindowsPartition(f)
<1> SUFFICES ASSUME NEW cut \in (f.since + 1)..(f.until - 1)
             PROVE  SummaryOf(f).turns =
                      SummaryOf([f EXCEPT !.until = cut]).turns + SummaryOf([f EXCEPT !.since = cut]).turns
  BY DEF WindowsPartition
<1> DEFINE before == [f EXCEPT !.until = cut]
           after == [f EXCEPT !.since = cut]
           T == TurnWhere(stored, f)
           A == TurnWhere(stored, before)
           B == TurnWhere(stored, after)
<1>1. /\ DOMAIN f = AllFields /\ f.since \in Nat /\ f.until \in Nat
      /\ cut \in Nat /\ cut > f.since /\ cut < f.until /\ cut # 0 /\ f.until # 0
  BY FilterFields
<1>2. /\ before.sources = f.sources /\ before.projects = f.projects /\ before.sessions = f.sessions
      /\ before.statuses = f.statuses /\ before.since = f.since /\ before.until = cut
      /\ before.subagents = f.subagents
  BY <1>1 DEF AllFields
<1>3. /\ after.sources = f.sources /\ after.projects = f.projects /\ after.sessions = f.sessions
      /\ after.statuses = f.statuses /\ after.since = cut /\ after.until = f.until
      /\ after.subagents = f.subagents
  BY <1>1 DEF AllFields
<1> HIDE DEF before, after
<1>4. ASSUME NEW t \in Turns(stored)
      PROVE  /\ t \in A <=> t \in T /\ ActivityTime(t) < cut
             /\ t \in B <=> t \in T /\ ActivityTime(t) >= cut
  <2>1. ActivityTime(t) \in Nat
    BY TurnsFinite, TurnTyped
  <2>2. /\ InWindow(before, ActivityTime(t)) <=> InWindow(f, ActivityTime(t)) /\ ActivityTime(t) < cut
        /\ InWindow(after, ActivityTime(t)) <=> InWindow(f, ActivityTime(t)) /\ ActivityTime(t) >= cut
    BY <1>1, <1>2, <1>3, <2>1 DEF InWindow
  <2>3. /\ Names(before, t.session) <=> Names(f, t.session)
        /\ Names(after, t.session) <=> Names(f, t.session)
        /\ SubagentExclude(before, t) <=> SubagentExclude(f, t)
        /\ SubagentExclude(after, t) <=> SubagentExclude(f, t)
    BY <1>2, <1>3 DEF Names, SubagentExclude
  <2> QED
    BY <1>2, <1>3, <2>2, <2>3 DEF TurnWhere
<1>5. A \subseteq Turns(stored) /\ B \subseteq Turns(stored) /\ T \subseteq Turns(stored) /\ IsFiniteSet(T)
  BY TurnsFinite
<1>6. T = A \cup B /\ A \cap B = {}
  <2>1. \A t \in Turns(stored) : ActivityTime(t) \in Nat
    BY TurnsFinite, TurnTyped
  <2> HIDE DEF T, A, B
  <2> QED
    BY <1>1, <1>4, <1>5, <2>1
<1>7. /\ SummaryOf(f).turns = Cardinality(T) /\ SummaryOf(before).turns = Cardinality(A)
      /\ SummaryOf(after).turns = Cardinality(B)
  BY DEF SummaryOf, Summary
<1> HIDE DEF T, A, B
<1>8. IsFiniteSet(A) /\ IsFiniteSet(B) /\ Cardinality(A) \in Nat /\ Cardinality(B) \in Nat
  <2>1. A \subseteq T /\ B \subseteq T
    BY <1>6
  <2> QED
    BY <1>5, <2>1, FS_Subset, FS_CardinalityType
<1>9. Cardinality(T) = Cardinality(A) + Cardinality(B)
  <2>1. Cardinality(A \cup B) = Cardinality(A) + Cardinality(B) - Cardinality(A \cap B)
    BY <1>8, FS_Union
  <2>2. Cardinality(A \cap B) = 0
    BY <1>6, FS_EmptySet
  <2> QED
    BY <1>6, <1>8, <2>1, <2>2
<1> QED
  BY <1>7, <1>9 DEF before, after

-----------------------------------------------------------------------------
(* Subagents *)

(* Asking for all of the top level's records is asking for those of no subagent. *)
LEMMA TopLevel ==
    ASSUME stored \in SUBSET All, NEW f \in Filters, ~f.subagents, NEW all, all = [f EXCEPT !.subagents = TRUE]
    PROVE  /\ all.sources = f.sources /\ all.projects = f.projects /\ all.sessions = f.sessions
           /\ all.statuses = f.statuses /\ all.since = f.since /\ all.until = f.until /\ all.subagents
           /\ Alone \in SUBSET All
           /\ \A s : s \in Sessions(Alone) <=> s \in Sessions(stored) /\ ~s.subagent
           /\ \A t : t \in Turns(Alone) <=> t \in Turns(stored) /\ ~t.session.subagent
           /\ \A t : t \in Turns(stored) => t.subagent = t.session.subagent
<1>1. DOMAIN f = AllFields
  BY FilterFields
<1>2. /\ all.sources = f.sources /\ all.projects = f.projects /\ all.sessions = f.sessions
      /\ all.statuses = f.statuses /\ all.since = f.since /\ all.until = f.until /\ all.subagents
  BY <1>1 DEF AllFields
<1>3. Alone \in SUBSET All /\ \A x \in stored : x \in Alone <=> ~SessionAt(x).subagent
  BY SessionFields DEF Alone
<1>4. ASSUME NEW s
      PROVE  s \in Sessions(Alone) <=> s \in Sessions(stored) /\ ~s.subagent
  <2>1. \A x \in Alone : x \in stored
    BY DEF Alone
  <2> QED
    BY <1>3, <2>1 DEF Sessions
<1>5. ASSUME NEW t
      PROVE  t \in Turns(Alone) <=> t \in Turns(stored) /\ ~t.session.subagent
  <2>1. Alone \subseteq stored
    BY DEF Alone
  <2>2. \A x \in stored : \A i \in DOMAIN Transcripts[x].turns : TurnRow(x, i).session = SessionAt(x)
    BY TurnFields
  <2> QED
    BY <1>3, <2>1, <2>2, TurnFrom
<1>6. \A t : t \in Turns(stored) => t.subagent = t.session.subagent
  BY TurnsFinite, TurnTyped
<1> QED
  BY <1>2, <1>3, <1>4, <1>5, <1>6

(* The filters that do not look at the subagents' mark are one. *)
LEMMA SameFilters ==
    ASSUME stored \in SUBSET All, NEW f \in Filters, ~f.subagents, NEW all, all = [f EXCEPT !.subagents = TRUE]
    PROVE  /\ \A time : InWindow(all, time) <=> InWindow(f, time)
           /\ \A s : Names(all, s) <=> Names(f, s)
           /\ \A row : SubagentExclude(all, row)
           /\ \A row : SubagentExclude(f, row) <=> ~row.subagent
           /\ HasRuntimeConstraint(all) <=> HasRuntimeConstraint(f)
<1>1. /\ all.sources = f.sources /\ all.projects = f.projects /\ all.sessions = f.sessions
      /\ all.statuses = f.statuses /\ all.since = f.since /\ all.until = f.until /\ all.subagents
  BY TopLevel
<1> QED
  BY <1>1 DEF InWindow, Names, SubagentExclude, HasRuntimeConstraint

LEMMA SameRows ==
    ASSUME stored \in SUBSET All, NEW f \in Filters, ~f.subagents, NEW all, all = [f EXCEPT !.subagents = TRUE]
    PROVE  /\ TurnWhere(stored, f) = TurnWhere(Alone, all)
           /\ SessionWhere(stored, f) = SessionWhere(Alone, all)
           /\ \A t, time : t \in Turns(stored) /\ JoinedTurnWhere(stored, f, t, time) <=>
                           t \in Turns(Alone) /\ JoinedTurnWhere(Alone, all, t, time)
<1>1. /\ all.sources = f.sources /\ all.projects = f.projects /\ all.sessions = f.sessions
      /\ all.statuses = f.statuses /\ all.since = f.since /\ all.until = f.until /\ all.subagents
      /\ \A s : s \in Sessions(Alone) <=> s \in Sessions(stored) /\ ~s.subagent
      /\ \A t : t \in Turns(Alone) <=> t \in Turns(stored) /\ ~t.session.subagent
      /\ \A t : t \in Turns(stored) => t.subagent = t.session.subagent
  BY TopLevel
<1>2. /\ \A time : InWindow(all, time) <=> InWindow(f, time)
      /\ \A s : Names(all, s) <=> Names(f, s)
      /\ \A row : SubagentExclude(all, row)
      /\ \A row : SubagentExclude(f, row) <=> ~row.subagent
  BY SameFilters
<1>3. SessionWhere(stored, f) = SessionWhere(Alone, all)
  BY <1>1, <1>2 DEF SessionWhere
<1>4. TurnWhere(stored, f) = TurnWhere(Alone, all)
  BY <1>1, <1>2 DEF TurnWhere
<1>5. \A t, time : t \in Turns(stored) /\ JoinedTurnWhere(stored, f, t, time) <=>
                   t \in Turns(Alone) /\ JoinedTurnWhere(Alone, all, t, time)
  BY <1>1, <1>2 DEF JoinedTurnWhere
<1> QED
  BY <1>3, <1>4, <1>5

(* The lines of a session have its mark. *)
LEMMA LinesMarked ==
    ASSUME stored \in SUBSET All, NEW kind, NEW e,
           \A s : s \in Sessions(Alone) <=> s \in Sessions(stored) /\ ~s.subagent
    PROVE  e \in Lines(Alone, kind) <=> e \in Lines(stored, kind) /\ ~e.subagent
<1> DEFINE L(s, k) == [line |-> k, source |-> s.source, external |-> s.external, subagent |-> s.subagent,
                       at |-> IF s[kind][k] # 0 THEN s[kind][k] ELSE s.created]
<1>1. \A s, k : L(s, k).subagent = s.subagent
  OBVIOUS
<1>2. \A db : e \in Lines(db, kind) <=> \E s \in Sessions(db) : \E k \in DOMAIN s[kind] : e = L(s, k)
  BY DEF Lines
<1> HIDE DEF L
<1> QED
  BY <1>1, <1>2

LEMMA SameLines ==
    ASSUME stored \in SUBSET All, NEW f \in Filters, ~f.subagents, NEW all, all = [f EXCEPT !.subagents = TRUE]
    PROVE  /\ ParseErrorWhere(stored, f) = ParseErrorWhere(Alone, all)
           /\ (\E x \in stored \ Alone : Transcripts[x].session.id \in f.sessions)
              \/ RawEventWhere(stored, f) = RawEventWhere(Alone, all)
<1>1. /\ all.sources = f.sources /\ all.sessions = f.sessions
      /\ \A s : s \in Sessions(Alone) <=> s \in Sessions(stored) /\ ~s.subagent
  BY TopLevel
<1>2. /\ \A time : InWindow(all, time) <=> InWindow(f, time)
      /\ \A row : SubagentExclude(all, row)
      /\ \A row : SubagentExclude(f, row) <=> ~row.subagent
  BY SameFilters
<1>3. \A e, kind : e \in Lines(Alone, kind) <=> e \in Lines(stored, kind) /\ ~e.subagent
  BY <1>1, LinesMarked
<1>4. ParseErrorWhere(stored, f) = ParseErrorWhere(Alone, all)
  BY <1>1, <1>2, <1>3 DEF ParseErrorWhere
<1>5. ASSUME ~\E x \in stored \ Alone : Transcripts[x].session.id \in f.sessions
      PROVE  RawEventWhere(stored, f) = RawEventWhere(Alone, all)
  <2>1. ASSUME NEW s \in Sessions(stored), s.id \in f.sessions
        PROVE  s \in Sessions(Alone)
    <3>1. PICK x \in stored : s = SessionAt(x)
      BY DEF Sessions
    <3>2. Transcripts[x].session.id \in f.sessions
      BY <2>1, <3>1, SessionFields
    <3>3. x \in Alone
      BY <1>5, <3>2
    <3> QED
      BY <3>1, <3>3 DEF Sessions
  <2>2. \A e : (\E s \in Sessions(stored) : s.id \in f.sessions /\ s.external = e.external) <=>
               (\E s \in Sessions(Alone) : s.id \in f.sessions /\ s.external = e.external)
    BY <1>1, <2>1
  <2> QED
    BY <1>1, <1>2, <1>3, <2>2 DEF RawEventWhere
<1> QED
  BY <1>4, <1>5

-----------------------------------------------------------------------------
(* The servers *)

McpCalls(db, f) == {c \in CallRows(db, f) : c.kind = "mcp"}
McpKey(c) == <<c.turn.session.source, Server(c)>>
OfServer(M, k) == {c \in M : McpKey(c) = k}
DeclaredKeys == {<<d.source, d.name>> : d \in Declared}
TurnsOf(C) == {c.turn : c \in C}
Available(db, f, k) == [availability |-> ComponentAvailability(db, f, "mcp_server", k)]
McpRow(M, k) ==
    [key |-> k, calls |-> Cardinality(OfServer(M, k)), turns |-> Cardinality(TurnsOf(OfServer(M, k))),
     tools |-> Cardinality({c.name : c \in OfServer(M, k)}), declared |-> k \in DeclaredKeys]
McpKeys(M, f) == {McpKey(c) : c \in M} \cup (IF HasRuntimeConstraint(f) THEN {} ELSE DeclaredKeys)

LEMMA McpRows ==
    ASSUME NEW db, NEW f
    PROVE  ListMCPsCore(db, f) = {McpRow(McpCalls(db, f), k) : k \in McpKeys(McpCalls(db, f), f)}
BY DEF ListMCPsCore, McpRow, TurnsOf, McpKeys, McpKey, OfServer, McpCalls, DeclaredKeys

LEMMA McpFields ==
    ASSUME NEW M, NEW k
    PROVE  /\ McpRow(M, k).key = k /\ McpRow(M, k).calls = Cardinality(OfServer(M, k))
           /\ McpRow(M, k).turns = Cardinality(TurnsOf(OfServer(M, k)))
           /\ McpRow(M, k).declared = (k \in DeclaredKeys)
           /\ DOMAIN McpRow(M, k) = {"key", "calls", "turns", "tools", "declared"}
BY DEF McpRow

(* A listed server, with what was available. *)
LEMMA ListedServer ==
    ASSUME NEW db, NEW f, NEW m \in ListMCPs(db, f)
    PROVE  \E k \in McpKeys(McpCalls(db, f), f) :
              /\ m = RowOf(Available(db, f, k), McpRow(McpCalls(db, f), k))
              /\ m.availability = ComponentAvailability(db, f, "mcp_server", k)
              /\ m.key = k /\ m.calls = Cardinality(OfServer(McpCalls(db, f), k))
              /\ m.turns = Cardinality(TurnsOf(OfServer(McpCalls(db, f), k)))
<1> DEFINE M == McpCalls(db, f)
<1>1. PICK core \in ListMCPsCore(db, f) :
         m = RowOf([availability |-> ComponentAvailability(db, f, "mcp_server", core.key)], core)
  BY DEF ListMCPs
<1>2. PICK k \in McpKeys(M, f) : core = McpRow(M, k)
  BY McpRows
<1> DEFINE own == Available(db, f, k)
<1>3. /\ core.key = k /\ core.calls = Cardinality(OfServer(M, k))
      /\ core.turns = Cardinality(TurnsOf(OfServer(M, k)))
      /\ DOMAIN core = {"key", "calls", "turns", "tools", "declared"}
  BY <1>2, McpFields
<1>4. m = RowOf(own, core)
  BY <1>1, <1>3 DEF Available
<1>5. DOMAIN own = {"availability"} /\ own.availability = ComponentAvailability(db, f, "mcp_server", k)
  BY DEF Available
<1> HIDE DEF own
<1>6. m.availability = own.availability /\ m.key = core.key /\ m.calls = core.calls /\ m.turns = core.turns
  BY <1>3, <1>4, <1>5 DEF RowOf
<1> QED
  BY <1>2, <1>3, <1>4, <1>5, <1>6 DEF own

LEMMA ServerListed ==
    ASSUME NEW db, NEW f, NEW k \in McpKeys(McpCalls(db, f), f)
    PROVE  \E m \in ListMCPs(db, f) : m.key = k
<1> DEFINE core == McpRow(McpCalls(db, f), k)
           m == RowOf([availability |-> ComponentAvailability(db, f, "mcp_server", core.key)], core)
<1>1. core \in ListMCPsCore(db, f)
  BY McpRows
<1>2. m \in ListMCPs(db, f)
  BY <1>1 DEF ListMCPs
<1>3. core.key = k /\ DOMAIN core = {"key", "calls", "turns", "tools", "declared"}
  BY McpFields
<1> HIDE DEF core
<1> DEFINE own == [availability |-> ComponentAvailability(db, f, "mcp_server", core.key)]
<1>4. DOMAIN own = {"availability"} /\ m = RowOf(own, core)
  OBVIOUS
<1> HIDE DEF own, m
<1>5. m.key = k
  BY <1>3, <1>4 DEF RowOf
<1> QED
  BY <1>2, <1>5

(* The calls of the servers are those of the MCP tools. *)
LEMMA ServerCounts ==
    ASSUME stored \in SUBSET All, NEW f
    PROVE  Total(McpCallCount, ListTools(stored, f)) = Total(CallCount, ListMCPs(stored, f))
<1> DEFINE C == CallRows(stored, f)
           M == McpCalls(stored, f)
           R == ListMCPs(stored, f)
           name == [r \in R |-> r.key]
           key == [c \in M |-> McpKey(c)]
           calls == [r \in R |-> CallCount(r)]
<1>1. IsFiniteSet(C) /\ M \subseteq C /\ IsFiniteSet(M) /\ M = {c \in C : c.kind = "mcp"}
  BY CallsOfTurns, FS_Subset DEF McpCalls
<1>2. Total(McpCallCount, ListTools(stored, f)) = Cardinality(M)
  BY <1>1, ToolRows, ToolCounts
<1>3. ASSUME NEW r \in R
      PROVE  calls[r] = Cardinality(Part(M, key, name[r]))
  <2>1. PICK k \in McpKeys(M, f) : r.key = k /\ r.calls = Cardinality(OfServer(M, k))
    BY ListedServer
  <2>3. OfServer(M, k) = Part(M, key, k)
    BY DEF OfServer, Part
  <2> QED
    BY <2>1, <2>3 DEF CallCount
<1>4. Lists(R, name, M, key)
  <2>1. ASSUME NEW r \in R, NEW q \in R, name[r] = name[q]
        PROVE  r = q
    <3>1. PICK k \in McpKeys(M, f) :
             /\ r = RowOf(Available(stored, f, k), McpRow(M, k))
             /\ r.key = k
      BY ListedServer
    <3>2. PICK l \in McpKeys(M, f) :
             /\ q = RowOf(Available(stored, f, l), McpRow(M, l))
             /\ q.key = l
      BY ListedServer
    <3>3. k = l
      BY <2>1, <3>1, <3>2
    <3> QED
      BY <3>1, <3>2, <3>3
  <2>2. ASSUME NEW c \in M
        PROVE  \E r \in R : name[r] = key[c]
    <3>1. McpKey(c) \in McpKeys(M, f)
      BY DEF McpKeys
    <3>2. PICK r \in R : r.key = McpKey(c)
      BY <3>1, ServerListed
    <3> QED
      BY <3>2
  <2> HIDE DEF name, key, R, M
  <2> QED
    BY <2>1, <2>2 DEF Lists
<1>5. Total(CallCount, R) = Cardinality(Units(calls)) /\ DOMAIN calls = R
  BY DEF Total
<1>6. \A r \in R : calls[r] = Cardinality(Part(M, key, name[r]))
  BY <1>3
<1> HIDE DEF R, M, name, key, calls
<1>7. Cardinality(Units(calls)) = Cardinality(M)
  BY <1>1, <1>4, <1>5, <1>6, Grouped
<1> QED
  BY <1>2, <1>5, <1>7 DEF R

-----------------------------------------------------------------------------
(* The components of a turn *)

ServerNamed(s) == <<"mcp_server", <<s>> >>

LEMMA MentionsServer ==
    ASSUME NEW call, NEW s
    PROVE  ServerNamed(s) \in Mentions(call) <=>
             ClassifyToolKind(call.name) = "mcp" /\ SplitMCPName(call.name).server = s /\ s # ""
<1> DEFINE mcp == SplitMCPName(call.name)
           tool == IF ClassifyToolKind(call.name) # "mcp" THEN {<<"builtin_tool", call.name>>}
                   ELSE IF mcp.server = "" THEN {}
                   ELSE {<<"mcp_server", <<mcp.server>> >>} \cup
                        (IF mcp.tool = <<"">> THEN {} ELSE {<<"mcp_tool", <<mcp.server>> \o mcp.tool>>})
           skills == {<<"skill", <<n>> >> : n \in {m \in Range(call.input) : ValidSkillName(m)}}
<1>1. Mentions(call) = tool \cup skills
  BY DEF Mentions
<1>2. ServerNamed(s) \notin skills
  BY DEF ServerNamed
<1> HIDE DEF mcp, skills
<1>3. ServerNamed(s) \in tool <=> ClassifyToolKind(call.name) = "mcp" /\ mcp.server = s /\ s # ""
  BY DEF ServerNamed
<1> QED
  BY <1>1, <1>2, <1>3 DEF mcp

LEMMA MentionedServer ==
    ASSUME NEW call, NEW m \in Mentions(call), m[1] = "mcp_server"
    PROVE  m = ServerNamed(SplitMCPName(call.name).server)
<1> DEFINE mcp == SplitMCPName(call.name)
           tool == IF ClassifyToolKind(call.name) # "mcp" THEN {<<"builtin_tool", call.name>>}
                   ELSE IF mcp.server = "" THEN {}
                   ELSE {<<"mcp_server", <<mcp.server>> >>} \cup
                        (IF mcp.tool = <<"">> THEN {} ELSE {<<"mcp_tool", <<mcp.server>> \o mcp.tool>>})
           skills == {<<"skill", <<n>> >> : n \in {n_1 \in Range(call.input) : ValidSkillName(n_1)}}
<1>1. Mentions(call) = tool \cup skills
  BY DEF Mentions
<1>2. m \notin skills
  OBVIOUS
<1>3. m \in tool
  BY <1>1, <1>2
<1> HIDE DEF mcp, skills
<1>4. \/ m = <<"builtin_tool", call.name>> \/ m = <<"mcp_server", <<mcp.server>> >>
      \/ m = <<"mcp_tool", <<mcp.server>> \o mcp.tool>>
  BY <1>3
<1>5. m # <<"builtin_tool", call.name>>
  OBVIOUS
<1>6. m # <<"mcp_tool", <<mcp.server>> \o mcp.tool>>
  <2> DEFINE named == <<mcp.server>> \o mcp.tool
  <2> HIDE DEF named
  <2>1. m # <<"mcp_tool", named>>
    OBVIOUS
  <2> QED
    BY <2>1 DEF named
<1> QED
  BY <1>4, <1>5, <1>6 DEF ServerNamed, mcp

ComponentRow(t, c) == RowOf([turn |-> t], c)
(* The components of a server, one for each turn. *)
ServerComponents(db, f, k) ==
    {c \in Components(db) : c.kind = "mcp_server" /\ <<c.turn.session.source, Head(c.name)>> = k
                            /\ JoinedTurnWhere(db, f, c.turn, ActivityTime(c.turn))}

LEMMA HeadOfOne ==
    ASSUME NEW s
    PROVE  Head(<<s>>) = s
OBVIOUS

LEMMA ComponentsFrom ==
    ASSUME NEW db, NEW c
    PROVE  c \in Components(db) <=> \E t \in Turns(db) : \E b \in FromTools(t.calls) : c = ComponentRow(t, b)
<1> DEFINE rows(t) == {RowOf([turn |-> t], b) : b \in FromTools(t.calls)}
<1>1. Components(db) = UNION {rows(t) : t \in Turns(db)}
  BY Zenon DEF Components
<1>2. \A t : c \in rows(t) <=> \E b \in FromTools(t.calls) : c = ComponentRow(t, b)
  BY Zenon DEF ComponentRow
<1> HIDE DEF rows
<1> QED
  BY <1>1, <1>2

LEMMA MentionFields ==
    ASSUME NEW t, NEW c
    PROVE  c \in FromTools(t.calls) <=>
             \E i \in DOMAIN t.calls : \E m \in Mentions(t.calls[i]) :
                /\ c = [first |-> i, kind |-> m[1], name |-> m[2]]
                /\ \A j \in 1..(c.first - 1) : <<c.kind, c.name>> \notin Mentions(t.calls[j])
BY DEF FromTools

LEMMA ComponentFields ==
    ASSUME NEW t, NEW c \in FromTools(t.calls)
    PROVE  /\ c.first \in DOMAIN t.calls /\ <<c.kind, c.name>> \in Mentions(t.calls[c.first])
           /\ \A j \in 1..(c.first - 1) : <<c.kind, c.name>> \notin Mentions(t.calls[j])
           /\ c = [first |-> c.first, kind |-> c.kind, name |-> c.name]
           /\ ComponentRow(t, c).turn = t /\ ComponentRow(t, c).kind = c.kind
           /\ ComponentRow(t, c).name = c.name /\ ComponentRow(t, c).first = c.first
<1>1. PICK i \in DOMAIN t.calls : \E m \in Mentions(t.calls[i]) : c = [first |-> i, kind |-> m[1], name |-> m[2]]
  BY DEF FromTools
<1>2. PICK m \in Mentions(t.calls[i]) : c = [first |-> i, kind |-> m[1], name |-> m[2]]
  BY <1>1
<1>3. m = <<m[1], m[2]>>
  <2> DEFINE call == t.calls[i]
  <2>1. \E a, b : m = <<a, b>>
    <3> DEFINE mcp == SplitMCPName(call.name)
               named == <<mcp.server>> \o mcp.tool
    <3>1. \/ m = <<"builtin_tool", call.name>> \/ m = <<"mcp_server", <<mcp.server>> >>
          \/ m = <<"mcp_tool", named>>
          \/ \E n \in {n_1 \in Range(call.input) : ValidSkillName(n_1)} : m = <<"skill", <<n>> >>
      BY DEF Mentions
    <3> HIDE DEF mcp, named
    <3> QED
      BY <3>1
  <2>2. PICK a, b : m = <<a, b>>
    BY <2>1
  <2> QED
    BY <2>2
<1>4. c.first = i /\ c.kind = m[1] /\ c.name = m[2] /\ DOMAIN c = {"first", "kind", "name"}
  BY <1>2
<1>5. \A j \in 1..(c.first - 1) : <<c.kind, c.name>> \notin Mentions(t.calls[j])
  BY DEF FromTools
<1> DEFINE own == [turn |-> t]
<1>6. DOMAIN own = {"turn"} /\ own.turn = t
  OBVIOUS
<1>7. c = [first |-> c.first, kind |-> c.kind, name |-> c.name]
  BY <1>2, <1>4
<1> HIDE DEF own
<1>8. RowOf(own, c).turn = t /\ RowOf(own, c).kind = c.kind /\ RowOf(own, c).name = c.name /\ RowOf(own, c).first = c.first
  BY <1>4, <1>6 DEF RowOf
<1> QED
  BY <1>2, <1>3, <1>4, <1>5, <1>7, <1>8 DEF own, ComponentRow

(* The first call of a server in a turn is a component. *)
LEMMA FirstMention ==
    ASSUME NEW t \in Turns(All), NEW s, NEW i \in DOMAIN t.calls, ServerNamed(s) \in Mentions(t.calls[i])
    PROVE  \E c \in FromTools(t.calls) : c.kind = "mcp_server" /\ c.name = <<s>>
<1> DEFINE m == ServerNamed(s)
           P == {j \in DOMAIN t.calls : m \in Mentions(t.calls[j])}
<1>1. DOMAIN t.calls = 1..Size(t) /\ Size(t) \in Nat
  BY TurnTyped
<1>2. P \in SUBSET Nat /\ P # {}
  BY <1>1
<1>3. PICK j \in P : \A l \in P : j <= l
  <2> HIDE DEF P
  <2> QED
    BY <1>2, LeastNumber
<1>4. j \in DOMAIN t.calls /\ m \in Mentions(t.calls[j]) /\ m[1] = "mcp_server" /\ m[2] = <<s>> /\ m = <<m[1], m[2]>>
  BY DEF ServerNamed
<1>5. \A l \in 1..(j - 1) : m \notin Mentions(t.calls[l])
  <2>1. ASSUME NEW l \in 1..(j - 1), m \in Mentions(t.calls[l])
        PROVE  FALSE
    <3>1. l \in DOMAIN t.calls /\ l < j /\ l \in Int /\ j \in Int
      BY <1>1, <1>4
    <3>2. l \in P
      BY <2>1, <3>1
    <3>3. j <= l
      BY <1>3, <3>2
    <3> QED
      BY <3>1, <3>3
  <2> QED
    BY <2>1
<1> HIDE DEF m, P
<1> DEFINE c == [first |-> j, kind |-> m[1], name |-> m[2]]
<1>6. c.first = j /\ c.kind = m[1] /\ c.name = m[2]
  OBVIOUS
<1>7. <<c.kind, c.name>> = m /\ c.kind = "mcp_server" /\ c.name = <<s>>
  BY <1>4, <1>6
<1>8. \A l \in 1..(c.first - 1) : <<c.kind, c.name>> \notin Mentions(t.calls[l])
  BY <1>5, <1>6, <1>7
<1>9. c \in FromTools(t.calls)
  BY <1>4, <1>8, MentionFields
<1> HIDE DEF c
<1> QED
  BY <1>7, <1>9

(* A component of a turn that the filter admits is of a call there. *)
LEMMA ServerComponent ==
    ASSUME stored \in SUBSET All, NEW f, ~Windowed(f), NEW k, NEW c \in ServerComponents(stored, f, k)
    PROVE  /\ \E b \in FromTools(c.turn.calls) :
                 c = ComponentRow(c.turn, b) /\ b.first = c.first /\ b.kind = "mcp_server" /\ b.name = <<k[2]>>
           /\ c.turn \in TurnsOf(OfServer(McpCalls(stored, f), k)) /\ c.turn \in Turns(All)
<1> DEFINE W == TurnWhere(stored, f)
<1>1. W \subseteq Turns(stored) /\ Turns(stored) \subseteq Turns(All)
  BY TurnsFinite
<1>2. CallRows(stored, f) = CallsIn(W)
  BY CallsOfTurns
<1>3. /\ c \in Components(stored) /\ c.kind = "mcp_server" /\ <<c.turn.session.source, Head(c.name)>> = k
      /\ JoinedTurnWhere(stored, f, c.turn, ActivityTime(c.turn))
  BY DEF ServerComponents
<1>4. PICK t \in Turns(stored) : \E b \in FromTools(t.calls) : c = ComponentRow(t, b)
  BY <1>3, ComponentsFrom
<1>5. PICK b \in FromTools(t.calls) : c = ComponentRow(t, b)
  BY <1>4
<1>6. /\ b.first \in DOMAIN t.calls /\ <<b.kind, b.name>> \in Mentions(t.calls[b.first])
      /\ c.turn = t /\ c.kind = b.kind /\ c.name = b.name /\ c.first = b.first
  BY <1>5, ComponentFields
<1> DEFINE i == b.first
           call == t.calls[i]
           s == SplitMCPName(call.name).server
           m == <<b.kind, b.name>>
           row == CallRow(t, i)
<1>7. m \in Mentions(call) /\ m[1] = "mcp_server" /\ m[2] = b.name
  BY <1>3, <1>6
<1>8. m = ServerNamed(s) /\ ServerNamed(s) \in Mentions(call)
  <2> HIDE DEF m, call
  <2> QED
    BY <1>7, MentionedServer
<1>9. b.name = <<s>>
  <2> HIDE DEF s
  <2> QED
    BY <1>8 DEF ServerNamed
<1>10. ClassifyToolKind(call.name) = "mcp"
  <2> HIDE DEF call
  <2> QED
    BY <1>8, MentionsServer
<1> HIDE DEF s, m
<1>11. Head(b.name) = s
  BY <1>9, HeadOfOne
<1>12. k = <<t.session.source, s>> /\ k[2] = s
  BY <1>3, <1>6, <1>11
<1>13. t \in W
  BY <1>3, <1>6, JoinedTurns
<1>14. row \in CallsIn(W)
  BY <1>6, <1>13 DEF CallsIn
<1>15. row.turn = t /\ row.kind = "mcp" /\ row.name = call.name
  <2>1. t \in Turns(All) /\ i \in DOMAIN t.calls
    BY <1>1, <1>6
  <2> HIDE DEF i
  <2> QED
    BY <1>10, <2>1, CallFields
<1>16. McpKey(row) = <<t.session.source, s>>
  <2> HIDE DEF row
  <2> QED
    BY <1>15 DEF McpKey, Server, s
<1> HIDE DEF row, call, i, W
<1>17. row \in OfServer(McpCalls(stored, f), k)
  BY <1>2, <1>12, <1>14, <1>15, <1>16 DEF OfServer, McpCalls
<1>18. t \in TurnsOf(OfServer(McpCalls(stored, f), k))
  BY <1>15, <1>17 DEF TurnsOf
<1>19. t \in Turns(All)
  BY <1>1
<1> QED
  BY <1>3, <1>5, <1>6, <1>9, <1>12, <1>18, <1>19

(* A turn that called a named server has its component. *)
LEMMA ComponentOfCall ==
    ASSUME stored \in SUBSET All, NEW f, ~Windowed(f), NEW k, k[2] # "",
           NEW t \in TurnsOf(OfServer(McpCalls(stored, f), k))
    PROVE  t \in TurnWhere(stored, f) /\ \E c \in ServerComponents(stored, f, k) : c.turn = t
<1> DEFINE W == TurnWhere(stored, f)
<1>1. W \subseteq Turns(stored) /\ Turns(stored) \subseteq Turns(All)
  BY TurnsFinite
<1>2. CallRows(stored, f) = CallsIn(W)
  BY CallsOfTurns
<1>3. PICK row \in OfServer(McpCalls(stored, f), k) : row.turn = t
  BY DEF TurnsOf
<1>4. row \in CallsIn(W) /\ row.kind = "mcp" /\ McpKey(row) = k
  BY <1>2 DEF OfServer, McpCalls
<1>5. PICK u \in W : \E i \in DOMAIN u.calls : row = CallRow(u, i)
  BY <1>4 DEF CallsIn
<1>6. PICK i \in DOMAIN u.calls : row = CallRow(u, i)
  BY <1>5
<1>7. u \in Turns(All) /\ u \in Turns(stored)
  BY <1>1
<1>8. row.turn = u /\ row.kind = ClassifyToolKind(u.calls[i].name) /\ row.name = u.calls[i].name
  BY <1>6, <1>7, CallFields
<1>9. u = t /\ ClassifyToolKind(u.calls[i].name) = "mcp"
  BY <1>3, <1>4, <1>8
<1> DEFINE s == SplitMCPName(u.calls[i].name).server
<1>10. Server(row) = s
  BY <1>8 DEF Server
<1>11. s # "" /\ k = <<u.session.source, s>>
  <2> HIDE DEF s
  <2> QED
    BY <1>3, <1>4, <1>9, <1>10 DEF McpKey
<1>12. ServerNamed(s) \in Mentions(u.calls[i])
  BY <1>9, <1>11, MentionsServer
<1> HIDE DEF s
<1>13. PICK b \in FromTools(u.calls) : b.kind = "mcp_server" /\ b.name = <<s>>
  BY <1>7, <1>12, FirstMention
<1> DEFINE c == ComponentRow(u, b)
<1>14. c.turn = u /\ c.kind = "mcp_server" /\ c.name = <<s>>
  <2>1. /\ ComponentRow(u, b).turn = u /\ ComponentRow(u, b).kind = b.kind
        /\ ComponentRow(u, b).name = b.name
    BY <1>13, ComponentFields, ZenonT(60)
  <2> QED
    BY <1>13, <2>1
<1>15. c \in Components(stored)
  BY <1>7, ComponentsFrom
<1> HIDE DEF c
<1>16. JoinedTurnWhere(stored, f, u, ActivityTime(u))
  BY <1>7, JoinedTurns
<1>17. <<c.turn.session.source, Head(c.name)>> = k
  BY <1>11, <1>14, HeadOfOne
<1>18. c \in ServerComponents(stored, f, k)
  BY <1>14, <1>15, <1>16, <1>17 DEF ServerComponents
<1> QED
  BY <1>9, <1>14, <1>18

(* A turn has one component of a server. *)
LEMMA OneComponent ==
    ASSUME NEW t \in Turns(All), NEW p \in FromTools(t.calls), NEW q \in FromTools(t.calls),
           p.kind = q.kind, p.name = q.name
    PROVE  p = q
<1>1. DOMAIN t.calls = 1..Size(t) /\ Size(t) \in Nat
  BY TurnTyped
<1>2. /\ p.first \in DOMAIN t.calls /\ <<p.kind, p.name>> \in Mentions(t.calls[p.first])
      /\ \A j \in 1..(p.first - 1) : <<p.kind, p.name>> \notin Mentions(t.calls[j])
      /\ p = [first |-> p.first, kind |-> p.kind, name |-> p.name]
  BY ComponentFields
<1>3. /\ q.first \in DOMAIN t.calls /\ <<q.kind, q.name>> \in Mentions(t.calls[q.first])
      /\ \A j \in 1..(q.first - 1) : <<q.kind, q.name>> \notin Mentions(t.calls[j])
      /\ q = [first |-> q.first, kind |-> q.kind, name |-> q.name]
  BY ComponentFields
<1> DEFINE m == <<p.kind, p.name>>
           a == p.first
           b == q.first
<1>4. /\ m \in Mentions(t.calls[a]) /\ m \in Mentions(t.calls[b])
      /\ \A j \in 1..(a - 1) : m \notin Mentions(t.calls[j])
      /\ \A j \in 1..(b - 1) : m \notin Mentions(t.calls[j])
  BY <1>2, <1>3
<1>5. a \in 1..Size(t) /\ b \in 1..Size(t)
  BY <1>1, <1>2, <1>3
<1> HIDE DEF m
<1>6. a = b
  <2> HIDE DEF a, b
  <2>1. ~(a < b)
    <3>1. a < b => a \in 1..(b - 1)
      BY <1>1, <1>5
    <3> QED
      BY <1>4, <3>1
  <2>2. ~(b < a)
    <3>1. b < a => b \in 1..(a - 1)
      BY <1>1, <1>5
    <3> QED
      BY <1>4, <3>1
  <2> QED
    BY <1>1, <1>5, <2>1, <2>2
<1> QED
  BY <1>2, <1>3, <1>6

(* Without a window a server was available in the turns that called it. *)
LEMMA AvailableWhereCalled ==
    ASSUME stored \in SUBSET All, NEW f, ~Windowed(f), NEW k, k[2] # ""
    PROVE  ComponentAvailability(stored, f, "mcp_server", k) =
             Cardinality(TurnsOf(OfServer(McpCalls(stored, f), k)))
<1> DEFINE S == ServerComponents(stored, f, k)
           T == TurnsOf(OfServer(McpCalls(stored, f), k))
           g == [c \in S |-> c.turn]
<1>1. ComponentAvailability(stored, f, "mcp_server", k) = Cardinality(S)
  BY DEF ComponentAvailability, ServerComponents
<1>2. \A c \in S : /\ \E b \in FromTools(c.turn.calls) :
                          c = ComponentRow(c.turn, b) /\ b.kind = "mcp_server" /\ b.name = <<k[2]>>
                    /\ c.turn \in T /\ c.turn \in Turns(All)
  <2>1. ASSUME NEW c \in S
        PROVE  /\ \E b \in FromTools(c.turn.calls) :
                     c = ComponentRow(c.turn, b) /\ b.kind = "mcp_server" /\ b.name = <<k[2]>>
               /\ c.turn \in T /\ c.turn \in Turns(All)
    BY ServerComponent, Zenon
  <2> HIDE DEF S, T
  <2> QED
    BY <2>1
<1>3. \A t \in T : t \in TurnWhere(stored, f) /\ \E c \in S : c.turn = t
  BY ComponentOfCall
<1> HIDE DEF S, T
<1>4. \A a, b \in S : a.turn = b.turn => a = b
  <2>1. ASSUME NEW a \in S, NEW b \in S, a.turn = b.turn
        PROVE  a = b
    <3>1. PICK p \in FromTools(a.turn.calls) : a = ComponentRow(a.turn, p) /\ p.kind = "mcp_server" /\ p.name = <<k[2]>>
      BY <1>2
    <3>2. PICK q \in FromTools(a.turn.calls) : b = ComponentRow(a.turn, q) /\ q.kind = "mcp_server" /\ q.name = <<k[2]>>
      BY <1>2, <2>1
    <3>3. a.turn \in Turns(All)
      BY <1>2
    <3>4. p.kind = q.kind /\ p.name = q.name
      BY <3>1, <3>2
    <3>5. p = q
      BY <3>3, <3>4, OneComponent
    <3> QED
      BY <3>1, <3>2, <3>5
  <2> QED
    BY <2>1
<1>5. g \in [S -> T] /\ (\A c \in S : g[c] = c.turn)
  BY <1>2
<1> HIDE DEF g
<1>6. g \in Bijection(S, T)
  <2>1. \A a, b \in S : g[a] = g[b] => a = b
    BY <1>4, <1>5
  <2>2. \A t \in T : \E c \in S : g[c] = t
    BY <1>3, <1>5
  <2> QED
    BY <1>5, <2>1, <2>2 DEF Bijection, Injection, Surjection, IsInjective
<1>7. IsFiniteSet(T)
  <2>1. T \subseteq TurnWhere(stored, f)
    BY <1>3
  <2> QED
    BY <2>1, TurnsFinite, FS_Subset
<1>8. ExistsBijection(T, S)
  BY <1>6, Fun_ExistsBijSymmetric DEF ExistsBijection
<1> QED
  BY <1>1, <1>7, <1>8, FS_Bijection DEF T

LEMMA ServersAdd ==
    ASSUME stored \in SUBSET All, NEW f
    PROVE  ServersAgree(f)
<1>1. ASSUME ~Windowed(f), NEW m \in ListMCPs(stored, f), m.key[2] # ""
      PROVE  m.availability = m.turns
  <2>1. PICK k \in McpKeys(McpCalls(stored, f), f) :
           /\ m.availability = ComponentAvailability(stored, f, "mcp_server", k) /\ m.key = k
           /\ m.turns = Cardinality(TurnsOf(OfServer(McpCalls(stored, f), k)))
    BY ListedServer
  <2>2. k[2] # ""
    BY <1>1, <2>1
  <2> QED
    BY <1>1, <2>1, <2>2, AvailableWhereCalled
<1> QED
  BY <1>1, ServerCounts DEF ServersAgree, ServersMatch

(* A server that is declared and never called has no call of the top level. *)
LEMMA UnusedServers ==
    ASSUME stored \in SUBSET All
    PROVE  UnusedIsUnused
<1> DEFINE M == McpCalls(stored, NoFilter)
<1>1. ASSUME NEW m \in ListUnusedMCPs(stored), NEW c \in Calls(Alone), c.kind = "mcp",
             m.key = <<c.turn.session.source, Server(c)>>
      PROVE  FALSE
  <2>1. m \in ListMCPsCore(stored, NoFilter) /\ m.calls = 0
    BY DEF ListUnusedMCPs
  <2>2. PICK k \in McpKeys(M, NoFilter) : m = McpRow(M, k)
    BY <2>1, McpRows
  <2>3. m.key = k /\ m.calls = Cardinality(OfServer(M, k))
    BY <2>2, McpFields
  <2>4. OfServer(M, k) = {}
    <3>1. IsFiniteSet(CallRows(stored, NoFilter))
      BY CallsOfTurns
    <3>2. OfServer(M, k) \subseteq CallRows(stored, NoFilter)
      BY DEF OfServer, McpCalls
    <3> QED
      BY <2>1, <2>3, <3>1, <3>2, FS_Subset, FS_EmptySet
  <2>5. Alone \subseteq stored /\ Alone \in SUBSET All
    BY DEF Alone
  <2>6. c \in CallsIn(Turns(Alone))
    BY <2>5, CallsOfTurns
  <2>7. PICK t \in Turns(Alone) : \E i \in DOMAIN t.calls : c = CallRow(t, i)
    BY <2>6 DEF CallsIn
  <2>8. PICK i \in DOMAIN t.calls : c = CallRow(t, i)
    BY <2>7
  <2>9. PICK x \in Alone : \E j \in DOMAIN Transcripts[x].turns : t = TurnRow(x, j)
    BY <2>5, TurnFrom
  <2>10. t.session = SessionAt(x) /\ t \in Turns(stored) /\ t \in Turns(All)
    <3>1. PICK j \in DOMAIN Transcripts[x].turns : t = TurnRow(x, j)
      BY <2>9
    <3>2. t.session = SessionAt(x)
      BY <2>5, <3>1, TurnFields
    <3> QED
      BY <2>5, <3>1, <3>2, TurnFrom
  <2>11. ~t.session.subagent
    BY <2>5, <2>9, <2>10, SessionFields DEF Alone
  <2>12. c.turn = t
    BY <2>8, <2>10, CallFields
  <2>13. JoinedTurnWhere(stored, NoFilter, t, c.at)
    BY <2>11 DEF JoinedTurnWhere, NoFilter, Allows, Names, InWindow, SubagentExclude
  <2>14. c \in Calls(stored)
    <3>1. c \in CallsIn(Turns(stored))
      BY <2>8, <2>10 DEF CallsIn
    <3> QED
      BY <3>1, CallsOfTurns
  <2>15. c \in M
    BY <1>1, <2>12, <2>13, <2>14 DEF McpCalls, CallRows
  <2> HIDE DEF M
  <2>16. c \in OfServer(M, k)
    BY <1>1, <2>3, <2>15 DEF OfServer, McpKey
  <2> QED
    BY <2>4, <2>16
<1> QED
  BY <1>1 DEF UnusedIsUnused

(* A row of what is joined with its turn is in the database when the turn is. *)
OfItsTurn(c) == \E k \in DOMAIN c.turn.calls : c = CallRow(c.turn, k)
StepOfItsTurn(v) == \E k \in DOMAIN v.turn.invocations : v = InvocationRow(v.turn, k)
PartOfItsTurn(c) == \E b \in FromTools(c.turn.calls) : c = ComponentRow(c.turn, b)
LEMMA RowsOfTheirTurn ==
    ASSUME NEW db \in SUBSET All, NEW c
    PROVE  /\ c \in Calls(db) <=> c.turn \in Turns(db) /\ OfItsTurn(c)
           /\ c \in Invocations(db) <=> c.turn \in Turns(db) /\ StepOfItsTurn(c)
           /\ c \in Components(db) <=> c.turn \in Turns(db) /\ PartOfItsTurn(c)
<1>1. \A t \in Turns(db) : t \in Turns(All)
  BY TurnsFinite
<1>2. c \in Calls(db) <=> c.turn \in Turns(db) /\ OfItsTurn(c)
  <2>1. c \in Calls(db) <=> \E t \in Turns(db) : \E k \in DOMAIN t.calls : c = CallRow(t, k)
    BY CallsOfTurns DEF CallsIn
  <2>2. ASSUME NEW t \in Turns(db), NEW k \in DOMAIN t.calls, c = CallRow(t, k)
        PROVE  c.turn = t
    BY <1>1, <2>2, CallFields
  <2> QED
    BY <2>1, <2>2 DEF OfItsTurn
<1>3. c \in Invocations(db) <=> c.turn \in Turns(db) /\ StepOfItsTurn(c)
  <2>1. c \in Invocations(db) <=> \E t \in Turns(db) : \E k \in DOMAIN t.invocations : c = InvocationRow(t, k)
    BY DEF Invocations
  <2>2. ASSUME NEW t \in Turns(db), NEW k \in DOMAIN t.invocations, c = InvocationRow(t, k)
        PROVE  c.turn = t
    BY <1>1, <2>2, InvocationFields
  <2> QED
    BY <2>1, <2>2 DEF StepOfItsTurn
<1>4. c \in Components(db) <=> c.turn \in Turns(db) /\ PartOfItsTurn(c)
  <2>1. c \in Components(db) <=> \E t \in Turns(db) : \E b \in FromTools(t.calls) : c = ComponentRow(t, b)
    BY ComponentsFrom
  <2>2. ASSUME NEW t \in Turns(db), NEW b \in FromTools(t.calls), c = ComponentRow(t, b)
        PROVE  c.turn = t
    <3>1. ComponentRow(t, b).turn = t
      BY ComponentFields, Zenon
    <3> QED
      BY <2>2, <3>1
  <2> QED
    BY <2>1, <2>2 DEF PartOfItsTurn
<1> QED
  BY <1>2, <1>3, <1>4

(* What is listed by the joined turn is that of the top level. *)
LEMMA SameCalls ==
    ASSUME stored \in SUBSET All, NEW f \in Filters, ~f.subagents, NEW all, all = [f EXCEPT !.subagents = TRUE]
    PROVE  /\ CallRows(stored, f) = CallRows(Alone, all)
           /\ InvocationRows(stored, f) = InvocationRows(Alone, all)
           /\ \A k : ServerComponents(stored, f, k) = ServerComponents(Alone, all, k)
<1>1. Alone \in SUBSET All
  BY TopLevel
<1>2. \A t, time : t \in Turns(stored) /\ JoinedTurnWhere(stored, f, t, time) <=>
                   t \in Turns(Alone) /\ JoinedTurnWhere(Alone, all, t, time)
  BY SameRows
<1>3. \A c : /\ c \in Calls(stored) <=> c.turn \in Turns(stored) /\ OfItsTurn(c)
             /\ c \in Calls(Alone) <=> c.turn \in Turns(Alone) /\ OfItsTurn(c)
  BY <1>1, RowsOfTheirTurn
<1>4. \A c : /\ c \in Invocations(stored) <=> c.turn \in Turns(stored) /\ StepOfItsTurn(c)
             /\ c \in Invocations(Alone) <=> c.turn \in Turns(Alone) /\ StepOfItsTurn(c)
  BY <1>1, RowsOfTheirTurn
<1>5. \A c : /\ c \in Components(stored) <=> c.turn \in Turns(stored) /\ PartOfItsTurn(c)
             /\ c \in Components(Alone) <=> c.turn \in Turns(Alone) /\ PartOfItsTurn(c)
  BY <1>1, RowsOfTheirTurn
<1>6. CallRows(stored, f) = CallRows(Alone, all)
  BY <1>2, <1>3 DEF CallRows
<1>7. InvocationRows(stored, f) = InvocationRows(Alone, all)
  BY <1>2, <1>4 DEF InvocationRows
<1>8. ASSUME NEW k
      PROVE  ServerComponents(stored, f, k) = ServerComponents(Alone, all, k)
  BY <1>2, <1>5 DEF ServerComponents
<1> QED
  BY <1>6, <1>7, <1>8

SummaryFields == {"turns", "tokens", "toolCalls", "invocations", "sessions", "raws", "errors"}
LEMMA SubagentsCountNowhere ==
    ASSUME stored \in SUBSET All, NEW f \in Filters, NEW width
    PROVE  SubagentsNowhere(f, width)
<1> DEFINE all == [f EXCEPT !.subagents = TRUE]
           asked == \E x \in stored \ Alone : Transcripts[x].session.id \in f.sessions
           a == Summary(stored, f)
           b == Summary(Alone, all)
           Rest(summary) == [summary EXCEPT !.raws = 0]
<1> SUFFICES ASSUME ~f.subagents
             PROVE  SubagentsNowhere(f, width)
  BY DEF SubagentsNowhere
<1>1. Alone \in SUBSET All
  BY TopLevel
<1>2. /\ TurnWhere(stored, f) = TurnWhere(Alone, all) /\ SessionWhere(stored, f) = SessionWhere(Alone, all)
      /\ ParseErrorWhere(stored, f) = ParseErrorWhere(Alone, all)
      /\ asked \/ RawEventWhere(stored, f) = RawEventWhere(Alone, all)
  BY SameRows, SameLines
<1>3. /\ CallRows(stored, f) = CallRows(Alone, all) /\ InvocationRows(stored, f) = InvocationRows(Alone, all)
      /\ \A k : ServerComponents(stored, f, k) = ServerComponents(Alone, all, k)
  BY SameCalls
<1>4. HasRuntimeConstraint(all) <=> HasRuntimeConstraint(f)
  BY SameFilters
<1> HIDE DEF all, asked
<1>5. Rest(a) = Rest(b) /\ (asked \/ a.raws = b.raws)
  <2>1. DOMAIN a = SummaryFields /\ DOMAIN b = SummaryFields
    BY DEF Summary, SummaryFields
  <2>2. /\ a.turns = b.turns /\ a.tokens = b.tokens /\ a.toolCalls = b.toolCalls
        /\ a.invocations = b.invocations /\ a.sessions = b.sessions /\ a.errors = b.errors
        /\ a.raws = Cardinality(RawEventWhere(stored, f)) /\ b.raws = Cardinality(RawEventWhere(Alone, all))
    BY <1>2, Zenon DEF Summary
  <2> HIDE DEF a, b
  <2>3. Rest(a) = Rest(b)
    BY <2>1, <2>2 DEF SummaryFields
  <2> QED
    BY <1>2, <2>2, <2>3
<1>6. ActivitySeries(stored, f, width) = ActivitySeries(Alone, all, width)
  BY <1>1, <1>2, SeriesRows, ZenonT(60) DEF Timed
<1>7. ListModels(stored, f) = ListModels(Alone, all)
  BY <1>3, ModelRows
<1>8. ListTools(stored, f) = ListTools(Alone, all)
  BY <1>3, ToolRows
<1>9. ListMCPs(stored, f) = ListMCPs(Alone, all)
  <2>1. McpCalls(stored, f) = McpCalls(Alone, all)
    BY <1>3 DEF McpCalls
  <2>2. ListMCPsCore(stored, f) = ListMCPsCore(Alone, all)
    BY <1>4, <2>1, McpRows DEF McpKeys
  <2>3. \A k : ComponentAvailability(stored, f, "mcp_server", k) = ComponentAvailability(Alone, all, "mcp_server", k)
    BY <1>3 DEF ComponentAvailability, ServerComponents
  <2> QED
    BY <2>2, <2>3 DEF ListMCPs
<1> HIDE DEF a, b, Rest
<1> QED
  BY <1>5, <1>6, <1>7, <1>8, <1>9 DEF SubagentsNowhere, SameSummary, SummaryOf, all, asked, a, b, Rest

-----------------------------------------------------------------------------
(* The projects *)

OfProject(T, p) == {t \in T : t.project = p}
ProjectRow(T, p) ==
    [project |-> p, sessions |-> Cardinality({t.session : t \in OfProject(T, p)}),
     turns |-> Cardinality(OfProject(T, p)), toolCalls |-> Total(Size, OfProject(T, p))]

\* each row counts its project's turns, and their calls
CountEach(R, T) ==
    \A r \in R : /\ r.turns = Cardinality(OfProject(T, r.project))
                 /\ r.toolCalls = Total(Size, OfProject(T, r.project))

(* Rows that count the turns of each project count the turns. *)
LEMMA ProjectCounts ==
    ASSUME NEW T, IsFiniteSet(T), NEW R, CountEach(R, T),
           \A r, q \in R : r.project = q.project => r = q,
           \A t \in T : \E r \in R : r.project = t.project
    PROVE  Total(TurnCount, R) = Cardinality(T)
<1> DEFINE name == [r \in R |-> r.project]
           key == [t \in T |-> t.project]
           w == [r \in R |-> TurnCount(r)]
<1>1. Lists(R, name, T, key)
  BY DEF Lists
<1>2. DOMAIN w = R /\ \A r \in R : w[r] = r.turns /\ name[r] = r.project
  BY DEF TurnCount
<1>3. \A p : OfProject(T, p) = Part(T, key, p)
  BY DEF OfProject, Part
<1>4. Total(TurnCount, R) = Cardinality(Units(w))
  BY DEF Total
<1> HIDE DEF name, key, w
<1>5. \A r \in R : w[r] = Cardinality(Part(T, key, name[r]))
  BY <1>2, <1>3 DEF CountEach
<1> QED
  BY <1>1, <1>2, <1>4, <1>5, Grouped

LEMMA WindowedProjects ==
    ASSUME stored \in SUBSET All, NEW f, Windowed(f), NEW projects
    PROVE  /\ CountEach(ListProjects(stored, f, projects), TurnWhere(stored, f))
           /\ Total(TurnCount, ListProjects(stored, f, projects)) = Cardinality(TurnWhere(stored, f))
<1> DEFINE T == {t \in Turns(stored) : JoinedTurnWhere(stored, f, t, ActivityTime(t))}
           W == TurnWhere(stored, f)
           R == {ProjectRow(T, p) : p \in {t.project : t \in T}}
<1>1. T = W /\ IsFiniteSet(W)
  <2>1. \A t \in Turns(stored) : JoinedTurnWhere(stored, f, t, ActivityTime(t)) <=> t \in W
    BY JoinedTurns
  <2>2. W \subseteq Turns(stored) /\ IsFiniteSet(W)
    BY TurnsFinite
  <2> HIDE DEF W
  <2> QED
    BY <2>1, <2>2
<1>2. ListProjects(stored, f, projects) = R
  <2>1. ListProjects(stored, f, projects) = ListProjectsWindowed(stored, f)
    BY DEF ListProjects, Windowed
  <2>2. ListProjectsWindowed(stored, f) = R
    BY DEF ListProjectsWindowed, ProjectRow, OfProject
  <2> QED
    BY <2>1, <2>2
<1>3. \A p : /\ ProjectRow(T, p).project = p /\ ProjectRow(T, p).turns = Cardinality(OfProject(T, p))
            /\ ProjectRow(T, p).toolCalls = Total(Size, OfProject(T, p))
  BY DEF ProjectRow
<1> HIDE DEF T, W
<1>4. \A r \in R : \E p : r = ProjectRow(T, p)
  OBVIOUS
<1>5. \A t \in T : ProjectRow(T, t.project) \in R
  OBVIOUS
<1> HIDE DEF R
<1>6. CountEach(R, T)
  BY <1>3, <1>4 DEF CountEach
<1>7. \A r, q \in R : r.project = q.project => r = q
  BY <1>3, <1>4
<1>8. \A t \in T : \E r \in R : r.project = t.project
  BY <1>3, <1>5
<1>9. Total(TurnCount, R) = Cardinality(T)
  BY <1>1, <1>6, <1>7, <1>8, ProjectCounts
<1> QED
  BY <1>1, <1>2, <1>6, <1>9 DEF W

TurnsAt(x) == {TurnRow(x, i) : i \in DOMAIN Transcripts[x].turns}
(* A session has the turns it counts. *)
LEMMA TurnsOfSession ==
    ASSUME NEW x \in All
    PROVE  IsFiniteSet(TurnsAt(x)) /\ Cardinality(TurnsAt(x)) = SessionAt(x).turns
<1> DEFINE n == Len(Transcripts[x].turns)
           D == DOMAIN Transcripts[x].turns
           g == [i \in D |-> TurnRow(x, i)]
           T == TurnsAt(x)
<1>1. n \in Nat /\ D = 1..n /\ SessionAt(x).turns = n
  BY RowAssumption, Listed, SessionFields DEF All
<1>2. \A i \in D : TurnRow(x, i).index = i
  BY TurnFields
<1>3. g \in [D -> T] /\ (\A i \in D : g[i] = TurnRow(x, i)) /\ (\A t \in T : \E i \in D : TurnRow(x, i) = t)
  BY DEF TurnsAt
<1> HIDE DEF n, D, g, T
<1>4. g \in Bijection(D, T)
  <2>1. \A i, j \in D : g[i] = g[j] => i = j
    BY <1>2, <1>3
  <2> QED
    BY <1>3, <2>1 DEF Bijection, Injection, Surjection, IsInjective
<1>5. IsFiniteSet(D) /\ Cardinality(D) = n
  <2>1. Cardinality(1..n) = IF 1 > n THEN 0 ELSE n - 1 + 1
    BY <1>1, FS_Interval
  <2>2. IsFiniteSet(1..n)
    BY <1>1, FS_Interval
  <2> QED
    BY <1>1, <2>1, <2>2
<1>6. ExistsBijection(D, T)
  BY <1>4 DEF ExistsBijection
<1> QED
  BY <1>1, <1>5, <1>6, FS_Bijection DEF T

SessionsOf(f, p) == {s \in Sessions(stored) : s.project = p /\ SubagentExclude(f, s)}
MineOf(f, p) == SessionsOf(f, p) \cap SessionWhere(stored, [f EXCEPT !.subagents = TRUE])
TurnsOfSessions(s) == s.turns
CallsOfSession(s) == Total(Size, {t \in Turns(stored) : t.session.id = s.id})
\* without a window
SessionsTurns(f) == {t \in Turns(stored) : t.session \in SessionWhere(stored, f)}

(* The sessions that are joined with a project are those the filter admits. *)
LEMMA SessionAdmitted ==
    ASSUME NEW f \in Filters, NEW p, NEW s
    PROVE  s \in MineOf(f, p) <=> s \in SessionWhere(stored, f) /\ s.project = p
<1> DEFINE all == [f EXCEPT !.subagents = TRUE]
<1>1. DOMAIN f = AllFields
  BY FilterFields
<1>2. /\ all.sources = f.sources /\ all.projects = f.projects /\ all.sessions = f.sessions
      /\ all.statuses = f.statuses /\ all.since = f.since /\ all.until = f.until /\ all.subagents
  BY <1>1 DEF AllFields
<1> HIDE DEF all
<1>3. \A t : InWindow(all, t) <=> InWindow(f, t)
  BY <1>2 DEF InWindow
<1>4. \A r : Names(all, r) <=> Names(f, r)
  BY <1>2 DEF Names
<1>5. \A r : r \in SessionWhere(stored, f) <=> r \in SessionWhere(stored, all) /\ SubagentExclude(f, r)
  BY <1>2, <1>3, <1>4 DEF SessionWhere, SubagentExclude
<1>6. SessionWhere(stored, all) \subseteq Sessions(stored)
  BY DEF SessionWhere
<1> QED
  BY <1>5, <1>6 DEF MineOf, SessionsOf, all

(* Unless a status is asked for, those are the turns of the summary. *)
LEMMA SameGrain ==
    ASSUME stored \in SUBSET All, NEW f, ~Windowed(f), f.statuses = {}
    PROVE  SessionsTurns(f) = TurnWhere(stored, f)
<1>1. \A time : InWindow(f, time)
  BY DEF InWindow, Windowed
<1>2. ASSUME NEW t \in Turns(stored)
      PROVE  t.session \in SessionWhere(stored, f) <=> t \in TurnWhere(stored, f)
  <2>1. PICK x \in stored : \E i \in DOMAIN Transcripts[x].turns : t = TurnRow(x, i)
    BY TurnFrom
  <2>2. /\ t.session = SessionAt(x) /\ t.subagent = t.session.subagent
        /\ t.project = t.session.project
    BY <2>1, TurnFields
  <2>3. t.session \in Sessions(stored)
    BY <2>1, <2>2 DEF Sessions
  <2> QED
    BY <1>1, <2>2, <2>3 DEF SessionWhere, TurnWhere, Allows, SubagentExclude
<1>3. TurnWhere(stored, f) \subseteq Turns(stored)
  BY DEF TurnWhere
<1> QED
  BY <1>2, <1>3 DEF SessionsTurns

(* The sessions of a project have its turns, and their calls. *)
LEMMA SessionTurns ==
    ASSUME stored \in SUBSET All, OneVersion, NEW f \in Filters, NEW p
    PROVE  LET S == OfProject(SessionsTurns(f), p)
           IN /\ Total(TurnsOfSessions, MineOf(f, p)) = Cardinality(S)
              /\ Total(CallsOfSession, MineOf(f, p)) = Total(Size, S)
<1> DEFINE S == OfProject(SessionsTurns(f), p)
           R == MineOf(f, p)
           key == [t \in S |-> t.session]
           name == [s \in R |-> s]
           w == [s \in R |-> TurnsOfSessions(s)]
           c == [s \in R |-> CallsOfSession(s)]
           v == [t \in S |-> Size(t)]
<1>1. S \subseteq Turns(stored) /\ IsFiniteSet(S)
  <2>1. S \subseteq Turns(stored)
    BY DEF OfProject, SessionsTurns
  <2> QED
    BY <2>1, TurnsFinite, FS_Subset
<1>2. \A s : s \in R <=> s \in SessionWhere(stored, f) /\ s.project = p
  BY SessionAdmitted
<1>3. \A t : t \in Turns(stored) <=> \E x \in stored : \E i \in DOMAIN Transcripts[x].turns : t = TurnRow(x, i)
  BY TurnFrom
<1>4. \A x \in stored : \A i \in DOMAIN Transcripts[x].turns :
         TurnRow(x, i).session = SessionAt(x) /\ TurnRow(x, i).project = SessionAt(x).project
  BY TurnFields
<1>5. \A s \in R : \E x \in stored : s = SessionAt(x)
  BY <1>2 DEF SessionWhere, Sessions
<1>6. \A x, y \in stored : SessionAt(x).id = SessionAt(y).id => x = y
  <2>1. \A x \in stored : SessionAt(x).id = Transcripts[x].session.id
    BY SessionFields
  <2> QED
    BY <2>1 DEF OneVersion
<1>7. \A t \in Turns(stored) : t \in S <=> t.session \in R
  <2>1. \A t \in Turns(stored) : t.project = t.session.project
    BY <1>3, <1>4
  <2> QED
    BY <1>2, <2>1 DEF OfProject, SessionsTurns
<1> HIDE DEF R, S
<1>8. ASSUME NEW s \in R
      PROVE  /\ Part(S, key, s) = {t \in Turns(stored) : t.session.id = s.id}
             /\ Cardinality(Part(S, key, s)) = s.turns
  <2>1. PICK x \in stored : s = SessionAt(x)
    BY <1>5
  <2>2. ASSUME NEW t \in Turns(stored), t.session.id = s.id
        PROVE  t \in TurnsAt(x)
    <3>1. PICK y \in stored : \E i \in DOMAIN Transcripts[y].turns : t = TurnRow(y, i)
      BY <1>3
    <3>2. SessionAt(y).id = SessionAt(x).id
      BY <1>4, <2>1, <2>2, <3>1
    <3>3. y = x
      BY <1>6, <3>2
    <3> QED
      BY <3>1, <3>3 DEF TurnsAt
  <2>3. ASSUME NEW t \in TurnsAt(x)
        PROVE  t \in S /\ t.session = s
    <3>1. PICK i \in DOMAIN Transcripts[x].turns : t = TurnRow(x, i)
      BY DEF TurnsAt
    <3>2. t.session = s /\ t \in Turns(stored)
      BY <1>3, <1>4, <2>1, <3>1
    <3> QED
      BY <1>7, <3>2
  <2>4. Part(S, key, s) = TurnsAt(x)
    BY <1>1, <2>2, <2>3 DEF Part
  <2>5. {t \in Turns(stored) : t.session.id = s.id} = TurnsAt(x)
    BY <1>1, <2>2, <2>3
  <2>6. Cardinality(TurnsAt(x)) = s.turns
    BY <2>1, TurnsOfSession
  <2> QED
    BY <2>4, <2>5, <2>6
<1>9. Lists(R, name, S, key)
  BY <1>1, <1>7 DEF Lists
<1>10. v \in [S -> Nat]
  <2>1. ASSUME NEW t \in S
        PROVE  Size(t) \in Nat
    BY <1>1, TurnsFinite, TurnTyped
  <2> QED
    BY <2>1
<1>11. ASSUME NEW s \in R
       PROVE  c[s] = Cardinality(Units([t \in Part(S, key, name[s]) |-> v[t]]))
  <2> DEFINE P == Part(S, key, s)
  <2>1. c[s] = Total(Size, P) /\ name[s] = s
    BY <1>8 DEF CallsOfSession
  <2>2. [t \in P |-> Size(t)] = [t \in P |-> v[t]]
    BY DEF Part
  <2>3. Total(Size, P) = Cardinality(Units([t \in P |-> v[t]]))
    BY <2>2 DEF Total
  <2> HIDE DEF P, c, name, v
  <2> QED
    BY <2>1, <2>3 DEF P
<1>12. \A s \in R : w[s] = Cardinality(Part(S, key, name[s]))
  BY <1>8 DEF TurnsOfSessions
<1>13. /\ DOMAIN w = R /\ DOMAIN c = R
       /\ Total(TurnsOfSessions, R) = Cardinality(Units(w)) /\ Total(CallsOfSession, R) = Cardinality(Units(c))
       /\ Total(Size, S) = Cardinality(Units(v))
  BY DEF Total
<1> HIDE DEF key, name, w, c, v
<1>14. Cardinality(Units(w)) = Cardinality(S)
  BY <1>1, <1>9, <1>12, <1>13, Grouped
<1>15. Cardinality(Units(c)) = Cardinality(Units(v))
  BY <1>1, <1>9, <1>10, <1>11, <1>13, GroupedSum
<1> QED
  BY <1>13, <1>14, <1>15 DEF R, S

LEMMA SessionProjects ==
    ASSUME stored \in SUBSET All, OneVersion, NEW f \in Filters, ~Windowed(f),
           NEW projects, \A s \in Sessions(stored) : s.project \in projects
    PROVE  /\ CountEach(ListProjects(stored, f, projects), SessionsTurns(f))
           /\ Total(TurnCount, ListProjects(stored, f, projects)) = Cardinality(SessionsTurns(f))
<1> DEFINE Row(p) == [project |-> p, sessions |-> Cardinality(MineOf(f, p)),
                      turns |-> Total(TurnsOfSessions, MineOf(f, p)), toolCalls |-> Total(CallsOfSession, MineOf(f, p))]
           listed == {p \in projects : MineOf(f, p) # {} \/ (SessionsOf(f, p) = {} /\ ~HasRuntimeConstraint(f))}
           R == {Row(p) : p \in listed}
           T == SessionsTurns(f)
<1>1. ListProjects(stored, f, projects) = R
  BY DEF ListProjects, Windowed, MineOf, SessionsOf, Total, TurnsOfSessions, CallsOfSession
<1>2. \A p : /\ Row(p).project = p /\ Row(p).turns = Total(TurnsOfSessions, MineOf(f, p))
            /\ Row(p).toolCalls = Total(CallsOfSession, MineOf(f, p))
  OBVIOUS
<1>3. \A p : /\ Total(TurnsOfSessions, MineOf(f, p)) = Cardinality(OfProject(T, p))
            /\ Total(CallsOfSession, MineOf(f, p)) = Total(Size, OfProject(T, p))
  BY SessionTurns
<1>4. ASSUME NEW t \in T
      PROVE  t.project \in listed
  <2>1. t \in Turns(stored) /\ t.session \in SessionWhere(stored, f)
    BY DEF SessionsTurns
  <2>2. PICK x \in stored : \E i \in DOMAIN Transcripts[x].turns : t = TurnRow(x, i)
    BY <2>1, TurnFrom
  <2>3. t.project = t.session.project
    BY <2>2, TurnFields
  <2>4. t.session \in Sessions(stored)
    BY <2>1 DEF SessionWhere
  <2>5. t.session \in MineOf(f, t.project)
    BY <2>1, <2>3, SessionAdmitted
  <2> QED
    BY <2>3, <2>4, <2>5
<1>5. IsFiniteSet(T)
  BY TurnsFinite, FS_Subset DEF SessionsTurns
<1> HIDE DEF Row, listed, T
<1>6. \A r \in R : \E p : r = Row(p)
  OBVIOUS
<1>7. \A t \in T : Row(t.project) \in R
  BY <1>4
<1> HIDE DEF R
<1>8. \A r, q \in R : r.project = q.project => r = q
  BY <1>2, <1>6
<1>9. \A t \in T : \E r \in R : r.project = t.project
  BY <1>2, <1>7
<1>10. CountEach(R, T)
  BY <1>2, <1>3, <1>6 DEF CountEach
<1>11. Total(TurnCount, R) = Cardinality(T)
  BY <1>5, <1>8, <1>9, <1>10, ProjectCounts
<1> QED
  BY <1>1, <1>10, <1>11 DEF T

LEMMA ProjectsAdd ==
    ASSUME stored \in SUBSET All, OneVersion, NEW f \in Filters
    PROVE  ProjectsAddUp(f)
<1> DEFINE R == ListProjects(stored, f, Projects)
           T == CountedTurns(f)
<1>1. CountEach(R, T) /\ Total(TurnCount, R) = Cardinality(T)
  <2>1. \A s \in Sessions(stored) : s.project \in Projects
    BY SessionFields DEF Sessions, Projects, All
  <2>2. CASE Windowed(f)
    BY <2>2, WindowedProjects DEF CountedTurns
  <2>3. CASE ~Windowed(f)
    BY <2>1, <2>3, SessionProjects DEF CountedTurns, SessionsTurns
  <2> QED
    BY <2>2, <2>3
<1>2. Windowed(f) \/ f.statuses = {} => T = TurnWhere(stored, f)
  BY SameGrain DEF CountedTurns, SessionsTurns
<1> HIDE DEF R, T
<1>3. \A r \in R : /\ r.turns = Cardinality({t \in T : t.project = r.project})
                  /\ r.toolCalls = Total(Size, {t \in T : t.project = r.project})
  BY <1>1 DEF CountEach, OfProject
<1> QED
  BY <1>1, <1>2, <1>3 DEF ProjectsAddUp, CountsMatch, R, T

-----------------------------------------------------------------------------
(* ListingsAgreeAlways. For any transcripts, filters and declared servers: the projects, each *)
(* and in all, count the turns and calls of the turns in a window, and of the sessions that     *)
(* the filter admits without one, which are the summary's turns unless a status is asked for;    *)
(* the activity adds up to the summary; a row of tools is the calls it drills down to; the         *)
(* windows of a period partition it; subagents that were not asked for count nowhere; and            *)
(* without a window the tools and the models add up to the summary, and a server was available        *)
(* in the turns that called it (store/sqlite/listings.go).                                              *)
THEOREM ListingsAgreeAlways == ListSpec => []ListingsAgree
<1>1. ListInit => WalkInv
  BY WalkStarts
<1>2. WalkInv /\ [ListNext]_listVars => WalkInv'
  BY WalkGoesOn
<1>3. WalkInv => ListingsAgree
  <2> SUFFICES ASSUME WalkInv PROVE TotalsAgree
    BY DEF ListingsAgree
  <2>1. stored \in SUBSET All /\ OneVersion
    BY DEF WalkInv, WalkTypeOK
  <2>2. UnusedIsUnused
    BY <2>1, UnusedServers
  <2>3. ASSUME NEW f \in Filters
        PROVE  /\ ProjectsAddUp(f) /\ ActivityAddsUp(f, 4) /\ CallsAddUp(f) /\ DrillDownsAgree(f)
               /\ ServersAgree(f) /\ WindowsPartition(f) /\ SubagentsNowhere(f, 4)
    BY <2>1, ProjectsAdd, ActivityAdds, CallsAdd, DrillDowns, ServersAdd, WindowsAdd, SubagentsCountNowhere
  <2> QED
    BY <2>2, <2>3 DEF TotalsAgree
<1> QED
  BY <1>1, <1>2, <1>3, PTL DEF ListSpec

-----------------------------------------------------------------------------
(* The live table *)

(* The three ways in which a session is told of. *)
FromHook(e) ==
    /\ e.type = "hook" /\ ~e.of.subagent
    /\ e.id = e.of.external /\ e.external = "" /\ e.path \in {"", e.of.path}
FromActivity(e) == e.type = "session.activity" /\ e.id = "" /\ e.external = "" /\ e.path = e.of.path
FromIngest(e) ==
    e.type = "ingest.session" /\ e.id = e.of.id /\ e.external = e.of.external /\ e.path = e.of.path

Event(e) ==
    /\ \E x \in All : e.of = SessionOf(x)
    /\ e.source = e.of.source /\ e.at \in Nat /\ e.n \in Nat
    /\ FromHook(e) \/ FromActivity(e) \/ FromIngest(e)

TableTypeOK ==
    /\ live \subseteq told /\ clock \in Nat
    /\ \A e \in told : Event(e) /\ e.n < clock
    /\ \A d, e \in told : d.n = e.n => d = e

(* What was told is in the table, unless something newer under the same key is. *)
Covers(d, e) == Key(d) = Key(e) /\ (d = e \/ Supersedes(d, e))
TableCovers == \A e \in told : \E d \in live : Covers(d, e)

TableInv == TableTypeOK /\ TableCovers

(* Of two events one supersedes the other, and the order has no cycles. *)
LEMMA SupersedesOrders ==
    /\ \A d, e : Event(d) /\ Event(e) /\ d.n # e.n => Supersedes(d, e) \/ Supersedes(e, d)
    /\ \A d, e : Event(d) /\ Event(e) /\ Supersedes(d, e) => ~Supersedes(e, d)
    /\ \A c, d, e : Event(c) /\ Event(d) /\ Event(e) /\ Supersedes(c, d) /\ Supersedes(d, e) => Supersedes(c, e)
BY DEF Event, Supersedes

(* The newest of some events is that of all when all are covered. *)
LEMMA SameNewest ==
    ASSUME NEW A, NEW L \in SUBSET A, \A e \in A : Event(e),
           \A e \in A : \E d \in L : d = e \/ Supersedes(d, e)
    PROVE  Newest(L) = Newest(A)
<1> DEFINE Top(S, e) == e \in S /\ \A d \in S \ {e} : Supersedes(e, d)
<1>1. ASSUME NEW e, Top(L, e) PROVE Top(A, e)
  <2> SUFFICES ASSUME NEW d \in A, d # e PROVE Supersedes(e, d)
    BY <1>1
  <2>1. PICK c \in L : c = d \/ Supersedes(c, d)
    OBVIOUS
  <2>2. c = e \/ Supersedes(e, c)
    BY <1>1
  <2> QED
    BY <1>1, <2>1, <2>2, SupersedesOrders
<1>2. ASSUME NEW e, Top(A, e) PROVE Top(L, e)
  <2>1. PICK c \in L : c = e \/ Supersedes(c, e)
    BY <1>2
  <2>2. c = e
    BY <1>2, <2>1, SupersedesOrders
  <2> QED
    BY <1>2, <2>1, <2>2
<1>3. \A e : Top(L, e) <=> Top(A, e)
  BY <1>1, <1>2
<1>4. Newest(L) = (CHOOSE e : Top(L, e)) /\ Newest(A) = (CHOOSE e : Top(A, e))
  BY DEF Newest
<1>5. (CHOOSE e : Top(L, e)) = (CHOOSE e : Top(A, e))
  BY <1>3
<1> QED
  BY <1>4, <1>5

(* The names of two sessions. *)
LEMMA SessionNames ==
    ASSUME NEW s, NEW t, NEW x \in All, NEW y \in All, s = SessionOf(x), t = SessionOf(y)
    PROVE  s.id # "" /\ s.external # "" /\ s.path # "" /\ NamesApart(s, t) /\ NamesApart(t, s)
BY StatusAssumption DEF All

(* One key is one name of one session, main or not. *)
LEMMA SameKey ==
    ASSUME NEW d, NEW e, Event(d), Event(e), Key(d) = Key(e)
    PROVE  /\ d.of.source = e.of.source /\ d.type = e.type
           /\ d.of.id = e.of.id /\ d.of.external = e.of.external
<1>1. PICK x \in All : d.of = SessionOf(x)
  BY DEF Event
<1>2. PICK y \in All : e.of = SessionOf(y)
  BY DEF Event
<1>3. /\ "" \notin {d.of.id, d.of.external, d.of.path} /\ "" \notin {e.of.id, e.of.external, e.of.path}
      /\ NamesApart(d.of, e.of) /\ NamesApart(e.of, d.of)
  BY <1>1, <1>2, SessionNames
<1>4. d.source = e.source /\ d.source = d.of.source /\ e.source = e.of.source
  BY DEF Key, Event
<1> DEFINE name(v) == IF v.id # "" THEN v.id ELSE IF v.external # "" THEN v.external ELSE v.path
<1>5. name(d) = name(e)
  BY DEF Key
<1>6. /\ FromHook(d) => name(d) = d.of.external
      /\ FromActivity(d) => name(d) = d.of.path
      /\ FromIngest(d) => name(d) = d.of.id
      /\ FromHook(e) => name(e) = e.of.external
      /\ FromActivity(e) => name(e) = e.of.path
      /\ FromIngest(e) => name(e) = e.of.id
  BY <1>3 DEF FromHook, FromActivity, FromIngest
<1> HIDE DEF name
<1>7. CASE FromHook(d) /\ FromHook(e)
  BY <1>3, <1>4, <1>5, <1>6, <1>7 DEF FromHook, NamesApart
<1>8. CASE FromActivity(d) /\ FromActivity(e)
  BY <1>3, <1>4, <1>5, <1>6, <1>8 DEF FromActivity, NamesApart
<1>9. CASE FromIngest(d) /\ FromIngest(e)
  BY <1>3, <1>4, <1>5, <1>6, <1>9 DEF FromIngest, NamesApart
<1>10. \/ FromHook(d) /\ FromHook(e)
       \/ FromActivity(d) /\ FromActivity(e)
       \/ FromIngest(d) /\ FromIngest(e)
  <2>1. d.of.external \notin {e.of.path, e.of.id} /\ d.of.path \notin {e.of.external, e.of.id}
        /\ d.of.id \notin {e.of.external, e.of.path}
    BY <1>3 DEF NamesApart
  <2>2. (FromHook(d) \/ FromActivity(d) \/ FromIngest(d)) /\ (FromHook(e) \/ FromActivity(e) \/ FromIngest(e))
    BY DEF Event
  <2> QED
    BY <1>5, <1>6, <2>1, <2>2
<1> QED
  BY <1>7, <1>8, <1>9, <1>10

(* An event finds the row of a main session just when it is about that session. *)
LEMMA FindsItsRow ==
    ASSUME NEW x \in All, ~SessionOf(x).subagent, NEW e \in told, Event(e)
    PROVE  Correlates(e, LiveItem(x)) <=> e \in AboutSession(SessionAt(x))
<1> DEFINE s == SessionOf(x)
<1>1. PICK y \in All : e.of = SessionOf(y)
  BY DEF Event
<1>2. /\ LiveItem(x).source = s.source /\ LiveItem(x).id = s.id
      /\ LiveItem(x).external = s.external /\ LiveItem(x).path = s.path
  <2>1. {"id", "source", "external", "path"} \subseteq DOMAIN s
    BY StatusAssumption DEF All
  <2> QED
    BY <2>1 DEF LiveItem, SessionOf
<1>3. SessionAt(x).id = s.id /\ SessionAt(x).source = s.source /\ SessionAt(x).external = s.external
  <2>1. {"id", "source", "external", "path"} \subseteq DOMAIN s
    BY StatusAssumption DEF All
  <2> QED
    BY <2>1 DEF SessionAt, RowOf, SessionOf
<1>4. /\ "" \notin {s.id, s.external, s.path} /\ "" \notin {e.of.id, e.of.external, e.of.path}
      /\ NamesApart(s, e.of) /\ NamesApart(e.of, s) /\ ~s.subagent
  BY <1>1, SessionNames
<1> HIDE DEF s
<1>5. e \in AboutSession(SessionAt(x)) <=>
        \/ e.of.id = s.id
        \/ e.type = "ingest.session" /\ e.of.source = s.source /\ e.of.external = s.external
  BY <1>3 DEF AboutSession
<1>6. Correlates(e, LiveItem(x)) <=>
        /\ e.source = s.source
        /\ \/ e.id # "" /\ e.id \in {s.id, s.external}
           \/ e.external # "" /\ e.external = s.external
           \/ e.path # "" /\ e.path = s.path
  BY <1>2 DEF Correlates
<1>7. CASE FromHook(e)
  BY <1>4, <1>5, <1>6, <1>7 DEF FromHook, Event, NamesApart
<1>8. CASE FromActivity(e)
  BY <1>4, <1>5, <1>6, <1>8 DEF FromActivity, Event, NamesApart
<1>9. CASE FromIngest(e)
  BY <1>4, <1>5, <1>6, <1>9 DEF FromIngest, Event, NamesApart
<1> QED
  BY <1>7, <1>8, <1>9 DEF Event

LEMMA TableShows ==
    ASSUME TableInv, stored \subseteq All
    PROVE  RowShowsNewest
<1> SUFFICES ASSUME NEW x \in stored, ~SessionOf(x).subagent
             PROVE  Laid(LiveItem(x)).current = Expected(x)
  BY DEF RowShowsNewest, SessionOf
<1> DEFINE A == AboutSession(SessionAt(x))
           L == About(LiveItem(x))
<1>1. A \subseteq told /\ L \subseteq live /\ live \subseteq told /\ \A e \in told : Event(e)
  BY DEF AboutSession, About, TableInv, TableTypeOK
<1>2. \A e \in told : Correlates(e, LiveItem(x)) <=> e \in A
  BY <1>1, FindsItsRow
<1>3. L \subseteq A
  BY <1>1, <1>2 DEF About
<1>4. \A e \in A : \E d \in L : d = e \/ Supersedes(d, e)
  <2> SUFFICES ASSUME NEW e \in A PROVE \E d \in L : d = e \/ Supersedes(d, e)
    OBVIOUS
  <2>1. PICK d \in live : Covers(d, e)
    BY <1>1 DEF TableInv, TableCovers
  <2>2. /\ d.of.source = e.of.source /\ d.type = e.type
        /\ d.of.id = e.of.id /\ d.of.external = e.of.external
    BY <1>1, <2>1, SameKey DEF Covers
  <2>3. d \in A
    BY <1>1, <2>2 DEF AboutSession
  <2>4. d \in L
    BY <1>1, <1>2, <2>3 DEF About
  <2> QED
    BY <2>1, <2>4 DEF Covers
<1>5. Newest(L) = Newest(A)
  BY <1>1, <1>3, <1>4, SameNewest
<1>6. L = {} <=> A = {}
  BY <1>3, <1>4
<1>7. LiveItem(x) = [row |-> LiveItem(x).row, source |-> LiveItem(x).source, id |-> LiveItem(x).id,
                     external |-> LiveItem(x).external, path |-> LiveItem(x).path,
                     current |-> LiveItem(x).current, activity |-> LiveItem(x).activity]
  BY DEF LiveItem
<1>8. Laid(LiveItem(x)).current = IF L = {} THEN LiveItem(x).current ELSE Newest(L).status
  BY <1>7 DEF Laid, ApplyLiveEvent
<1> QED
  BY <1>5, <1>6, <1>8 DEF Expected

-----------------------------------------------------------------------------
(* Every step keeps the table *)

LEMMA TellKeeps ==
    ASSUME TableInv, NEW e, Tell(e), e.n = clock, Event(e)
    PROVE  TableInv'
<1> DEFINE same == {d \in live : Key(d) = Key(e)}
<1>1. live' = (IF \A d \in same : Supersedes(e, d) THEN (live \ same) \cup {e} ELSE live)
      /\ told' = told \cup {e} /\ clock' = clock + 1
  BY DEF Tell
<1>2. \A d \in told : Event(d) /\ d.n < clock /\ d.n \in Nat
  BY DEF TableInv, TableTypeOK, Event
<1>3. live \subseteq told /\ clock \in Nat
  BY DEF TableInv, TableTypeOK
<1>4. TableTypeOK'
  <2>1. live' \subseteq told' /\ clock' \in Nat
    BY <1>1, <1>3
  <2>2. \A d \in told' : Event(d) /\ d.n < clock'
    BY <1>1, <1>2, <1>3
  <2>3. \A c, d \in told' : c.n = d.n => c = d
    BY <1>1, <1>2, <1>3 DEF TableInv, TableTypeOK
  <2>4. \A d \in told' : Event(d)'
    BY <2>2 DEF Event, FromHook, FromActivity, FromIngest, All
  <2> QED
    BY <2>1, <2>2, <2>3, <2>4 DEF TableTypeOK
<1>5. \A d \in told' : \E c \in live' : Covers(c, d)
  <2>1. \A d \in told : \E c \in live : Covers(c, d)
    BY DEF TableInv, TableCovers
  <2>2. CASE \A d \in same : Supersedes(e, d)
    <3>1. live' = (live \ same) \cup {e}
      BY <1>1, <2>2
    <3>2. Covers(e, e)
      BY DEF Covers
    <3>3. ASSUME NEW d \in told PROVE \E c \in live' : Covers(c, d)
      <4>1. PICK c \in live : Covers(c, d)
        BY <2>1
      <4>2. CASE c \in same
        <5>1. Supersedes(e, c) /\ Key(e) = Key(c) /\ Event(c) /\ Event(d)
          BY <1>2, <1>3, <2>2, <4>2
        <5>2. Supersedes(e, d) /\ Key(e) = Key(d)
          BY <4>1, <5>1, SupersedesOrders DEF Covers
        <5> QED
          BY <3>1, <5>2 DEF Covers
      <4>3. CASE c \notin same
        BY <3>1, <4>1, <4>3
      <4> QED
        BY <4>2, <4>3
    <3> QED
      BY <1>1, <3>1, <3>2, <3>3
  <2>3. CASE ~ \A d \in same : Supersedes(e, d)
    <3>1. live' = live
      BY <1>1, <2>3
    <3>2. PICK d \in live : Key(d) = Key(e) /\ ~Supersedes(e, d)
      BY <2>3
    <3>3. Supersedes(d, e)
      <4>1. Event(d) /\ d.n # e.n
        BY <1>2, <1>3
      <4> QED
        BY <3>2, <4>1, SupersedesOrders
    <3> QED
      BY <1>1, <2>1, <3>1, <3>2, <3>3 DEF Covers
  <2> QED
    BY <2>2, <2>3
<1>6. TableCovers'
  BY <1>5 DEF TableCovers, Covers, Key, Supersedes
<1> QED
  BY <1>4, <1>6 DEF TableInv

LEMMA PruneKeeps ==
    ASSUME TableInv, PruneLiveSessions
    PROVE  TableInv'
<1>1. PICK cutoff \in 1 .. Now : live' = {e \in live : e.at >= cutoff} /\ told' = {e \in told : e.at >= cutoff}
  BY DEF PruneLiveSessions
<1>2. clock' = clock /\ live \subseteq told /\ \A e \in told : Event(e) /\ e.n < clock /\ e.at \in Nat
  BY DEF PruneLiveSessions, TableInv, TableTypeOK, Event
<1>3. TableTypeOK'
  <2>1. \A d \in told' : Event(d)'
    BY <1>1, <1>2 DEF Event, FromHook, FromActivity, FromIngest, All
  <2> QED
    BY <1>1, <1>2, <2>1 DEF TableInv, TableTypeOK
<1>4. \A e \in told' : \E d \in live' : Covers(d, e)
  <2> SUFFICES ASSUME NEW e \in told, e.at >= cutoff
               PROVE  \E d \in live : d.at >= cutoff /\ Covers(d, e)
    BY <1>1
  <2>1. PICK d \in live : Covers(d, e)
    BY DEF TableInv, TableCovers
  <2>2. d.at >= e.at /\ d.at \in Nat /\ e.at \in Nat
    BY <1>2, <2>1 DEF Covers, Supersedes
  <2> QED
    BY <2>1, <2>2
<1>5. TableCovers'
  BY <1>4 DEF TableCovers, Covers, Key, Supersedes
<1> QED
  BY <1>3, <1>5 DEF TableInv

(* The events that are told of a session. *)
LEMMA HooksTold ==
    ASSUME NEW h \in HookCalls, clock \in Nat
    PROVE  Event(LiveEventFromHook(h)) /\ LiveEventFromHook(h).n = clock
<1> DEFINE s == SessionOf(h.of)
<1>1. h.of \in All /\ ~s.subagent /\ h.at \in Nat /\ FirstNow \in Nat
  BY StatusAssumption DEF All
<1>2. /\ LiveEventFromHook(h).type = "hook" /\ LiveEventFromHook(h).of = s
      /\ LiveEventFromHook(h).source = s.source /\ LiveEventFromHook(h).id = s.external
      /\ LiveEventFromHook(h).external = "" /\ LiveEventFromHook(h).path = (IF h.path THEN s.path ELSE "")
      /\ LiveEventFromHook(h).n = clock /\ LiveEventFromHook(h).at = (IF h.at = 0 THEN Now ELSE h.at)
  BY DEF LiveEventFromHook, Told, SessionOf
<1>3. LiveEventFromHook(h).at \in Nat
  <2>1. Now \in Nat
    BY <1>1 DEF Now
  <2> QED
    BY <1>1, <1>2, <2>1
<1> QED
  BY <1>1, <1>2, <1>3 DEF Event, FromHook

LEMMA ActivityTold ==
    ASSUME NEW x \in Written, clock \in Nat
    PROVE  Event(LiveEventForActivity(x)) /\ LiveEventForActivity(x).n = clock
<1>1. x \in All /\ FirstNow \in Nat
  BY StatusAssumption DEF All
<1>2. Now \in Nat
  BY <1>1 DEF Now
<1> QED
  BY <1>1, <1>2 DEF LiveEventForActivity, Told, SessionOf, Event, FromActivity

LEMMA IngestTold ==
    ASSUME NEW x \in Written, clock \in Nat
    PROVE  Event(LiveEventForSessionIngest(x)) /\ LiveEventForSessionIngest(x).n = clock
<1> DEFINE s == SessionOf(x)
           e == LiveEventForSessionIngest(x)
<1>1. x \in All /\ FirstNow \in Nat /\ LatestSessionActivity(x) \in Nat
  BY StatusAssumption DEF All
<1>2. /\ e.type = "ingest.session" /\ e.of = s /\ e.source = s.source /\ e.id = s.id
      /\ e.external = s.external /\ e.path = s.path /\ e.n = clock
      /\ e.at = (IF LatestSessionActivity(x) = 0 THEN Now ELSE LatestSessionActivity(x))
  BY DEF LiveEventForSessionIngest, Told, SessionOf
<1>3. e.at \in Nat
  BY <1>1, <1>2 DEF Now
<1> QED
  BY <1>1, <1>2, <1>3 DEF Event, FromIngest

LEMMA StatusStepKeeps ==
    ASSUME TableInv, stored \subseteq All, [StatusNext]_<<statusVars, listVars>>
    PROVE  TableInv' /\ stored' \subseteq All
<1>1. clock \in Nat
  BY DEF TableInv, TableTypeOK
<1>2. CASE HookIntake
  BY <1>1, <1>2, HooksTold, TellKeeps DEF HookIntake, listVars
<1>3. CASE Activity
  BY <1>1, <1>3, ActivityTold, TellKeeps DEF Activity, listVars
<1>4. CASE IngestFile
  <2>1. PICK x \in Written : Save(x) /\ Tell(LiveEventForSessionIngest(x))
    BY <1>4 DEF IngestFile
  <2>2. TableInv'
    BY <1>1, <2>1, IngestTold, TellKeeps
  <2>3. x \in All
    BY StatusAssumption DEF All
  <2> QED
    BY <2>1, <2>2, <2>3 DEF Save
<1>5. ASSUME UNCHANGED statusVars PROVE TableInv'
  <2>1. live' = live /\ told' = told /\ clock' = clock
    BY <1>5 DEF statusVars
  <2>2. \A e : Event(e)' <=> Event(e)
    BY DEF Event, FromHook, FromActivity, FromIngest, All
  <2>3. TableTypeOK'
    BY <2>1, <2>2 DEF TableInv, TableTypeOK
  <2>4. TableCovers'
    BY <2>1 DEF TableInv, TableCovers, Covers, Key, Supersedes
  <2> QED
    BY <2>3, <2>4 DEF TableInv
<1>6. CASE FullPass
  BY <1>5, <1>6 DEF FullPass, SaveSession, Save, All
<1>7. CASE Vanish
  BY <1>5, <1>7 DEF Vanish, DeleteSession
<1>8. CASE PruneLiveSessions
  BY <1>8, PruneKeeps DEF PruneLiveSessions, listVars
<1>9. CASE UNCHANGED <<statusVars, listVars>>
  BY <1>5, <1>9 DEF listVars
<1> QED
  BY <1>2, <1>3, <1>4, <1>6, <1>7, <1>8, <1>9 DEF StatusNext

(* NewestStatusShown. Whatever is told of a session, by whichever of its names and in        *)
(* whichever order, before or after it is stored, and whatever the retention has taken from    *)
(* the table, the row of the session shows the newest of it, else what its transcript says       *)
(* (Server.Emit, pruneLiveSessions, overlayLiveSessions).                                         *)
THEOREM NewestStatusShown == StatusSpec => []RowShowsNewest
<1> DEFINE Inv == TableInv /\ stored \subseteq All
<1>1. StatusInit /\ ListInit => Inv
  BY DEF StatusInit, ListInit, TableInv, TableTypeOK, TableCovers
<1>2. Inv /\ [StatusNext]_<<statusVars, listVars>> => Inv'
  BY StatusStepKeeps DEF All
<1>3. Inv => RowShowsNewest
  BY TableShows
<1> HIDE DEF Inv
<1> QED
  BY <1>1, <1>2, <1>3, PTL DEF StatusSpec

-----------------------------------------------------------------------------
(* The list that a page of the status is cut from *)

(* Some items with a time each can be put in order, the latest first. *)
LatestFirst(sorted) == \A i, j \in DOMAIN sorted : i < j => sorted[i].activity >= sorted[j].activity
LEMMA OrderExists ==
    ASSUME NEW S, IsFiniteSet(S), \A s \in S : s.activity \in Nat
    PROVE  \E q \in Bijection(1 .. Cardinality(S), S) : LatestFirst(q)
<1> DEFINE N == Cardinality(S)
           P == {n \in 0 .. N : \A T \in SUBSET S : Cardinality(T) = n => \E q \in Bijection(1 .. n, T) : LatestFirst(q)}
<1>1. N \in Nat /\ \A T \in SUBSET S : IsFiniteSet(T)
  BY FS_CardinalityType, FS_Subset
<1>2. 0 \in P
  <2> SUFFICES ASSUME NEW T \in SUBSET S, Cardinality(T) = 0
               PROVE  \E q \in Bijection(1 .. 0, T) : LatestFirst(q)
    BY <1>1
  <2> DEFINE q == [i \in 1 .. 0 |-> 0]
  <2>1. T = {} /\ 1 .. 0 = {}
    BY <1>1, FS_EmptySet
  <2>2. q \in [1 .. 0 -> T] /\ DOMAIN q = {}
    BY <2>1
  <2> HIDE DEF q
  <2>3. q \in Bijection(1 .. 0, T) /\ LatestFirst(q)
    BY <2>1, <2>2 DEF Bijection, Injection, Surjection, IsInjective, LatestFirst
  <2> QED
    BY <2>3
<1>3. ASSUME NEW n \in 1 .. N, n - 1 \in P PROVE n \in P
  <2> SUFFICES ASSUME NEW T \in SUBSET S, Cardinality(T) = n
               PROVE  \E q \in Bijection(1 .. n, T) : LatestFirst(q)
    BY <1>1
  <2> DEFINE times == {s.activity : s \in T}
  <2>1. IsFiniteSet(T) /\ T # {} /\ n \in Nat /\ n >= 1
    BY <1>1, FS_EmptySet
  <2>2. times \subseteq Nat /\ times # {}
    BY <2>1
  <2> HIDE DEF times
  <2>3. PICK a \in times : \A b \in times : a <= b
    BY <2>2, LeastNumber
  <2>4. PICK m \in T : m.activity = a
    BY DEF times
  <2>5. \A s \in T : s.activity \in Nat /\ s.activity >= m.activity
    BY <2>2, <2>3, <2>4 DEF times
  <2> DEFINE U == T \ {m}
  <2>6. U \in SUBSET S /\ Cardinality(U) = n - 1
    BY <2>1, FS_RemoveElement
  <2>7. PICK p \in Bijection(1 .. n - 1, U) : LatestFirst(p)
    BY <1>3, <2>6
  <2>8. p \in [1 .. n - 1 -> U] /\ DOMAIN p = 1 .. n - 1
        /\ (\A i, j \in 1 .. n - 1 : p[i] = p[j] => i = j)
        /\ \A u \in U : \E i \in 1 .. n - 1 : p[i] = u
    BY <2>7 DEF Bijection, Injection, Surjection, IsInjective
  <2> DEFINE q == [i \in 1 .. n |-> IF i = n THEN m ELSE p[i]]
  <2>9. \A i \in 1 .. n : i = n \/ i \in 1 .. n - 1
    BY <2>1
  <2>10. DOMAIN q = 1 .. n /\ q[n] = m /\ n \in 1 .. n
         /\ \A i \in 1 .. n - 1 : i \in 1 .. n /\ i # n /\ q[i] = p[i] /\ p[i] \in T /\ p[i] # m
    BY <2>1, <2>8
  <2>11. q \in [1 .. n -> T]
    BY <2>9, <2>10
  <2> HIDE DEF q
  <2>12. \A i, j \in 1 .. n : q[i] = q[j] => i = j
    BY <2>8, <2>9, <2>10
  <2>13. \A u \in T : \E i \in 1 .. n : q[i] = u
    BY <2>8, <2>10
  <2>14. \A i, j \in 1 .. n : i < j => q[i].activity >= q[j].activity
    <3> SUFFICES ASSUME NEW i \in 1 .. n, NEW j \in 1 .. n, i < j
                 PROVE  q[i].activity >= q[j].activity
      OBVIOUS
    <3>1. i \in 1 .. n - 1
      BY <2>1
    <3>2. CASE j = n
      BY <2>5, <2>10, <3>1, <3>2
    <3>3. CASE j # n
      <4>1. j \in 1 .. n - 1 /\ p[i].activity >= p[j].activity
        BY <2>7, <2>8, <2>9, <3>1, <3>3 DEF LatestFirst
      <4> QED
        BY <2>10, <3>1, <4>1
    <3> QED
      BY <3>2, <3>3
  <2>15. q \in Bijection(1 .. n, T) /\ LatestFirst(q)
    BY <2>10, <2>11, <2>12, <2>13, <2>14 DEF Bijection, Injection, Surjection, IsInjective, LatestFirst
  <2> QED
    BY <2>15
<1> HIDE DEF P
<1>4. N \in P
  <2>1. \A n \in 0 .. N : n \in P
    BY <1>1, <1>2, <1>3, UpTo
  <2> QED
    BY <1>1, <2>1
<1> QED
  BY <1>4 DEF P

(* The fields of a row of the status. *)
LEMMA ItemFields ==
    ASSUME NEW x \in All
    PROVE  /\ LiveItem(x).row = SessionOf(x).id /\ LiveItem(x).source = SessionOf(x).source
           /\ LiveItem(x).id = SessionOf(x).id /\ LiveItem(x).external = SessionOf(x).external
           /\ LiveItem(x).path = SessionOf(x).path /\ LiveItem(x).activity \in Nat
<1> DEFINE turns == Transcripts[x].turns
           last == IF turns = <<>> THEN [status |-> "", started |-> 0, ended |-> 0] ELSE Last(turns)
<1>1. last.started \in Nat /\ last.ended \in Nat
  <2>1. CASE turns = <<>>
    BY <2>1
  <2>2. CASE turns # <<>>
    <3>1. turns \in Seq(Range(turns))
      BY RowAssumption DEF IsList, All
    <3>2. Last(turns) = turns[Len(turns)] /\ Len(turns) \in DOMAIN turns
      BY <2>2, <3>1 DEF Last
    <3>3. turns[Len(turns)].started \in Nat /\ turns[Len(turns)].ended \in Nat
      BY <3>2, ListAssumption DEF All
    <3> QED
      BY <2>2, <3>2, <3>3
  <2> QED
    BY <2>1, <2>2
<1>2. SessionOf(x).started \in Nat /\ SessionOf(x).ended \in Nat
  BY StatusAssumption DEF All
<1> HIDE DEF last
<1>3. LiveItem(x).activity = FirstTime(FirstTime(last.ended, last.started, 0), SessionOf(x).ended, SessionOf(x).started)
  BY DEF LiveItem, SessionOf, last
<1>4. LiveItem(x).activity \in Nat
  BY <1>1, <1>2, <1>3 DEF FirstTime
<1>5. /\ LiveItem(x).row = SessionOf(x).id /\ LiveItem(x).source = SessionOf(x).source
      /\ LiveItem(x).id = SessionOf(x).id /\ LiveItem(x).external = SessionOf(x).external
      /\ LiveItem(x).path = SessionOf(x).path
  BY DEF LiveItem, SessionOf
<1> QED
  BY <1>4, <1>5

(* What a filter lists of the store. *)
Admitted(f) == {x \in stored : SessionAt(x) \in SessionWhere(stored, f)}
Listing(f) == {LiveItem(x) : x \in Admitted(f)}
LEMMA RowsListed ==
    ASSUME stored \subseteq All, IsFiniteSet(stored), NEW f
    PROVE  /\ IsFiniteSet(Listing(f)) /\ Cardinality(Listing(f)) \in Nat
           /\ Cardinality(Listing(f)) <= Cardinality(stored)
           /\ ListLiveSessions(stored, f) \in Bijection(1 .. Cardinality(Listing(f)), Listing(f))
<1> DEFINE D == Admitted(f)
           I == Listing(f)
           g == [x \in D |-> LiveItem(x)]
<1>1. IsFiniteSet(D) /\ D \subseteq stored /\ Cardinality(D) <= Cardinality(stored)
  BY FS_Subset DEF Admitted
<1>2. g \in Surjection(D, I)
  BY DEF Surjection, Listing
<1> HIDE DEF g
<1>3. IsFiniteSet(I) /\ Cardinality(I) <= Cardinality(D)
  BY <1>1, <1>2, FS_Surjection
<1>4. Cardinality(I) \in Nat /\ Cardinality(D) \in Nat /\ Cardinality(stored) \in Nat
  BY <1>1, <1>3, FS_CardinalityType
<1>5. \A s \in I : s.activity \in Nat
  BY <1>1, ItemFields DEF Listing
<1>6. ListLiveSessions(stored, f) = CHOOSE sorted \in Bijection(1 .. Cardinality(I), I) : LatestFirst(sorted)
  BY DEF ListLiveSessions, SortedByActivity, Listing, Admitted, LatestFirst
<1>7. \E q \in Bijection(1 .. Cardinality(I), I) : LatestFirst(q)
  BY <1>3, <1>5, OrderExists
<1>8. ListLiveSessions(stored, f) \in Bijection(1 .. Cardinality(I), I)
  BY <1>6, <1>7
<1> QED
  BY <1>1, <1>3, <1>4, <1>8

-----------------------------------------------------------------------------
(* A page of it *)

(* What is asked of each page, what it is a page of, and its rows. *)
Ask(f, o) == [[f EXCEPT !.offset = o] EXCEPT !.subagents = FALSE]
MainOnly(f) == [f EXCEPT !.subagents = FALSE]
Sorted(f) == ListLiveSessions(stored, MainOnly(f))
Long(f) == Cardinality(Listing(MainOnly(f)))
Limit(f) == Pagination(f, 100).limit
RowsAt(f, o) == ListedAt(Sorted(f), [limit |-> Limit(f), offset |-> o])

(* The fields of what is asked, page by page. *)
LEMMA StatusFilterFields ==
    ASSUME NEW f \in StatusFilters, NEW o \in Nat
    PROVE  /\ Ask(f, o).sources = f.sources /\ Ask(f, o).projects = f.projects /\ Ask(f, o).sessions = f.sessions
           /\ Ask(f, o).statuses = f.statuses /\ Ask(f, o).since = f.since /\ Ask(f, o).until = f.until
           /\ Ask(f, o).limit = f.limit /\ Ask(f, o).offset = o /\ Ask(f, o).subagents = FALSE
           /\ MainOnly(f).sources = f.sources /\ MainOnly(f).projects = f.projects /\ MainOnly(f).sessions = f.sessions
           /\ MainOnly(f).statuses = f.statuses /\ MainOnly(f).since = f.since /\ MainOnly(f).until = f.until
           /\ MainOnly(f).subagents = FALSE
           /\ f.limit \in Int
<1>1. DOMAIN f = {"sources", "projects", "sessions", "statuses", "since", "until", "subagents", "limit", "offset"}
      /\ f.limit \in Int
  BY StatusAssumption DEF NoFilter
<1> QED
  BY <1>1 DEF Ask, MainOnly

(* The list does not depend on the page that is asked of it. *)
LEMMA SameListing ==
    ASSUME NEW f \in StatusFilters, NEW o \in Nat
    PROVE  ListLiveSessions(stored, Ask(f, o)) = Sorted(f)
<1>1. SessionWhere(stored, Ask(f, o)) = SessionWhere(stored, MainOnly(f))
  <2> DEFINE Passes(g, s) ==
               /\ Allows(g.sources, s.source) /\ Allows(g.projects, s.project) /\ Names(g, s)
               /\ Allows(g.statuses, s.status) /\ SubagentExclude(g, s) /\ InWindow(g, EffectiveTime(s))
  <2> DEFINE a == Ask(f, o)
             b == MainOnly(f)
  <2>0. a.sessions = b.sessions /\ a.subagents = b.subagents
    BY StatusFilterFields
  <2> HIDE DEF a, b
  <2>1. \A s : (Names(a, s) <=> Names(b, s)) /\ (SubagentExclude(a, s) <=> SubagentExclude(b, s))
    BY <2>0 DEF Names, SubagentExclude
  <2> USE DEF a, b
  <2>2. \A t : InWindow(Ask(f, o), t) <=> InWindow(MainOnly(f), t)
    BY StatusFilterFields, ZenonT(60) DEF InWindow
  <2>3. \A s : Passes(Ask(f, o), s) <=> Passes(MainOnly(f), s)
    BY <2>1, <2>2, StatusFilterFields, ZenonT(60)
  <2>4. \A g : SessionWhere(stored, g) = {s \in Sessions(stored) : Passes(g, s)}
    BY Zenon DEF SessionWhere
  <2> HIDE DEF Passes
  <2> QED
    BY <2>3, <2>4
<1> QED
  BY <1>1 DEF ListLiveSessions, Sorted

(* A page is cut where it is asked for, and is not empty by its limit. *)
LEMMA LimitOf ==
    ASSUME NEW f \in StatusFilters, NEW o \in Nat
    PROVE  /\ Pagination(Ask(f, o), 100) = [limit |-> Limit(f), offset |-> o]
           /\ Limit(f) \in Nat /\ Limit(f) >= 1
<1>1. Ask(f, o).limit = f.limit /\ Ask(f, o).offset = o /\ f.limit \in Int
  BY StatusFilterFields
<1> QED
  BY <1>1 DEF Pagination, Limit, maxPageSize

(* The larger of two numbers. *)
LEMMA MaxOfTwo ==
    ASSUME NEW a \in Nat, NEW b \in Nat
    PROVE  Max({a, b}) \in Nat /\ Max({a, b}) >= a /\ Max({a, b}) >= b
<1>1. \E m \in {a, b} : \A n \in {a, b} : m >= n
  OBVIOUS
<1> QED
  BY <1>1 DEF Max

(* A stretch of a list without repetitions has as many rows as places. *)
Stretch(q, a, b) == {q[i] : i \in a .. b}
LEMMA StretchSize ==
    ASSUME NEW I, NEW n \in Nat, NEW q \in Bijection(1 .. n, I), NEW a \in 1 .. n + 1, NEW b \in 0 .. n, a <= b + 1
    PROVE  IsFiniteSet(Stretch(q, a, b)) /\ Cardinality(Stretch(q, a, b)) = b - a + 1
<1> DEFINE T == Stretch(q, a, b)
           g == [i \in a .. b |-> q[i]]
<1>1. a .. b \subseteq 1 .. n /\ a \in Int /\ b \in Int
  OBVIOUS
<1>2. \A i, j \in a .. b : q[i] = q[j] => i = j
  BY <1>1 DEF Bijection, Injection, IsInjective
<1>3. g \in Bijection(a .. b, T)
  BY <1>2 DEF Bijection, Injection, Surjection, IsInjective, Stretch
<1>4. ExistsBijection(a .. b, T)
  BY <1>3 DEF ExistsBijection
<1>5. IsFiniteSet(a .. b) /\ Cardinality(a .. b) = IF a > b THEN 0 ELSE b - a + 1
  BY <1>1, FS_Interval
<1>6. IsFiniteSet(T) /\ Cardinality(T) = Cardinality(a .. b)
  BY <1>4, <1>5, FS_Bijection
<1> QED
  BY <1>1, <1>5, <1>6

(* The list is one of the sessions it is about, each once. *)
LEMMA SortedIs ==
    ASSUME stored \subseteq All, IsFiniteSet(stored), NEW f
    PROVE  /\ Long(f) \in Nat /\ Long(f) <= Cardinality(stored) /\ Cardinality(stored) \in Nat
           /\ Sorted(f) \in Bijection(1 .. Long(f), Listing(MainOnly(f)))
           /\ Len(Sorted(f)) = Long(f)
<1>1. /\ Long(f) \in Nat /\ Long(f) <= Cardinality(stored) /\ Cardinality(stored) \in Nat
      /\ Sorted(f) \in Bijection(1 .. Long(f), Listing(MainOnly(f)))
  BY RowsListed, FS_CardinalityType DEF Long, Sorted
<1>2. Sorted(f) \in [1 .. Long(f) -> Listing(MainOnly(f))]
  BY <1>1 DEF Bijection, Injection
<1>3. Len(Sorted(f)) = Long(f)
  BY <1>1, <1>2
<1> QED
  BY <1>1, <1>3

(* A page, and where the client goes from it. *)
LEMMA PageRead ==
    ASSUME stored \subseteq All, IsFiniteSet(stored), IsFiniteSet(live),
           NEW f \in StatusFilters, NEW o \in 0 .. Long(f)
    PROVE  /\ o \in 0 .. Cardinality(stored)
           /\ RowsAt(f, o) = Stretch(Sorted(f), o + 1, AtMost(o + Limit(f), Long(f)))
           /\ Pages(f)[o].items = OverlayLiveSessions(RowsAt(f, o), Ask(f, o), FALSE)
           /\ Following(Pages(f)[o], o) \in {o, AtMost(o + Limit(f), Long(f))}
           /\ o + Limit(f) < Long(f) => Following(Pages(f)[o], o) = o + Limit(f)
<1> DEFINE N == Long(f)
           L == Limit(f)
           M == AtMost(o + L, N)
           rows == RowsAt(f, o)
           items == OverlayLiveSessions(rows, Ask(f, o), FALSE)
           T == Max({N, o + Cardinality(items)})
           page == LivePage(items, o, Cardinality(rows), T)
<1>1. /\ N \in Nat /\ N <= Cardinality(stored) /\ Cardinality(stored) \in Nat
      /\ Sorted(f) \in Bijection(1 .. N, Listing(MainOnly(f))) /\ Len(Sorted(f)) = N
  BY SortedIs
<1>2. o \in Nat /\ o <= N /\ L \in Nat /\ L >= 1
  BY <1>1, LimitOf
<1>3. M \in Nat /\ o <= M /\ M <= N /\ (M = N \/ M = o + L) /\ (o + L < N => M = o + L) /\ M >= o
  BY <1>1, <1>2 DEF AtMost
<1>4. rows = Stretch(Sorted(f), o + 1, M)
  BY <1>1 DEF RowsAt, ListedAt, Stretch
<1>5. IsFiniteSet(rows) /\ Cardinality(rows) = M - o
  <2>1. o + 1 \in 1 .. N + 1 /\ M \in 0 .. N /\ o + 1 <= M + 1
    BY <1>1, <1>2, <1>3
  <2>2. /\ IsFiniteSet(Stretch(Sorted(f), o + 1, M))
        /\ Cardinality(Stretch(Sorted(f), o + 1, M)) = M - (o + 1) + 1
    <3> HIDE DEF M, N
    <3> QED
      BY <1>1, <2>1, StretchSize
  <2> HIDE DEF rows, M
  <2> QED
    BY <1>2, <1>3, <1>4, <2>2
<1> HIDE DEF rows, M, N
<1>6. IsFiniteSet(items) /\ Cardinality(items) \in Nat
  <2> DEFINE laid == {Laid(row) : row \in rows}
             unused == {e \in live : LiveEventMatchesFilter(e, Ask(f, o)) /\ \A row \in rows : ~Correlates(e, row)}
             own == {LiveOnlyItem(e) : e \in unused}
  <2>1. IsFiniteSet(laid)
    <3> DEFINE g == [row \in rows |-> Laid(row)]
    <3>1. g \in Surjection(rows, laid)
      BY DEF Surjection
    <3> HIDE DEF g, laid
    <3> QED
      BY <1>5, <3>1, FS_Surjection
  <2>2. IsFiniteSet(own)
    <3> DEFINE g == [e \in unused |-> LiveOnlyItem(e)]
    <3>1. g \in Surjection(unused, own)
      BY DEF Surjection
    <3>2. unused \in SUBSET live
      OBVIOUS
    <3> HIDE DEF g, own, unused
    <3>3. IsFiniteSet(unused)
      BY <3>2, FS_Subset
    <3> QED
      BY <3>1, <3>3, FS_Surjection
  <2>3. items = laid \cup IF FALSE \/ Ask(f, o).offset = 0 THEN own ELSE {}
    BY Zenon DEF OverlayLiveSessions
  <2> HIDE DEF laid, own, items
  <2>4. IsFiniteSet(IF FALSE \/ Ask(f, o).offset = 0 THEN own ELSE {})
    BY <2>2, FS_EmptySet
  <2>5. IsFiniteSet(items)
    BY <2>1, <2>3, <2>4, FS_Union
  <2> QED
    BY <2>5, FS_CardinalityType
<1> HIDE DEF items
<1>7. T \in Nat /\ T >= N
  <2>1. o + Cardinality(items) \in Nat
    BY <1>2, <1>6
  <2> QED
    BY <1>1, <2>1, MaxOfTwo
<1> HIDE DEF T
<1>8. o \in 0 .. Cardinality(stored)
  BY <1>1, <1>2
<1>9. Pages(f)[o] = page
  <2>1. Pages(f)[o] = HandleStatus([f EXCEPT !.offset = o], {})
    BY <1>8 DEF Pages
  <2>2. Cardinality({}) # 1
    BY FS_EmptySet
  <2>3. ApplyWatchTargetsToFilter([[f EXCEPT !.offset = o] EXCEPT !.subagents = FALSE], {}) = Ask(f, o)
    BY <2>2 DEF ApplyWatchTargetsToFilter, Ask
  <2>4. /\ Pagination(Ask(f, o), 100) = [limit |-> L, offset |-> o]
        /\ ListLiveSessions(stored, Ask(f, o)) = Sorted(f)
    BY <1>2, LimitOf, SameListing
  <2>5. /\ [limit |-> L, offset |-> o].offset = o
        /\ OverlayLiveSessions(rows, Ask(f, o), {} # {}) = items
    BY DEF OverlayLiveSessions, items
  <2>6. HandleStatus([f EXCEPT !.offset = o], {}) =
          LET p == Pagination(Ask(f, o), 100)
              sorted == ListLiveSessions(stored, Ask(f, o))
              some == OverlayLiveSessions(ListedAt(sorted, p), Ask(f, o), {} # {})
          IN LivePage(some, p.offset, Cardinality(ListedAt(sorted, p)), Max({Len(sorted), p.offset + Cardinality(some)}))
    BY Zenon, <2>3 DEF HandleStatus
  <2>7. ListedAt(Sorted(f), [limit |-> L, offset |-> o]) = rows
    BY Zenon DEF RowsAt, L, rows
  <2> HIDE DEF L
  <2>8. HandleStatus([f EXCEPT !.offset = o], {}) =
          LivePage(items, o, Cardinality(rows), Max({Len(Sorted(f)), o + Cardinality(items)}))
    BY Zenon, <2>4, <2>5, <2>6, <2>7
  <2> QED
    BY <1>1, <2>1, <2>8 DEF T
<1>10. page.items = items /\ page.total = T /\ page.next = NextOffset(o, M - o, T)
  BY <1>5 DEF LivePage
<1>11. Following(page, o) = IF NextOffset(o, M - o, T) < T THEN NextOffset(o, M - o, T) ELSE o
  BY <1>10 DEF Following
<1>12. Following(page, o) \in {o, M} /\ (o + L < N => Following(page, o) = o + L)
  BY <1>1, <1>2, <1>3, <1>7, <1>11 DEF NextOffset
<1> QED
  BY <1>4, <1>8, <1>9, <1>10, <1>12 DEF M, N, items, rows

-----------------------------------------------------------------------------
(* The pages one after the other *)

(* The offsets a client reads at, one after the other. *)
ReadsAt(read, f) ==
    /\ read \in [0 .. Cardinality(stored) -> 0 .. Long(f)] /\ read[0] = 0
    /\ \A k \in 1 .. Cardinality(stored) : read[k] = Following(Pages(f)[read[k - 1]], read[k - 1])
LEMMA OffsetsRead ==
    ASSUME stored \subseteq All, IsFiniteSet(stored), IsFiniteSet(live), NEW f \in StatusFilters
    PROVE  \E read : ReadsAt(read, f) /\ Walk(Pages(f)) = {read[k] : k \in 0 .. Cardinality(stored)}
<1> DEFINE N == Long(f)
           C == Cardinality(stored)
           pages == Pages(f)
           next(o) == Following(pages[o], o)
           Walked(g) == g = [k \in DOMAIN pages |-> IF k = 0 THEN 0 ELSE Following(pages[g[k - 1]], g[k - 1])]
           step == [x \in (1 .. C) \X (0 .. N) |-> next(x[2])]
<1>1. N \in Nat /\ C \in Nat /\ N <= C
  BY SortedIs
<1>2. DOMAIN pages = 0 .. C
  BY DEF Pages
<1>3. ASSUME NEW o \in 0 .. N PROVE next(o) \in 0 .. N
  <2>1. next(o) \in {o, AtMost(o + Limit(f), N)}
    BY PageRead
  <2>2. Limit(f) \in Nat
    BY <1>1, LimitOf
  <2> HIDE DEF next, N
  <2> QED
    BY <1>1, <2>1, <2>2 DEF AtMost
<1> HIDE DEF next, N, C
<1>4. \A o \in 0 .. N : next(o) \in 0 .. N
  BY <1>3
<1>5. step \in [(1 .. C) \X (0 .. N) -> 0 .. N] /\ 0 \in 0 .. N
  BY <1>1, <1>4
<1>6. \A k \in 1 .. C : \A o \in 0 .. N : step[<<k, o>>] = next(o)
  OBVIOUS
<1> HIDE DEF step
<1>7. PICK g \in [0 .. C -> 0 .. N] : Follows(g, C, 0, step)
  BY <1>1, <1>5, RecursionExists
<1>8. Walked(g)
  <2>1. g = [k \in 0 .. C |-> IF k = 0 THEN 0 ELSE step[<<k, g[k - 1]>>]]
    BY <1>7 DEF Follows
  <2>2. \A k \in 0 .. C : k = 0 \/ (k \in 1 .. C /\ k - 1 \in 0 .. C)
    BY <1>1
  <2>3. \A k \in 0 .. C : g[k] = IF k = 0 THEN 0 ELSE next(g[k - 1])
    BY <1>6, <1>7, <2>1, <2>2
  <2>4. g = [k \in 0 .. C |-> g[k]]
    BY <1>7
  <2>5. g = [k \in 0 .. C |-> IF k = 0 THEN 0 ELSE next(g[k - 1])]
    BY <2>3, <2>4
  <2> QED
    BY <1>2, <2>5 DEF next
<1> DEFINE read == CHOOSE h : Walked(h)
<1>9. Walked(read)
  <2> HIDE DEF Walked
  <2> QED
    BY <1>8
<1>10. Walk(pages) = Range(read)
  BY Zenon DEF Walk
<1> HIDE DEF read
<1>11. read = [k \in 0 .. C |-> IF k = 0 THEN 0 ELSE next(read[k - 1])]
  BY <1>2, <1>9 DEF next
<1>12. DOMAIN read = 0 .. C /\ read[0] = 0 /\ \A k \in 1 .. C : read[k] = next(read[k - 1])
  BY <1>1, <1>11
<1> DEFINE P == {k \in 0 .. C : read[k] \in 0 .. N}
<1>13. 0 \in P
  BY <1>1, <1>12
<1>14. ASSUME NEW k \in 1 .. C, k - 1 \in P PROVE k \in P
  <2>1. read[k - 1] \in 0 .. N /\ k \in 0 .. C
    BY <1>1, <1>14
  <2>2. read[k] = next(read[k - 1])
    BY <1>12
  <2> QED
    BY <1>4, <2>1, <2>2
<1> HIDE DEF P
<1>15. \A k \in 0 .. C : k \in P
  BY <1>1, <1>13, <1>14, UpTo
<1>16. read \in [0 .. C -> 0 .. N]
  <2>1. \A k \in 0 .. C : read[k] \in 0 .. N
    BY <1>15 DEF P
  <2> QED
    BY <1>11, <2>1
<1>17. ReadsAt(read, f)
  BY <1>12, <1>16 DEF ReadsAt, next, N, C
<1>18. Walk(pages) = {read[k] : k \in 0 .. C}
  BY <1>10, <1>12 DEF Range
<1> QED
  BY <1>17, <1>18 DEF C

(* The pages a client reads show every place of the list, and none of them twice. *)
Places(f, o) == o + 1 .. AtMost(o + Limit(f), Long(f))
LEMMA WalkCovers ==
    ASSUME stored \subseteq All, IsFiniteSet(stored), IsFiniteSet(live), NEW f \in StatusFilters
    PROVE  /\ Walk(Pages(f)) \subseteq 0 .. Long(f) /\ 0 \in Walk(Pages(f))
           /\ \A i \in 1 .. Long(f) : \E o \in Walk(Pages(f)) : i \in Places(f, o)
           /\ \A o, q \in Walk(Pages(f)) : \A i \in Places(f, o) \cap Places(f, q) : o = q
<1> DEFINE N == Long(f)
           C == Cardinality(stored)
           L == Limit(f)
           end(o) == AtMost(o + L, N)
<1>1. N \in Nat /\ C \in Nat /\ N <= C /\ L \in Nat /\ L >= 1
  BY SortedIs, LimitOf
<1>2. PICK read : ReadsAt(read, f) /\ Walk(Pages(f)) = {read[k] : k \in 0 .. C}
  BY OffsetsRead
<1>3. read \in [0 .. C -> 0 .. N] /\ read[0] = 0
  BY <1>2 DEF ReadsAt
<1>4. \A o \in 0 .. N : end(o) \in Nat /\ o <= end(o) /\ end(o) <= N /\ (end(o) = N \/ end(o) = o + L)
                        /\ (o + L < N => end(o) = o + L)
  BY <1>1 DEF AtMost
<1>5. ASSUME NEW k \in 1 .. C
      PROVE  /\ k - 1 \in 0 .. C /\ k \in 0 .. C /\ read[k] \in 0 .. N /\ read[k - 1] \in 0 .. N
             /\ read[k] = read[k - 1] \/ read[k] = end(read[k - 1])
             /\ read[k - 1] + L < N => read[k] = read[k - 1] + L
  <2>1. k - 1 \in 0 .. C /\ k \in 0 .. C
    BY <1>1
  <2>2. read[k] \in 0 .. N /\ read[k - 1] \in 0 .. N
    BY <1>3, <2>1
  <2>3. read[k] = Following(Pages(f)[read[k - 1]], read[k - 1])
    BY <1>2 DEF ReadsAt
  <2>4. /\ Following(Pages(f)[read[k - 1]], read[k - 1]) \in {read[k - 1], end(read[k - 1])}
        /\ read[k - 1] + L < N => Following(Pages(f)[read[k - 1]], read[k - 1]) = read[k - 1] + L
    BY <2>2, PageRead
  <2> QED
    BY <2>1, <2>2, <2>3, <2>4
<1>6. \A k \in 1 .. C :
             /\ k - 1 \in 0 .. C /\ k \in 0 .. C /\ read[k] \in 0 .. N /\ read[k - 1] \in 0 .. N
             /\ read[k] = read[k - 1] \/ read[k] = end(read[k - 1])
             /\ read[k - 1] + L < N => read[k] = read[k - 1] + L
  BY <1>5
<1>7. \A k \in 0 .. C : read[k] \in Nat /\ read[k] <= N
  BY <1>1, <1>3
<1> HIDE DEF end, N, C, L
<1>8. \A k \in 0 .. C : \A j \in 0 .. k : read[j] = read[k] \/ end(read[j]) <= read[k]
  <2> DEFINE P == {k \in 0 .. C : \A j \in 0 .. k : read[j] = read[k] \/ end(read[j]) <= read[k]}
  <2>1. 0 \in P
    BY <1>1
  <2>2. ASSUME NEW k \in 1 .. C, k - 1 \in P PROVE k \in P
    <3> SUFFICES ASSUME NEW j \in 0 .. k PROVE read[j] = read[k] \/ end(read[j]) <= read[k]
      BY <1>1
    <3>1. read[k] >= read[k - 1] /\ read[k] \in Nat /\ read[k - 1] \in Nat
      BY <1>1, <1>4, <1>6
    <3>2. CASE j = k
      BY <3>2
    <3>3. CASE j # k
      <4>1. j \in 0 .. k - 1 /\ j \in 0 .. C
        BY <1>1, <3>3
      <4>2. read[j] = read[k - 1] \/ end(read[j]) <= read[k - 1]
        BY <2>2, <4>1
      <4>3. end(read[j]) \in Nat
        BY <1>3, <1>4, <4>1
      <4> QED
        BY <1>6, <3>1, <4>2, <4>3
    <3> QED
      BY <3>2, <3>3
  <2> HIDE DEF P
  <2>3. \A k \in 0 .. C : k \in P
    BY <1>1, <2>1, <2>2, UpTo
  <2> QED
    BY <2>3 DEF P
<1>9. \A k \in 0 .. C : \A i \in 1 .. N : i <= end(read[k]) => \E j \in 0 .. k : read[j] < i /\ i <= end(read[j])
  <2> DEFINE P == {k \in 0 .. C : \A i \in 1 .. N : i <= end(read[k]) => \E j \in 0 .. k : read[j] < i /\ i <= end(read[j])}
  <2>1. 0 \in P
    BY <1>1, <1>3
  <2>2. ASSUME NEW k \in 1 .. C, k - 1 \in P PROVE k \in P
    <3> SUFFICES ASSUME NEW i \in 1 .. N, i <= end(read[k])
                 PROVE  \E j \in 0 .. k : read[j] < i /\ i <= end(read[j])
      BY <1>1
    <3>1. k \in 0 .. k /\ \A j \in 0 .. k - 1 : j \in 0 .. k
      BY <1>1
    <3>2. CASE read[k] < i
      BY <3>1, <3>2
    <3>3. CASE ~(read[k] < i)
      <4>1. i <= end(read[k - 1])
        <5>1. read[k - 1] \in 0 .. N /\ read[k] \in 0 .. N /\ end(read[k - 1]) \in Nat
              /\ read[k - 1] <= end(read[k - 1])
          BY <1>4, <1>6
        <5> QED
          BY <1>1, <1>6, <3>3, <5>1
      <4> QED
        BY <2>2, <3>1, <4>1
    <3> QED
      BY <3>2, <3>3
  <2> HIDE DEF P
  <2>3. \A k \in 0 .. C : k \in P
    BY <1>1, <2>1, <2>2, UpTo
  <2> QED
    BY <2>3 DEF P
<1>10. end(read[C]) = N
  <2> DEFINE P == {k \in 0 .. C : read[k] >= k \/ read[k] + L >= N}
  <2>1. 0 \in P
    BY <1>1, <1>3
  <2>2. ASSUME NEW k \in 1 .. C, k - 1 \in P PROVE k \in P
    <3>1. read[k] >= read[k - 1] /\ read[k] \in Nat /\ read[k - 1] \in Nat /\ k \in Nat /\ k \in 0 .. C
      BY <1>1, <1>4, <1>6
    <3>2. read[k - 1] >= k - 1 \/ read[k - 1] + L >= N
      BY <2>2
    <3>3. read[k - 1] + L < N => read[k] = read[k - 1] + L
      BY <1>6
    <3>4. read[k] >= k \/ read[k] + L >= N
      BY <1>1, <3>1, <3>2, <3>3
    <3> QED
      BY <3>1, <3>4
  <2> HIDE DEF P
  <2>3. C \in P
    <3>1. \A k \in 0 .. C : k \in P
      BY <1>1, <2>1, <2>2, UpTo
    <3> QED
      BY <1>1, <3>1
  <2>4. read[C] \in 0 .. N /\ read[C] + L >= N
    <3>1. C \in 0 .. C /\ (read[C] >= C \/ read[C] + L >= N)
      BY <1>1, <2>3 DEF P
    <3> QED
      BY <1>1, <1>3, <3>1
  <2> QED
    BY <1>1, <2>4 DEF end, AtMost
<1>11. \A o \in Walk(Pages(f)) : \E k \in 0 .. C : o = read[k]
  BY <1>2
<1>12. \A k \in 0 .. C : read[k] \in Walk(Pages(f)) /\ read[k] \in 0 .. N
  BY <1>2, <1>3
<1>13. \A o : Places(f, o) = o + 1 .. end(o)
  BY DEF Places, end, L, N
<1>14. 0 \in Walk(Pages(f)) /\ Walk(Pages(f)) \subseteq 0 .. N
  <2>1. 0 \in 0 .. C
    BY <1>1
  <2> QED
    BY <1>3, <1>11, <1>12, <2>1
<1>15. ASSUME NEW i \in 1 .. N PROVE \E o \in Walk(Pages(f)) : i \in Places(f, o)
  <2>1. C \in 0 .. C /\ i <= end(read[C])
    BY <1>1, <1>10
  <2>2. PICK j \in 0 .. C : read[j] < i /\ i <= end(read[j])
    BY <1>9, <2>1
  <2>3. read[j] \in 0 .. N /\ end(read[j]) \in Nat
    BY <1>4, <1>12
  <2>4. i \in Places(f, read[j])
    BY <1>1, <1>13, <2>2, <2>3
  <2> QED
    BY <1>12, <2>4
<1>16. ASSUME NEW j \in 0 .. C, NEW k \in 0 .. C, j <= k, NEW i \in Places(f, read[j]) \cap Places(f, read[k])
       PROVE  read[j] = read[k]
  <2>1. j \in 0 .. k
    BY <1>1, <1>16
  <2>2. read[j] = read[k] \/ end(read[j]) <= read[k]
    BY <1>8, <2>1
  <2>3. read[j] \in 0 .. N /\ read[k] \in 0 .. N /\ end(read[j]) \in Nat /\ end(read[k]) \in Nat
    BY <1>4, <1>12
  <2>4. i \in read[j] + 1 .. end(read[j]) /\ i \in read[k] + 1 .. end(read[k])
    BY <1>13, <1>16
  <2> QED
    BY <1>1, <2>2, <2>3, <2>4
<1>17. ASSUME NEW o \in Walk(Pages(f)), NEW q \in Walk(Pages(f)), NEW i \in Places(f, o) \cap Places(f, q) PROVE o = q
  <2>1. PICK j \in 0 .. C : o = read[j]
    BY <1>11
  <2>2. PICK k \in 0 .. C : q = read[k]
    BY <1>11
  <2>3. j <= k \/ k <= j
    BY <1>1
  <2> QED
    BY <1>16, <2>1, <2>2, <2>3
<1> QED
  BY <1>14, <1>15, <1>17 DEF N

-----------------------------------------------------------------------------
(* What the pages show *)

(* What is laid over a row leaves its names. *)
LEMMA LaidKeeps ==
    ASSUME NEW x \in All
    PROVE  /\ Laid(LiveItem(x)).row = SessionOf(x).id /\ Laid(LiveItem(x)).source = SessionOf(x).source
           /\ Laid(LiveItem(x)).id = SessionOf(x).id /\ Laid(LiveItem(x)).external = SessionOf(x).external
           /\ Laid(LiveItem(x)).path = SessionOf(x).path
<1>1. LiveItem(x) = [row |-> LiveItem(x).row, source |-> LiveItem(x).source, id |-> LiveItem(x).id,
                     external |-> LiveItem(x).external, path |-> LiveItem(x).path,
                     current |-> LiveItem(x).current, activity |-> LiveItem(x).activity]
  BY DEF LiveItem
<1>2. \A e : LET r == ApplyLiveEvent(LiveItem(x), e)
             IN /\ r.row = LiveItem(x).row /\ r.source = LiveItem(x).source /\ r.id = LiveItem(x).id
                /\ r.external = LiveItem(x).external /\ r.path = LiveItem(x).path
  BY <1>1 DEF ApplyLiveEvent
<1>3. Laid(LiveItem(x)) = LiveItem(x) \/ \E e : Laid(LiveItem(x)) = ApplyLiveEvent(LiveItem(x), e)
  BY DEF Laid
<1> QED
  BY <1>2, <1>3, ItemFields

(* One session has one row. *)
LEMMA ItemOnce ==
    ASSUME stored \subseteq All, OneVersion, NEW x \in stored, NEW y \in stored, SessionOf(x).id = SessionOf(y).id
    PROVE  x = y
BY DEF OneVersion, SessionOf

(* What is told of a session that is not stored finds no row. *)
LEMMA UnseenFindsNone ==
    ASSUME stored \subseteq All, NEW e \in told, Event(e), Unseen(e), NEW x \in stored, ~SessionOf(x).subagent
    PROVE  ~Correlates(e, LiveItem(x))
<1>1. PICK y \in All : e.of = SessionOf(y)
  BY DEF Event
<1>2. /\ SessionAt(x).id = SessionOf(x).id /\ SessionAt(x).source = SessionOf(x).source
      /\ SessionAt(x).external = SessionOf(x).external
  BY SessionFields DEF SessionOf
<1>3. NamesApart(e.of, SessionOf(x))
  BY <1>1, SessionNames
<1>4. ~(e.of.source = SessionOf(x).source /\ e.of.external = SessionOf(x).external)
  BY <1>2 DEF Unseen
<1>5. e.of.id # SessionOf(x).id
  BY <1>3, <1>4 DEF NamesApart
<1>6. e \notin AboutSession(SessionAt(x))
  BY <1>2, <1>4, <1>5 DEF AboutSession
<1> QED
  BY <1>6, FindsItsRow

(* What is on a page: the rows with what is laid over them, and what finds none. *)
FindsNone(e, rows) == \A row \in rows : ~Correlates(e, row)
LEMMA PageItems ==
    ASSUME stored \subseteq All, IsFiniteSet(stored), IsFiniteSet(live),
           NEW f \in StatusFilters, NEW o \in 0 .. Long(f), NEW item
    PROVE  item \in Pages(f)[o].items <=>
              \/ \E i \in Places(f, o) : item = Laid(Sorted(f)[i])
              \/ o = 0 /\ \E e \in live : LiveEventMatchesFilter(e, f) /\ FindsNone(e, RowsAt(f, 0))
                                           /\ item = LiveOnlyItem(e)
<1>1. o \in Nat /\ Long(f) \in Nat
  BY SortedIs
<1>2. Pages(f)[o].items = OverlayLiveSessions(RowsAt(f, o), Ask(f, o), FALSE) /\ Ask(f, o).offset = o
  BY <1>1, PageRead, StatusFilterFields
<1>3. \A e : LiveEventMatchesFilter(e, Ask(f, o)) <=> LiveEventMatchesFilter(e, f)
  BY <1>1, StatusFilterFields DEF LiveEventMatchesFilter, InWindow
<1>4. \A row : row \in RowsAt(f, o) <=> \E i \in Places(f, o) : row = Sorted(f)[i]
  BY PageRead, ZenonT(60) DEF Stretch, Places
<1>5. item \in OverlayLiveSessions(RowsAt(f, o), Ask(f, o), FALSE) <=>
              \/ \E row \in RowsAt(f, o) : item = Laid(row)
              \/ Ask(f, o).offset = 0 /\ \E e \in live :
                   LiveEventMatchesFilter(e, Ask(f, o)) /\ FindsNone(e, RowsAt(f, o)) /\ item = LiveOnlyItem(e)
  BY Zenon DEF OverlayLiveSessions, FindsNone
<1> QED
  BY <1>2, <1>3, <1>4, <1>5

(* The list is one of main sessions. *)
LEMMA MainSessions ==
    ASSUME stored \subseteq All, NEW f \in StatusFilters, NEW y \in Admitted(MainOnly(f))
    PROVE  y \in stored /\ y \in All /\ ~SessionOf(y).subagent /\ SessionAt(y).id = SessionOf(y).id
<1>1. y \in stored /\ y \in All /\ SubagentExclude(MainOnly(f), SessionAt(y))
  BY DEF Admitted, SessionWhere
<1>2. MainOnly(f).subagents = FALSE
  BY StatusFilterFields
<1> QED
  BY <1>1, <1>2, SessionFields DEF SubagentExclude, SessionOf

(* A client that reads every page sees every row, as it should be, and none twice. *)
LEMMA RowsShown ==
    ASSUME TableInv, stored \subseteq All, OneVersion, IsFiniteSet(stored), IsFiniteSet(live),
           NEW f \in StatusFilters, NEW x \in Admitted(MainOnly(f))
    PROVE  RowAgrees(x, {r \in Shown(Pages(f)) : r[2].row = SessionAt(x).id})
<1> DEFINE shown == Shown(Pages(f))
           R == {r \in shown : r[2].row = SessionAt(x).id}
           me == Laid(LiveItem(x))
<1>1. \A y \in Admitted(MainOnly(f)) :
         y \in stored /\ y \in All /\ ~SessionOf(y).subagent /\ SessionAt(y).id = SessionOf(y).id
  BY MainSessions
<1>2. /\ Long(f) \in Nat /\ Sorted(f) \in Bijection(1 .. Long(f), Listing(MainOnly(f)))
      /\ Walk(Pages(f)) \subseteq 0 .. Long(f) /\ 0 \in Walk(Pages(f))
      /\ \A i \in 1 .. Long(f) : \E o \in Walk(Pages(f)) : i \in Places(f, o)
      /\ \A o, q \in Walk(Pages(f)) : \A i \in Places(f, o) \cap Places(f, q) : o = q
  BY SortedIs, WalkCovers
<1>3. /\ \A i \in 1 .. Long(f) : \E y \in Admitted(MainOnly(f)) : Sorted(f)[i] = LiveItem(y)
      /\ \A y \in Admitted(MainOnly(f)) : \E i \in 1 .. Long(f) : Sorted(f)[i] = LiveItem(y)
      /\ \A i, j \in 1 .. Long(f) : Sorted(f)[i] = Sorted(f)[j] => i = j
  <2>1. /\ Sorted(f) \in [1 .. Long(f) -> Listing(MainOnly(f))]
        /\ \A s \in Listing(MainOnly(f)) : \E i \in 1 .. Long(f) : Sorted(f)[i] = s
        /\ \A i, j \in 1 .. Long(f) : Sorted(f)[i] = Sorted(f)[j] => i = j
    BY <1>2 DEF Bijection, Injection, Surjection, IsInjective
  <2>2. \A s : s \in Listing(MainOnly(f)) <=> \E y \in Admitted(MainOnly(f)) : s = LiveItem(y)
    BY DEF Listing
  <2>3. \A i \in 1 .. Long(f) : Sorted(f)[i] \in Listing(MainOnly(f))
    BY <2>1
  <2>4. \A i \in 1 .. Long(f) : \E y \in Admitted(MainOnly(f)) : Sorted(f)[i] = LiveItem(y)
    BY <2>2, <2>3
  <2>5. ASSUME NEW y \in Admitted(MainOnly(f)) PROVE \E i \in 1 .. Long(f) : Sorted(f)[i] = LiveItem(y)
    <3>1. LiveItem(y) \in Listing(MainOnly(f))
      BY <2>2
    <3> QED
      BY <2>1, <3>1
  <2> QED
    BY <2>1, <2>4, <2>5
<1>4. PICK i \in 1 .. Long(f) : Sorted(f)[i] = LiveItem(x)
  BY <1>3
<1>5. PICK o \in Walk(Pages(f)) : i \in Places(f, o)
  BY <1>2
<1>6. <<o, me>> \in shown
  <2>1. me \in Pages(f)[o].items
    BY <1>2, <1>4, <1>5, PageItems
  <2> QED
    BY <2>1 DEF Shown
<1>7. me.row = SessionAt(x).id /\ SessionAt(x).id # ""
  BY <1>1, LaidKeeps, SessionNames
<1>8. ASSUME NEW r \in shown, r[2].row = SessionAt(x).id PROVE r = <<o, me>>
  <2>1. PICK p \in Walk(Pages(f)) : \E item \in Pages(f)[p].items : r = <<p, item>>
    BY DEF Shown
  <2>2. PICK item \in Pages(f)[p].items : r = <<p, item>>
    BY <2>1
  <2>3. item.row = SessionAt(x).id
    BY <1>8, <2>2
  <2>4. p \in 0 .. Long(f)
    BY <1>2
  <2>5. \A e : item # LiveOnlyItem(e)
    <3>1. \A e : LiveOnlyItem(e).row = ""
      BY DEF LiveOnlyItem
    <3> QED
      BY <1>7, <2>3, <3>1
  <2>6. PICK j \in Places(f, p) : item = Laid(Sorted(f)[j])
    BY <2>4, <2>5, PageItems
  <2>7. j \in 1 .. Long(f)
    <3>1. Limit(f) \in Nat
      BY LimitOf
    <3> QED
      BY <1>2, <2>4, <3>1 DEF Places, AtMost
  <2>8. PICK y \in Admitted(MainOnly(f)) : Sorted(f)[j] = LiveItem(y)
    BY <1>3, <2>7
  <2>9. SessionOf(y).id = SessionOf(x).id
    BY <1>1, <2>3, <2>6, <2>8, LaidKeeps
  <2>10. y = x
    BY <1>1, <2>9, ItemOnce
  <2>11. j = i
    BY <1>3, <1>4, <2>7, <2>8, <2>10
  <2>12. p = o
    BY <1>2, <1>5, <2>6, <2>11
  <2> QED
    BY <1>4, <2>2, <2>6, <2>11, <2>12
<1> HIDE DEF shown, me
<1>9. R = {<<o, me>>}
  <2>1. <<o, me>>[2] = me
    OBVIOUS
  <2>2. \A r : r \in R <=> r \in shown /\ r[2].row = SessionAt(x).id
    OBVIOUS
  <2>3. \A r : r \in R <=> r = <<o, me>>
    BY <1>6, <1>7, <1>8, <2>1, <2>2
  <2> HIDE DEF R
  <2> QED
    BY <2>3
<1>10. Cardinality(R) = 1
  BY <1>9, FS_Singleton
<1>11. me.current = Expected(x)
  <2>1. RowShowsNewest
    BY TableShows
  <2> QED
    BY <1>1, <2>1 DEF RowShowsNewest, me, SessionOf
<1>12. \A r \in R : r[2].current = Expected(x)
  BY <1>9, <1>11
<1>13. RowAgrees(x, R)
  <2> HIDE DEF R
  <2> QED
    BY <1>10, <1>12 DEF RowAgrees
<1> QED
  BY <1>13 DEF shown

(* So the pages are as the property says. *)
LEMMA PagesShow ==
    ASSUME TableInv, stored \subseteq All, OneVersion, IsFiniteSet(stored), IsFiniteSet(live), NEW f \in StatusFilters
    PROVE  PagesAgree(f, Shown(Pages(f)))
<1> DEFINE shown == Shown(Pages(f))
           D == {y \in stored : SessionAt(y) \in SessionWhere(stored, [f EXCEPT !.subagents = FALSE])}
<1>1. D = Admitted(MainOnly(f))
  BY Zenon DEF Admitted, MainOnly
<1>2. \A x \in D : RowAgrees(x, {r \in shown : r[2].row = SessionAt(x).id})
  BY <1>1, RowsShown
<1>3. /\ Long(f) \in Nat /\ Sorted(f) \in Bijection(1 .. Long(f), Listing(MainOnly(f)))
      /\ Walk(Pages(f)) \subseteq 0 .. Long(f) /\ 0 \in Walk(Pages(f)) /\ Limit(f) \in Nat
  BY SortedIs, WalkCovers, LimitOf
<1>4. ASSUME NEW o \in 0 .. Long(f), NEW i \in Places(f, o)
      PROVE  \E y \in Admitted(MainOnly(f)) : Sorted(f)[i] = LiveItem(y)
  <2>1. i \in 1 .. Long(f)
    BY <1>3 DEF Places, AtMost
  <2>2. Sorted(f) \in [1 .. Long(f) -> Listing(MainOnly(f))]
    BY <1>3 DEF Bijection, Injection
  <2> QED
    BY <2>1, <2>2 DEF Listing
<1>5. \A y \in Admitted(MainOnly(f)) : y \in stored /\ y \in All /\ ~SessionOf(y).subagent
  BY MainSessions
<1>6. ASSUME NEW r \in shown, r[1] # 0 PROVE r[2].row # ""
  <2>1. PICK p \in Walk(Pages(f)) : \E item \in Pages(f)[p].items : r = <<p, item>>
    BY DEF Shown
  <2>2. PICK item \in Pages(f)[p].items : r = <<p, item>>
    BY <2>1
  <2>3. p \in 0 .. Long(f) /\ p # 0
    BY <1>3, <1>6, <2>2
  <2>4. PICK i \in Places(f, p) : item = Laid(Sorted(f)[i])
    BY <2>3, PageItems
  <2>5. PICK y \in Admitted(MainOnly(f)) : Sorted(f)[i] = LiveItem(y)
    BY <1>4, <2>3
  <2> QED
    BY <1>5, <2>2, <2>4, <2>5, LaidKeeps, SessionNames
<1>7. ASSUME NEW e \in live, Unseen(e), LiveEventMatchesFilter(e, f) PROVE <<0, LiveOnlyItem(e)>> \in shown
  <2>1. e \in told /\ Event(e)
    BY DEF TableInv, TableTypeOK
  <2>2. 0 \in 0 .. Long(f)
    BY <1>3
  <2>3. FindsNone(e, RowsAt(f, 0))
    <3> SUFFICES ASSUME NEW row \in RowsAt(f, 0) PROVE ~Correlates(e, row)
      BY DEF FindsNone
    <3>1. PICK i \in Places(f, 0) : row = Sorted(f)[i]
      BY <2>2, PageRead DEF Stretch, Places
    <3>2. PICK y \in Admitted(MainOnly(f)) : Sorted(f)[i] = LiveItem(y)
      BY <1>4, <2>2
    <3> QED
      BY <1>5, <1>7, <2>1, <3>1, <3>2, UnseenFindsNone
  <2>4. LiveOnlyItem(e) \in Pages(f)[0].items
    BY <1>7, <2>2, <2>3, PageItems
  <2> QED
    BY <1>3, <2>4 DEF Shown
<1> HIDE DEF shown
<1>8. \A r \in shown : r[1] # 0 => r[2].row # ""
  BY <1>6
<1>9. \A e \in live : Unseen(e) /\ LiveEventMatchesFilter(e, f) => <<0, LiveOnlyItem(e)>> \in shown
  BY <1>7
<1>10. PagesAgree(f, shown)
  BY Zenon, <1>2, <1>8, <1>9 DEF PagesAgree
<1> QED
  BY <1>10 DEF shown

-----------------------------------------------------------------------------
(* What is watched *)

(* A page of a hundred holds the rows of a hundred sessions. *)
LEMMA WholeListing ==
    ASSUME stored \subseteq All, IsFiniteSet(stored), Cardinality(stored) <= 100, NEW g
    PROVE  ListedAt(ListLiveSessions(stored, g), [limit |-> 100, offset |-> 0]) = Listing(g)
<1> DEFINE q == ListLiveSessions(stored, g)
           n == Cardinality(Listing(g))
<1>1. n \in Nat /\ n <= 100 /\ q \in Bijection(1 .. n, Listing(g))
  BY RowsListed, FS_CardinalityType
<1>2. q \in [1 .. n -> Listing(g)] /\ \A s \in Listing(g) : \E i \in 1 .. n : q[i] = s
  BY <1>1 DEF Bijection, Injection, Surjection
<1> HIDE DEF q, n
<1>3. Len(q) = n
  BY <1>1, <1>2
<1>4. AtMost(0 + 100, Len(q)) = n
  BY <1>1, <1>3 DEF AtMost
<1>5. ListedAt(q, [limit |-> 100, offset |-> 0]) = {q[i] : i \in 1 .. n}
  BY <1>4 DEF ListedAt
<1>6. {q[i] : i \in 1 .. n} = Listing(g)
  BY <1>2
<1> QED
  BY <1>5, <1>6 DEF q

(* What a request that watches shows, whatever it asks the store for. *)
ShownBy(g, item) ==
    \/ \E x \in Admitted(g) : item = Laid(LiveItem(x))
    \/ \E e \in live : LiveEventMatchesFilter(e, g) /\ (\A x \in Admitted(g) : ~Correlates(e, LiveItem(x)))
                       /\ item = LiveOnlyItem(e)
LEMMA WatchedItems ==
    ASSUME stored \subseteq All, IsFiniteSet(stored), Cardinality(stored) <= 100,
           NEW targets, targets # {}, NEW g, g.limit = 0, g.offset = 0,
           g = ApplyWatchTargetsToFilter([NoFilter EXCEPT !.subagents = FALSE], targets), NEW item
    PROVE  item \in Watching(targets) <=> ShownBy(g, item) /\ \E t \in targets : Matches(t, item)
<1> DEFINE p == [limit |-> 100, offset |-> 0]
           items == OverlayLiveSessions(Listing(g), g, targets # {})
           kept == {i \in items : \E t \in targets : Matches(t, i)}
<1>1. Pagination(g, 100) = p
  BY DEF Pagination, maxPageSize
<1>2. ListedAt(ListLiveSessions(stored, g), p) = Listing(g)
  BY WholeListing
<1>3. Watching(targets) =
        LET o == Pagination(g, 100).offset
            sorted == ListLiveSessions(stored, g)
            rows == ListedAt(sorted, Pagination(g, 100))
            some == OverlayLiveSessions(rows, g, targets # {})
        IN (IF targets # {} THEN WatchPage({i \in some : \E t \in targets : Matches(t, i)}, o)
            ELSE LivePage(some, o, Cardinality(rows), Max({Len(sorted), o + Cardinality(some)}))).items
  BY Zenon DEF Watching, HandleStatus
<1>4. Watching(targets) = WatchPage(kept, Pagination(g, 100).offset).items
  BY Zenon, <1>1, <1>2, <1>3
<1>5. Watching(targets) = kept
  <2> HIDE DEF kept
  <2> QED
    BY <1>4 DEF WatchPage
<1>6. item \in items <=>
        \/ \E row \in Listing(g) : item = Laid(row)
        \/ \E e \in live : LiveEventMatchesFilter(e, g) /\ (\A row \in Listing(g) : ~Correlates(e, row))
                           /\ item = LiveOnlyItem(e)
  BY Zenon DEF OverlayLiveSessions
<1>7. \A row : row \in Listing(g) <=> \E x \in Admitted(g) : row = LiveItem(x)
  BY DEF Listing
<1> HIDE DEF items
<1>8. item \in items <=> ShownBy(g, item)
  BY <1>6, <1>7 DEF ShownBy
<1> QED
  BY <1>5, <1>8

(* The two queries. *)
Narrow(t) == [NoFilter EXCEPT !.sources = {t.source}, !.sessions = {t.session}]
LEMMA Queries ==
    /\ \A targets : Cardinality(targets) > 1 =>
          targets # {} /\ ApplyWatchTargetsToFilter([NoFilter EXCEPT !.subagents = FALSE], targets) = NoFilter
    /\ \A t : {t} # {} /\ ApplyWatchTargetsToFilter([NoFilter EXCEPT !.subagents = FALSE], {t}) = Narrow(t)
    /\ NoFilter.limit = 0 /\ NoFilter.offset = 0
    /\ \A t : Narrow(t).limit = 0 /\ Narrow(t).offset = 0
<1>1. [NoFilter EXCEPT !.subagents = FALSE] = NoFilter
  <2>1. NoFilter.subagents = FALSE /\ NoFilter = [k \in DOMAIN NoFilter |-> NoFilter[k]]
    BY DEF NoFilter
  <2> QED
    BY <2>1
<1>2. ASSUME NEW targets, Cardinality(targets) > 1
      PROVE  targets # {} /\ ApplyWatchTargetsToFilter([NoFilter EXCEPT !.subagents = FALSE], targets) = NoFilter
  <2>1. Cardinality(targets) # 1 /\ targets # {}
    BY <1>2, FS_EmptySet
  <2> QED
    BY <1>1, <2>1 DEF ApplyWatchTargetsToFilter
<1>3. ASSUME NEW t
      PROVE  {t} # {} /\ ApplyWatchTargetsToFilter([NoFilter EXCEPT !.subagents = FALSE], {t}) = Narrow(t)
  <2>1. Cardinality({t}) = 1 /\ (CHOOSE u \in {t} : TRUE) = t
    BY FS_Singleton
  <2>2. NoFilter.sources \cup {t.source} = {t.source} /\ NoFilter.sessions \cup {t.session} = {t.session}
    BY DEF NoFilter
  <2>3. ApplyWatchTargetsToFilter(NoFilter, {t})
          = [NoFilter EXCEPT !.sources = NoFilter.sources \cup {t.source}, !.sessions = NoFilter.sessions \cup {t.session}]
    BY <2>1 DEF ApplyWatchTargetsToFilter
  <2> QED
    BY <1>1, <2>2, <2>3 DEF Narrow
<1>4. /\ NoFilter.limit = 0 /\ NoFilter.offset = 0
      /\ \A t : Narrow(t).limit = 0 /\ Narrow(t).offset = 0
  BY DEF NoFilter, Narrow
<1> QED
  BY <1>2, <1>3, <1>4

(* Which sessions the two queries admit. *)
LEMMA QueryAdmits ==
    ASSUME stored \subseteq All, NEW x \in stored
    PROVE  /\ x \in Admitted(NoFilter) <=> ~SessionOf(x).subagent
           /\ \A t : x \in Admitted(Narrow(t)) <=>
                       /\ ~SessionOf(x).subagent /\ SessionOf(x).source = t.source
                       /\ t.session \in {SessionOf(x).id, SessionOf(x).external}
<1> DEFINE s == SessionAt(x)
           Passes(g) ==
               /\ Allows(g.sources, s.source) /\ Allows(g.projects, s.project) /\ Names(g, s)
               /\ Allows(g.statuses, s.status) /\ SubagentExclude(g, s) /\ InWindow(g, EffectiveTime(s))
<1>1. \A g : x \in Admitted(g) <=> Passes(g)
  <2>1. s \in Sessions(stored)
    BY DEF Sessions
  <2>2. \A g : s \in SessionWhere(stored, g) <=> Passes(g)
    BY Zenon, <2>1 DEF SessionWhere
  <2> QED
    BY <2>2 DEF Admitted
<1>2. s.id = SessionOf(x).id /\ s.source = SessionOf(x).source /\ s.external = SessionOf(x).external
      /\ s.subagent = SessionOf(x).subagent
  BY SessionFields DEF SessionOf
<1> HIDE DEF s
<1>3. Passes(NoFilter) <=> ~s.subagent
  BY DEF NoFilter, Allows, Names, SubagentExclude, InWindow
<1>4. \A t : Passes(Narrow(t)) <=> ~s.subagent /\ s.source = t.source /\ t.session \in {s.id, s.external}
  <2> SUFFICES ASSUME NEW t
               PROVE  Passes(Narrow(t)) <=> ~s.subagent /\ s.source = t.source /\ t.session \in {s.id, s.external}
    OBVIOUS
  <2>1. /\ Narrow(t).sources = {t.source} /\ Narrow(t).projects = {} /\ Narrow(t).sessions = {t.session}
        /\ Narrow(t).statuses = {} /\ Narrow(t).since = 0 /\ Narrow(t).until = 0 /\ Narrow(t).subagents = FALSE
    BY DEF NoFilter, Narrow
  <2> QED
    BY <2>1 DEF Allows, Names, SubagentExclude, InWindow
<1> QED
  BY <1>1, <1>2, <1>3, <1>4

(* Which events the two queries let through. *)
LEMMA QueryMatches ==
    ASSUME NEW e
    PROVE  /\ LiveEventMatchesFilter(e, NoFilter)
           /\ \A t : LiveEventMatchesFilter(e, Narrow(t)) <=>
                       e.source = t.source /\ t.session \in {e.id, e.external, e.path}
<1>1. LiveEventMatchesFilter(e, NoFilter)
  BY DEF LiveEventMatchesFilter, NoFilter, Allows, InWindow
<1>2. ASSUME NEW t
      PROVE  LiveEventMatchesFilter(e, Narrow(t)) <=> e.source = t.source /\ t.session \in {e.id, e.external, e.path}
  <2>1. /\ Narrow(t).sources = {t.source} /\ Narrow(t).projects = {} /\ Narrow(t).sessions = {t.session}
        /\ Narrow(t).statuses = {} /\ Narrow(t).since = 0 /\ Narrow(t).until = 0
    BY DEF NoFilter, Narrow
  <2> QED
    BY <2>1 DEF LiveEventMatchesFilter, Allows, InWindow
<1> QED
  BY <1>1, <1>2

(* What is found by a target is about the session whose row the target asks for. *)
LEMMA AsksForItsRow ==
    ASSUME stored \subseteq All, NEW t, NamesSession(t), NEW e \in told, Event(e),
           e.source = t.source, t.session \in {e.id, e.external, e.path},
           NEW x \in stored, ~SessionOf(x).subagent, Correlates(e, LiveItem(x))
    PROVE  SessionOf(x).source = t.source /\ t.session \in {SessionOf(x).id, SessionOf(x).external}
<1> DEFINE s == SessionOf(x)
<1>1. PICK y \in All : e.of = SessionOf(y)
  BY DEF Event
<1>2. /\ t.session # "" /\ t.session # e.of.path /\ (t.session = e.of.id => ~e.of.subagent)
      /\ SessionAt(x).id = s.id /\ SessionAt(x).source = s.source /\ SessionAt(x).external = s.external
  BY <1>1, SessionFields DEF NamesSession, SessionOf, All
<1>3. NamesApart(e.of, s) /\ NamesApart(s, e.of)
  BY <1>1, SessionNames
<1>4. \/ e.of.id = s.id
      \/ e.type = "ingest.session" /\ e.of.source = s.source /\ e.of.external = s.external
  BY <1>2, FindsItsRow DEF AboutSession
<1>5. CASE FromHook(e)
  BY <1>2, <1>3, <1>4, <1>5 DEF FromHook, Event, NamesApart
<1>6. CASE FromActivity(e)
  BY <1>2, <1>3, <1>4, <1>6 DEF FromActivity, Event, NamesApart
<1>7. CASE FromIngest(e)
  <2>1. e.of.source = s.source /\ e.of.external = s.external
    BY <1>3, <1>4 DEF NamesApart
  <2>2. e.source = e.of.source /\ (t.session = e.of.external \/ t.session = e.of.id)
    BY <1>2, <1>7 DEF FromIngest, Event
  <2>3. t.session = e.of.id => e.of.id = s.id
    BY <1>2, <1>3, <2>1 DEF NamesApart, s
  <2> QED
    BY <2>1, <2>2, <2>3
<1> QED
  BY <1>5, <1>6, <1>7 DEF Event, s

(* Watching several is watching each: what a wide query finds for a target a narrow one finds too. *)
LEMMA WatchesShow ==
    ASSUME TableInv, stored \subseteq All, IsFiniteSet(stored)
    PROVE  WatchesAgree
<1> SUFFICES ASSUME Cardinality(stored) <= 100, NEW targets, \A t \in targets : NamesSession(t), Cardinality(targets) > 1
             PROVE  Watching(targets) = UNION {Watching({t}) : t \in targets}
  BY DEF WatchesAgree
<1>1. \A item : item \in Watching(targets) <=> ShownBy(NoFilter, item) /\ \E t \in targets : Matches(t, item)
  BY Queries, WatchedItems
<1>2. \A t : \A item : item \in Watching({t}) <=> ShownBy(Narrow(t), item) /\ Matches(t, item)
  <2> SUFFICES ASSUME NEW t, NEW item PROVE item \in Watching({t}) <=> ShownBy(Narrow(t), item) /\ Matches(t, item)
    OBVIOUS
  <2>0. /\ {t} # {} /\ Narrow(t).limit = 0 /\ Narrow(t).offset = 0
        /\ Narrow(t) = ApplyWatchTargetsToFilter([NoFilter EXCEPT !.subagents = FALSE], {t})
    BY Queries
  <2>1. item \in Watching({t}) <=> ShownBy(Narrow(t), item) /\ \E u \in {t} : Matches(u, item)
    BY <2>0, WatchedItems
  <2> QED
    BY <2>1
<1>3. \A e \in live : e \in told /\ Event(e)
  BY DEF TableInv, TableTypeOK
<1>4. \A g : \A x \in Admitted(g) : x \in stored /\ x \in All
  BY DEF Admitted
<1>5. ASSUME NEW t \in targets, NEW item, Matches(t, item)
      PROVE  ShownBy(NoFilter, item) <=> ShownBy(Narrow(t), item)
  <2>1. t.source = item.source /\ t.session \in {item.id, item.external, item.path} /\ NamesSession(t)
    BY <1>5 DEF Matches
  <2>2. ASSUME NEW x \in Admitted(NoFilter), item = Laid(LiveItem(x)) PROVE x \in Admitted(Narrow(t))
    <3>1. ~SessionOf(x).subagent /\ x \in stored /\ x \in All
      BY <1>4, QueryAdmits
    <3>2. SessionOf(x).source = t.source /\ t.session \in {SessionOf(x).id, SessionOf(x).external, SessionOf(x).path}
      BY <2>1, <2>2, <3>1, LaidKeeps
    <3>3. t.session # SessionOf(x).path
      BY <2>1, <3>1 DEF NamesSession, All
    <3> QED
      BY <3>1, <3>2, <3>3, QueryAdmits
  <2>3. \A x \in Admitted(Narrow(t)) : x \in Admitted(NoFilter)
    BY <1>4, QueryAdmits
  <2>4. ASSUME NEW e \in live, item = LiveOnlyItem(e)
        PROVE  /\ e.source = t.source /\ t.session \in {e.id, e.external, e.path}
               /\ LiveEventMatchesFilter(e, NoFilter) /\ LiveEventMatchesFilter(e, Narrow(t))
    <3>1. e.source = t.source /\ t.session \in {e.id, e.external, e.path}
      BY <2>1, <2>4 DEF LiveOnlyItem
    <3> QED
      BY <3>1, QueryMatches
  <2>5. ASSUME NEW e \in live, item = LiveOnlyItem(e), NEW x \in Admitted(NoFilter), Correlates(e, LiveItem(x))
        PROVE  x \in Admitted(Narrow(t))
    <3>1. ~SessionOf(x).subagent /\ x \in stored
      BY <1>4, QueryAdmits
    <3>2. SessionOf(x).source = t.source /\ t.session \in {SessionOf(x).id, SessionOf(x).external}
      BY <1>3, <2>1, <2>4, <2>5, <3>1, AsksForItsRow
    <3> QED
      BY <3>1, <3>2, QueryAdmits
  <2> QED
    BY <2>2, <2>3, <2>4, <2>5 DEF ShownBy
<1>6. \A item : item \in Watching(targets) <=> \E t \in targets : item \in Watching({t})
  BY <1>1, <1>2, <1>5
<1> QED
  BY <1>6

(* Every step keeps the invariant. *)
StatusInv == TableInv /\ stored \subseteq All /\ OneVersion /\ IsFiniteSet(stored) /\ IsFiniteSet(told)

(* The table, the versions and that both are finite. *)
LEMMA StatusInvKept ==
    ASSUME StatusInv, [StatusNext]_<<statusVars, listVars>>
    PROVE  StatusInv'
<1>1. TableInv' /\ stored' \subseteq All
  BY StatusStepKeeps DEF StatusInv
<1>2. ASSUME NEW x \in All, Save(x) PROVE OneVersion' /\ IsFiniteSet(stored')
  <2>1. OneVersion'
    BY <1>2, SaveKeepsVersions DEF StatusInv
  <2>2. stored' \subseteq stored \cup {x}
    BY <1>2 DEF Save
  <2>3. IsFiniteSet(stored \cup {x})
    BY FS_AddElement DEF StatusInv
  <2> QED
    BY <2>1, <2>2, <2>3, FS_Subset
<1>3. ASSUME stored' \subseteq stored PROVE OneVersion' /\ IsFiniteSet(stored')
  BY <1>3, FS_Subset DEF StatusInv, OneVersion
<1>4. ASSUME NEW e, told' = told \cup {e} PROVE IsFiniteSet(told')
  BY <1>4, FS_AddElement DEF StatusInv
<1>5. ASSUME told' \subseteq told PROVE IsFiniteSet(told')
  BY <1>5, FS_Subset DEF StatusInv
<1>6. CASE HookIntake
  <2>1. stored' = stored /\ \E e : told' = told \cup {e}
    BY <1>6 DEF HookIntake, Tell, listVars
  <2> QED
    BY <1>1, <1>3, <1>4, <2>1 DEF StatusInv, All
<1>7. CASE Activity
  <2>1. stored' = stored /\ \E e : told' = told \cup {e}
    BY <1>7 DEF Activity, Tell, listVars
  <2> QED
    BY <1>1, <1>3, <1>4, <2>1 DEF StatusInv, All
<1>8. CASE IngestFile
  <2>1. PICK x \in Written : Save(x) /\ \E e : told' = told \cup {e}
    BY <1>8 DEF IngestFile, Tell
  <2>2. x \in All
    BY StatusAssumption DEF All
  <2> QED
    BY <1>1, <1>2, <1>4, <2>1, <2>2 DEF StatusInv, All
<1>9. CASE FullPass
  <2>1. PICK x \in All : Save(x)
    BY <1>9 DEF FullPass, SaveSession, All
  <2>2. told' = told
    BY <1>9 DEF FullPass, statusVars
  <2> QED
    BY <1>1, <1>2, <1>5, <2>1, <2>2 DEF StatusInv, All
<1>10. CASE Vanish
  <2>1. stored' \subseteq stored /\ told' = told
    BY <1>10 DEF Vanish, DeleteSession, statusVars
  <2> QED
    BY <1>1, <1>3, <1>5, <2>1 DEF StatusInv, All
<1>11. CASE PruneLiveSessions
  <2>1. stored' = stored /\ told' \subseteq told
    BY <1>11 DEF PruneLiveSessions, listVars
  <2> QED
    BY <1>1, <1>3, <1>5, <2>1 DEF StatusInv, All
<1>12. CASE UNCHANGED <<statusVars, listVars>>
  <2>1. stored' = stored /\ told' = told
    BY <1>12 DEF statusVars, listVars
  <2> QED
    BY <1>1, <1>3, <1>5, <2>1 DEF StatusInv, All
<1> QED
  BY <1>6, <1>7, <1>8, <1>9, <1>10, <1>11, <1>12 DEF StatusNext

(* StatusAgreesAlways. However many sessions are stored, whatever was told of them and however large a     *)
(* page is, a client that reads page after page sees the row of every main session the filter admits, once,  *)
(* with the newest of what was told; what is told of sessions not stored is on the first page and on no other; *)
(* and up to a hundred stored sessions, watching several shows what watching each does (handleStatus,           *)
(* overlayLiveSessions, applyWatchTargetsToFilter).                                                              *)
THEOREM StatusAgreesAlways == StatusSpec => []StatusAgrees
<1>1. StatusInit /\ ListInit => StatusInv
  BY FS_EmptySet DEF StatusInit, ListInit, StatusInv, TableInv, TableTypeOK, TableCovers, OneVersion
<1>2. StatusInv /\ [StatusNext]_<<statusVars, listVars>> => StatusInv'
  BY StatusInvKept
<1>3. StatusInv => StatusAgrees
  <2> SUFFICES ASSUME StatusInv PROVE StatusAgrees
    OBVIOUS
  <2>1. TableInv /\ stored \subseteq All /\ OneVersion /\ IsFiniteSet(stored) /\ IsFiniteSet(live)
    BY FS_Subset DEF StatusInv, TableInv, TableTypeOK
  <2>2. \A f \in StatusFilters : PagesAgree(f, Shown(Pages(f)))
    BY <2>1, PagesShow
  <2>3. WatchesAgree
    BY <2>1, WatchesShow
  <2> QED
    BY <2>2, <2>3 DEF StatusAgrees
<1> QED
  BY <1>1, <1>2, <1>3, PTL DEF StatusSpec

=============================================================================
