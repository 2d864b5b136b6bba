------------------------------ MODULE CodexOpencodeProofs ------------------------------
(***************************************************************************)
(* The proofs that the codex and the opencode parser lose and invent nothing      *)
(* (CodexFaithful, OpencodeFaithful), for any rows and any number of them.  For    *)
(* each: first what a row adds to what the rows say, then what it does to the open  *)
(* turn, then the invariant (CodexStanding, OpencodeStanding), kept by each kind of  *)
(* row, and what it comes to at the end.                                              *)
(***************************************************************************)
EXTENDS CodexParser, OpencodeParser, TranscriptProofs

-----------------------------------------------------------------------------
(* What a row adds to a rollout *)

(* r is the next row of the rollout l, its n-th, and m is the rollout with it. *)
RowsGrown(l, r, m, n) == l \in Seq(CodexRows) /\ r \in CodexRows /\ m = Append(l, r) /\ n = Len(l) + 1

(* What follows from it. *)
LEMMA RowsAre ==
    ASSUME NEW l, NEW r, NEW m, NEW n, RowsGrown(l, r, m, n)
    PROVE  /\ l \in Seq(CodexRows) /\ m \in Seq(CodexRows) /\ r \in CodexRows
           /\ n \in Nat /\ n > 0 /\ DOMAIN l = 1 .. n - 1 /\ DOMAIN m = 1 .. n /\ DOMAIN m = DOMAIN l \cup {n}
           /\ n \in DOMAIN m /\ n \notin DOMAIN l /\ m[n] = r
           /\ \A i \in DOMAIN l : m[i] = l[i] /\ i \in Nat /\ i < n
<1>1. l \in Seq(CodexRows) /\ r \in CodexRows /\ m = Append(l, r) /\ n = Len(l) + 1
  BY DEF RowsGrown
<1>2. m \in Seq(CodexRows) /\ Len(m) = n /\ m[n] = r /\ n \in Nat /\ n > 0
  BY <1>1
<1>3. \A i \in 1 .. n - 1 : m[i] = l[i]
  BY <1>1
<1> QED
  BY <1>1, <1>2, <1>3

(* The kind of the new row is added to what is of its kind. *)
LEMMA AmongGrows ==
    ASSUME NEW l, NEW r, NEW m, NEW n, RowsGrown(l, r, m, n), NEW kinds
    PROVE  Among(m, kinds) = Among(l, kinds) \cup (IF r \in kinds THEN {n} ELSE {})
<1>1. /\ DOMAIN m = DOMAIN l \cup {n} /\ m[n] = r /\ n \notin DOMAIN l /\ n \in Nat
      /\ \A i \in DOMAIN l : m[i] = l[i] /\ i \in Nat /\ i < n
  BY RowsAre
<1> QED
  BY <1>1 DEF Among

(* A row that begins a turn when none is open. *)
Opener(r) == r \in OfType("turn_context") \/ (r \in OfType("response_item") /\ ~InjectedPreTurn(r))

(* The rows a turn may begin at, when a row is added. *)
LEMMA OpeningsGrow ==
    ASSUME NEW l, NEW r, NEW m, NEW n, RowsGrown(l, r, m, n)
    PROVE  Openings(m) = Openings(l) \cup (IF Opener(r) THEN {n} ELSE {})
<1>1. /\ DOMAIN m = DOMAIN l \cup {n} /\ m[n] = r /\ n \notin DOMAIN l /\ n \in Nat
      /\ \A i \in DOMAIN l : m[i] = l[i] /\ i \in Nat /\ i < n
  BY RowsAre
<1>2. \A rs : Openings(rs) = {i \in DOMAIN rs : Opener(rs[i])}
  BY DEF Openings, ItemRows, Contexts, ContextRows, Among, Opener
<1> QED
  BY <1>1, <1>2

(* The new row is in a turn when one is open or it opens one. *)
InsideAt(l, r) == Openings(l) # {} \/ (Opener(r) /\ r \in OfType("response_item"))

(* So the rows in turns grow by it. *)
LEMMA InTurnGrows ==
    ASSUME NEW l, NEW r, NEW m, NEW n, RowsGrown(l, r, m, n)
    PROVE  InTurn(m) = InTurn(l) \cup (IF InsideAt(l, r) THEN {n} ELSE {})
<1>1. /\ DOMAIN m = DOMAIN l \cup {n} /\ m[n] = r /\ n \notin DOMAIN l /\ n \in Nat
      /\ \A i \in DOMAIN l : m[i] = l[i] /\ i \in Nat /\ i < n
  BY RowsAre
<1>2. Openings(m) = Openings(l) \cup (IF Opener(r) THEN {n} ELSE {})
  BY OpeningsGrow
<1>3. Openings(l) \subseteq DOMAIN l
  BY DEF Openings, ItemRows, Contexts, ContextRows, Among
<1>4. ASSUME NEW i \in DOMAIN l PROVE i \in InTurn(m) <=> i \in InTurn(l)
  <2>1. \A k \in Openings(l) : k \in Nat /\ k < n
    BY <1>1, <1>3
  <2>2. ~(n < i \/ n = i)
    BY <1>1
  <2> QED
    BY <1>1, <1>2, <2>2 DEF InTurn
<1>5. n \in InTurn(m) <=> InsideAt(l, r)
  <2>1. n \in InTurn(m) <=> \E k \in Openings(m) : k < n \/ (k = n /\ r \in OfType("response_item"))
    BY <1>1 DEF InTurn
  <2>2. \A k \in Openings(l) : k < n /\ k # n
    BY <1>1, <1>3
  <2>3. ~(n < n)
    BY <1>1
  <2> QED
    BY <1>2, <2>1, <2>2, <2>3 DEF InsideAt
<1>6. InTurn(m) \subseteq DOMAIN m /\ InTurn(l) \subseteq DOMAIN l
  BY DEF InTurn
<1> QED
  BY <1>1, <1>4, <1>5, <1>6

(* The rows since the last context. *)
OpenRows(rs) == {n \in InTurn(rs) : \A k \in Contexts(rs) : k <= n}
(* The rows that make a turn worth keeping. *)
Matter(rs) == Among(rs, Spoken \cup Replies \cup Called)
(* The kept segments before the last context. *)
ClosedSegments(rs) == {s \in {Segment(rs, n) : n \in InTurn(rs) \ OpenRows(rs)} : s \cap Matter(rs) # {}}
(* The open one, if it is kept. *)
OpenSegment(rs) == IF OpenRows(rs) \cap Matter(rs) # {} THEN {OpenRows(rs)} ELSE {}

(* A new row joins the open ones, a context closes them. *)
LEMMA OpenRowsGrow ==
    ASSUME NEW l, NEW r, NEW m, NEW n, RowsGrown(l, r, m, n)
    PROVE  /\ r \notin OfType("turn_context") => OpenRows(m) = OpenRows(l) \cup (IF InsideAt(l, r) THEN {n} ELSE {})
           /\ r \in OfType("turn_context") => OpenRows(m) = IF InsideAt(l, r) THEN {n} ELSE {}
           /\ n \notin OpenRows(l)
<1>1. /\ DOMAIN m = DOMAIN l \cup {n} /\ m[n] = r /\ n \notin DOMAIN l /\ n \in Nat
      /\ \A i \in DOMAIN l : m[i] = l[i] /\ i \in Nat /\ i < n
  BY RowsAre
<1>2. InTurn(m) = InTurn(l) \cup (IF InsideAt(l, r) THEN {n} ELSE {})
  BY InTurnGrows
<1>3. Contexts(m) = Contexts(l) \cup (IF r \in OfType("turn_context") THEN {n} ELSE {})
  BY AmongGrows DEF Contexts, ContextRows
<1>4. InTurn(l) \subseteq DOMAIN l /\ Contexts(l) \subseteq DOMAIN l
  BY DEF InTurn, Contexts, ContextRows, Among
<1>5. \A k \in Contexts(l) : k <= n
  BY <1>1, <1>4
<1>6. n <= n /\ \A i \in InTurn(l) : ~(n <= i) /\ i # n
  BY <1>1, <1>4
<1>7. ASSUME r \notin OfType("turn_context")
      PROVE  OpenRows(m) = OpenRows(l) \cup (IF InsideAt(l, r) THEN {n} ELSE {})
  BY <1>2, <1>3, <1>5, <1>7 DEF OpenRows
<1>8. ASSUME r \in OfType("turn_context") PROVE OpenRows(m) = IF InsideAt(l, r) THEN {n} ELSE {}
  BY <1>2, <1>3, <1>5, <1>6, <1>8 DEF OpenRows
<1> QED
  BY <1>6, <1>7, <1>8 DEF OpenRows

(* The segments are the closed ones and the open one, which comes after them. *)
LEMMA SegmentsAre ==
    ASSUME NEW rs \in Seq(CodexRows)
    PROVE  /\ Segments(rs) = ClosedSegments(rs) \cup OpenSegment(rs)
           /\ \A s \in ClosedSegments(rs) : \A a \in s : \A b \in OpenRows(rs) : a < b
           /\ Segments(rs) \subseteq SUBSET (DOMAIN rs) /\ OpenRows(rs) \subseteq DOMAIN rs
           /\ {} \notin Segments(rs)
<1>1. \A i \in DOMAIN rs : i \in Nat
  OBVIOUS
<1>2. InTurn(rs) \subseteq DOMAIN rs /\ Contexts(rs) \subseteq DOMAIN rs
  BY DEF InTurn, Contexts, ContextRows, Among
<1>3. ASSUME NEW n \in OpenRows(rs) PROVE Segment(rs, n) = OpenRows(rs)
  <2>1. \A k \in Contexts(rs) : ~(n < k)
    BY <1>1, <1>2 DEF OpenRows
  <2>2. \A i \in InTurn(rs) : \A k \in Contexts(rs) : ~(i < k) <=> k <= i
    BY <1>1, <1>2
  <2> QED
    BY <2>1, <2>2 DEF Segment, OpenRows
<1>4. ASSUME NEW n \in InTurn(rs) \ OpenRows(rs), NEW a \in Segment(rs, n), NEW b \in OpenRows(rs) PROVE a < b
  <2>1. PICK k \in Contexts(rs) : n < k
    <3>1. PICK k \in Contexts(rs) : ~(k <= n)
      BY DEF OpenRows
    <3>2. n < k
      BY <1>1, <1>2, <3>1
    <3> QED
      BY <3>2
  <2>2. a < k /\ k <= b /\ a \in Nat /\ k \in Nat /\ b \in Nat
    BY <1>1, <1>2, <2>1 DEF Segment, OpenRows
  <2> QED
    BY <2>2
<1>5. {Segment(rs, n) : n \in InTurn(rs)}
         = {Segment(rs, n) : n \in InTurn(rs) \ OpenRows(rs)} \cup (IF OpenRows(rs) # {} THEN {OpenRows(rs)} ELSE {})
  <2>1. OpenRows(rs) \subseteq InTurn(rs)
    BY DEF OpenRows
  <2> QED
    BY <1>3, <2>1
<1>6. Segments(rs) = ClosedSegments(rs) \cup OpenSegment(rs)
  BY <1>5 DEF Segments, ClosedSegments, OpenSegment, Matter
<1>7. \A s \in ClosedSegments(rs) : \A a \in s : \A b \in OpenRows(rs) : a < b
  BY <1>4 DEF ClosedSegments
<1>8. Segments(rs) \subseteq SUBSET (DOMAIN rs) /\ OpenRows(rs) \subseteq DOMAIN rs
  BY <1>2 DEF Segments, Segment, OpenRows
<1>9. {} \notin Segments(rs)
  BY DEF Segments
<1> QED
  BY <1>6, <1>7, <1>8, <1>9

(* A context closes the open segment, no other row closes any. *)
LEMMA ClosedGrow ==
    ASSUME NEW l, NEW r, NEW m, NEW n, RowsGrown(l, r, m, n)
    PROVE  ClosedSegments(m) = IF r \in OfType("turn_context") THEN Segments(l) ELSE ClosedSegments(l)
<1>1. /\ DOMAIN m = DOMAIN l \cup {n} /\ m[n] = r /\ n \notin DOMAIN l /\ n \in Nat
      /\ \A i \in DOMAIN l : m[i] = l[i] /\ i \in Nat /\ i < n
  BY RowsAre
<1>2. InTurn(m) = InTurn(l) \cup (IF InsideAt(l, r) THEN {n} ELSE {})
  BY InTurnGrows
<1>3. Contexts(m) = Contexts(l) \cup (IF r \in OfType("turn_context") THEN {n} ELSE {})
  BY AmongGrows DEF Contexts, ContextRows
<1>4. InTurn(l) \subseteq DOMAIN l /\ Contexts(l) \subseteq DOMAIN l
  BY DEF InTurn, Contexts, ContextRows, Among
<1>5. \A s \in SUBSET (DOMAIN l) : s \cap Matter(m) = s \cap Matter(l)
  <2>1. Matter(m) = Matter(l) \cup (IF r \in Spoken \cup Replies \cup Called THEN {n} ELSE {})
    BY AmongGrows DEF Matter
  <2> QED
    BY <1>1, <2>1
<1>6. \A i \in InTurn(l) : i < n /\ ~(n < i) /\ \A k \in Contexts(l) : k < n /\ ~(n < k)
  BY <1>1, <1>4
<1>7. CASE r \in OfType("turn_context")
  <2>1. InTurn(m) \ OpenRows(m) = InTurn(l)
    <3>1. OpenRows(m) = IF InsideAt(l, r) THEN {n} ELSE {}
      BY <1>7, OpenRowsGrow
    <3> QED
      BY <1>1, <1>2, <1>4, <3>1
  <2>2. ASSUME NEW x \in InTurn(l) PROVE Segment(m, x) = Segment(l, x) /\ Segment(l, x) \in SUBSET (DOMAIN l)
    <3>1. \A i \in InTurn(l) : i \in Segment(m, x) <=> i \in Segment(l, x)
      BY <1>2, <1>3, <1>6, <1>7 DEF Segment
    <3>2. n \notin Segment(m, x)
      <4>1. x < n /\ ~(n < n) /\ n \in Contexts(m)
        BY <1>1, <1>3, <1>6, <1>7
      <4> QED
        BY <4>1 DEF Segment
    <3>3. Segment(m, x) \subseteq InTurn(m) /\ Segment(l, x) \subseteq InTurn(l)
      BY DEF Segment
    <3> QED
      BY <1>2, <1>4, <3>1, <3>2, <3>3
  <2>3. {Segment(m, x) : x \in InTurn(l)} = {Segment(l, x) : x \in InTurn(l)}
    BY <2>2
  <2>4. \A s \in {Segment(l, x) : x \in InTurn(l)} : s \in SUBSET (DOMAIN l)
    BY <2>2
  <2>5. ClosedSegments(m) = {s \in {Segment(l, x) : x \in InTurn(l)} : s \cap Matter(m) # {}}
    BY <2>1, <2>3 DEF ClosedSegments
  <2>6. Segments(l) = {s \in {Segment(l, x) : x \in InTurn(l)} : s \cap Matter(l) # {}}
    BY DEF Segments, Matter
  <2> QED
    BY <1>5, <1>7, <2>4, <2>5, <2>6
<1>8. CASE r \notin OfType("turn_context")
  <2>1. InTurn(m) \ OpenRows(m) = InTurn(l) \ OpenRows(l)
    <3>1. OpenRows(m) = OpenRows(l) \cup (IF InsideAt(l, r) THEN {n} ELSE {})
      BY <1>8, OpenRowsGrow
    <3> QED
      BY <1>1, <1>2, <1>4, <3>1
  <2>2. ASSUME NEW x \in InTurn(l) \ OpenRows(l)
        PROVE  Segment(m, x) = Segment(l, x) /\ Segment(l, x) \in SUBSET (DOMAIN l)
    <3>0. Contexts(m) = Contexts(l)
      BY <1>3, <1>8
    <3>1. \A i \in InTurn(l) : i \in Segment(m, x) <=> i \in Segment(l, x)
      BY <1>2, <3>0 DEF Segment
    <3>2. n \notin Segment(m, x)
      <4>1. PICK k \in Contexts(l) : ~(k <= x)
        BY DEF OpenRows
      <4>2. x < k /\ ~(n < k)
        BY <1>1, <1>4, <1>6, <4>1
      <4> QED
        BY <3>0, <4>2 DEF Segment
    <3>3. Segment(m, x) \subseteq InTurn(m) /\ Segment(l, x) \subseteq InTurn(l)
      BY DEF Segment
    <3> QED
      BY <1>2, <1>4, <3>1, <3>2, <3>3
  <2> DEFINE X == InTurn(l) \ OpenRows(l)
  <2>3. {Segment(m, x) : x \in X} = {Segment(l, x) : x \in X}
    BY <2>2
  <2>4. \A s \in {Segment(l, x) : x \in X} : s \in SUBSET (DOMAIN l)
    BY <2>2
  <2>5. ClosedSegments(m) = {s \in {Segment(l, x) : x \in X} : s \cap Matter(m) # {}}
    BY <2>1, <2>3 DEF ClosedSegments
  <2>6. ClosedSegments(l) = {s \in {Segment(l, x) : x \in X} : s \cap Matter(l) # {}}
    BY DEF ClosedSegments
  <2> HIDE DEF X
  <2> QED
    BY <1>5, <1>8, <2>4, <2>5, <2>6
<1> QED
  BY <1>7, <1>8

-----------------------------------------------------------------------------
(* What is spent *)

(* A row that could be decoded. *)
CodexRowType ==
    [type : STRING \ {"unreadable"}, payload : STRING, when : Nat, id : STRING, cwd : STRING,
     spawnedBy : STRING, role : STRING, text : Seq(STRING), name : STRING, namespace : Seq(STRING),
     call : STRING, input : Seq(STRING), output : STRING,
     usage : [input : Nat, cached : Nat, output : Nat], window : Nat]

(* Every row is one of those or the unreadable one, which is of no kind. *)
LEMMA RowTypes ==
    /\ \A r \in CodexRows : r = Unreadable \/ r \in CodexRowType
    /\ \A r \in CodexRows : r.type # "unreadable" => r \in CodexRowType
    /\ \A type : Unreadable \in OfType(type) => type = "unreadable"
<1>1. \A r \in CodexRows : r = Unreadable \/ r \in CodexRowType
  BY CodexAssumption, Zenon DEF CodexAssumption, CodexRowType
<1>2. Unreadable.type = "unreadable"
  BY DEF Unreadable
<1> QED
  BY <1>1, <1>2 DEF OfType

(* The fields of a row. *)
LEMMA RowFields ==
    ASSUME NEW r \in CodexRowType
    PROVE  /\ r.type \in STRING /\ r.type # "unreadable" /\ r.payload \in STRING /\ r.when \in Nat /\ r.id \in STRING
           /\ r.cwd \in STRING /\ r.spawnedBy \in STRING /\ r.role \in STRING /\ r.text \in Seq(STRING)
           /\ r.name \in STRING /\ r.namespace \in Seq(STRING) /\ r.call \in STRING /\ r.input \in Seq(STRING)
           /\ r.output \in STRING /\ r.window \in Nat
           /\ r.usage \in [input : Nat, cached : Nat, output : Nat]
BY DEF CodexRowType

(* What the row r reports as spent. *)
ReportOf(r) == IF r \in Events("token_count") THEN Delta(r.usage) ELSE NoTokens

(* It is a count. *)
LEMMA ReportType == ASSUME NEW r \in CodexRows PROVE ReportOf(r) \in Tokens
<1>1. CASE r \in Events("token_count")
  <2>1. r.type = "event_msg"
    BY <1>1 DEF Events, OfType
  <2>2. r \in CodexRowType
    BY <2>1, RowTypes
  <2>3. r.usage.input \in Nat /\ r.usage.cached \in Nat /\ r.usage.output \in Nat
    BY <2>2, RowFields
  <2> DEFINE a == IF r.usage.input > r.usage.cached THEN r.usage.input - r.usage.cached ELSE 0
             c == r.usage.cached
             o == r.usage.output
  <2>4. a \in Nat /\ c \in Nat /\ o \in Nat
    BY <2>3
  <2>5. Delta(r.usage) = [NoTokens EXCEPT !.input = a, !.cacheRead = c, !.output = o]
    BY DEF Delta
  <2> HIDE DEF a, c, o
  <2>6. Delta(r.usage) \in Tokens
    BY <2>4, <2>5, NoTokensType DEF Tokens
  <2> QED
    BY <1>1, <2>6 DEF ReportOf
<1>2. CASE r \notin Events("token_count")
  BY <1>2, NoTokensType DEF ReportOf
<1> QED
  BY <1>1, <1>2

(* The counts SpentIn adds up. *)
ReportsIn(rs, rows) == [n \in DOMAIN rs |-> IF n \in rows THEN ReportOf(rs[n]) ELSE NoTokens]

(* They are a sequence as long as the rollout. *)
LEMMA ReportsType ==
    ASSUME NEW rs \in Seq(CodexRows), NEW rows
    PROVE  /\ ReportsIn(rs, rows) \in Seq(Tokens) /\ Len(ReportsIn(rs, rows)) = Len(rs)
           /\ SpentIn(rs, rows) = SumTokens(ReportsIn(rs, rows)) /\ SpentIn(rs, rows) \in Tokens
<1> DEFINE s == ReportsIn(rs, rows)
           N == Len(rs)
<1>1. N \in Nat /\ DOMAIN rs = 1 .. N
  OBVIOUS
<1>2. \A n \in 1 .. N : rs[n] \in CodexRows
  OBVIOUS
<1>3. s \in [1 .. N -> Tokens]
  <2>1. \A n \in 1 .. N : (IF n \in rows THEN ReportOf(rs[n]) ELSE NoTokens) \in Tokens
    BY <1>2, ReportType, NoTokensType
  <2> QED
    BY <1>1, <2>1 DEF ReportsIn
<1>4. SpentIn(rs, rows) = SumTokens(s)
  <2>1. s = [n \in DOMAIN rs |-> IF n \in rows /\ rs[n] \in Events("token_count") THEN Delta(rs[n].usage) ELSE NoTokens]
    BY Zenon DEF ReportsIn, ReportOf
  <2> HIDE DEF s
  <2> QED
    BY <2>1, Zenon DEF SpentIn
<1> HIDE DEF s, N
<1>5. s \in Seq(Tokens) /\ Len(s) = N
  BY <1>1, <1>3
<1>6. SumTokens(s) \in Tokens
  BY <1>5, SumTokensType
<1> QED
  BY <1>4, <1>5, <1>6 DEF s, N

(* Counts may be regrouped. *)
LEMMA AddTokensRegroup ==
    ASSUME NEW a \in Tokens, NEW b \in Tokens, NEW c \in Tokens, NEW d \in Tokens
    PROVE  AddTokens(AddTokens(a, b), AddTokens(c, d)) = AddTokens(AddTokens(a, c), AddTokens(b, d))
<1>1. \A f \in DOMAIN NoTokens : a[f] \in Nat /\ b[f] \in Nat /\ c[f] \in Nat /\ d[f] \in Nat
  BY DEF Tokens
<1>2. \A f \in DOMAIN NoTokens : (a[f] + b[f]) + (c[f] + d[f]) = (a[f] + c[f]) + (b[f] + d[f])
  BY <1>1
<1> QED
  BY <1>2 DEF AddTokens

(* Two lists of counts may be added up together. *)
LEMMA SumTokensTogether ==
    ASSUME NEW s \in Seq(Tokens), NEW u \in Seq(Tokens), NEW v \in Seq(Tokens), Len(u) = Len(s), Len(v) = Len(s),
           \A i \in 1 .. Len(s) : v[i] = AddTokens(s[i], u[i])
    PROVE  SumTokens(v) = AddTokens(SumTokens(s), SumTokens(u))
<1> DEFINE n == Len(s)
<1>0. n \in Nat /\ n \in 0 .. n /\ \A i \in 1 .. n : s[i] \in Tokens /\ u[i] \in Tokens
  OBVIOUS
<1>1. PICK f \in [0 .. n -> Tokens] : Sums(f, s) /\ SumTokens(s) = f[n]
  BY SumIsReached
<1>2. PICK g \in [0 .. n -> Tokens] : Sums(g, u) /\ SumTokens(u) = g[n]
  BY SumIsReached
<1>3. PICK h \in [0 .. n -> Tokens] : Sums(h, v) /\ SumTokens(v) = h[n]
  BY SumIsReached
<1> DEFINE P == {i \in 0 .. n : h[i] = AddTokens(f[i], g[i])}
<1>4. 0 \in P
  <2>1. h[0] = NoTokens /\ f[0] = NoTokens /\ g[0] = NoTokens /\ 0 \in 0 .. n
    BY <1>0, <1>1, <1>2, <1>3 DEF Sums
  <2>2. AddTokens(NoTokens, NoTokens) = NoTokens
    BY NoTokensType, AddNoTokens
  <2> QED
    BY <2>1, <2>2
<1>5. ASSUME NEW i \in 1 .. n, i - 1 \in P PROVE i \in P
  <2>1. i \in 0 .. n /\ i # 0 /\ i - 1 \in 0 .. n
    BY <1>0
  <2>2. h[i] = AddTokens(h[i - 1], v[i]) /\ f[i] = AddTokens(f[i - 1], s[i]) /\ g[i] = AddTokens(g[i - 1], u[i])
    BY <1>1, <1>2, <1>3, <2>1 DEF Sums
  <2>3. h[i - 1] = AddTokens(f[i - 1], g[i - 1]) /\ v[i] = AddTokens(s[i], u[i])
    BY <1>5
  <2>4. f[i - 1] \in Tokens /\ g[i - 1] \in Tokens /\ s[i] \in Tokens /\ u[i] \in Tokens
    BY <1>0, <1>1, <1>2, <2>1
  <2>5. h[i] = AddTokens(f[i], g[i])
    BY <2>2, <2>3, <2>4, AddTokensRegroup
  <2> QED
    BY <2>1, <2>5
<1> HIDE DEF P
<1>6. \A i \in 0 .. n : i \in P
  BY <1>0, <1>4, <1>5, UpTo
<1>7. h[n] = AddTokens(f[n], g[n])
  BY <1>0, <1>6 DEF P
<1> QED
  BY <1>1, <1>2, <1>3, <1>7

(* What is spent in rows that have none in common adds up. *)
LEMMA SpentInBoth ==
    ASSUME NEW rs \in Seq(CodexRows), NEW A, NEW B, A \cap B = {}
    PROVE  SpentIn(rs, A \cup B) = AddTokens(SpentIn(rs, A), SpentIn(rs, B))
<1> DEFINE s == ReportsIn(rs, A)
           u == ReportsIn(rs, B)
           v == ReportsIn(rs, A \cup B)
<1>1. /\ s \in Seq(Tokens) /\ u \in Seq(Tokens) /\ v \in Seq(Tokens)
      /\ Len(s) = Len(rs) /\ Len(u) = Len(rs) /\ Len(v) = Len(rs)
      /\ SpentIn(rs, A) = SumTokens(s) /\ SpentIn(rs, B) = SumTokens(u) /\ SpentIn(rs, A \cup B) = SumTokens(v)
  BY ReportsType
<1>2. ASSUME NEW i \in 1 .. Len(rs) PROVE v[i] = AddTokens(s[i], u[i])
  <2>1. i \in DOMAIN rs /\ rs[i] \in CodexRows
    OBVIOUS
  <2>2. /\ s[i] = IF i \in A THEN ReportOf(rs[i]) ELSE NoTokens
        /\ u[i] = IF i \in B THEN ReportOf(rs[i]) ELSE NoTokens
        /\ v[i] = IF i \in A \/ i \in B THEN ReportOf(rs[i]) ELSE NoTokens
    BY <2>1 DEF ReportsIn
  <2>3. ReportOf(rs[i]) \in Tokens /\ NoTokens \in Tokens
    BY <2>1, ReportType, NoTokensType
  <2> HIDE DEF s, u, v
  <2> QED
    BY <2>2, <2>3, AddNoTokens
<1> HIDE DEF s, u, v
<1> QED
  BY <1>1, <1>2, SumTokensTogether

(* Nothing is spent in no rows. *)
LEMMA SpentInNone == ASSUME NEW rs \in Seq(CodexRows) PROVE SpentIn(rs, {}) = NoTokens
<1> DEFINE x == SpentIn(rs, {})
<1>1. x \in Tokens /\ x = AddTokens(x, x)
  BY ReportsType, SpentInBoth
<1> HIDE DEF x
<1>2. \A f \in DOMAIN NoTokens : x[f] \in Nat /\ x[f] = x[f] + x[f] /\ NoTokens[f] = 0
  <2>1. \A f \in DOMAIN NoTokens : x[f] \in Nat
    BY <1>1 DEF Tokens
  <2>2. \A f \in DOMAIN NoTokens : x[f] = x[f] + x[f]
    BY <1>1 DEF AddTokens
  <2>3. \A f \in DOMAIN NoTokens : NoTokens[f] = 0
    BY DEF NoTokens
  <2> QED
    BY <2>1, <2>2, <2>3
<1>3. \A f \in DOMAIN NoTokens : x[f] = NoTokens[f]
  BY <1>2
<1>4. x = [f \in DOMAIN NoTokens |-> x[f]] /\ NoTokens = [f \in DOMAIN NoTokens |-> NoTokens[f]]
  BY <1>1, NoTokensType DEF Tokens
<1> QED
  BY <1>3, <1>4 DEF x

(* A new row spends nothing in other rows. *)
LEMMA SpentInGrows ==
    ASSUME NEW l, NEW r, NEW m, NEW n, RowsGrown(l, r, m, n), NEW rows
    PROVE  SpentIn(m, rows) = AddTokens(SpentIn(l, rows), IF n \in rows THEN ReportOf(r) ELSE NoTokens)
<1>1. /\ l \in Seq(CodexRows) /\ m \in Seq(CodexRows) /\ r \in CodexRows
      /\ n \in Nat /\ n > 0 /\ DOMAIN l = 1 .. n - 1 /\ DOMAIN m = 1 .. n
      /\ n \notin DOMAIN l /\ m[n] = r
      /\ \A i \in DOMAIN l : m[i] = l[i] /\ i \in Nat /\ i < n
  BY RowsAre
<1>2. Len(l) = n - 1 /\ Len(m) = n
  BY <1>1
<1> DEFINE s == ReportsIn(l, rows)
           u == ReportsIn(m, rows)
           x == IF n \in rows THEN ReportOf(r) ELSE NoTokens
<1>3. /\ s \in Seq(Tokens) /\ u \in Seq(Tokens) /\ Len(s) = n - 1 /\ Len(u) = n
      /\ SpentIn(l, rows) = SumTokens(s) /\ SpentIn(m, rows) = SumTokens(u)
  BY <1>1, <1>2, ReportsType
<1>4. x \in Tokens
  BY <1>1, ReportType, NoTokensType
<1>5. u[n] = x /\ \A i \in 1 .. n - 1 : u[i] = s[i]
  <2>1. n \in DOMAIN m /\ \A i \in 1 .. n - 1 : i \in DOMAIN m /\ i \in DOMAIN l /\ m[i] = l[i]
    BY <1>1
  <2> QED
    BY <1>1, <2>1 DEF ReportsIn
<1> HIDE DEF s, u, x
<1>6. u = Append(s, x)
  <2>1. Append(s, x) \in Seq(Tokens) /\ Len(Append(s, x)) = n /\ Append(s, x)[n] = x /\ \A i \in 1 .. n - 1 : Append(s, x)[i] = s[i]
    BY <1>1, <1>3, <1>4
  <2>2. \A i \in 1 .. n : i = n \/ i \in 1 .. n - 1
    BY <1>1
  <2>3. \A i \in 1 .. n : u[i] = Append(s, x)[i]
    BY <1>5, <2>1, <2>2
  <2>4. \A z \in Seq(Tokens) : Len(z) = n => z = [i \in 1 .. n |-> z[i]]
    OBVIOUS
  <2>5. u = [i \in 1 .. n |-> u[i]] /\ Append(s, x) = [i \in 1 .. n |-> Append(s, x)[i]]
    BY <1>3, <2>1, <2>4
  <2> QED
    BY <2>3, <2>5
<1>7. SumTokens(u) = AddTokens(SumTokens(s), x)
  BY <1>3, <1>4, <1>6, SumTokensAppend
<1> QED
  BY <1>3, <1>7 DEF x

(* The rows that were there spend what they did, and the new one adds its report. *)
LEMMA SpentInNew ==
    ASSUME NEW l, NEW r, NEW m, NEW n, RowsGrown(l, r, m, n), NEW rows, n \notin rows
    PROVE  /\ SpentIn(m, rows) = SpentIn(l, rows)
           /\ SpentIn(m, rows \cup {n}) = AddTokens(SpentIn(m, rows), ReportOf(r))
<1>1. l \in Seq(CodexRows) /\ m \in Seq(CodexRows) /\ r \in CodexRows /\ n \notin DOMAIN l
  BY RowsAre
<1>2. SpentIn(l, rows) \in Tokens /\ SpentIn(l, rows \cup {n}) \in Tokens
  BY <1>1, ReportsType
<1>3. SpentIn(m, rows) = SpentIn(l, rows)
  <2>1. SpentIn(m, rows) = AddTokens(SpentIn(l, rows), NoTokens)
    BY SpentInGrows
  <2> QED
    BY <1>2, <2>1, AddNoTokens
<1>4. SpentIn(l, rows \cup {n}) = SpentIn(l, rows)
  <2>1. ReportsIn(l, rows \cup {n}) = ReportsIn(l, rows)
    BY <1>1 DEF ReportsIn
  <2> QED
    BY <1>1, <2>1, ReportsType
<1>5. SpentIn(m, rows \cup {n}) = AddTokens(SpentIn(l, rows \cup {n}), ReportOf(r))
  <2>1. n \in rows \cup {n}
    OBVIOUS
  <2> QED
    BY <2>1, SpentInGrows
<1> QED
  BY <1>3, <1>4, <1>5

-----------------------------------------------------------------------------
(* The open turn *)

(* The project of a turn. *)
ProjectType == [name : STRING \cup {"unknown"}, path : STRING \cup {""}]
(* A tool call of a turn; raw is the row of the output that completed it. *)
CodexCallType ==
    [name : Seq(STRING), use : STRING, input : Seq(STRING), invocation : Nat, output : STRING \cup {""},
     status : {"pending", "success", "failed"}, started : Nat, ended : Nat, raw : Seq(Nat)]
(* An answer of the model. *)
CodexStepType == [tokens : Tokens, ended : Nat, status : {"success"}, window : Nat]
(* What FromTools finds. *)
CodexComponents == {{}} \cup {FromTools(calls) : calls \in Seq(CodexCallType)}
(* A turn. *)
CodexTurnType ==
    [index : Nat, project : ProjectType, user : Seq(STRING), final : Seq(STRING), started : Nat, ended : Nat,
     invocations : Seq(CodexStepType), calls : Seq(CodexCallType),
     status : {"unknown", "success", "failed", "interrupted"}, tokens : Tokens, components : CodexComponents]
(* The open turn, with the calls by their id and the usage no message has taken. *)
CodexBuilder ==
    [turn : CodexTurnType, byCall : Partial(STRING, Nat), userMessageSet : BOOLEAN, pendingTokens : Tokens,
     contextWindow : Nat]

(* The fields of a turn. *)
LEMMA CodexTurnFields ==
    ASSUME NEW t \in CodexTurnType
    PROVE  /\ t.index \in Nat /\ t.project \in ProjectType /\ t.user \in Seq(STRING) /\ t.final \in Seq(STRING)
           /\ t.started \in Nat /\ t.ended \in Nat /\ t.invocations \in Seq(CodexStepType)
           /\ t.calls \in Seq(CodexCallType) /\ t.status \in {"unknown", "success", "failed", "interrupted"}
           /\ t.tokens \in Tokens
BY DEF CodexTurnType

(* The fields of an open turn. *)
LEMMA CodexBuilderFields ==
    ASSUME NEW b \in CodexBuilder
    PROVE  /\ b.turn \in CodexTurnType /\ b.byCall \in Partial(STRING, Nat) /\ b.userMessageSet \in BOOLEAN
           /\ b.pendingTokens \in Tokens /\ b.contextWindow \in Nat
BY DEF CodexBuilder

(* All that was reported as spent in an open turn. *)
AllTokens(b) == AddTokens(TokensOf(b.turn.invocations), b.pendingTokens)
(* The status an open turn has so far. *)
ProgressSaid(rs, rows) ==
    IF rows \cap Among(rs, Events("turn_aborted")) # {} THEN "interrupted"
    ELSE IF rows \cap Among(rs, Events("task_complete")) # {} THEN "success" ELSE "unknown"
(* A call is pending, or was completed by an output of its id among the rows. *)
Answered(rs, calls, rows) ==
    \A j \in DOMAIN calls :
        \/ calls[j].raw = <<>> /\ calls[j].status = "pending"
        \/ /\ calls[j].status # "pending"
           /\ \E k \in rows \cap Among(rs, Outputs) : calls[j].raw = <<k>> /\ rs[k].call = calls[j].use
(* A call id leads to a call of that id. *)
CallsFound(b) ==
    \A u \in DOMAIN b.byCall : b.byCall[u] \in DOMAIN b.turn.calls /\ b.turn.calls[b.byCall[u]].use = u
(* What was said is kept. *)
Says(b, spoken, replies) ==
    /\ b.turn.user # <<>> <=> spoken
    /\ b.userMessageSet => b.turn.user # <<>>
    /\ Len(b.turn.invocations) = replies
    /\ b.turn.final # <<>> => b.turn.invocations # <<>>

(* The open turn b is what its rows so far say. *)
Building(rs, b, rows) ==
    /\ b \in CodexBuilder
    /\ Says(b, rows \cap Among(rs, Spoken) # {}, Cardinality(rows \cap Among(rs, Replies)))
    /\ b.turn.calls # <<>> <=> rows \cap Among(rs, Called) # {}
    /\ AllTokens(b) = SpentIn(rs, rows)
    /\ b.turn.status = ProgressSaid(rs, rows)
    /\ Answered(rs, b.turn.calls, rows) /\ CallsFound(b)

(* The n-th row r makes q of the calls b has. *)
CallsAfter(calls, more, r, n) ==
    /\ \A j \in DOMAIN calls : j \in DOMAIN more /\ (more[j].raw # calls[j].raw => r \in Outputs /\ calls[j].raw = <<>>)
    /\ \A j \in DOMAIN more :
          \/ /\ j \in DOMAIN calls /\ more[j].raw = calls[j].raw /\ more[j].status = calls[j].status
             /\ more[j].use = calls[j].use
          \/ more[j].raw = <<>> /\ more[j].status = "pending"
          \/ more[j].raw = <<n>> /\ more[j].status # "pending" /\ r \in Outputs /\ r.call = more[j].use
(* It makes q of b, as far as what is said is concerned. *)
SaysAfter(b, q, r) ==
    /\ q.turn.user # <<>> <=> b.turn.user # <<>> \/ r \in Spoken
    /\ q.userMessageSet => q.turn.user # <<>>
    /\ Len(q.turn.invocations) = Len(b.turn.invocations) + (IF r \in Replies THEN 1 ELSE 0)
    /\ q.turn.final # <<>> => q.turn.invocations # <<>>
(* It makes the open turn q of b. *)
Takes(b, q, r, n) ==
    /\ q \in CodexBuilder
    /\ SaysAfter(b, q, r)
    /\ q.turn.calls # <<>> <=> b.turn.calls # <<>> \/ r \in Called
    /\ AllTokens(q) = AddTokens(AllTokens(b), ReportOf(r))
    /\ q.turn.status = IF r \in Events("turn_aborted") THEN "interrupted"
                       ELSE IF r \in Events("task_complete") /\ b.turn.status = "unknown" THEN "success"
                       ELSE b.turn.status
    /\ CallsAfter(b.turn.calls, q.turn.calls, r, n) /\ CallsFound(q)
    /\ q.turn.index = b.turn.index /\ q.turn.ended = b.turn.ended /\ q.turn.project = b.turn.project

(* Rows of a rollout are finitely many. *)
LEMMA RowsFinite == ASSUME NEW rs \in Seq(CodexRows), NEW rows \in SUBSET (DOMAIN rs) PROVE IsFiniteSet(rows)
<1>1. DOMAIN rs = 1 .. Len(rs) /\ Len(rs) \in Nat
  OBVIOUS
<1>2. IsFiniteSet(1 .. Len(rs))
  BY <1>1, FS_Interval
<1> QED
  BY <1>1, <1>2, FS_Subset

(* The n-th row joins some that were read before it. *)
Joins(l, r, m, n, rows) == RowsGrown(l, r, m, n) /\ rows \subseteq DOMAIN l

(* One row more of some rows, and of those of a kind. *)
LEMMA OneRowMore ==
    ASSUME NEW l, NEW r, NEW m, NEW n, NEW rows, Joins(l, r, m, n, rows), NEW kinds
    PROVE  /\ r \in kinds => (rows \cup {n}) \cap Among(m, kinds) = (rows \cap Among(m, kinds)) \cup {n}
           /\ r \notin kinds => (rows \cup {n}) \cap Among(m, kinds) = rows \cap Among(m, kinds)
           /\ Cardinality((rows \cup {n}) \cap Among(m, kinds))
                = Cardinality(rows \cap Among(m, kinds)) + (IF r \in kinds THEN 1 ELSE 0)
<1>0. RowsGrown(l, r, m, n) /\ rows \subseteq DOMAIN l
  BY DEF Joins
<1>1. n \in DOMAIN m /\ m[n] = r /\ m \in Seq(CodexRows) /\ n \notin DOMAIN l /\ DOMAIN m = DOMAIN l \cup {n}
  BY <1>0, RowsAre
<1>2. n \in Among(m, kinds) <=> r \in kinds
  BY <1>1 DEF Among
<1> DEFINE S == rows \cap Among(m, kinds)
           T == (rows \cup {n}) \cap Among(m, kinds)
<1>3. IsFiniteSet(S) /\ n \notin S
  <2>1. S \in SUBSET (DOMAIN m)
    BY <1>0, <1>1
  <2>2. n \notin S
    BY <1>0, <1>1
  <2> HIDE DEF S
  <2> QED
    BY <1>1, <2>1, <2>2, RowsFinite
<1>4. (r \in kinds => T = S \cup {n}) /\ (r \notin kinds => T = S)
  BY <1>2
<1> HIDE DEF S, T
<1>5. Cardinality(S \cup {n}) = Cardinality(S) + 1 /\ Cardinality(S) \in Nat
  BY <1>3, FS_AddElement, FS_CardinalityType
<1>6. Cardinality(T) = Cardinality(S) + (IF r \in kinds THEN 1 ELSE 0)
  BY <1>4, <1>5
<1> QED
  BY <1>4, <1>6 DEF S, T

(* An open turn that takes a row is what its rows say. *)
LEMMA BuildingTakes ==
    ASSUME NEW l, NEW r, NEW m, NEW n, NEW rows, Joins(l, r, m, n, rows),
           NEW b, Building(m, b, rows), NEW q, Takes(b, q, r, n)
    PROVE  Building(m, q, rows \cup {n})
<1> DEFINE more == rows \cup {n}
           At(kinds) == rows \cap Among(m, kinds)
           Then(kinds) == more \cap Among(m, kinds)
<1>a. RowsGrown(l, r, m, n) /\ rows \subseteq DOMAIN l
  BY DEF Joins
<1>0. n \in DOMAIN m /\ m[n] = r /\ n \in Nat /\ n \notin DOMAIN l
  BY <1>a, RowsAre
<1>b. \A kinds :
        /\ r \in kinds => (rows \cup {n}) \cap Among(m, kinds) = (rows \cap Among(m, kinds)) \cup {n}
        /\ r \notin kinds => (rows \cup {n}) \cap Among(m, kinds) = rows \cap Among(m, kinds)
        /\ Cardinality((rows \cup {n}) \cap Among(m, kinds))
             = Cardinality(rows \cap Among(m, kinds)) + (IF r \in kinds THEN 1 ELSE 0)
  BY OneRowMore
<1>1. \A kinds : (r \in kinds => Then(kinds) = At(kinds) \cup {n}) /\ (r \notin kinds => Then(kinds) = At(kinds))
  BY <1>b
<1>2. \A kinds : Cardinality(Then(kinds)) = Cardinality(At(kinds)) + (IF r \in kinds THEN 1 ELSE 0)
  BY <1>b
<1>3. \A kinds : Then(kinds) # {} <=> At(kinds) # {} \/ r \in kinds
  <2> SUFFICES ASSUME NEW kinds PROVE Then(kinds) # {} <=> At(kinds) # {} \/ r \in kinds
    OBVIOUS
  <2> QED
    BY <1>1
<1>4. /\ Says(b, At(Spoken) # {}, Cardinality(At(Replies)))
      /\ b.turn.calls # <<>> <=> At(Called) # {}
      /\ AllTokens(b) = SpentIn(m, rows)
      /\ b.turn.status = ProgressSaid(m, rows)
      /\ Answered(m, b.turn.calls, rows)
  BY DEF Building
<1>5. /\ q \in CodexBuilder /\ SaysAfter(b, q, r)
      /\ q.turn.calls # <<>> <=> b.turn.calls # <<>> \/ r \in Called
      /\ AllTokens(q) = AddTokens(AllTokens(b), ReportOf(r))
      /\ q.turn.status = IF r \in Events("turn_aborted") THEN "interrupted"
                         ELSE IF r \in Events("task_complete") /\ b.turn.status = "unknown" THEN "success"
                         ELSE b.turn.status
      /\ CallsAfter(b.turn.calls, q.turn.calls, r, n) /\ CallsFound(q)
  BY Zenon DEF Takes
<1>6. ProgressSaid(m, rows) = IF At(Events("turn_aborted")) # {} THEN "interrupted"
                              ELSE IF At(Events("task_complete")) # {} THEN "success" ELSE "unknown"
  BY DEF ProgressSaid
<1>7. ProgressSaid(m, more) = IF Then(Events("turn_aborted")) # {} THEN "interrupted"
                              ELSE IF Then(Events("task_complete")) # {} THEN "success" ELSE "unknown"
  BY DEF ProgressSaid
<1>8. Answered(m, q.turn.calls, more)
  <2> DEFINE old == b.turn.calls
             new == q.turn.calls
  <2>1. ASSUME NEW j \in DOMAIN new
        PROVE  \/ new[j].raw = <<>> /\ new[j].status = "pending"
               \/ /\ new[j].status # "pending"
                  /\ \E k \in more \cap Among(m, Outputs) : new[j].raw = <<k>> /\ m[k].call = new[j].use
    <3> HIDE DEF old, new
    <3>1. CASE j \in DOMAIN old /\ new[j].raw = old[j].raw /\ new[j].status = old[j].status /\ new[j].use = old[j].use
      <4>1. \/ old[j].raw = <<>> /\ old[j].status = "pending"
            \/ /\ old[j].status # "pending"
               /\ \E k \in rows \cap Among(m, Outputs) : old[j].raw = <<k>> /\ m[k].call = old[j].use
        BY <1>4, <3>1 DEF Answered, old
      <4> QED
        BY <3>1, <4>1
    <3>2. CASE new[j].raw = <<>> /\ new[j].status = "pending"
      BY <3>2
    <3>3. CASE new[j].raw = <<n>> /\ new[j].status # "pending" /\ r \in Outputs /\ r.call = new[j].use
      <4>1. n \in more \cap Among(m, Outputs) /\ m[n].call = new[j].use
        BY <1>0, <3>3 DEF Among
      <4> QED
        BY <3>3, <4>1
    <3> QED
      BY <1>5, <3>1, <3>2, <3>3 DEF CallsAfter, old, new
  <2> QED
    BY <2>1 DEF Answered
<1>9. AllTokens(q) = SpentIn(m, more)
  <2>1. n \notin rows
    BY <1>a, <1>0
  <2>2. SpentIn(m, more) = AddTokens(SpentIn(m, rows), ReportOf(r))
    BY <1>a, <2>1, SpentInNew
  <2> QED
    BY <1>4, <1>5, <2>2
<1>10. Says(q, Then(Spoken) # {}, Cardinality(Then(Replies)))
  <2>1. Then(Spoken) # {} <=> At(Spoken) # {} \/ r \in Spoken
    BY <1>3
  <2>2. Cardinality(Then(Replies)) = Cardinality(At(Replies)) + (IF r \in Replies THEN 1 ELSE 0)
    BY <1>2
  <2> HIDE DEF At, Then
  <2> QED
    BY <1>4, <1>5, <2>1, <2>2 DEF Says, SaysAfter
<1>11. q.turn.status = ProgressSaid(m, more)
  <2>1. Then(Events("turn_aborted")) # {} <=> At(Events("turn_aborted")) # {} \/ r \in Events("turn_aborted")
    BY <1>3
  <2>2. Then(Events("task_complete")) # {} <=> At(Events("task_complete")) # {} \/ r \in Events("task_complete")
    BY <1>3
  <2> HIDE DEF At, Then
  <2> QED
    BY <1>4, <1>5, <1>6, <1>7, <2>1, <2>2
<1>12. q.turn.calls # <<>> <=> Then(Called) # {}
  BY <1>3, <1>4, <1>5
<1> QED
  BY <1>5, <1>8, <1>9, <1>10, <1>11, <1>12 DEF Building

-----------------------------------------------------------------------------
(* The open turn takes a message *)

(* A row that says, does and ends nothing. *)
Quiet(r) ==
    r \notin Spoken \cup Replies \cup Called \cup Events("token_count") \cup Events("turn_aborted")
                \cup Events("task_complete")

(* q is the open turn b, but for its times, its project and its window. *)
SameTurn(b, q) ==
    /\ q \in CodexBuilder /\ q.turn.user = b.turn.user /\ q.turn.final = b.turn.final
    /\ q.turn.invocations = b.turn.invocations /\ q.turn.calls = b.turn.calls /\ q.turn.status = b.turn.status
    /\ q.byCall = b.byCall /\ q.userMessageSet = b.userMessageSet /\ q.pendingTokens = b.pendingTokens

(* Such turns say the same. *)
LEMMA SameTurnBuilding ==
    ASSUME NEW rs, NEW b, NEW rows, Building(rs, b, rows), NEW q, SameTurn(b, q) PROVE Building(rs, q, rows)
BY DEF Building, SameTurn, Says, AllTokens, CallsFound

(* What an open turn keeps of itself, whatever its rows. *)
Sane(b) ==
    /\ b \in CodexBuilder /\ CallsFound(b)
    /\ b.userMessageSet => b.turn.user # <<>>
    /\ b.turn.final # <<>> => b.turn.invocations # <<>>

(* An open turn that is what its rows say is sane. *)
LEMMA BuildingSane == \A rs, b, rows : Building(rs, b, rows) => Sane(b)
BY DEF Building, Says, Sane

(* Calls that stay as they are. *)
LEMMA CallsStay == \A calls, r, n : CallsAfter(calls, calls, r, n)
BY DEF CallsAfter

(* The tokens of the answers are counts. *)
LEMMA StepsType ==
    ASSUME NEW s \in Seq(CodexStepType) PROVE TokensOf(s) \in Tokens
<1> DEFINE g == [i \in DOMAIN s |-> s[i].tokens]
<1>1. \A x \in CodexStepType : x.tokens \in Tokens
  BY DEF CodexStepType
<1>2. Len(s) \in Nat /\ DOMAIN s = 1 .. Len(s) /\ \A i \in 1 .. Len(s) : s[i] \in CodexStepType
  OBVIOUS
<1>3. g \in [1 .. Len(s) -> Tokens]
  BY <1>1, <1>2
<1> HIDE DEF g
<1>4. g \in Seq(Tokens)
  BY <1>2, <1>3
<1> QED
  BY <1>4, SumTokensType DEF TokensOf, g

(* Such a row changes nothing, or only the times of the turn. *)
LEMMA QuietTakes ==
    ASSUME NEW b, Sane(b), NEW r \in CodexRows, Quiet(r), NEW n PROVE Takes(b, b, r, n)
<1>1. ReportOf(r) = NoTokens
  BY DEF Quiet, ReportOf
<1>2. b.turn \in CodexTurnType /\ b.pendingTokens \in Tokens /\ b \in CodexBuilder
  BY CodexBuilderFields DEF Sane
<1>3. b.turn.invocations \in Seq(CodexStepType)
  BY <1>2, CodexTurnFields
<1>4. AllTokens(b) \in Tokens
  <2>1. TokensOf(b.turn.invocations) \in Tokens
    BY <1>3, StepsType
  <2> QED
    BY <1>2, <2>1, AddTokensType DEF AllTokens
<1>5. AllTokens(b) = AddTokens(AllTokens(b), ReportOf(r))
  BY <1>1, <1>4, AddNoTokens
<1>6. Len(b.turn.invocations) \in Nat
  BY <1>3
<1>7. SaysAfter(b, b, r)
  <2>1. r \notin Spoken /\ r \notin Replies
    BY DEF Quiet
  <2>2. Len(b.turn.invocations) = Len(b.turn.invocations) + (IF r \in Replies THEN 1 ELSE 0)
    BY <1>6, <2>1
  <2> QED
    BY <2>1, <2>2 DEF Sane, SaysAfter
<1> QED
  BY <1>2, <1>5, <1>7, CallsStay DEF Takes, Sane, Quiet

(* The user's message is the first one that is not injected. *)
LEMMA UserMessageTakes ==
    ASSUME NEW b, Sane(b), NEW r \in CodexRows, r \in Items("message"), NEW n,
           r.role = "user", r.text # <<>>, b.turn.user = <<>>, ~b.userMessageSet, ~CodexInjected(r.text)
    PROVE  Takes(b, [b EXCEPT !.turn.user = r.text], r, n)
<1> DEFINE q == [b EXCEPT !.turn.user = r.text]
           t == [b.turn EXCEPT !.user = r.text]
<1>1. b \in CodexBuilder /\ b.turn \in CodexTurnType
  BY CodexBuilderFields DEF Sane
<1>2. r.type = "response_item" /\ r.payload = "message"
  BY DEF Items, OfType
<1>3. r.text \in Seq(STRING)
  BY <1>2, RowTypes, RowFields
<1>4. t \in CodexTurnType
  BY <1>1, <1>3 DEF CodexTurnType
<1>5. q = [b EXCEPT !.turn = t]
  BY <1>1 DEF CodexBuilder
<1>6. /\ t.user = r.text /\ t.final = b.turn.final /\ t.invocations = b.turn.invocations /\ t.calls = b.turn.calls
      /\ t.status = b.turn.status /\ t.index = b.turn.index /\ t.ended = b.turn.ended /\ t.project = b.turn.project
  BY <1>1 DEF CodexTurnType
<1> HIDE DEF t, q
<1>7. /\ q \in CodexBuilder /\ q.turn = t /\ q.byCall = b.byCall /\ q.userMessageSet = b.userMessageSet
      /\ q.pendingTokens = b.pendingTokens
  BY <1>1, <1>4, <1>5 DEF CodexBuilder
<1>8. /\ r \in Spoken /\ r \notin Replies /\ r \notin Called /\ r \notin Events("token_count")
      /\ r \notin Events("turn_aborted") /\ r \notin Events("task_complete")
  BY <1>2 DEF Spoken, Replies, Called, Items, Events, OfType
<1>9. AllTokens(q) = AddTokens(AllTokens(b), ReportOf(r))
  <2>1. TokensOf(b.turn.invocations) \in Tokens /\ b.pendingTokens \in Tokens
    BY <1>1, CodexTurnFields, CodexBuilderFields, StepsType
  <2>2. AllTokens(b) \in Tokens /\ AllTokens(q) = AllTokens(b) /\ ReportOf(r) = NoTokens
    BY <1>6, <1>7, <1>8, <2>1, AddTokensType DEF AllTokens, ReportOf
  <2> QED
    BY <2>2, AddNoTokens
<1>10. SaysAfter(b, q, r)
  <2>1. Len(b.turn.invocations) \in Nat
    BY <1>1, CodexTurnFields
  <2> QED
    BY <1>6, <1>7, <1>8, <2>1 DEF SaysAfter, Sane
<1>11. CallsFound(q)
  BY <1>6, <1>7 DEF CallsFound, Sane
<1> QED
  BY <1>6, <1>7, <1>8, <1>9, <1>10, <1>11, CallsStay DEF Takes, q

(* An answer takes the usage that waited for it. *)
LEMMA ReplyTakes ==
    ASSUME NEW b, Sane(b), NEW r \in CodexRows, r \in Items("message"), NEW n, r.role = "assistant"
    PROVE  Takes(b, RecordMessage(b, r), r, n)
<1> DEFINE q == RecordMessage(b, r)
           step == [tokens |-> b.pendingTokens, ended |-> r.when, status |-> "success", window |-> b.contextWindow]
           final == IF r.text = <<>> THEN b.turn.final ELSE r.text
           t == [b.turn EXCEPT !.final = final, !.invocations = Append(b.turn.invocations, step)]
<1>1. b \in CodexBuilder /\ b.turn \in CodexTurnType
  BY CodexBuilderFields DEF Sane
<1>2. r.type = "response_item" /\ r.payload = "message"
  BY DEF Items, OfType
<1>3. r.text \in Seq(STRING) /\ r.when \in Nat
  BY <1>2, RowTypes, RowFields
<1>4. /\ b.turn.invocations \in Seq(CodexStepType) /\ b.turn.final \in Seq(STRING)
      /\ b.pendingTokens \in Tokens /\ b.contextWindow \in Nat
  BY <1>1, CodexTurnFields, CodexBuilderFields
<1>5. step \in CodexStepType /\ final \in Seq(STRING) /\ step.tokens = b.pendingTokens
  BY <1>3, <1>4 DEF CodexStepType
<1>6. q = [b EXCEPT !.turn = t, !.pendingTokens = NoTokens]
  BY <1>1 DEF RecordMessage, CodexBuilder, CodexTurnType
<1> HIDE DEF step, final, q
<1>7. /\ Append(b.turn.invocations, step) \in Seq(CodexStepType)
      /\ Len(Append(b.turn.invocations, step)) = Len(b.turn.invocations) + 1
      /\ Append(b.turn.invocations, step) # <<>> /\ Len(b.turn.invocations) \in Nat
  BY <1>4, <1>5
<1>8. t \in CodexTurnType
  BY <1>1, <1>5, <1>7 DEF CodexTurnType
<1>9. /\ t.user = b.turn.user /\ t.invocations = Append(b.turn.invocations, step) /\ t.calls = b.turn.calls
      /\ t.status = b.turn.status /\ t.index = b.turn.index /\ t.ended = b.turn.ended /\ t.project = b.turn.project
  BY <1>1 DEF CodexTurnType
<1> HIDE DEF t
<1>10. /\ q \in CodexBuilder /\ q.turn = t /\ q.byCall = b.byCall /\ q.userMessageSet = b.userMessageSet
       /\ q.pendingTokens = NoTokens
  BY <1>1, <1>6, <1>8, NoTokensType DEF CodexBuilder
<1>11. /\ r \notin Spoken /\ r \in Replies /\ r \notin Called /\ r \notin Events("token_count")
       /\ r \notin Events("turn_aborted") /\ r \notin Events("task_complete")
  BY <1>2 DEF Spoken, Replies, Called, Items, Events, OfType
<1>12. AllTokens(q) = AddTokens(AllTokens(b), ReportOf(r))
  <2>1. \A x \in CodexStepType : x.tokens \in Tokens
    BY DEF CodexStepType
  <2>2. TokensOf(q.turn.invocations) = AllTokens(b)
    BY <1>4, <1>5, <1>9, <1>10, <2>1, TokensOfAppend, ZenonT(60) DEF AllTokens
  <2>3. AllTokens(q) = AddTokens(AllTokens(b), NoTokens)
    BY <1>10, <2>2, Zenon DEF AllTokens
  <2> QED
    BY <1>11, <2>3 DEF ReportOf
<1>13. SaysAfter(b, q, r)
  BY <1>7, <1>9, <1>10, <1>11 DEF SaysAfter, Sane
<1>14. CallsFound(q)
  BY <1>9, <1>10 DEF CallsFound, Sane
<1> QED
  BY <1>9, <1>10, <1>11, <1>12, <1>13, <1>14, CallsStay DEF Takes, q

(* A message is taken. *)
LEMMA MessageTakes ==
    ASSUME NEW b, Sane(b), NEW r \in CodexRows, r \in Items("message"), NEW n
    PROVE  Takes(b, RecordMessage(b, r), r, n)
<1>0. r.type = "response_item" /\ r.payload = "message"
  BY DEF Items, OfType
<1>1. CASE r.role = "assistant"
  BY <1>1, ReplyTakes
<1>2. CASE r.role = "user" /\ r.text # <<>> /\ b.turn.user = <<>> /\ ~b.userMessageSet /\ ~CodexInjected(r.text)
  <2>1. RecordMessage(b, r) = [b EXCEPT !.turn.user = r.text]
    BY <1>2 DEF RecordMessage
  <2> QED
    BY <1>2, <2>1, UserMessageTakes
<1>3. CASE /\ r.role # "assistant"
           /\ ~(r.role = "user" /\ r.text # <<>> /\ b.turn.user = <<>> /\ ~b.userMessageSet /\ ~CodexInjected(r.text))
  <2>1. RecordMessage(b, r) = b
    BY <1>3 DEF RecordMessage
  <2>2. CASE Quiet(r)
    BY <2>1, <2>2, QuietTakes
  <2>3. CASE ~Quiet(r)
    <3>1. r \in Spoken
      BY <1>0, <1>3, <2>3 DEF Quiet, Spoken, Replies, Called, Items, Events, OfType
    <3>2. b.turn.user # <<>>
      BY <1>0, <1>3, <3>1 DEF Spoken, Items, Events, OfType, Sane
    <3>3. /\ r \notin Replies /\ r \notin Called /\ r \notin Events("token_count")
          /\ r \notin Events("turn_aborted") /\ r \notin Events("task_complete")
      BY <1>0, <1>3 DEF Replies, Called, Items, Events, OfType
    <3>4. b \in CodexBuilder /\ b.turn \in CodexTurnType
      BY CodexBuilderFields DEF Sane
    <3>5. TokensOf(b.turn.invocations) \in Tokens /\ b.pendingTokens \in Tokens /\ Len(b.turn.invocations) \in Nat
      BY <3>4, CodexTurnFields, CodexBuilderFields, StepsType
    <3>6. AllTokens(b) = AddTokens(AllTokens(b), ReportOf(r))
      <4>1. AllTokens(b) \in Tokens /\ ReportOf(r) = NoTokens
        BY <3>3, <3>5, AddTokensType DEF AllTokens, ReportOf
      <4> QED
        BY <4>1, AddNoTokens
    <3>7. SaysAfter(b, b, r)
      BY <3>1, <3>2, <3>3, <3>5 DEF SaysAfter, Sane
    <3>8. Takes(b, b, r, n)
      BY <3>3, <3>4, <3>6, <3>7, CallsStay DEF Takes, Sane
    <3> QED
      BY <2>1, <3>8
  <2> QED
    BY <2>2, <2>3
<1> QED
  BY <1>1, <1>2, <1>3

-----------------------------------------------------------------------------
(* The open turn takes a call and an output *)

(* Without a report the usage stays what it was. *)
LEMMA NoReport ==
    ASSUME NEW b \in CodexBuilder, NEW r \in CodexRows, r \notin Events("token_count"), NEW q,
           q.turn.invocations = b.turn.invocations, q.pendingTokens = b.pendingTokens
    PROVE  AllTokens(q) = AddTokens(AllTokens(b), ReportOf(r))
<1>1. TokensOf(b.turn.invocations) \in Tokens /\ b.pendingTokens \in Tokens
  BY CodexTurnFields, CodexBuilderFields, StepsType
<1>2. AllTokens(b) \in Tokens /\ AllTokens(q) = AllTokens(b) /\ ReportOf(r) = NoTokens
  BY <1>1, AddTokensType DEF AllTokens, ReportOf
<1> QED
  BY <1>2, AddNoTokens

(* Without a reply the answers are as many as before. *)
LEMMA NoReply ==
    ASSUME NEW b \in CodexBuilder, NEW r, r \notin Replies
    PROVE  Len(b.turn.invocations) = Len(b.turn.invocations) + (IF r \in Replies THEN 1 ELSE 0)
<1>1. Len(b.turn.invocations) \in Nat
  BY CodexTurnFields, CodexBuilderFields
<1> QED
  BY <1>1

(* A sequence with one more element, and one of one element. *)
LEMMA AppendType ==
    ASSUME NEW S, NEW s \in Seq(S), NEW x \in S PROVE Append(s, x) \in Seq(S) /\ <<x>> \in Seq(S)
OBVIOUS

(* A row is named by a sequence of one number. *)
LEMMA RawType == \A n \in Nat : <<n>> \in Seq(Nat)
OBVIOUS

(* The beginning of a sequence. *)
LEMMA FrontType ==
    ASSUME NEW S, NEW s \in Seq(S), NEW k \in 0 .. Len(s)
    PROVE  /\ SubSeq(s, 1, k) \in Seq(S) /\ Len(SubSeq(s, 1, k)) = k
           /\ \A i \in 1 .. k : SubSeq(s, 1, k)[i] = s[i]
<1>1. SubSeq(s, 1, k) = [i \in 1 .. k |-> s[i]]
  OBVIOUS
<1>2. \A i \in 1 .. k : s[i] \in S
  OBVIOUS
<1> QED
  BY <1>1, <1>2

(* A canonical name is a name. *)
LEMMA CanonicalNameType ==
    ASSUME NEW name \in STRING, NEW namespace \in Seq(STRING) PROVE CanonicalName(name, namespace) \in Seq(STRING)
<1> DEFINE ns == IF namespace # <<>> /\ namespace[Len(namespace)] = ""
                    THEN SubSeq(namespace, 1, Len(namespace) - 1) ELSE namespace
<1>1. ns \in Seq(STRING)
  <2>1. namespace # <<>> => Len(namespace) - 1 \in 0 .. Len(namespace)
    OBVIOUS
  <2>2. namespace # <<>> => SubSeq(namespace, 1, Len(namespace) - 1) \in Seq(STRING)
    BY <2>1, FrontType
  <2> QED
    BY <2>2
<1>2. CanonicalName(name, namespace) = IF Len(ns) >= 2 /\ Head(ns) = "mcp" THEN Append(ns, name) ELSE <<name>>
  BY DEF CanonicalName
<1> HIDE DEF ns
<1>3. Append(ns, name) \in Seq(STRING) /\ <<name>> \in Seq(STRING)
  BY <1>1, AppendType
<1> QED
  BY <1>2, <1>3

(* A tool call is appended, pending. *)
LEMMA ToolCallTakes ==
    ASSUME NEW b, Sane(b), NEW r \in CodexRows, r \in Called, NEW n
    PROVE  Takes(b, CodexToolCall(b, r), r, n)
<1> DEFINE q == CodexToolCall(b, r)
           name == CanonicalName(r.name, IF r.payload = "function_call" THEN r.namespace ELSE <<>>)
           call == [name |-> name, use |-> r.call, input |-> r.input, invocation |-> Len(b.turn.invocations),
                    output |-> "", status |-> "pending", started |-> r.when, ended |-> 0, raw |-> <<>>]
           calls == Append(b.turn.calls, call)
           N == Len(b.turn.calls)
           byCall == IF r.call = "" THEN b.byCall ELSE Over([c \in {r.call} |-> N + 1], b.byCall)
           t == [b.turn EXCEPT !.calls = calls]
<1>1. b \in CodexBuilder /\ b.turn \in CodexTurnType
  BY CodexBuilderFields DEF Sane
<1>2. r.type = "response_item" /\ r.payload \in {"function_call", "custom_tool_call"}
  BY DEF Called, Items, OfType
<1>3. /\ r.name \in STRING /\ r.namespace \in Seq(STRING) /\ r.call \in STRING /\ r.input \in Seq(STRING)
      /\ r.when \in Nat
  BY <1>2, RowTypes, RowFields
<1>4. /\ b.turn.invocations \in Seq(CodexStepType) /\ b.turn.calls \in Seq(CodexCallType)
      /\ Len(b.turn.invocations) \in Nat /\ N \in Nat /\ b.byCall \in Partial(STRING, Nat)
  BY <1>1, CodexTurnFields, CodexBuilderFields
<1>5. name \in Seq(STRING)
  <2>1. <<>> \in Seq(STRING)
    OBVIOUS
  <2> QED
    BY <1>3, <2>1, CanonicalNameType
<1>6. q = [b EXCEPT !.turn = t, !.byCall = byCall]
  BY <1>1 DEF CodexToolCall, CodexBuilder, CodexTurnType
<1> HIDE DEF name, q
<1>7. /\ call \in CodexCallType /\ call.use = r.call /\ call.raw = <<>> /\ call.status = "pending"
  <2> DEFINE at == Len(b.turn.invocations)
             fresh(use, input, when) ==
                 [name |-> name, use |-> use, input |-> input, invocation |-> at,
                  output |-> "", status |-> "pending", started |-> when, ended |-> 0, raw |-> <<>>]
  <2>1. at \in Nat /\ <<>> \in Seq(Nat)
    BY <1>4
  <2> HIDE DEF at
  <2>2. \A use \in STRING : \A input \in Seq(STRING) : \A when \in Nat : fresh(use, input, when) \in CodexCallType
    BY <1>5, <2>1 DEF CodexCallType
  <2>3. call = fresh(r.call, r.input, r.when)
    BY DEF at
  <2> HIDE DEF fresh
  <2> QED
    BY <1>3, <2>2, <2>3
<1> HIDE DEF call, N
<1>8. /\ calls \in Seq(CodexCallType) /\ Len(calls) = N + 1 /\ calls # <<>> /\ calls[N + 1] = call
      /\ DOMAIN calls = 1 .. N + 1 /\ DOMAIN b.turn.calls = 1 .. N /\ \A j \in 1 .. N : calls[j] = b.turn.calls[j]
  BY <1>4, <1>7 DEF N
<1>9. /\ byCall \in Partial(STRING, Nat)
      /\ \A u \in DOMAIN byCall : \/ u \in DOMAIN b.byCall /\ byCall[u] = b.byCall[u]
                                  \/ u = r.call /\ byCall[u] = N + 1
  <2>1. CASE r.call = ""
    BY <1>4, <2>1
  <2>2. CASE r.call # ""
    <3> DEFINE a == [c \in {r.call} |-> N + 1]
    <3>1. DOMAIN a = {r.call} /\ a[r.call] = N + 1 /\ byCall = Over(a, b.byCall)
      BY <2>2
    <3>2. a \in Partial(STRING, Nat)
      <4>1. {r.call} \in SUBSET STRING /\ N + 1 \in Nat
        BY <1>3, <1>4
      <4>2. a \in [{r.call} -> Nat]
        BY <4>1
      <4> HIDE DEF a
      <4> QED
        BY <4>1, <4>2 DEF Partial
    <3> HIDE DEF a, byCall
    <3>3. byCall \in Partial(STRING, Nat)
      BY <1>4, <3>1, <3>2, OverPartial
    <3>4. DOMAIN byCall = DOMAIN a \cup DOMAIN b.byCall
      BY <3>1, OverDomain
    <3>5. byCall[r.call] = N + 1
      BY <3>1, OverFirst
    <3>6. \A u \in DOMAIN b.byCall \ {r.call} : byCall[u] = b.byCall[u]
      BY <3>1, OverSecond
    <3> QED
      BY <3>1, <3>3, <3>4, <3>5, <3>6
  <2> QED
    BY <2>1, <2>2
<1> HIDE DEF calls, byCall
<1>10. t \in CodexTurnType
  BY <1>1, <1>8 DEF CodexTurnType
<1>11. /\ t.user = b.turn.user /\ t.final = b.turn.final /\ t.invocations = b.turn.invocations /\ t.calls = calls
       /\ t.status = b.turn.status /\ t.index = b.turn.index /\ t.ended = b.turn.ended /\ t.project = b.turn.project
  BY <1>1 DEF CodexTurnType
<1> HIDE DEF t
<1>12. /\ q \in CodexBuilder /\ q.turn = t /\ q.byCall = byCall /\ q.userMessageSet = b.userMessageSet
       /\ q.pendingTokens = b.pendingTokens
  BY <1>1, <1>6, <1>9, <1>10 DEF CodexBuilder
<1>13. /\ r \notin Spoken /\ r \notin Replies /\ r \in Called /\ r \notin Events("token_count")
       /\ r \notin Events("turn_aborted") /\ r \notin Events("task_complete")
  BY <1>2 DEF Spoken, Replies, Called, Items, Events, OfType
<1>14. AllTokens(q) = AddTokens(AllTokens(b), ReportOf(r))
  BY <1>1, <1>11, <1>12, <1>13, NoReport
<1>15. SaysAfter(b, q, r)
  BY <1>1, <1>11, <1>12, <1>13, NoReply DEF SaysAfter, Sane
<1>16. CallsFound(q)
  <2>1. \A u \in DOMAIN b.byCall : b.byCall[u] \in 1 .. N /\ b.turn.calls[b.byCall[u]].use = u
    BY <1>8 DEF Sane, CallsFound
  <2>2. ASSUME NEW u \in DOMAIN byCall PROVE byCall[u] \in 1 .. N + 1 /\ calls[byCall[u]].use = u
    <3>1. CASE u \in DOMAIN b.byCall /\ byCall[u] = b.byCall[u]
      BY <1>4, <1>8, <2>1, <3>1
    <3>2. CASE u = r.call /\ byCall[u] = N + 1
      BY <1>4, <1>7, <1>8, <3>2
    <3> QED
      BY <1>9, <3>1, <3>2
  <2> QED
    BY <1>8, <1>11, <1>12, <2>2 DEF CallsFound
<1>17. CallsAfter(b.turn.calls, q.turn.calls, r, n)
  <2>1. \A j \in 1 .. N + 1 : j = N + 1 \/ j \in 1 .. N
    BY <1>4, UpToLast
  <2>2. \A j \in DOMAIN b.turn.calls : j \in DOMAIN calls /\ calls[j] = b.turn.calls[j]
    BY <1>4, <1>8
  <2> QED
    BY <1>7, <1>8, <1>11, <1>12, <2>1, <2>2 DEF CallsAfter
<1> QED
  BY <1>8, <1>11, <1>12, <1>13, <1>14, <1>15, <1>16, <1>17 DEF Takes, q

(* An output completes the i-th call, which is of its id. *)
Given(b, i, r, n) ==
    LET call == b.turn.calls[i]
        status == IF OutputFails(call.name, r.output) THEN "failed" ELSE "success"
        done == [call EXCEPT !.output = r.output, !.ended = r.when, !.raw = <<n>>, !.status = status]
    IN [b EXCEPT !.turn = [b.turn EXCEPT !.calls = [b.turn.calls EXCEPT ![i] = done]]]

(* It is taken. *)
LEMMA OutputTakes ==
    ASSUME NEW b, Sane(b), NEW r \in CodexRows, r \in Outputs, NEW n \in Nat,
           NEW i \in DOMAIN b.turn.calls, b.turn.calls[i].use = r.call, b.turn.calls[i].raw = <<>>
    PROVE  /\ Takes(b, Given(b, i, r, n), r, n)
           /\ DOMAIN Given(b, i, r, n).turn.calls = DOMAIN b.turn.calls
           /\ Given(b, i, r, n).turn.calls[i].raw = <<n>>
           /\ \A j \in DOMAIN b.turn.calls \ {i} : Given(b, i, r, n).turn.calls[j] = b.turn.calls[j]
<1> DEFINE q == Given(b, i, r, n)
           call == b.turn.calls[i]
           status == IF OutputFails(call.name, r.output) THEN "failed" ELSE "success"
           done == [call EXCEPT !.output = r.output, !.ended = r.when, !.raw = <<n>>, !.status = status]
           calls == [b.turn.calls EXCEPT ![i] = done]
           t == [b.turn EXCEPT !.calls = calls]
<1>1. b \in CodexBuilder /\ b.turn \in CodexTurnType
  BY CodexBuilderFields DEF Sane
<1>2. r.type = "response_item" /\ r.payload \in {"function_call_output", "custom_tool_call_output"}
  BY DEF Outputs, Items, OfType
<1>3. r.output \in STRING /\ r.when \in Nat
  BY <1>2, RowTypes, RowFields
<1>4. b.turn.calls \in Seq(CodexCallType) /\ call \in CodexCallType /\ i \in Nat
  BY <1>1, CodexTurnFields
<1>5. q = [b EXCEPT !.turn = t]
  BY DEF Given
<1>6. status \in {"success", "failed"}
  OBVIOUS
<1> HIDE DEF call, status, q
<1>7. done \in CodexCallType /\ done.raw = <<n>> /\ done.status = status /\ done.use = call.use
  <2> DEFINE raw == <<n>>
             output == r.output
             when == r.when
  <2>1. raw \in Seq(Nat) /\ output \in STRING \cup {""} /\ when \in Nat
    BY <1>3, RawType
  <2>2. done = [call EXCEPT !.output = output, !.ended = when, !.raw = raw, !.status = status]
    OBVIOUS
  <2> HIDE DEF raw, output, when, done
  <2>3. done \in CodexCallType /\ done.raw = raw /\ done.status = status /\ done.use = call.use
    BY <1>4, <1>6, <2>1, <2>2 DEF CodexCallType
  <2> QED
    BY <2>3 DEF raw
<1> HIDE DEF done
<1>8. /\ calls \in Seq(CodexCallType) /\ DOMAIN calls = DOMAIN b.turn.calls /\ calls[i] = done
      /\ \A j \in DOMAIN b.turn.calls \ {i} : calls[j] = b.turn.calls[j]
      /\ calls # <<>> /\ b.turn.calls # <<>>
  BY <1>4, <1>7
<1> HIDE DEF calls
<1>9. t \in CodexTurnType
  BY <1>1, <1>8 DEF CodexTurnType
<1>10. /\ t.user = b.turn.user /\ t.final = b.turn.final /\ t.invocations = b.turn.invocations /\ t.calls = calls
       /\ t.status = b.turn.status /\ t.index = b.turn.index /\ t.ended = b.turn.ended /\ t.project = b.turn.project
  BY <1>1 DEF CodexTurnType
<1> HIDE DEF t
<1>11. /\ q \in CodexBuilder /\ q.turn = t /\ q.byCall = b.byCall /\ q.userMessageSet = b.userMessageSet
       /\ q.pendingTokens = b.pendingTokens
  BY <1>1, <1>5, <1>9 DEF CodexBuilder
<1>12. /\ r \notin Spoken /\ r \notin Replies /\ r \notin Called /\ r \notin Events("token_count")
       /\ r \notin Events("turn_aborted") /\ r \notin Events("task_complete")
  BY <1>2 DEF Spoken, Replies, Called, Items, Events, OfType
<1>13. AllTokens(q) = AddTokens(AllTokens(b), ReportOf(r))
  BY <1>1, <1>10, <1>11, <1>12, NoReport
<1>14. SaysAfter(b, q, r)
  BY <1>1, <1>10, <1>11, <1>12, NoReply DEF SaysAfter, Sane
<1>15. CallsFound(q)
  <2>1. \A j \in DOMAIN b.turn.calls : calls[j].use = b.turn.calls[j].use
    BY <1>7, <1>8 DEF call
  <2> QED
    BY <1>8, <1>10, <1>11, <2>1 DEF CallsFound, Sane
<1>16. CallsAfter(b.turn.calls, q.turn.calls, r, n)
  <2>1. /\ calls[i].raw = <<n>> /\ calls[i].status # "pending" /\ calls[i].use = r.call
        /\ b.turn.calls[i].raw = <<>>
    BY <1>6, <1>7, <1>8 DEF call
  <2> QED
    BY <1>8, <1>10, <1>11, <2>1 DEF CallsAfter
<1>17. Takes(b, q, r, n)
  BY <1>8, <1>10, <1>11, <1>12, <1>13, <1>14, <1>15, <1>16 DEF Takes
<1> QED
  BY <1>7, <1>8, <1>10, <1>11, <1>17 DEF q

-----------------------------------------------------------------------------
(* The open turn takes an event *)

(* A sequence is its beginning and its last element. *)
LEMMA FrontAndLast ==
    ASSUME NEW S, NEW s \in Seq(S), Len(s) > 0, NEW y \in S
    PROVE  /\ SubSeq(s, 1, Len(s) - 1) \in Seq(S)
           /\ [s EXCEPT ![Len(s)] = y] = Append(SubSeq(s, 1, Len(s) - 1), y)
           /\ s = Append(SubSeq(s, 1, Len(s) - 1), s[Len(s)])
           /\ [s EXCEPT ![Len(s)] = y] \in Seq(S) /\ Len([s EXCEPT ![Len(s)] = y]) = Len(s)
           /\ [s EXCEPT ![Len(s)] = y] # <<>> /\ s # <<>>
<1> DEFINE n == Len(s)
           f == SubSeq(s, 1, n - 1)
<1>1. n \in Nat /\ n - 1 \in 0 .. n /\ n \in 1 .. n
  OBVIOUS
<1>2. f \in Seq(S) /\ Len(f) = n - 1 /\ \A i \in 1 .. n - 1 : f[i] = s[i]
  BY <1>1, FrontType
<1> HIDE DEF f
<1>3. \A i \in 1 .. n : i # n => i \in 1 .. n - 1
  BY <1>1
<1> DEFINE u == [s EXCEPT ![n] = y]
<1>4. u \in Seq(S) /\ Len(u) = n /\ u[n] = y /\ \A i \in 1 .. n : i # n => u[i] = s[i]
  BY <1>1
<1> HIDE DEF u
<1>5. u = Append(f, y)
  BY <1>1, <1>2, <1>3, <1>4
<1>6. s = Append(f, s[n])
  BY <1>1, <1>2, <1>3
<1>7. u # <<>> /\ s # <<>>
  BY <1>1, <1>4
<1> QED
  BY <1>2, <1>4, <1>5, <1>6, <1>7 DEF u, f

(* The last answer gains what is reported. *)
LEMMA LastGains ==
    ASSUME NEW s \in Seq(CodexStepType), Len(s) > 0, NEW x \in Tokens
    PROVE  LET y == [s[Len(s)] EXCEPT !.tokens = AddTokens(s[Len(s)].tokens, x)]
               u == [s EXCEPT ![Len(s)] = y]
           IN u \in Seq(CodexStepType) /\ Len(u) = Len(s) /\ TokensOf(u) = AddTokens(TokensOf(s), x)
<1> DEFINE n == Len(s)
           y == [s[n] EXCEPT !.tokens = AddTokens(s[n].tokens, x)]
           u == [s EXCEPT ![n] = y]
           f == SubSeq(s, 1, n - 1)
<1>0. \A z \in CodexStepType : z.tokens \in Tokens
  BY DEF CodexStepType
<1>1. n \in 1 .. n /\ s[n] \in CodexStepType
  OBVIOUS
<1>2. AddTokens(s[n].tokens, x) \in Tokens
  BY <1>0, <1>1, AddTokensType
<1>3. y \in CodexStepType /\ y.tokens = AddTokens(s[n].tokens, x)
  BY <1>1, <1>2 DEF CodexStepType
<1> HIDE DEF y
<1>4. f \in Seq(CodexStepType) /\ u = Append(f, y) /\ s = Append(f, s[n]) /\ u \in Seq(CodexStepType) /\ Len(u) = n
  BY <1>3, FrontAndLast
<1> HIDE DEF u, f, n
<1>5. TokensOf(u) = AddTokens(TokensOf(f), y.tokens) /\ TokensOf(f) \in Tokens
  BY <1>0, <1>3, <1>4, TokensOfAppend
<1>6. TokensOf(s) = AddTokens(TokensOf(f), s[n].tokens)
  <2> DEFINE z == s[n]
  <2>1. z \in CodexStepType /\ s = Append(f, z)
    BY <1>1, <1>4
  <2> HIDE DEF z
  <2>2. TokensOf(Append(f, z)) = AddTokens(TokensOf(f), z.tokens)
    BY <1>0, <1>4, <2>1, TokensOfAppend
  <2> QED
    BY <2>1, <2>2 DEF z
<1>7. TokensOf(u) = AddTokens(TokensOf(s), x)
  <2>1. s[n].tokens \in Tokens
    BY <1>0, <1>1
  <2> QED
    BY <1>3, <1>5, <1>6, <2>1, AddTokensAssociates
<1> QED
  BY <1>4, <1>7 DEF u, y, n

(* More of a text. *)
LEMMA ConcatType ==
    ASSUME NEW S, NEW s \in Seq(S), NEW t \in Seq(S), t # <<>> PROVE s \o t \in Seq(S) /\ s \o t # <<>>
<1>1. Len(s \o t) = Len(s) + Len(t) /\ Len(s) \in Nat /\ Len(t) \in Nat /\ Len(t) # 0
  OBVIOUS
<1>2. s \o t # <<>>
  BY <1>1
<1> QED
  BY <1>2

(* The user's message replaces what the response items said, and more of it is added. *)
LEMMA UserEventTakes ==
    ASSUME NEW b, Sane(b), NEW r \in CodexRows, NEW n, r \in Events("user_message"),
           r.text # <<>>, ~CodexInjected(r.text)
    PROVE  Takes(b, ApplyEventMessage(b, r), r, n)
<1> DEFINE q == ApplyEventMessage(b, r)
           user == IF b.userMessageSet THEN b.turn.user \o r.text ELSE r.text
           t == [b.turn EXCEPT !.user = user]
<1>1. b \in CodexBuilder /\ b.turn \in CodexTurnType /\ b.turn.user \in Seq(STRING)
  BY CodexBuilderFields, CodexTurnFields DEF Sane
<1>2. r.type = "event_msg" /\ r.payload = "user_message"
  BY DEF Events, OfType
<1>3. r.text \in Seq(STRING)
  BY <1>2, RowTypes, RowFields
<1>4. user \in Seq(STRING) /\ user # <<>>
  BY <1>1, <1>3, ConcatType
<1>5. q = [b EXCEPT !.turn = t, !.userMessageSet = TRUE]
  BY <1>1, <1>2 DEF ApplyEventMessage, CodexBuilder, CodexTurnType
<1> HIDE DEF q, user
<1>6. /\ t \in CodexTurnType /\ t.user = user /\ t.final = b.turn.final /\ t.invocations = b.turn.invocations
      /\ t.calls = b.turn.calls
      /\ t.status = b.turn.status /\ t.index = b.turn.index /\ t.ended = b.turn.ended /\ t.project = b.turn.project
  BY <1>1, <1>4 DEF CodexTurnType
<1> HIDE DEF t
<1>7. /\ q \in CodexBuilder /\ q.turn = t /\ q.byCall = b.byCall /\ q.userMessageSet = TRUE
      /\ q.pendingTokens = b.pendingTokens
  BY <1>1, <1>5, <1>6 DEF CodexBuilder
<1>8. /\ r \in Spoken /\ r \notin Replies /\ r \notin Called /\ r \notin Events("token_count")
      /\ r \notin Events("turn_aborted") /\ r \notin Events("task_complete")
  BY <1>2 DEF Spoken, Replies, Called, Items, Events, OfType
<1>9. AllTokens(q) = AddTokens(AllTokens(b), ReportOf(r))
  BY <1>1, <1>6, <1>7, <1>8, NoReport
<1>10. SaysAfter(b, q, r)
  BY <1>1, <1>4, <1>6, <1>7, <1>8, NoReply DEF SaysAfter, Sane
<1>11. CallsFound(q)
  BY <1>6, <1>7 DEF CallsFound, Sane
<1> QED
  BY <1>6, <1>7, <1>8, <1>9, <1>10, <1>11, CallsStay DEF Takes, q

(* A report is added to the last answer, or waits for the first. *)
LEMMA ReportTakes ==
    ASSUME NEW b, Sane(b), NEW r \in CodexRows, NEW n, r \in Events("token_count")
    PROVE  Takes(b, ApplyEventMessage(b, r), r, n)
<1> DEFINE q == ApplyEventMessage(b, r)
           s == b.turn.invocations
           x == Delta(r.usage)
           y == [s[Len(s)] EXCEPT !.tokens = AddTokens(s[Len(s)].tokens, x)]
           u == [s EXCEPT ![Len(s)] = y]
           steps == IF Len(s) > 0 THEN u ELSE s
           pending == IF Len(s) > 0 THEN b.pendingTokens ELSE AddTokens(b.pendingTokens, x)
           t == [b.turn EXCEPT !.invocations = steps]
<1>1. b \in CodexBuilder /\ b.turn \in CodexTurnType /\ s \in Seq(CodexStepType) /\ b.pendingTokens \in Tokens
  BY CodexBuilderFields, CodexTurnFields DEF Sane
<1>2. r.type = "event_msg" /\ r.payload = "token_count"
  BY DEF Events, OfType
<1>3. ReportOf(r) = x /\ x \in Tokens
  BY ReportType DEF ReportOf
<1>4. Len(s) > 0 => q = [b EXCEPT !.turn = [b.turn EXCEPT !.invocations = u]]
  BY <1>1, <1>2 DEF ApplyEventMessage, CodexBuilder, CodexTurnType
<1>5. ~(Len(s) > 0) => q = [b EXCEPT !.pendingTokens = AddTokens(b.pendingTokens, x)]
  BY <1>1, <1>2 DEF ApplyEventMessage
<1> HIDE DEF q, x
<1>6. Len(s) > 0 => u \in Seq(CodexStepType) /\ Len(u) = Len(s) /\ TokensOf(u) = AddTokens(TokensOf(s), x)
  BY <1>1, <1>3, LastGains
<1> HIDE DEF u
<1>7. /\ steps \in Seq(CodexStepType) /\ Len(steps) = Len(s) /\ pending \in Tokens
      /\ (s # <<>> => steps # <<>>)
  <2>1. AddTokens(b.pendingTokens, x) \in Tokens
    BY <1>1, <1>3, AddTokensType
  <2>2. s # <<>> <=> Len(s) > 0
    BY <1>1
  <2>3. u \in Seq(CodexStepType) /\ Len(u) > 0 => u # <<>>
    OBVIOUS
  <2> QED
    BY <1>1, <1>6, <2>1, <2>2, <2>3
<1>8. q = [b EXCEPT !.turn = t, !.pendingTokens = pending]
  <2>1. CASE Len(s) > 0
    <3>1. t = [b.turn EXCEPT !.invocations = u] /\ pending = b.pendingTokens
      BY <2>1
    <3> HIDE DEF t, pending
    <3> QED
      BY <1>1, <1>4, <2>1, <3>1 DEF CodexBuilder
  <2>2. CASE ~(Len(s) > 0)
    <3>1. pending = AddTokens(b.pendingTokens, x) /\ steps = s
      BY <2>2
    <3>2. t = b.turn
      BY <1>1, <3>1 DEF CodexTurnType
    <3> HIDE DEF t, pending
    <3> QED
      BY <1>1, <1>5, <2>2, <3>1, <3>2 DEF CodexBuilder
  <2> QED
    BY <2>1, <2>2
<1>9. AddTokens(TokensOf(steps), pending) = AddTokens(AllTokens(b), x)
  <2>1. TokensOf(s) \in Tokens
    BY <1>1, StepsType
  <2>2. CASE Len(s) > 0
    <3>1. TokensOf(steps) = AddTokens(TokensOf(s), x) /\ pending = b.pendingTokens
      BY <1>6, <2>2
    <3>2. AddTokens(AddTokens(TokensOf(s), x), AddTokens(b.pendingTokens, NoTokens))
            = AddTokens(AddTokens(TokensOf(s), b.pendingTokens), AddTokens(x, NoTokens))
      BY <1>1, <1>3, <2>1, NoTokensType, AddTokensRegroup
    <3>3. AddTokens(b.pendingTokens, NoTokens) = b.pendingTokens /\ AddTokens(x, NoTokens) = x
      BY <1>1, <1>3, AddNoTokens
    <3> QED
      BY <3>1, <3>2, <3>3 DEF AllTokens
  <2>3. CASE ~(Len(s) > 0)
    <3>1. steps = s /\ pending = AddTokens(b.pendingTokens, x)
      BY <2>3
    <3> QED
      BY <1>1, <1>3, <2>1, <3>1, AddTokensAssociates DEF AllTokens
  <2> QED
    BY <2>2, <2>3
<1> HIDE DEF steps, pending
<1>10. /\ t \in CodexTurnType /\ t.user = b.turn.user /\ t.final = b.turn.final /\ t.invocations = steps
       /\ t.calls = b.turn.calls
       /\ t.status = b.turn.status /\ t.index = b.turn.index /\ t.ended = b.turn.ended /\ t.project = b.turn.project
  BY <1>1, <1>7 DEF CodexTurnType
<1> HIDE DEF t
<1>11. /\ q \in CodexBuilder /\ q.turn = t /\ q.byCall = b.byCall /\ q.userMessageSet = b.userMessageSet
       /\ q.pendingTokens = pending
  BY <1>1, <1>7, <1>8, <1>10 DEF CodexBuilder
<1>12. /\ r \notin Spoken /\ r \notin Replies /\ r \notin Called
       /\ r \notin Events("turn_aborted") /\ r \notin Events("task_complete")
  BY <1>2 DEF Spoken, Replies, Called, Items, Events, OfType
<1>13. AllTokens(q) = AddTokens(AllTokens(b), ReportOf(r))
  BY <1>3, <1>9, <1>10, <1>11 DEF AllTokens
<1>14. SaysAfter(b, q, r)
  BY <1>1, <1>7, <1>10, <1>11, <1>12, NoReply DEF SaysAfter, Sane
<1>15. CallsFound(q)
  BY <1>10, <1>11 DEF CallsFound, Sane
<1> QED
  BY <1>10, <1>11, <1>12, <1>13, <1>14, <1>15, CallsStay DEF Takes, q

(* The end of a turn, or its abort, is noted in its status. *)
LEMMA EndTakes ==
    ASSUME NEW b, Sane(b), NEW r \in CodexRows, NEW n, r \in Events("task_complete") \cup Events("turn_aborted")
    PROVE  Takes(b, ApplyEventMessage(b, r), r, n)
<1> DEFINE q == ApplyEventMessage(b, r)
           status == IF r.payload = "turn_aborted" THEN "interrupted"
                     ELSE IF b.turn.status = "unknown" THEN "success" ELSE b.turn.status
           t == [b.turn EXCEPT !.status = status]
<1>1. /\ b \in CodexBuilder /\ b.turn \in CodexTurnType
      /\ b.turn.status \in {"unknown", "success", "failed", "interrupted"}
  BY CodexBuilderFields, CodexTurnFields DEF Sane
<1>2. r.type = "event_msg" /\ r.payload \in {"task_complete", "turn_aborted"}
  BY DEF Events, OfType
<1>3. status \in {"unknown", "success", "failed", "interrupted"}
  BY <1>1
<1>4. q = [b EXCEPT !.turn = t]
  BY <1>1, <1>2 DEF ApplyEventMessage, CodexBuilder, CodexTurnType
<1>5. status = IF r \in Events("turn_aborted") THEN "interrupted"
               ELSE IF r \in Events("task_complete") /\ b.turn.status = "unknown" THEN "success"
               ELSE b.turn.status
  BY <1>2 DEF Events, OfType
<1> HIDE DEF q, status
<1>6. /\ t \in CodexTurnType /\ t.user = b.turn.user /\ t.final = b.turn.final /\ t.invocations = b.turn.invocations
      /\ t.calls = b.turn.calls
      /\ t.status = status /\ t.index = b.turn.index /\ t.ended = b.turn.ended /\ t.project = b.turn.project
  BY <1>1, <1>3 DEF CodexTurnType
<1> HIDE DEF t
<1>7. /\ q \in CodexBuilder /\ q.turn = t /\ q.byCall = b.byCall /\ q.userMessageSet = b.userMessageSet
      /\ q.pendingTokens = b.pendingTokens
  BY <1>1, <1>4, <1>6 DEF CodexBuilder
<1>8. /\ r \notin Spoken /\ r \notin Replies /\ r \notin Called /\ r \notin Events("token_count")
  BY <1>2 DEF Spoken, Replies, Called, Items, Events, OfType
<1>9. AllTokens(q) = AddTokens(AllTokens(b), ReportOf(r))
  BY <1>1, <1>6, <1>7, <1>8, NoReport
<1>10. SaysAfter(b, q, r)
  BY <1>1, <1>6, <1>7, <1>8, NoReply DEF SaysAfter, Sane
<1>11. CallsFound(q)
  BY <1>6, <1>7 DEF CallsFound, Sane
<1> QED
  BY <1>5, <1>6, <1>7, <1>8, <1>9, <1>10, <1>11, CallsStay DEF Takes, q

(* An event is taken. *)
LEMMA EventTakes ==
    ASSUME NEW b, Sane(b), NEW r \in CodexRows, r \in OfType("event_msg"), NEW n
    PROVE  Takes(b, ApplyEventMessage(b, r), r, n)
<1>1. r.type = "event_msg"
  BY DEF OfType
<1>2. CASE r.payload = "user_message" /\ r.text # <<>> /\ ~CodexInjected(r.text)
  BY <1>2, UserEventTakes DEF Events
<1>3. CASE r.payload = "token_count"
  BY <1>3, ReportTakes DEF Events
<1>4. CASE r.payload \in {"task_complete", "turn_aborted"}
  BY <1>4, EndTakes DEF Events
<1>5. CASE /\ r.payload \notin {"token_count", "task_complete", "turn_aborted"}
           /\ ~(r.payload = "user_message" /\ r.text # <<>> /\ ~CodexInjected(r.text))
  <2>1. ApplyEventMessage(b, r) = b
    BY <1>5 DEF ApplyEventMessage
  <2>2. Quiet(r)
    BY <1>1, <1>5 DEF Quiet, Spoken, Replies, Called, Items, Events, OfType
  <2> QED
    BY <2>1, <2>2, QuietTakes
<1> QED
  BY <1>2, <1>3, <1>4, <1>5

-----------------------------------------------------------------------------
(* The closed turns *)

(* The closed turn t is what its rows say. *)
Stored(rs, t, rows) ==
    /\ t \in CodexTurnType
    /\ t.status = StatusSaid(rs, t, rows) /\ t.tokens = SpentIn(rs, rows)
    /\ Len(t.invocations) = Cardinality(rows \cap Among(rs, Replies))
    /\ Answered(rs, t.calls, rows)

(* Rows that were read stay what they were. *)
LEMMA RowsStay ==
    ASSUME NEW l, NEW r, NEW m, NEW n, RowsGrown(l, r, m, n), NEW rows, rows \subseteq DOMAIN l
    PROVE  /\ \A kinds : rows \cap Among(m, kinds) = rows \cap Among(l, kinds)
           /\ SpentIn(m, rows) = SpentIn(l, rows) /\ \A k \in rows : m[k] = l[k]
           /\ n \notin rows /\ rows \subseteq DOMAIN m
<1>1. /\ DOMAIN m = DOMAIN l \cup {n} /\ n \notin DOMAIN l
      /\ \A i \in DOMAIN l : m[i] = l[i] /\ i \in Nat /\ i < n
  BY RowsAre
<1>2. n \notin rows
  BY <1>1
<1>3. SpentIn(m, rows) = SpentIn(l, rows)
  <2>1. /\ SpentIn(m, rows) = SpentIn(l, rows)
        /\ SpentIn(m, rows \cup {n}) = AddTokens(SpentIn(m, rows), ReportOf(r))
    BY <1>2, SpentInNew
  <2> QED
    BY <2>1
<1>4. \A kinds : rows \cap Among(m, kinds) = rows \cap Among(l, kinds)
  BY <1>1 DEF Among
<1> QED
  BY <1>1, <1>2, <1>3, <1>4

(* So a closed turn stays what its rows say. *)
LEMMA StoredGrows ==
    ASSUME NEW l, NEW r, NEW m, NEW n, RowsGrown(l, r, m, n), NEW rows, rows \subseteq DOMAIN l,
           NEW t, Stored(l, t, rows)
    PROVE  Stored(m, t, rows)
<1>1. /\ \A kinds : rows \cap Among(m, kinds) = rows \cap Among(l, kinds)
      /\ SpentIn(m, rows) = SpentIn(l, rows) /\ \A k \in rows : m[k] = l[k]
  BY RowsStay
<1>2. StatusSaid(m, t, rows) = StatusSaid(l, t, rows)
  BY <1>1 DEF StatusSaid
<1>3. Answered(m, t.calls, rows)
  <2>1. Answered(l, t.calls, rows)
    BY DEF Stored
  <2> QED
    BY <1>1, <2>1 DEF Answered
<1> QED
  BY <1>1, <1>2, <1>3 DEF Stored

(* And the open turn. *)
LEMMA BuildingGrows ==
    ASSUME NEW l, NEW r, NEW m, NEW n, RowsGrown(l, r, m, n), NEW rows, rows \subseteq DOMAIN l,
           NEW b, Building(l, b, rows)
    PROVE  Building(m, b, rows) /\ Joins(l, r, m, n, rows)
<1>1. /\ \A kinds : rows \cap Among(m, kinds) = rows \cap Among(l, kinds)
      /\ SpentIn(m, rows) = SpentIn(l, rows) /\ \A k \in rows : m[k] = l[k]
  BY RowsStay
<1>2. ProgressSaid(m, rows) = ProgressSaid(l, rows)
  BY <1>1 DEF ProgressSaid
<1>3. Answered(m, b.turn.calls, rows)
  <2>1. Answered(l, b.turn.calls, rows)
    BY DEF Building
  <2> QED
    BY <1>1, <2>1 DEF Answered
<1>4. /\ b \in CodexBuilder
      /\ Says(b, rows \cap Among(l, Spoken) # {}, Cardinality(rows \cap Among(l, Replies)))
      /\ b.turn.calls # <<>> <=> rows \cap Among(l, Called) # {}
      /\ AllTokens(b) = SpentIn(l, rows) /\ b.turn.status = ProgressSaid(l, rows) /\ CallsFound(b)
  BY DEF Building
<1>5. /\ rows \cap Among(m, Spoken) = rows \cap Among(l, Spoken)
      /\ rows \cap Among(m, Replies) = rows \cap Among(l, Replies)
      /\ rows \cap Among(m, Called) = rows \cap Among(l, Called)
  BY <1>1
<1>6. Building(m, b, rows)
  BY <1>1, <1>2, <1>3, <1>4, <1>5 DEF Building
<1> QED
  BY <1>6 DEF Joins

(* What a finished turn has from the open one. *)
LEMMA FinishIs ==
    ASSUME NEW b \in CodexBuilder
    PROVE  LET t == CodexFinish(b)
           IN /\ t \in CodexTurnType /\ t.index = b.turn.index /\ t.ended = b.turn.ended
              /\ t.project = b.turn.project /\ t.calls = b.turn.calls /\ t.invocations = b.turn.invocations
              /\ t.tokens = AllTokens(b) /\ t.status = ResolveTurnStatus(b.turn)
<1> DEFINE a == [b.turn EXCEPT !.tokens = AllTokens(b)]
           status == ResolveTurnStatus(a)
           components == FromTools(a.calls)
           t == CodexFinish(b)
<1>1. /\ b.turn \in CodexTurnType /\ b.pendingTokens \in Tokens /\ b.turn.invocations \in Seq(CodexStepType)
      /\ b.turn.status \in {"unknown", "success", "failed", "interrupted"} /\ b.turn.calls \in Seq(CodexCallType)
  BY CodexBuilderFields, CodexTurnFields
<1>2. AllTokens(b) \in Tokens
  BY <1>1, StepsType, AddTokensType DEF AllTokens
<1>3. t = [a EXCEPT !.status = status, !.components = components]
  BY DEF CodexFinish, AllTokens
<1>4. /\ a \in CodexTurnType /\ a.tokens = AllTokens(b) /\ a.index = b.turn.index /\ a.ended = b.turn.ended
      /\ a.project = b.turn.project /\ a.calls = b.turn.calls /\ a.invocations = b.turn.invocations
      /\ a.status = b.turn.status /\ a.final = b.turn.final
  BY <1>1, <1>2 DEF CodexTurnType
<1> HIDE DEF a, t
<1>5. status = ResolveTurnStatus(b.turn)
  BY <1>4 DEF ResolveTurnStatus, StatusForTurn
<1>6. status \in {"unknown", "success", "failed", "interrupted"}
  <2>1. StatusForTurn(b.turn) \in {"unknown", "success", "failed"}
    BY DEF StatusForTurn
  <2> QED
    BY <1>1, <1>5, <2>1 DEF ResolveTurnStatus
<1>7. components \in CodexComponents
  BY <1>1, <1>4 DEF CodexComponents
<1> HIDE DEF status, components
<1>8. /\ t \in CodexTurnType /\ t.index = a.index /\ t.ended = a.ended /\ t.project = a.project /\ t.calls = a.calls
      /\ t.invocations = a.invocations /\ t.tokens = a.tokens /\ t.status = status
  BY <1>3, <1>4, <1>6, <1>7 DEF CodexTurnType
<1> QED
  BY <1>4, <1>5, <1>8 DEF t

(* The finished turn is what the rows of the open one say. *)
LEMMA FinishStored ==
    ASSUME NEW rs, NEW b, NEW rows, Building(rs, b, rows)
    PROVE  Stored(rs, CodexFinish(b), rows)
<1> DEFINE t == CodexFinish(b)
           failed == \E i \in DOMAIN b.turn.calls : b.turn.calls[i].status = "failed"
           aborted == rows \cap Among(rs, Events("turn_aborted")) # {}
           completed == rows \cap Among(rs, Events("task_complete")) # {}
<1>1. /\ b \in CodexBuilder /\ Answered(rs, b.turn.calls, rows) /\ AllTokens(b) = SpentIn(rs, rows)
      /\ b.turn.status = ProgressSaid(rs, rows)
      /\ Says(b, rows \cap Among(rs, Spoken) # {}, Cardinality(rows \cap Among(rs, Replies)))
  BY DEF Building
<1>2. /\ t \in CodexTurnType /\ t.calls = b.turn.calls /\ t.invocations = b.turn.invocations
      /\ t.tokens = AllTokens(b) /\ t.status = ResolveTurnStatus(b.turn)
  BY <1>1, FinishIs
<1> HIDE DEF t
<1>3. StatusSaid(rs, t, rows) = IF aborted THEN "interrupted" ELSE IF failed THEN "failed"
                                ELSE IF completed \/ b.turn.invocations # <<>> THEN "success" ELSE "unknown"
  BY <1>2 DEF StatusSaid
<1>4. b.turn.status = IF aborted THEN "interrupted" ELSE IF completed THEN "success" ELSE "unknown"
  BY <1>1 DEF ProgressSaid
<1>5. /\ b.turn.final # <<>> => b.turn.invocations # <<>>
      /\ Len(b.turn.invocations) = Cardinality(rows \cap Among(rs, Replies))
  BY <1>1 DEF Says
<1>6. StatusForTurn(b.turn) = IF failed THEN "failed" ELSE IF b.turn.invocations # <<>> THEN "success" ELSE "unknown"
  BY <1>5 DEF StatusForTurn
<1> HIDE DEF failed, aborted, completed
<1>7. t.status = StatusSaid(rs, t, rows)
  BY <1>2, <1>3, <1>4, <1>6 DEF ResolveTurnStatus
<1> QED
  BY <1>1, <1>2, <1>5, <1>7 DEF Stored, t

(* A turn is empty when none of its rows matters. *)
LEMMA EmptyIs ==
    ASSUME NEW rs \in Seq(CodexRows), NEW b, NEW rows, rows \subseteq DOMAIN rs, Building(rs, b, rows)
    PROVE  CodexEmpty(b) <=> rows \cap Matter(rs) = {}
<1>1. /\ Says(b, rows \cap Among(rs, Spoken) # {}, Cardinality(rows \cap Among(rs, Replies)))
      /\ b.turn.calls # <<>> <=> rows \cap Among(rs, Called) # {}
      /\ b \in CodexBuilder
  BY DEF Building
<1>2. b.turn.invocations \in Seq(CodexStepType)
  BY <1>1, CodexBuilderFields, CodexTurnFields
<1> DEFINE R == rows \cap Among(rs, Replies)
<1>3. IsFiniteSet(R)
  <2>1. R \in SUBSET (DOMAIN rs)
    OBVIOUS
  <2> HIDE DEF R
  <2> QED
    BY <2>1, RowsFinite
<1>4. Len(b.turn.invocations) = Cardinality(R)
  BY <1>1 DEF Says
<1>5. b.turn.user # <<>> <=> rows \cap Among(rs, Spoken) # {}
  BY <1>1 DEF Says
<1>6. b.turn.final # <<>> => b.turn.invocations # <<>>
  BY <1>1 DEF Says
<1>7. rows \cap Matter(rs) = (rows \cap Among(rs, Spoken)) \cup R \cup (rows \cap Among(rs, Called))
  BY DEF Matter, Among
<1> HIDE DEF R
<1>8. b.turn.invocations = <<>> <=> R = {}
  <2>1. Cardinality(R) = 0 <=> R = {}
    BY <1>3, FS_EmptySet
  <2> QED
    BY <1>2, <1>4, <2>1
<1> QED
  BY <1>1, <1>5, <1>6, <1>7, <1>8 DEF CodexEmpty

-----------------------------------------------------------------------------
(* S numbers the segments in closed, each before the next. *)
Numbers(rs, S, closed) ==
    /\ S \in Seq(SUBSET (DOMAIN rs)) /\ {S[i] : i \in DOMAIN S} = closed
    /\ \A i, j \in DOMAIN S : i < j => \A a \in S[i] : \A c \in S[j] : a < c

(* The turns are those of the segments S, and none ends after the session. *)
TurnsStored(rs, turns, S, closed, over) ==
    /\ turns \in Seq(CodexTurnType) /\ Numbers(rs, S, closed) /\ Len(S) = Len(turns)
    /\ \A i \in DOMAIN turns : Stored(rs, turns[i], S[i]) /\ turns[i].index = i /\ turns[i].ended <= over
    /\ TokensOf(turns) = SpentIn(rs, UNION closed)

(* They stay that when a row is added. *)
LEMMA TurnsGrow ==
    ASSUME NEW l, NEW r, NEW m, NEW n, RowsGrown(l, r, m, n), NEW turns, NEW S, NEW closed, NEW over \in Nat,
           TurnsStored(l, turns, S, closed, over), NEW later \in Nat, later >= over
    PROVE  TurnsStored(m, turns, S, closed, later)
<1>1. /\ turns \in Seq(CodexTurnType) /\ Numbers(l, S, closed) /\ Len(S) = Len(turns)
      /\ \A i \in DOMAIN turns : Stored(l, turns[i], S[i]) /\ turns[i].index = i /\ turns[i].ended <= over
      /\ TokensOf(turns) = SpentIn(l, UNION closed)
  BY DEF TurnsStored
<1>2. /\ S \in Seq(SUBSET (DOMAIN l)) /\ {S[i] : i \in DOMAIN S} = closed
      /\ \A i, j \in DOMAIN S : i < j => \A a \in S[i] : \A c \in S[j] : a < c
  BY <1>1 DEF Numbers
<1>3. DOMAIN m = DOMAIN l \cup {n}
  BY RowsAre
<1>4. DOMAIN S = 1 .. Len(turns) /\ DOMAIN turns = 1 .. Len(turns) /\ \A i \in DOMAIN S : S[i] \subseteq DOMAIN l
  BY <1>1, <1>2
<1>5. S \in Seq(SUBSET (DOMAIN m))
  <2> DEFINE D == SUBSET (DOMAIN l)
             E == SUBSET (DOMAIN m)
  <2>1. S \in Seq(D) /\ \A x \in D : x \in E
    BY <1>2, <1>3
  <2> HIDE DEF D, E
  <2>2. S \in Seq(E)
    BY <2>1
  <2> QED
    BY <2>2 DEF E
<1>6. Numbers(m, S, closed)
  BY <1>2, <1>5 DEF Numbers
<1>7. ASSUME NEW i \in DOMAIN turns
      PROVE  Stored(m, turns[i], S[i]) /\ turns[i].index = i /\ turns[i].ended <= later
  <2>1. Stored(m, turns[i], S[i])
    BY <1>1, <1>4, StoredGrows
  <2>2. turns[i].ended \in Nat
    BY <1>1, CodexTurnFields
  <2> QED
    BY <1>1, <2>1, <2>2
<1>8. UNION closed \subseteq DOMAIN l
  BY <1>2, <1>4
<1>9. SpentIn(m, UNION closed) = SpentIn(l, UNION closed)
  BY <1>8, RowsStay
<1> QED
  BY <1>1, <1>6, <1>7, <1>9 DEF TurnsStored

(* The tokens of turns are counts. *)
LEMMA TurnsTokens == \A t \in CodexTurnType : t.tokens \in Tokens
BY CodexTurnFields

(* One more turn. *)
LEMMA OneTurnMore ==
    ASSUME NEW rs \in Seq(CodexRows), NEW turns, NEW S, NEW closed, NEW over,
           TurnsStored(rs, turns, S, closed, over),
           NEW rows, rows \subseteq DOMAIN rs, rows # {}, \A s \in closed : \A a \in s : \A c \in rows : a < c,
           NEW t, Stored(rs, t, rows), t.index = Len(turns) + 1, t.ended <= over
    PROVE  TurnsStored(rs, Append(turns, t), Append(S, rows), closed \cup {rows}, over)
<1> DEFINE N == Len(turns)
           X == Append(turns, t)
           Y == Append(S, rows)
<1>1. /\ turns \in Seq(CodexTurnType) /\ Numbers(rs, S, closed) /\ Len(S) = N
      /\ \A i \in DOMAIN turns : Stored(rs, turns[i], S[i]) /\ turns[i].index = i /\ turns[i].ended <= over
      /\ TokensOf(turns) = SpentIn(rs, UNION closed)
  BY DEF TurnsStored
<1>2. /\ S \in Seq(SUBSET (DOMAIN rs)) /\ {S[i] : i \in DOMAIN S} = closed
      /\ \A i, j \in DOMAIN S : i < j => \A a \in S[i] : \A c \in S[j] : a < c
  BY <1>1 DEF Numbers
<1>3. t \in CodexTurnType /\ t.tokens = SpentIn(rs, rows)
  BY DEF Stored
<1>4. /\ X \in Seq(CodexTurnType) /\ N \in Nat /\ DOMAIN turns = 1 .. N /\ DOMAIN X = 1 .. N + 1 /\ Len(X) = N + 1
      /\ X[N + 1] = t /\ \A i \in 1 .. N : X[i] = turns[i]
  BY <1>1, <1>3
<1>5. /\ Y \in Seq(SUBSET (DOMAIN rs)) /\ DOMAIN S = 1 .. N /\ DOMAIN Y = 1 .. N + 1 /\ Len(Y) = N + 1
      /\ Y[N + 1] = rows /\ \A i \in 1 .. N : Y[i] = S[i] /\ S[i] \in closed
  <2> DEFINE D == SUBSET (DOMAIN rs)
  <2>1. rows \in D /\ S \in Seq(D)
    BY <1>2
  <2> HIDE DEF D
  <2>2. Y \in Seq(D) /\ DOMAIN S = 1 .. N /\ DOMAIN Y = 1 .. N + 1 /\ Len(Y) = N + 1
        /\ Y[N + 1] = rows /\ \A i \in 1 .. N : Y[i] = S[i]
    BY <1>1, <1>4, <2>1
  <2> QED
    BY <1>2, <2>2 DEF D
<1> HIDE DEF X, Y, N
<1>6. \A i \in 1 .. N + 1 : i = N + 1 \/ i \in 1 .. N
  BY <1>4, UpToLast
<1>7. {Y[i] : i \in DOMAIN Y} = closed \cup {rows}
  <2>1. 1 .. N \subseteq 1 .. N + 1 /\ N + 1 \in 1 .. N + 1
    BY <1>4
  <2> QED
    BY <1>2, <1>5, <1>6, <2>1
<1>8. ASSUME NEW i \in DOMAIN Y, NEW j \in DOMAIN Y, i < j, NEW a \in Y[i], NEW c \in Y[j] PROVE a < c
  <2>1. i \in 1 .. N
    BY <1>4, <1>5, <1>8
  <2>2. CASE j \in 1 .. N
    BY <1>2, <1>5, <1>8, <2>1, <2>2
  <2>3. CASE j = N + 1
    <3>1. a \in S[i] /\ S[i] \in closed /\ c \in rows
      BY <1>5, <1>8, <2>1, <2>3
    <3> QED
      BY <3>1
  <2> QED
    BY <1>5, <1>6, <2>2, <2>3
<1>9. Numbers(rs, Y, closed \cup {rows})
  BY <1>5, <1>7, <1>8 DEF Numbers
<1>10. ASSUME NEW i \in DOMAIN X PROVE Stored(rs, X[i], Y[i]) /\ X[i].index = i /\ X[i].ended <= over
  <2>1. CASE i = N + 1
    BY <1>4, <1>5, <2>1 DEF N
  <2>2. CASE i \in 1 .. N
    BY <1>1, <1>4, <1>5, <2>2
  <2> QED
    BY <1>4, <1>6, <2>1, <2>2
<1>11. TokensOf(X) = SpentIn(rs, UNION (closed \cup {rows}))
  <2>1. TokensOf(X) = AddTokens(TokensOf(turns), t.tokens)
    BY <1>1, <1>3, TurnsTokens, TokensOfAppend DEF X
  <2>2. (UNION closed) \cap rows = {}
    <3> SUFFICES ASSUME NEW s \in closed, NEW a \in s, a \in rows PROVE FALSE
      OBVIOUS
    <3>1. a < a
      OBVIOUS
    <3>2. a \in Nat
      OBVIOUS
    <3> QED
      BY <3>1, <3>2
  <2>3. UNION (closed \cup {rows}) = (UNION closed) \cup rows
    OBVIOUS
  <2> DEFINE A == UNION closed
  <2> HIDE DEF A
  <2>4. SpentIn(rs, A \cup rows) = AddTokens(SpentIn(rs, A), SpentIn(rs, rows))
    BY <2>2, SpentInBoth DEF A
  <2> QED
    BY <1>1, <1>3, <2>1, <2>3, <2>4 DEF A
<1>12. Len(Y) = Len(X)
  BY <1>4, <1>5
<1> QED
  BY <1>4, <1>9, <1>10, <1>11, <1>12 DEF TurnsStored, X, Y

-----------------------------------------------------------------------------
(* The session *)

(* The state of ParseEvents. *)
CodexSession ==
    [external : STRING \cup {""}, project : ProjectType, parent : STRING \cup {""}, isSubagent : BOOLEAN,
     window : [started : Nat, ended : Nat], turns : Seq(CodexTurnType), current : {None} \cup CodexBuilder,
     errors : Seq(Seq(Nat)), seenTurnContext : BOOLEAN, contextWindow : Nat]

(* The missing turn is no open turn. *)
LEMMA NoneIsNotOpen == None \notin CodexBuilder
<1>1. \A b \in CodexBuilder : DOMAIN b = {"turn", "byCall", "userMessageSet", "pendingTokens", "contextWindow"}
  BY DEF CodexBuilder
<1>2. DOMAIN None = {"turn"}
  BY DEF None
<1>3. "byCall" # "turn"
  OBVIOUS
<1> QED
  BY <1>1, <1>2, <1>3, Zenon

(* The fields of the parser. *)
LEMMA CodexFields ==
    ASSUME NEW c \in CodexSession
    PROVE  /\ c.project \in ProjectType /\ c.window \in [started : Nat, ended : Nat] /\ c.window.ended \in Nat
           /\ c.turns \in Seq(CodexTurnType) /\ c.errors \in Seq(Seq(Nat)) /\ c.seenTurnContext \in BOOLEAN
           /\ c.contextWindow \in Nat
           /\ c.current # None => c.current \in CodexBuilder /\ c.current.turn \in CodexTurnType
<1>1. /\ c.project \in ProjectType /\ c.window \in [started : Nat, ended : Nat]
      /\ c.turns \in Seq(CodexTurnType) /\ c.errors \in Seq(Seq(Nat)) /\ c.seenTurnContext \in BOOLEAN
      /\ c.contextWindow \in Nat /\ c.current \in {None} \cup CodexBuilder
  BY DEF CodexSession
<1>2. c.window.ended \in Nat
  BY <1>1
<1>3. c.current # None => c.current \in CodexBuilder /\ c.current.turn \in CodexTurnType
  BY <1>1, CodexBuilderFields
<1> QED
  BY <1>1, <1>2, <1>3

(* What was read so far: rows make the open turn, closed the turns before it. *)
Heard(c, rs, rows, closed) ==
    /\ c \in CodexSession
    /\ \E S : TurnsStored(rs, c.turns, S, closed, c.window.ended)
    /\ c.current # None =>
         Building(rs, c.current, rows) /\ c.current.turn.index = Len(c.turns) + 1
           /\ c.current.turn.ended <= c.window.ended

(* A row more leaves it. *)
LEMMA HeardGrows ==
    ASSUME NEW l, NEW r, NEW m, NEW n, RowsGrown(l, r, m, n), NEW rows, rows \subseteq DOMAIN l, NEW closed,
           NEW c, Heard(c, l, rows, closed)
    PROVE  Heard(c, m, rows, closed)
<1>1. c \in CodexSession /\ c.window.ended \in Nat
  BY CodexFields DEF Heard
<1>2. PICK S : TurnsStored(l, c.turns, S, closed, c.window.ended)
  BY DEF Heard
<1>3. TurnsStored(m, c.turns, S, closed, c.window.ended)
  <2> DEFINE over == c.window.ended
             turns == c.turns
  <2>1. over \in Nat /\ over >= over /\ TurnsStored(l, turns, S, closed, over)
    BY <1>1, <1>2
  <2> HIDE DEF over, turns
  <2>2. TurnsStored(m, turns, S, closed, over)
    BY <2>1, TurnsGrow
  <2> QED
    BY <2>2 DEF over, turns
<1>4. ASSUME c.current # None
      PROVE  /\ Building(m, c.current, rows) /\ c.current.turn.index = Len(c.turns) + 1
             /\ c.current.turn.ended <= c.window.ended
  <2>1. /\ Building(l, c.current, rows) /\ c.current.turn.index = Len(c.turns) + 1
        /\ c.current.turn.ended <= c.window.ended
    BY <1>4 DEF Heard
  <2> DEFINE b == c.current
  <2>2. Building(l, b, rows)
    BY <2>1
  <2> HIDE DEF b
  <2>3. Building(m, b, rows)
    BY <2>2, BuildingGrows
  <2> QED
    BY <2>1, <2>3 DEF b
<1> QED
  BY <1>1, <1>3, <1>4 DEF Heard

(* A stored turn but for its project. *)
AlikeTurn(t, u) ==
    /\ u.index = t.index /\ u.ended = t.ended /\ u.calls = t.calls /\ u.invocations = t.invocations
    /\ u.status = t.status /\ u.tokens = t.tokens
(* The turns of q are those of c, but for what surrounds them. *)
SameTurns(c, q) ==
    /\ q \in CodexSession /\ Len(q.turns) = Len(c.turns)
    /\ \A i \in DOMAIN c.turns : AlikeTurn(c.turns[i], q.turns[i])
    /\ q.window.ended >= c.window.ended /\ (q.current = None <=> c.current = None)
    /\ q.current # None =>
         SameTurn(c.current, q.current) /\ q.current.turn.index = c.current.turn.index
           /\ q.current.turn.ended <= q.window.ended

(* Nothing of what was read is lost. *)
LEMMA SameTurnsHeard ==
    ASSUME NEW rs, NEW rows, NEW closed, NEW c, Heard(c, rs, rows, closed), NEW q, SameTurns(c, q)
    PROVE  Heard(q, rs, rows, closed)
<1>1. /\ c \in CodexSession /\ q \in CodexSession /\ Len(q.turns) = Len(c.turns)
      /\ \A i \in DOMAIN c.turns : AlikeTurn(c.turns[i], q.turns[i])
      /\ q.window.ended >= c.window.ended /\ (q.current = None <=> c.current = None)
  BY DEF Heard, SameTurns
<1>2. /\ c.window.ended \in Nat /\ q.window.ended \in Nat /\ c.turns \in Seq(CodexTurnType)
      /\ q.turns \in Seq(CodexTurnType)
  BY <1>1, CodexFields
<1>3. DOMAIN q.turns = DOMAIN c.turns /\ \A i \in DOMAIN q.turns : q.turns[i] \in CodexTurnType
  BY <1>1, <1>2
<1>4. PICK S : TurnsStored(rs, c.turns, S, closed, c.window.ended)
  BY DEF Heard
<1>5. ASSUME NEW i \in DOMAIN q.turns
      PROVE  Stored(rs, q.turns[i], S[i]) /\ q.turns[i].index = i /\ q.turns[i].ended <= q.window.ended
  <2>1. Stored(rs, c.turns[i], S[i]) /\ c.turns[i].index = i /\ c.turns[i].ended <= c.window.ended
    BY <1>3, <1>4 DEF TurnsStored
  <2>2. AlikeTurn(c.turns[i], q.turns[i]) /\ q.turns[i] \in CodexTurnType
    BY <1>1, <1>3
  <2> DEFINE t == c.turns[i]
             u == q.turns[i]
  <2>3. t.ended \in Nat
    BY <1>2, <1>3, CodexTurnFields
  <2>4. u.ended <= q.window.ended
    <3> DEFINE w == c.window.ended
               x == q.window.ended
    <3>1. t.ended <= w /\ w <= x /\ u.ended = t.ended /\ w \in Nat /\ x \in Nat
      BY <1>1, <1>2, <2>1, <2>2 DEF AlikeTurn
    <3> HIDE DEF w, x, t, u
    <3>2. u.ended <= x
      BY <2>3, <3>1
    <3> QED
      BY <3>2 DEF x
  <2> HIDE DEF t, u
  <2>5. Stored(rs, u, S[i]) /\ u.index = i
    <3>1. Stored(rs, t, S[i]) /\ t.index = i /\ AlikeTurn(t, u) /\ u \in CodexTurnType
      BY <2>1, <2>2 DEF t, u
    <3> QED
      BY <3>1 DEF AlikeTurn, Stored, StatusSaid
  <2> QED
    BY <2>4, <2>5 DEF u
<1>6. TokensOf(q.turns) = TokensOf(c.turns)
  BY <1>1, <1>3 DEF TokensOf, AlikeTurn
<1>7. TurnsStored(rs, q.turns, S, closed, q.window.ended)
  BY <1>1, <1>2, <1>4, <1>5, <1>6 DEF TurnsStored
<1>8. ASSUME q.current # None
      PROVE  /\ Building(rs, q.current, rows) /\ q.current.turn.index = Len(q.turns) + 1
             /\ q.current.turn.ended <= q.window.ended
  <2>1. Building(rs, c.current, rows) /\ c.current.turn.index = Len(c.turns) + 1
    BY <1>1, <1>8 DEF Heard
  <2>2. SameTurn(c.current, q.current) /\ q.current.turn.index = c.current.turn.index
           /\ q.current.turn.ended <= q.window.ended
    BY <1>8 DEF SameTurns
  <2>3. Building(rs, q.current, rows)
    BY <2>1, <2>2, SameTurnBuilding
  <2> QED
    BY <1>1, <2>1, <2>2, <2>3
<1> QED
  BY <1>1, <1>7, <1>8 DEF Heard

(* The open turn takes a row. *)
LEMMA HeardTakes ==
    ASSUME NEW l, NEW r, NEW m, NEW n, NEW rows, Joins(l, r, m, n, rows), NEW closed,
           NEW c, Heard(c, m, rows, closed), c.current # None, NEW b, Takes(c.current, b, r, n)
    PROVE  Heard([c EXCEPT !.current = b], m, rows \cup {n}, closed)
<1> DEFINE q == [c EXCEPT !.current = b]
<1>1. c \in CodexSession /\ b \in CodexBuilder /\ b # None
  BY NoneIsNotOpen DEF Heard, Takes
<1>2. /\ q \in CodexSession /\ q.turns = c.turns /\ q.window = c.window /\ q.current = b
  BY <1>1 DEF CodexSession
<1> HIDE DEF q
<1>3. /\ Building(m, c.current, rows) /\ c.current.turn.index = Len(c.turns) + 1
      /\ c.current.turn.ended <= c.window.ended
  BY DEF Heard
<1>4. Building(m, b, rows \cup {n})
  <2> DEFINE a == c.current
  <2>1. Building(m, a, rows) /\ Takes(a, b, r, n)
    BY <1>3
  <2> HIDE DEF a
  <2> QED
    BY <2>1, BuildingTakes
<1>5. b.turn.index = c.current.turn.index /\ b.turn.ended = c.current.turn.ended
  BY DEF Takes
<1> QED
  BY <1>2, <1>3, <1>4, <1>5 DEF Heard, q

(* A turn begins empty. *)
LEMMA FreshTurn ==
    ASSUME NEW c \in CodexSession, NEW project \in ProjectType, NEW when \in Nat
    PROVE  LET b == CodexTurnBuilder(c, project, when)
           IN /\ b \in CodexBuilder /\ b.byCall = <<>> /\ ~b.userMessageSet /\ b.pendingTokens = NoTokens
              /\ b.turn.index = Len(c.turns) + 1 /\ b.turn.ended = when /\ b.turn.project = project
              /\ b.turn.user = <<>> /\ b.turn.final = <<>>
              /\ b.turn.invocations = <<>> /\ b.turn.calls = <<>> /\ b.turn.status = "unknown"
<1> DEFINE n == Len(c.turns) + 1
           a == Turn(n, when)
           t == [a EXCEPT !.project = project]
           window == c.contextWindow
           b == CodexTurnBuilder(c, project, when)
           nothing == <<>>
<1>0. n \in Nat /\ window \in Nat
  BY CodexFields
<1>1. a = [index |-> n, project |-> "", user |-> nothing, final |-> nothing, started |-> when, ended |-> when,
           invocations |-> nothing, calls |-> nothing, status |-> "unknown", tokens |-> NoTokens,
           components |-> {}]
  BY DEF Turn
<1>2. b = [turn |-> t, byCall |-> nothing, userMessageSet |-> FALSE, pendingTokens |-> NoTokens,
           contextWindow |-> window]
  BY DEF CodexTurnBuilder
<1>3. /\ nothing \in Seq(STRING) /\ nothing \in Seq(CodexStepType) /\ nothing \in Seq(CodexCallType)
      /\ {} \in CodexComponents /\ nothing \in Partial(STRING, Nat)
  BY NoMap DEF CodexComponents
<1> HIDE DEF nothing, n, window, b, a
<1> DEFINE raw == [index : Nat, project : {""}, user : Seq(STRING), final : Seq(STRING), started : Nat, ended : Nat,
                   invocations : Seq(CodexStepType), calls : Seq(CodexCallType),
                   status : {"unknown"}, tokens : Tokens, components : CodexComponents]
<1>4. a \in raw
  BY <1>0, <1>1, <1>3, NoTokensType
<1>a. a.index = n /\ a.ended = when /\ a.status = "unknown"
  BY <1>1, Zenon
<1>b. a.user = nothing /\ a.final = nothing /\ a.invocations = nothing /\ a.calls = nothing
  BY <1>1, Zenon
<1>5. t \in CodexTurnType
  BY <1>4 DEF CodexTurnType
<1>6. /\ t.index = a.index /\ t.ended = a.ended /\ t.project = project /\ t.status = a.status
      /\ t.user = a.user /\ t.final = a.final /\ t.invocations = a.invocations /\ t.calls = a.calls
  BY <1>4
<1> HIDE DEF t, raw
<1>7. /\ t.index = n /\ t.ended = when /\ t.project = project /\ t.status = "unknown"
      /\ t.user = nothing /\ t.final = nothing /\ t.invocations = nothing /\ t.calls = nothing
  BY <1>6, <1>a, <1>b
<1>8. b \in CodexBuilder /\ b.turn = t
  BY <1>0, <1>2, <1>3, <1>5, NoTokensType DEF CodexBuilder
<1>9. b.byCall = nothing /\ ~b.userMessageSet /\ b.pendingTokens = NoTokens
  BY <1>2
<1> QED
  BY <1>7, <1>8, <1>9 DEF b, n, nothing

(* It says nothing, as no row does. *)
LEMMA FreshBuilding ==
    ASSUME NEW rs \in Seq(CodexRows), NEW c \in CodexSession, NEW project \in ProjectType, NEW when \in Nat
    PROVE  Building(rs, CodexTurnBuilder(c, project, when), {})
<1> DEFINE b == CodexTurnBuilder(c, project, when)
<1>1. /\ b \in CodexBuilder /\ b.byCall = <<>> /\ ~b.userMessageSet /\ b.pendingTokens = NoTokens
      /\ b.turn.user = <<>> /\ b.turn.final = <<>>
      /\ b.turn.invocations = <<>> /\ b.turn.calls = <<>> /\ b.turn.status = "unknown"
  BY FreshTurn
<1> HIDE DEF b
<1>2. Cardinality({}) = 0
  BY FS_EmptySet
<1>3. \A kinds : {} \cap Among(rs, kinds) = {}
  OBVIOUS
<1>4. Says(b, {} \cap Among(rs, Spoken) # {}, Cardinality({} \cap Among(rs, Replies)))
  BY <1>1, <1>2, <1>3 DEF Says
<1>5. AllTokens(b) = SpentIn(rs, {})
  <2>1. TokensOf(<<>>) = NoTokens
    <3>1. [i \in DOMAIN <<>> |-> <<>>[i].tokens] = <<>>
      OBVIOUS
    <3> QED
      BY <3>1, SumTokensEmpty DEF TokensOf
  <2>2. AllTokens(b) = AddTokens(NoTokens, NoTokens)
    BY <1>1, <2>1 DEF AllTokens
  <2>3. AddTokens(NoTokens, NoTokens) = NoTokens
    BY NoTokensType, AddNoTokens
  <2> QED
    BY <2>2, <2>3, SpentInNone
<1>6. Answered(rs, b.turn.calls, {}) /\ CallsFound(b)
  <2>1. DOMAIN b.byCall = {} /\ DOMAIN b.turn.calls = {}
    BY <1>1
  <2> QED
    BY <2>1 DEF Answered, CallsFound
<1> QED
  BY <1>1, <1>3, <1>4, <1>5, <1>6 DEF Building, ProgressSaid, b

-----------------------------------------------------------------------------
(* A turn ends and begins; where a row went *)

(* The open turn is stored with the closed ones, or dropped. *)
LEMMA FlushHeard ==
    ASSUME NEW rs \in Seq(CodexRows), NEW rows, rows \subseteq DOMAIN rs, NEW closed,
           \A s \in closed : \A a \in s : \A x \in rows : a < x,
           NEW c, Heard(c, rs, rows, closed)
    PROVE  LET f == CodexFlush(c)
               kept == c.current # None /\ rows \cap Matter(rs) # {}
           IN /\ f \in CodexSession /\ f.current = None /\ f.window = c.window /\ f.errors = c.errors
              /\ f.project = c.project /\ f.seenTurnContext = c.seenTurnContext /\ f.contextWindow = c.contextWindow
              /\ f.turns = IF kept THEN Append(c.turns, CodexFinish(c.current)) ELSE c.turns
              /\ c.current # None => (CodexEmpty(c.current) <=> ~kept)
              /\ \E S : TurnsStored(rs, f.turns, S, closed \cup (IF kept THEN {rows} ELSE {}), f.window.ended)
<1> DEFINE f == CodexFlush(c)
           b == c.current
           t == CodexFinish(b)
           more == IF CodexEmpty(b) THEN c.turns ELSE Append(c.turns, t)
           kept == c.current # None /\ rows \cap Matter(rs) # {}
           over == c.window.ended
<1>1. c \in CodexSession /\ c.turns \in Seq(CodexTurnType)
  BY CodexFields DEF Heard
<1>2. PICK S : TurnsStored(rs, c.turns, S, closed, over)
  BY DEF Heard
<1>3. CASE b = None
  <2>1. f = c
    BY <1>3 DEF CodexFlush
  <2>2. ~kept /\ closed \cup {} = closed
    BY <1>3
  <2> HIDE DEF kept
  <2>3. TurnsStored(rs, f.turns, S, closed \cup (IF kept THEN {rows} ELSE {}), f.window.ended)
    BY <1>2, <2>1, <2>2
  <2> QED
    BY <1>1, <1>3, <2>1, <2>2, <2>3 DEF kept
<1>4. CASE b # None
  <2>1. /\ Building(rs, b, rows) /\ b.turn.index = Len(c.turns) + 1 /\ b.turn.ended <= over /\ b \in CodexBuilder
    BY <1>4 DEF Heard, Building
  <2>2. f = [c EXCEPT !.turns = more, !.current = None]
    BY <1>4 DEF CodexFlush
  <2> HIDE DEF f, b, over
  <2>3. Stored(rs, t, rows)
    BY <2>1, FinishStored
  <2>4. t \in CodexTurnType /\ t.index = b.turn.index /\ t.ended = b.turn.ended
    BY <2>1, FinishIs
  <2>5. CodexEmpty(b) <=> ~kept
    BY <1>4, <2>1, EmptyIs DEF b
  <2> HIDE DEF t
  <2>6. more \in Seq(CodexTurnType)
    BY <1>1, <2>4
  <2>7. /\ f \in CodexSession /\ f.current = None /\ f.window = c.window /\ f.errors = c.errors
        /\ f.project = c.project /\ f.seenTurnContext = c.seenTurnContext /\ f.contextWindow = c.contextWindow
        /\ f.turns = more
    <3> HIDE DEF more
    <3> QED
      BY <1>1, <2>2, <2>6 DEF CodexSession
  <2>8. \E T : TurnsStored(rs, more, T, closed \cup (IF kept THEN {rows} ELSE {}), over)
    <3>1. CASE kept
      <4>1. rows # {} /\ more = Append(c.turns, t)
        BY <2>5, <3>1
      <4> HIDE DEF kept, more
      <4>2. TurnsStored(rs, Append(c.turns, t), Append(S, rows), closed \cup {rows}, over)
        BY <1>2, <2>1, <2>3, <2>4, <4>1, OneTurnMore
      <4> QED
        BY <3>1, <4>1, <4>2
    <3>2. CASE ~kept
      <4>1. more = c.turns /\ closed \cup {} = closed
        BY <2>5, <3>2
      <4> HIDE DEF kept, more
      <4> QED
        BY <1>2, <3>2, <4>1
    <3> QED
      BY <3>1, <3>2
  <2>9. f.window.ended = over
    BY <2>7 DEF over
  <2>10. f.turns = IF kept THEN Append(c.turns, t) ELSE c.turns
    BY <2>5, <2>7
  <2>11. \E T : TurnsStored(rs, f.turns, T, closed \cup (IF kept THEN {rows} ELSE {}), f.window.ended)
    <3> HIDE DEF more, kept
    <3> QED
      BY <2>7, <2>8, <2>9
  <2> HIDE DEF more, kept
  <2> QED
    BY <2>5, <2>7, <2>10, <2>11 DEF f, kept, t, b
<1> QED
  BY <1>3, <1>4

(* A turn begins when none is open. *)
LEMMA BegunHeard ==
    ASSUME NEW rs \in Seq(CodexRows), NEW closed, NEW c \in CodexSession, c.current = None,
           \E S : TurnsStored(rs, c.turns, S, closed, c.window.ended),
           NEW project \in ProjectType, NEW when \in Nat, when <= c.window.ended,
           NEW q \in CodexSession, q.turns = c.turns, q.window = c.window,
           q.current = CodexTurnBuilder(c, project, when)
    PROVE  Heard(q, rs, {}, closed) /\ q.current # None
<1> DEFINE b == CodexTurnBuilder(c, project, when)
<1>1. b \in CodexBuilder /\ b.turn.index = Len(c.turns) + 1 /\ b.turn.ended = when
  BY FreshTurn
<1>2. Building(rs, b, {})
  BY FreshBuilding
<1>3. q.current = b
  OBVIOUS
<1> HIDE DEF b
<1>4. \E S : TurnsStored(rs, q.turns, S, closed, q.window.ended)
  OBVIOUS
<1>5. /\ Building(rs, q.current, {}) /\ q.current.turn.index = Len(q.turns) + 1
      /\ q.current.turn.ended <= q.window.ended
  BY <1>1, <1>2, <1>3
<1>6. q.current # None
  BY <1>1, <1>3, NoneIsNotOpen
<1> QED
  BY <1>4, <1>5, <1>6 DEF Heard

-----------------------------------------------------------------------------
(* The turns, the open one among them. *)
LEMMA CodexOpenTurns ==
    ASSUME NEW c \in CodexSession
    PROVE  /\ OpenTurns(c) \in Seq(CodexTurnType) /\ Len(c.turns) \in Nat /\ DOMAIN c.turns = 1 .. Len(c.turns)
           /\ c.current = None => OpenTurns(c) = c.turns
           /\ c.current # None => /\ DOMAIN OpenTurns(c) = 1 .. Len(c.turns) + 1
                                  /\ OpenTurns(c)[Len(c.turns) + 1] = c.current.turn
                                  /\ \A t \in 1 .. Len(c.turns) : OpenTurns(c)[t] = c.turns[t]
<1>1. c.turns \in Seq(CodexTurnType) /\ (c.current # None => c.current.turn \in CodexTurnType)
  BY CodexFields
<1> QED
  BY <1>1 DEF OpenTurns

(* The j-th call of the i-th turn was completed by the row raw names. *)
CallAt(c, i, j, raw) ==
    i \in DOMAIN OpenTurns(c) /\ j \in DOMAIN OpenTurns(c)[i].calls /\ OpenTurns(c)[i].calls[j].raw = raw
(* The j-th error is the row raw names. *)
ErrorAt(c, i, j, raw) == i = 0 /\ j \in DOMAIN c.errors /\ c.errors[j] = raw
(* Where the k-th row went. *)
Sites(c, k) == {x \in Nat \X Nat : CallAt(c, x[1], x[2], <<k>>) \/ ErrorAt(c, x[1], x[2], <<k>>)}

(* Every row that c knows of, but for the n-th, is where it was. *)
SitesKept(c, q, n) == \A k \in Nat \ {n} : Sites(q, k) = Sites(c, k)
(* Every row. *)
SitesSame(c, q) == \A k \in Nat : Sites(q, k) = Sites(c, k)

(* It is enough that the calls and the errors are where they were. *)
LEMMA SitesStay ==
    ASSUME NEW c, NEW q, q.errors = c.errors,
           \A i, j, raw : CallAt(q, i, j, raw) <=> CallAt(c, i, j, raw)
    PROVE  SitesSame(c, q)
BY DEF SitesSame, Sites, ErrorAt

(* Where the turns are alike, so are the sites. *)
LEMMA SameTurnsSites ==
    ASSUME NEW c \in CodexSession, NEW q, SameTurns(c, q), q.errors = c.errors PROVE SitesSame(c, q)
<1>1. /\ q \in CodexSession /\ Len(q.turns) = Len(c.turns)
      /\ \A i \in DOMAIN c.turns : q.turns[i].calls = c.turns[i].calls
      /\ (q.current = None <=> c.current = None)
      /\ q.current # None => q.current.turn.calls = c.current.turn.calls
  BY DEF SameTurns, SameTurn, AlikeTurn
<1>2. /\ OpenTurns(c) \in Seq(CodexTurnType) /\ Len(c.turns) \in Nat /\ DOMAIN c.turns = 1 .. Len(c.turns)
      /\ c.current = None => OpenTurns(c) = c.turns
      /\ c.current # None => /\ DOMAIN OpenTurns(c) = 1 .. Len(c.turns) + 1
                             /\ OpenTurns(c)[Len(c.turns) + 1] = c.current.turn
                             /\ \A t \in 1 .. Len(c.turns) : OpenTurns(c)[t] = c.turns[t]
  BY CodexOpenTurns
<1>3. /\ OpenTurns(q) \in Seq(CodexTurnType) /\ Len(q.turns) \in Nat /\ DOMAIN q.turns = 1 .. Len(q.turns)
      /\ q.current = None => OpenTurns(q) = q.turns
      /\ q.current # None => /\ DOMAIN OpenTurns(q) = 1 .. Len(q.turns) + 1
                             /\ OpenTurns(q)[Len(q.turns) + 1] = q.current.turn
                             /\ \A t \in 1 .. Len(q.turns) : OpenTurns(q)[t] = q.turns[t]
  BY <1>1, CodexOpenTurns
<1>4. DOMAIN OpenTurns(q) = DOMAIN OpenTurns(c)
  BY <1>1, <1>2, <1>3
<1>5. \A i \in DOMAIN OpenTurns(c) : OpenTurns(q)[i].calls = OpenTurns(c)[i].calls
  <2>1. CASE c.current = None
    BY <1>1, <1>2, <1>3, <2>1
  <2>2. CASE c.current # None
    <3>1. \A i \in 1 .. Len(c.turns) + 1 : i = Len(c.turns) + 1 \/ i \in 1 .. Len(c.turns)
      BY <1>2, UpToLast
    <3> QED
      BY <1>1, <1>2, <1>3, <2>2, <3>1
  <2> QED
    BY <2>1, <2>2
<1>6. \A i, j, raw : CallAt(q, i, j, raw) <=> CallAt(c, i, j, raw)
  BY <1>4, <1>5 DEF CallAt
<1> QED
  BY <1>6, SitesStay

(* A turn that begins has no calls, and one that is dropped had none. *)
LEMMA BegunSites ==
    ASSUME NEW c \in CodexSession, c.current = None, NEW q \in CodexSession, q.turns = c.turns, q.current # None,
           q.current.turn.calls = <<>>, q.errors = c.errors
    PROVE  SitesSame(c, q) /\ SitesSame(q, c)
<1>1. OpenTurns(c) = c.turns /\ Len(c.turns) \in Nat /\ DOMAIN c.turns = 1 .. Len(c.turns)
  BY CodexOpenTurns
<1>2. /\ DOMAIN OpenTurns(q) = 1 .. Len(c.turns) + 1 /\ OpenTurns(q)[Len(c.turns) + 1] = q.current.turn
      /\ \A t \in 1 .. Len(c.turns) : OpenTurns(q)[t] = c.turns[t]
  BY CodexOpenTurns
<1>3. \A i \in 1 .. Len(c.turns) + 1 : i = Len(c.turns) + 1 \/ i \in 1 .. Len(c.turns)
  BY <1>1, UpToLast
<1>4. 1 .. Len(c.turns) \subseteq 1 .. Len(c.turns) + 1
  BY <1>1
<1>5. DOMAIN <<>> = {}
  OBVIOUS
<1>6. ASSUME NEW i, NEW j, NEW raw PROVE CallAt(q, i, j, raw) <=> CallAt(c, i, j, raw)
  <2>1. CASE i \in 1 .. Len(c.turns)
    BY <1>1, <1>2, <1>4, <2>1 DEF CallAt
  <2>2. CASE i \notin 1 .. Len(c.turns)
    <3>1. ~CallAt(c, i, j, raw)
      BY <1>1, <2>2 DEF CallAt
    <3>2. ~CallAt(q, i, j, raw)
      <4>1. i \in DOMAIN OpenTurns(q) => OpenTurns(q)[i].calls = <<>>
        BY <1>2, <1>3, <2>2
      <4> QED
        BY <1>5, <4>1 DEF CallAt
    <3> QED
      BY <3>1, <3>2
  <2> QED
    BY <2>1, <2>2
<1>7. SitesSame(c, q)
  BY <1>6, SitesStay
<1>8. SitesSame(q, c)
  BY <1>7 DEF SitesSame
<1> QED
  BY <1>7, <1>8

(* A sequence with one more element, element by element. *)
LEMMA AppendIs ==
    ASSUME NEW S, NEW s \in Seq(S), NEW x \in S
    PROVE  LET u == Append(s, x)
           IN /\ DOMAIN u = 1 .. Len(s) + 1 /\ u[Len(s) + 1] = x
              /\ \A i \in 1 .. Len(s) : u[i] = s[i]
OBVIOUS

(* Closing a turn leaves its calls where they are. *)
LEMMA FlushSites ==
    ASSUME NEW c \in CodexSession, NEW f \in CodexSession, f.current = None, f.errors = c.errors,
           NEW kept \in BOOLEAN, kept => c.current # None,
           f.turns = IF kept THEN Append(c.turns, CodexFinish(c.current)) ELSE c.turns,
           c.current # None => (CodexEmpty(c.current) <=> ~kept)
    PROVE  SitesSame(c, f)
<1>1. CASE c.current = None
  <2>1. OpenTurns(f) = OpenTurns(c)
    BY <1>1, CodexOpenTurns
  <2> QED
    BY <2>1, SitesStay DEF CallAt
<1>2. CASE c.current # None /\ ~kept
  <2>1. c.current.turn.calls = <<>> /\ f.turns = c.turns
    BY <1>2 DEF CodexEmpty
  <2> QED
    BY <1>2, <2>1, BegunSites
<1>3. CASE c.current # None /\ kept
  <2> DEFINE t == CodexFinish(c.current)
             N == Len(c.turns)
  <2>1. t \in CodexTurnType /\ t.calls = c.current.turn.calls /\ f.turns = Append(c.turns, t)
    BY <1>3, CodexFields, FinishIs
  <2>2. c.turns \in Seq(CodexTurnType) /\ N \in Nat
    BY CodexFields
  <2>3. OpenTurns(f) = f.turns
    BY CodexOpenTurns
  <2>4. /\ DOMAIN OpenTurns(c) = 1 .. N + 1 /\ OpenTurns(c)[N + 1] = c.current.turn
        /\ \A i \in 1 .. N : OpenTurns(c)[i] = c.turns[i]
    BY <1>3, CodexOpenTurns
  <2> HIDE DEF t
  <2>5. DOMAIN f.turns = 1 .. N + 1 /\ f.turns[N + 1] = t /\ \A i \in 1 .. N : f.turns[i] = c.turns[i]
    <3> DEFINE s == c.turns
    <3>1. s \in Seq(CodexTurnType) /\ t \in CodexTurnType /\ f.turns = Append(s, t)
      BY <2>1, <2>2
    <3> HIDE DEF s
    <3>2. DOMAIN Append(s, t) = 1 .. Len(s) + 1 /\ Append(s, t)[Len(s) + 1] = t
          /\ \A i \in 1 .. Len(s) : Append(s, t)[i] = s[i]
      BY <3>1, AppendIs
    <3> QED
      BY <3>1, <3>2 DEF N, s
  <2>6. \A i \in 1 .. N + 1 : i = N + 1 \/ i \in 1 .. N
    BY <2>2, UpToLast
  <2> HIDE DEF N
  <2>7. \A i \in 1 .. N + 1 : OpenTurns(f)[i].calls = OpenTurns(c)[i].calls
    BY <2>1, <2>3, <2>4, <2>5, <2>6
  <2>8. \A i, j, raw : CallAt(f, i, j, raw) <=> CallAt(c, i, j, raw)
    BY <2>3, <2>4, <2>5, <2>7 DEF CallAt
  <2> QED
    BY <2>8, SitesStay
<1> QED
  BY <1>1, <1>2, <1>3

(* A row the open turn takes moves no other. *)
LEMMA TakesSites ==
    ASSUME NEW c \in CodexSession, c.current # None, NEW b, NEW r, NEW n \in Nat, Takes(c.current, b, r, n)
    PROVE  /\ SitesKept(c, [c EXCEPT !.current = b], n)
           /\ [c EXCEPT !.current = b] \in CodexSession
<1> DEFINE q == [c EXCEPT !.current = b]
           N == Len(c.turns)
<1>1. b \in CodexBuilder /\ b # None /\ CallsAfter(c.current.turn.calls, b.turn.calls, r, n)
  BY NoneIsNotOpen DEF Takes
<1>2. q \in CodexSession /\ q.turns = c.turns /\ q.current = b /\ q.errors = c.errors
  BY <1>1 DEF CodexSession
<1> HIDE DEF q
<1>3. /\ DOMAIN OpenTurns(c) = 1 .. N + 1 /\ OpenTurns(c)[N + 1] = c.current.turn
      /\ \A i \in 1 .. N : OpenTurns(c)[i] = c.turns[i]
  BY CodexOpenTurns
<1>4. /\ DOMAIN OpenTurns(q) = 1 .. N + 1 /\ OpenTurns(q)[N + 1] = b.turn
      /\ \A i \in 1 .. N : OpenTurns(q)[i] = c.turns[i]
  BY <1>1, <1>2, CodexOpenTurns
<1>5. \A i \in 1 .. N + 1 : i = N + 1 \/ i \in 1 .. N
  BY CodexOpenTurns, UpToLast
<1> HIDE DEF N
<1>6. ASSUME NEW k \in Nat \ {n}, NEW i, NEW j PROVE CallAt(q, i, j, <<k>>) <=> CallAt(c, i, j, <<k>>)
  <2>1. <<k>> # <<>> /\ <<k>> # <<n>>
    OBVIOUS
  <2>2. CASE i \in 1 .. N
    BY <1>3, <1>4, <2>2 DEF CallAt
  <2>3. CASE i = N + 1
    <3> DEFINE old == c.current.turn.calls
               new == b.turn.calls
               raw == <<k>>
    <3>1. /\ \A x \in DOMAIN old : x \in DOMAIN new /\ (new[x].raw # old[x].raw => old[x].raw = <<>>)
          /\ \A x \in DOMAIN new : \/ x \in DOMAIN old /\ new[x].raw = old[x].raw
                                   \/ new[x].raw = <<>> \/ new[x].raw = <<n>>
      BY <1>1 DEF CallsAfter
    <3>2. raw # <<>> /\ raw # <<n>>
      BY <2>1
    <3> HIDE DEF old, new, raw
    <3>3. j \in DOMAIN new /\ new[j].raw = raw <=> j \in DOMAIN old /\ old[j].raw = raw
      BY <3>1, <3>2
    <3>4. i \in DOMAIN OpenTurns(c) /\ i \in DOMAIN OpenTurns(q)
      <4>1. N + 1 \in 1 .. N + 1
        BY CodexOpenTurns DEF N
      <4> QED
        BY <1>3, <1>4, <2>3, <4>1
    <3>5. OpenTurns(c)[i].calls = old /\ OpenTurns(q)[i].calls = new
      BY <1>3, <1>4, <2>3 DEF old, new
    <3> QED
      BY <3>3, <3>4, <3>5 DEF CallAt, raw
  <2>4. CASE i \notin 1 .. N + 1
    BY <1>3, <1>4, <2>4 DEF CallAt
  <2> QED
    BY <1>5, <2>2, <2>3, <2>4
<1>7. ASSUME NEW k \in Nat \ {n} PROVE Sites(q, k) = Sites(c, k)
  <2>1. \A i, j : CallAt(q, i, j, <<k>>) <=> CallAt(c, i, j, <<k>>)
    BY <1>6
  <2>2. \A i, j : ErrorAt(q, i, j, <<k>>) <=> ErrorAt(c, i, j, <<k>>)
    BY <1>2 DEF ErrorAt
  <2> QED
    BY <2>1, <2>2 DEF Sites
<1> QED
  BY <1>2, <1>7 DEF SitesKept, q

(* The n-th row is reported as an error. *)
LEMMA ErrorSites ==
    ASSUME NEW c \in CodexSession, c.current # None => c.current.turn.ended <= c.window.ended,
           NEW n \in Nat, NEW q, q = [c EXCEPT !.errors = Append(@, <<n>>)]
    PROVE  /\ q \in CodexSession /\ SameTurns(c, q) /\ SitesKept(c, q, n) /\ q.project = c.project
           /\ q.turns = c.turns /\ q.current = c.current
           /\ q.seenTurnContext = c.seenTurnContext /\ Sites(q, n) = Sites(c, n) \cup {<<0, Len(c.errors) + 1>>}
<1> DEFINE E == c.errors
           N == Len(E)
           raw == <<n>>
           F == Append(E, raw)
<1>1. E \in Seq(Seq(Nat)) /\ raw \in Seq(Nat) /\ N \in Nat
  BY CodexFields, RawType
<1>2. F \in Seq(Seq(Nat)) /\ DOMAIN E = 1 .. N /\ DOMAIN F = 1 .. N + 1 /\ F[N + 1] = raw
      /\ \A j \in 1 .. N : F[j] = E[j]
  <2> HIDE DEF raw, E
  <2> QED
    BY <1>1
<1>3. q = [c EXCEPT !.errors = F]
  OBVIOUS
<1> HIDE DEF F, N
<1>4. /\ q \in CodexSession /\ q.errors = F /\ q.turns = c.turns /\ q.current = c.current /\ q.window = c.window
      /\ q.project = c.project /\ q.seenTurnContext = c.seenTurnContext
  BY <1>2, <1>3 DEF CodexSession
<1>5. \A i, j, x : CallAt(q, i, j, x) <=> CallAt(c, i, j, x)
  <2>1. OpenTurns(q) = OpenTurns(c)
    BY <1>4 DEF OpenTurns
  <2> QED
    BY <2>1 DEF CallAt
<1>6. \A j \in 1 .. N + 1 : j = N + 1 \/ j \in 1 .. N
  BY <1>1, UpToLast
<1>7. ASSUME NEW k \in Nat \ {n} PROVE Sites(q, k) = Sites(c, k)
  <2>1. <<k>> # <<n>>
    OBVIOUS
  <2>2. 1 .. N \subseteq 1 .. N + 1
    BY <1>1
  <2>3. \A i, j : ErrorAt(q, i, j, <<k>>) <=> ErrorAt(c, i, j, <<k>>)
    BY <1>2, <1>4, <1>6, <2>1, <2>2 DEF ErrorAt, E, raw
  <2> QED
    BY <1>5, <2>3 DEF Sites
<1>8. Sites(q, n) = Sites(c, n) \cup {<<0, N + 1>>}
  <2>1. \A i, j : ErrorAt(q, i, j, raw) <=> ErrorAt(c, i, j, raw) \/ (i = 0 /\ j = N + 1)
    <3>1. N + 1 \in 1 .. N + 1 /\ 1 .. N \subseteq 1 .. N + 1
      BY <1>1
    <3> QED
      BY <1>2, <1>4, <1>6, <3>1 DEF ErrorAt, E
  <2>2. \A x \in Nat \X Nat : x[1] = 0 /\ x[2] = N + 1 <=> x = <<0, N + 1>>
    BY <1>1
  <2>3. <<0, N + 1>> \in Nat \X Nat
    BY <1>1
  <2>4. ASSUME NEW x \in Nat \X Nat PROVE x \in Sites(q, n) <=> x \in Sites(c, n) \/ x = <<0, N + 1>>
    BY <1>5, <2>1, <2>2 DEF Sites, raw
  <2>5. Sites(q, n) \subseteq Nat \X Nat /\ Sites(c, n) \subseteq Nat \X Nat
    BY DEF Sites
  <2> QED
    BY <2>3, <2>4, <2>5
<1>9. SameTurns(c, q)
  <2>1. c.window.ended \in Nat /\ c.turns \in Seq(CodexTurnType)
    BY CodexFields
  <2>2. c.current # None => SameTurn(c.current, c.current)
    BY CodexFields DEF SameTurn
  <2> QED
    BY <1>4, <2>1, <2>2 DEF SameTurns, AlikeTurn
<1> QED
  BY <1>4, <1>7, <1>8, <1>9 DEF SitesKept, E, N

-----------------------------------------------------------------------------
(* The invariant *)

(* The rows say where the session ran. *)
Homes(rs) == \E r \in OfType("session_meta") : r.cwd # "" /\ Among(rs, {r}) # {}
(* Every turn knows it. *)
Homed(c) ==
    /\ c.project.path # "" /\ \A i \in DOMAIN c.turns : c.turns[i].project.path # ""
    /\ c.current # None => c.current.turn.project.path # ""
(* Every output in a turn is at one place, no row still to come is at any. *)
Located(c, rs) ==
    /\ \A k \in Among(rs, Outputs) \cap InTurn(rs) : \E x : Sites(c, k) = {x}
    /\ \A k \in Nat \ DOMAIN rs : Sites(c, k) = {}
(* The parser has read the rows of rs, and lost nothing. *)
CodexStanding(c, rs) ==
    /\ rs \in Seq(CodexRows) /\ Heard(c, rs, OpenRows(rs), ClosedSegments(rs))
    /\ c.current = None <=> Openings(rs) = {}
    /\ c.seenTurnContext <=> Contexts(rs) # {}
    /\ Homes(rs) => Homed(c)
    /\ Located(c, rs)

(* What reading the n-th row r comes to, from c to q. *)
Reads(c, q, l, r, m, n) ==
    /\ Heard(q, m, OpenRows(m), ClosedSegments(m))
    /\ q.current = None <=> Openings(m) = {}
    /\ q.seenTurnContext <=> Contexts(m) # {}
    /\ Homes(m) => Homed(q)
    /\ SitesKept(c, q, n)
    /\ r \in Outputs /\ InsideAt(l, r) => \E x : Sites(q, n) = {x}

(* Then the parser has read it, and lost nothing. *)
LEMMA ReadsStand ==
    ASSUME NEW l, NEW r, NEW m, NEW n, RowsGrown(l, r, m, n), NEW c, CodexStanding(c, l), NEW q, Reads(c, q, l, r, m, n)
    PROVE  CodexStanding(q, m)
<1>1. /\ m \in Seq(CodexRows) /\ n \in Nat /\ DOMAIN m = DOMAIN l \cup {n} /\ n \notin DOMAIN l
      /\ m[n] = r /\ \A i \in DOMAIN l : m[i] = l[i] /\ i \in Nat /\ i < n
  BY RowsAre
<1>2. Among(m, Outputs) = Among(l, Outputs) \cup (IF r \in Outputs THEN {n} ELSE {})
  BY AmongGrows
<1>3. InTurn(m) = InTurn(l) \cup (IF InsideAt(l, r) THEN {n} ELSE {})
  BY InTurnGrows
<1>4. Among(l, Outputs) \subseteq DOMAIN l /\ InTurn(l) \subseteq DOMAIN l
  BY DEF Among, InTurn
<1>5. /\ \A k \in Among(l, Outputs) \cap InTurn(l) : \E x : Sites(c, k) = {x}
      /\ \A k \in Nat \ DOMAIN l : Sites(c, k) = {}
  BY DEF CodexStanding, Located
<1>6. \A k \in Nat \ {n} : Sites(q, k) = Sites(c, k)
  BY DEF Reads, SitesKept
<1>7. ASSUME NEW k \in Among(m, Outputs) \cap InTurn(m) PROVE \E x : Sites(q, k) = {x}
  <2>1. CASE k = n
    <3>1. r \in Outputs /\ InsideAt(l, r)
      BY <1>1, <1>2, <1>3, <1>4, <2>1
    <3> QED
      BY <2>1, <3>1 DEF Reads
  <2>2. CASE k # n
    <3>1. k \in Among(l, Outputs) \cap InTurn(l) /\ k \in Nat \ {n}
      BY <1>1, <1>2, <1>3, <1>4, <2>2
    <3>2. PICK x : Sites(c, k) = {x}
      BY <1>5, <3>1
    <3> QED
      BY <1>6, <3>1, <3>2
  <2> QED
    BY <2>1, <2>2
<1>8. \A k \in Nat \ DOMAIN m : Sites(q, k) = {}
  BY <1>1, <1>5, <1>6
<1> QED
  BY <1>1, <1>7, <1>8 DEF CodexStanding, Located, Reads

(* What a row says of the session's directory. *)
LEMMA HomesGrow ==
    ASSUME NEW l, NEW r, NEW m, NEW n, RowsGrown(l, r, m, n)
    PROVE  Homes(m) <=> Homes(l) \/ (r \in OfType("session_meta") /\ r.cwd # "")
<1>1. r \in CodexRows
  BY RowsAre
<1>2. \A x : Among(m, {x}) # {} <=> Among(l, {x}) # {} \/ r = x
  <2> SUFFICES ASSUME NEW x PROVE Among(m, {x}) # {} <=> Among(l, {x}) # {} \/ r = x
    OBVIOUS
  <2>1. Among(m, {x}) = Among(l, {x}) \cup (IF r \in {x} THEN {n} ELSE {})
    BY AmongGrows
  <2> QED
    BY <2>1
<1> QED
  BY <1>2 DEF Homes

(* The rows a row is among, and what it opens. *)
LEMMA RowPlaces ==
    ASSUME NEW l, NEW r, NEW m, NEW n, RowsGrown(l, r, m, n)
    PROVE  /\ Openings(m) # {} <=> Openings(l) # {} \/ Opener(r)
           /\ Contexts(m) # {} <=> Contexts(l) # {} \/ r \in OfType("turn_context")
           /\ OpenRows(l) \subseteq DOMAIN l /\ OpenRows(m) \subseteq DOMAIN m
           /\ Openings(l) = {} => OpenRows(l) = {} /\ ClosedSegments(l) = {} /\ Segments(l) = {}
<1>1. Openings(m) = Openings(l) \cup (IF Opener(r) THEN {n} ELSE {})
  BY OpeningsGrow
<1>2. Contexts(m) = Contexts(l) \cup (IF r \in OfType("turn_context") THEN {n} ELSE {})
  BY AmongGrows DEF Contexts, ContextRows
<1>3. OpenRows(l) \subseteq DOMAIN l /\ OpenRows(m) \subseteq DOMAIN m
  BY DEF OpenRows, InTurn
<1>4. Openings(l) = {} => OpenRows(l) = {} /\ ClosedSegments(l) = {} /\ Segments(l) = {}
  <2>1. Openings(l) = {} => InTurn(l) = {}
    BY DEF InTurn
  <2> QED
    BY <2>1 DEF OpenRows, ClosedSegments, Segments
<1> QED
  BY <1>1, <1>2, <1>3, <1>4

-----------------------------------------------------------------------------
(* No turn is open and none begins. *)
LEMMA IdleReads ==
    ASSUME NEW l, NEW r, NEW m, NEW n, RowsGrown(l, r, m, n), NEW c, CodexStanding(c, l), c.current = None,
           ~Opener(r), r \notin OfType("turn_context"),
           NEW q, SameTurns(c, q), SitesKept(c, q, n), q.seenTurnContext = c.seenTurnContext,
           Homes(m) => Homed(q)
    PROVE  Reads(c, q, l, r, m, n)
<1>1. /\ Openings(l) = {} /\ Heard(c, l, OpenRows(l), ClosedSegments(l)) /\ (c.seenTurnContext <=> Contexts(l) # {})
  BY DEF CodexStanding
<1>2. /\ Openings(m) # {} <=> Openings(l) # {} \/ Opener(r)
      /\ Contexts(m) # {} <=> Contexts(l) # {} \/ r \in OfType("turn_context")
      /\ OpenRows(l) \subseteq DOMAIN l
  BY RowPlaces
<1>3. ~InsideAt(l, r)
  BY <1>1 DEF InsideAt
<1>4. OpenRows(m) = OpenRows(l)
  BY <1>3, OpenRowsGrow
<1>5. ClosedSegments(m) = ClosedSegments(l)
  BY ClosedGrow
<1>6. Heard(c, m, OpenRows(l), ClosedSegments(l))
  BY <1>1, <1>2, HeardGrows
<1>7. Heard(q, m, OpenRows(l), ClosedSegments(l))
  BY <1>6, SameTurnsHeard
<1>8. q.current = None
  BY DEF SameTurns
<1> QED
  BY <1>1, <1>2, <1>3, <1>4, <1>5, <1>7, <1>8 DEF Reads

(* A turn is open for the n-th row, at the state c. *)
Prior(c, l, r, m, n) ==
    /\ \E rows : Joins(l, r, m, n, rows) /\ Heard(c, m, rows, ClosedSegments(m)) /\ OpenRows(m) = rows \cup {n}
    /\ c.current # None /\ c \in CodexSession /\ (c.seenTurnContext <=> Contexts(m) # {})

(* It is when it was before. *)
LEMMA PriorOpen ==
    ASSUME NEW l, NEW r, NEW m, NEW n, RowsGrown(l, r, m, n), NEW c, CodexStanding(c, l), c.current # None,
           r \notin OfType("turn_context")
    PROVE  Prior(c, l, r, m, n)
<1>1. /\ Openings(l) # {} /\ Heard(c, l, OpenRows(l), ClosedSegments(l)) /\ (c.seenTurnContext <=> Contexts(l) # {})
  BY DEF CodexStanding
<1>2. /\ Contexts(m) # {} <=> Contexts(l) # {} \/ r \in OfType("turn_context")
      /\ OpenRows(l) \subseteq DOMAIN l
  BY RowPlaces
<1>3. OpenRows(m) = OpenRows(l) \cup {n}
  <2>1. InsideAt(l, r)
    BY <1>1 DEF InsideAt
  <2> QED
    BY <2>1, OpenRowsGrow
<1>4. ClosedSegments(m) = ClosedSegments(l)
  BY ClosedGrow
<1>5. Heard(c, m, OpenRows(l), ClosedSegments(m))
  BY <1>1, <1>2, <1>4, HeardGrows
<1>6. Joins(l, r, m, n, OpenRows(l))
  BY <1>2 DEF Joins
<1> QED
  BY <1>1, <1>2, <1>3, <1>5, <1>6 DEF Prior, Heard

(* An item can begin one at this time, when none is open. *)
OpenFor(c, l, r, when) ==
    /\ CodexStanding(c, l) /\ c.current = None /\ Opener(r) /\ r \in OfType("response_item")
    /\ when \in Nat /\ when <= c.window.ended
(* And then begins one. *)
Opened(c, when) == [c EXCEPT !.current = CodexTurnBuilder(c, c.project, when)]

(* It is when an item begins one. *)
LEMMA PriorBegun ==
    ASSUME NEW l, NEW r, NEW m, NEW n, RowsGrown(l, r, m, n), NEW c, NEW when, OpenFor(c, l, r, when),
           NEW q, q = Opened(c, when)
    PROVE  /\ Prior(q, l, r, m, n) /\ SitesSame(c, q) /\ q.project = c.project /\ q.turns = c.turns
           /\ q.current.turn.project = c.project /\ q.window = c.window /\ q.current.turn.ended = when
<1> USE DEF OpenFor
<1> DEFINE b == CodexTurnBuilder(c, c.project, when)
<1>1. /\ Openings(l) = {} /\ Heard(c, l, OpenRows(l), ClosedSegments(l)) /\ (c.seenTurnContext <=> Contexts(l) # {})
      /\ c \in CodexSession
  BY DEF CodexStanding, Heard
<1>2. r \notin OfType("turn_context")
  <2>1. "response_item" # "turn_context"
    OBVIOUS
  <2> QED
    BY <2>1 DEF OfType
<1>3. /\ Contexts(m) # {} <=> Contexts(l) # {} \/ r \in OfType("turn_context")
      /\ OpenRows(l) = {} /\ OpenRows(l) \subseteq DOMAIN l
  BY <1>1, RowPlaces
<1>4. c.project \in ProjectType
  BY <1>1, CodexFields
<1>5. b \in CodexBuilder /\ b.turn.calls = <<>> /\ b.turn.project = c.project /\ b.turn.ended = when
  BY <1>1, <1>4, FreshTurn
<1>6. q = [c EXCEPT !.current = b]
  BY DEF Opened
<1> HIDE DEF b
<1>7. /\ q \in CodexSession /\ q.turns = c.turns /\ q.window = c.window /\ q.current = b /\ q.errors = c.errors
      /\ q.project = c.project /\ q.seenTurnContext = c.seenTurnContext
  BY <1>1, <1>5, <1>6 DEF CodexSession
<1>8. ClosedSegments(m) = ClosedSegments(l)
  BY <1>2, ClosedGrow
<1>9. Heard(c, m, OpenRows(l), ClosedSegments(m))
  BY <1>1, <1>3, <1>8, HeardGrows
<1>10. Heard(q, m, {}, ClosedSegments(m)) /\ q.current # None
  <2>1. m \in Seq(CodexRows)
    BY RowsAre
  <2>2. \E S : TurnsStored(m, c.turns, S, ClosedSegments(m), c.window.ended)
    BY <1>9 DEF Heard
  <2> QED
    BY <1>1, <1>4, <1>7, <2>1, <2>2, BegunHeard DEF b
<1>11. OpenRows(m) = {} \cup {n}
  <2>1. InsideAt(l, r)
    BY DEF InsideAt
  <2> QED
    BY <1>2, <1>3, <2>1, OpenRowsGrow
<1>12. Joins(l, r, m, n, {})
  BY DEF Joins
<1>13. SitesSame(c, q)
  BY <1>1, <1>5, <1>7, <1>10, BegunSites
<1>14. Prior(q, l, r, m, n)
  <2>1. q.seenTurnContext <=> Contexts(m) # {}
    BY <1>1, <1>2, <1>3, <1>7
  <2> QED
    BY <1>7, <1>10, <1>11, <1>12, <2>1 DEF Prior
<1> QED
  BY <1>5, <1>7, <1>13, <1>14

(* The open turn takes the row. *)
LEMMA TakenReads ==
    ASSUME NEW l, NEW r, NEW m, NEW n, RowsGrown(l, r, m, n), NEW c, NEW a, Prior(a, l, r, m, n), SitesKept(c, a, n),
           NEW p, SameTurns(a, p), SitesKept(a, p, n), p.seenTurnContext = a.seenTurnContext,
           NEW b, Takes(p.current, b, r, n), NEW q, q = [p EXCEPT !.current = b],
           Homes(m) => Homed(q), r \in Outputs => \E x : Sites(q, n) = {x}
    PROVE  Reads(c, q, l, r, m, n)
<1>1. PICK rows : Joins(l, r, m, n, rows) /\ Heard(a, m, rows, ClosedSegments(m)) /\ OpenRows(m) = rows \cup {n}
  BY DEF Prior
<1>2. a.current # None /\ (a.seenTurnContext <=> Contexts(m) # {})
  BY DEF Prior
<1>3. p \in CodexSession /\ p.current # None
  BY <1>2 DEF SameTurns
<1>4. Heard(p, m, rows, ClosedSegments(m))
  BY <1>1, SameTurnsHeard
<1>5. Heard(q, m, rows \cup {n}, ClosedSegments(m))
  BY <1>1, <1>3, <1>4, HeardTakes
<1>6. n \in Nat
  BY RowsAre
<1>7. SitesKept(p, q, n)
  BY <1>3, <1>6, TakesSites
<1>8. SitesKept(c, q, n)
  BY <1>7 DEF SitesKept
<1>9. q.current = b /\ b # None /\ q.seenTurnContext = p.seenTurnContext
  <2>1. b \in CodexBuilder
    BY DEF Takes
  <2> QED
    BY <1>3, <2>1, NoneIsNotOpen DEF CodexSession
<1>10. Openings(m) # {}
  <2>1. n \in InTurn(m)
    BY <1>1 DEF OpenRows
  <2> QED
    BY <2>1 DEF InTurn
<1> QED
  BY <1>1, <1>2, <1>5, <1>8, <1>9, <1>10 DEF Reads

-----------------------------------------------------------------------------
(* Rows that leave the turns as they are *)

(* What was read leaves no turn that ends after the session. *)
LEMMA HeardEnds ==
    \A c, rs, rows, closed :
        Heard(c, rs, rows, closed) => c \in CodexSession /\ (c.current # None => c.current.turn.ended <= c.window.ended)
BY DEF Heard

(* The same turns in the same session. *)
LEMMA TurnsUntouched ==
    ASSUME NEW c \in CodexSession, c.current # None => c.current.turn.ended <= c.window.ended,
           NEW q \in CodexSession, q.turns = c.turns, q.current = c.current, q.window.ended >= c.window.ended
    PROVE  SameTurns(c, q)
<1>1. c.window.ended \in Nat /\ q.window.ended \in Nat /\ c.turns \in Seq(CodexTurnType)
  BY CodexFields
<1>2. c.current # None => SameTurn(c.current, c.current) /\ c.current.turn.ended \in Nat
  <2>1. c.current # None => c.current.turn \in CodexTurnType /\ c.current \in CodexBuilder
    BY CodexFields
  <2> QED
    BY <2>1, CodexTurnFields DEF SameTurn
<1>3. c.current # None => c.current.turn.ended <= q.window.ended
  <2> DEFINE x == c.current.turn.ended
             w == c.window.ended
             v == q.window.ended
  <2>1. c.current # None => x \in Nat /\ x <= w
    BY <1>2
  <2>2. w \in Nat /\ v \in Nat /\ v >= w
    BY <1>1
  <2> HIDE DEF x, w, v
  <2>3. c.current # None => x <= v
    BY <2>1, <2>2
  <2> QED
    BY <2>3 DEF x, v
<1> QED
  BY <1>1, <1>2, <1>3 DEF SameTurns, AlikeTurn

(* The time of a row is the session's. *)
LEMMA WindowStands ==
    ASSUME NEW c, NEW rs, CodexStanding(c, rs), NEW when \in Nat,
           NEW d, d = [c EXCEPT !.window = UpdateSessionTimes(@, when)]
    PROVE  /\ CodexStanding(d, rs) /\ SitesSame(c, d) /\ when <= d.window.ended
<1>1. Heard(c, rs, OpenRows(rs), ClosedSegments(rs))
  BY DEF CodexStanding
<1>2. c \in CodexSession /\ (c.current # None => c.current.turn.ended <= c.window.ended)
  BY <1>1, HeardEnds
<1> DEFINE w == UpdateSessionTimes(c.window, when)
<1>3. w \in [started : Nat, ended : Nat] /\ w.ended >= c.window.ended /\ w.ended >= when
  BY <1>2, CodexFields, WindowIs
<1>4. d = [c EXCEPT !.window = w]
  OBVIOUS
<1> HIDE DEF w
<1>5. /\ d \in CodexSession /\ d.turns = c.turns /\ d.current = c.current /\ d.window = w /\ d.errors = c.errors
      /\ d.project = c.project /\ d.seenTurnContext = c.seenTurnContext
  BY <1>2, <1>3, <1>4 DEF CodexSession
<1>6. SameTurns(c, d)
  BY <1>2, <1>3, <1>5, TurnsUntouched
<1>7. Heard(d, rs, OpenRows(rs), ClosedSegments(rs))
  BY <1>1, <1>6, SameTurnsHeard
<1>8. SitesSame(c, d)
  BY <1>2, <1>5, <1>6, SameTurnsSites
<1>9. Located(d, rs)
  <2>1. Located(c, rs) /\ rs \in Seq(CodexRows)
    BY DEF CodexStanding
  <2>2. \A k \in Among(rs, Outputs) \cap InTurn(rs) : k \in Nat
    BY <2>1 DEF Among
  <2> QED
    BY <1>8, <2>1, <2>2 DEF Located, SitesSame
<1>10. Homed(c) => Homed(d)
  BY <1>5 DEF Homed
<1>11. when <= d.window.ended
  <2>1. w.ended \in Nat
    BY <1>3
  <2> QED
    BY <1>3, <1>5, <2>1
<1> QED
  BY <1>5, <1>7, <1>8, <1>9, <1>10, <1>11 DEF CodexStanding

(* A row that neither says, does, ends nor begins anything. *)
LEMMA QuietReads ==
    ASSUME NEW l, NEW r, NEW m, NEW n, RowsGrown(l, r, m, n), NEW c, CodexStanding(c, l),
           r \notin OfType("turn_context"), c.current = None => ~Opener(r), c.current # None => Quiet(r),
           NEW q, SameTurns(c, q), SitesKept(c, q, n), q.seenTurnContext = c.seenTurnContext,
           Homes(m) => Homed(q), r \in Outputs /\ c.current # None => \E x : Sites(q, n) = {x}
    PROVE  Reads(c, q, l, r, m, n)
<1>1. CASE c.current = None
  BY <1>1, IdleReads
<1>2. CASE c.current # None
  <2>1. Prior(c, l, r, m, n)
    BY <1>2, PriorOpen
  <2>2. SitesKept(c, c, n)
    BY DEF SitesKept
  <2>3. r \in CodexRows
    BY RowsAre
  <2>4. q \in CodexSession /\ q.current # None
    BY <1>2 DEF SameTurns
  <2>5. Sane(q.current)
    <3>1. Heard(q, m, OpenRows(l), ClosedSegments(l))
      <4>1. Heard(c, l, OpenRows(l), ClosedSegments(l)) /\ OpenRows(l) \subseteq DOMAIN l
        BY RowPlaces DEF CodexStanding
      <4>2. Heard(c, m, OpenRows(l), ClosedSegments(l))
        BY <4>1, HeardGrows
      <4> QED
        BY <4>2, SameTurnsHeard
    <3>2. Building(m, q.current, OpenRows(l))
      BY <2>4, <3>1 DEF Heard
    <3> QED
      BY <3>2, BuildingSane
  <2> DEFINE b == q.current
  <2>6. Takes(b, b, r, n)
    BY <1>2, <2>3, <2>5, QuietTakes
  <2>7. q = [q EXCEPT !.current = b]
    BY <2>4 DEF CodexSession
  <2>8. r \in Outputs => \E x : Sites(q, n) = {x}
    BY <1>2
  <2> HIDE DEF b
  <2>9. Takes(q.current, b, r, n)
    BY <2>6 DEF b
  <2> QED
    BY <2>1, <2>2, <2>7, <2>8, <2>9, TakenReads
<1> QED
  BY <1>1, <1>2

(* A row that cannot be read is one error. *)
LEMMA UnreadableReads ==
    ASSUME NEW l, NEW m, NEW n, RowsGrown(l, Unreadable, m, n), NEW c, CodexStanding(c, l),
           NEW q, q = [c EXCEPT !.errors = Append(@, <<n>>)]
    PROVE  Reads(c, q, l, Unreadable, m, n)
<1> DEFINE r == Unreadable
<1>1. \A type : r \in OfType(type) => type = "unreadable"
  BY RowTypes
<1> HIDE DEF r
<1>2. /\ r \notin OfType("turn_context") /\ r \notin OfType("session_meta") /\ r \notin OfType("response_item")
      /\ r \notin OfType("event_msg")
  <2>1. "turn_context" # "unreadable" /\ "session_meta" # "unreadable" /\ "response_item" # "unreadable"
        /\ "event_msg" # "unreadable"
    OBVIOUS
  <2> QED
    BY <1>1, <2>1
<1>3. ~Opener(r) /\ Quiet(r) /\ r \notin Outputs
  BY <1>2 DEF Opener, Quiet, Spoken, Replies, Called, Outputs, Items, Events
<1>4. c \in CodexSession /\ (c.current # None => c.current.turn.ended <= c.window.ended)
  BY HeardEnds DEF CodexStanding
<1>5. n \in Nat
  BY RowsAre
<1>6. /\ SameTurns(c, q) /\ SitesKept(c, q, n) /\ q.project = c.project /\ q.turns = c.turns
      /\ q.current = c.current /\ q.seenTurnContext = c.seenTurnContext
  BY <1>4, <1>5, ErrorSites
<1>7. RowsGrown(l, r, m, n)
  BY DEF r
<1>8. Homes(m) => Homed(q)
  <2>1. Homes(m) <=> Homes(l)
    BY <1>2, <1>7, HomesGrow
  <2> QED
    BY <1>6, <2>1 DEF CodexStanding, Homed
<1>9. Reads(c, q, l, r, m, n)
  BY <1>2, <1>3, <1>6, <1>7, <1>8, QuietReads
<1> QED
  BY <1>9 DEF r

-----------------------------------------------------------------------------
(* The project a directory makes. *)
LEMMA ProjectIs ==
    ASSUME NEW cwd \in STRING, NEW name, name = LastPathSegment(cwd)
    PROVE  [name |-> name, path |-> cwd] \in ProjectType
BY DEF ProjectType, LastPathSegment

(* The turns that are there get the session's project. *)
LEMMA BackfillIs ==
    ASSUME NEW turns \in Seq(CodexTurnType), NEW project \in ProjectType, NEW more,
           more = BackfillProject(turns, project)
    PROVE  /\ more \in Seq(CodexTurnType) /\ Len(more) = Len(turns)
           /\ \A i \in DOMAIN turns : AlikeTurn(turns[i], more[i])
           /\ project.path # "" => \A i \in DOMAIN more : more[i].project.path # ""
<1> DEFINE own(t) == [name |-> IF t.project.name = "unknown" THEN project.name ELSE t.project.name,
                      path |-> IF t.project.path = "" THEN project.path ELSE t.project.path]
           new(t) == [t EXCEPT !.project = own(t)]
<1>1. ASSUME NEW t \in CodexTurnType
      PROVE  new(t) \in CodexTurnType /\ AlikeTurn(t, new(t)) /\ (project.path # "" => new(t).project.path # "")
  <2>1. t.project \in ProjectType
    BY CodexTurnFields
  <2> DEFINE p == own(t)
  <2>2. p \in ProjectType /\ (project.path # "" => p.path # "")
    BY <2>1 DEF ProjectType
  <2> HIDE DEF p
  <2>3. [t EXCEPT !.project = p] \in CodexTurnType /\ AlikeTurn(t, [t EXCEPT !.project = p])
        /\ [t EXCEPT !.project = p].project = p
    BY <2>2 DEF CodexTurnType, AlikeTurn
  <2> QED
    BY <2>2, <2>3 DEF p
<1>2. more = [i \in DOMAIN turns |-> new(turns[i])]
  BY DEF BackfillProject
<1> HIDE DEF own, new
<1>3. DOMAIN turns = 1 .. Len(turns) /\ Len(turns) \in Nat /\ \A i \in DOMAIN turns : turns[i] \in CodexTurnType
  OBVIOUS
<1>4. DOMAIN more = 1 .. Len(turns) /\ \A i \in DOMAIN more : more[i] = new(turns[i])
  BY <1>2, <1>3
<1>5. more \in Seq(CodexTurnType) /\ Len(more) = Len(turns)
  <2>1. more \in [1 .. Len(turns) -> CodexTurnType]
    BY <1>1, <1>2, <1>3
  <2> QED
    BY <1>3, <2>1
<1> QED
  BY <1>1, <1>3, <1>4, <1>5

(* The session's own row gives it its directory, whenever it comes. *)
LEMMA MetaReads ==
    ASSUME NEW l, NEW r, NEW m, NEW n, RowsGrown(l, r, m, n), NEW c, CodexStanding(c, l),
           r \in OfType("session_meta"), NEW q, q = ReadSessionMeta(c, r)
    PROVE  Reads(c, q, l, r, m, n)
<1>1. r \in CodexRowType /\ r \in CodexRows /\ r.type = "session_meta"
  <2>1. r.type = "session_meta" /\ r \in CodexRows
    BY RowsAre DEF OfType
  <2> QED
    BY <2>1, RowTypes
<1>2. r.cwd \in STRING /\ r.id \in STRING /\ r.spawnedBy \in STRING
  BY <1>1, RowFields
<1>3. /\ r \notin OfType("turn_context") /\ r \notin OfType("response_item") /\ r \notin OfType("event_msg")
  BY <1>1 DEF OfType
<1>4. ~Opener(r) /\ Quiet(r) /\ r \notin Outputs
  BY <1>3 DEF Opener, Quiet, Spoken, Replies, Called, Outputs, Items, Events
<1>5. c \in CodexSession /\ (c.current # None => c.current.turn.ended <= c.window.ended)
  BY HeardEnds DEF CodexStanding
<1> DEFINE external == IF r.id # "" THEN r.id ELSE c.external
           sub == c.isSubagent \/ r.spawnedBy # ""
           parent == IF r.spawnedBy # "" THEN r.spawnedBy ELSE c.parent
           d == [c EXCEPT !.external = external, !.isSubagent = sub, !.parent = parent]
           name == LastPathSegment(r.cwd)
           project == [name |-> name, path |-> r.cwd]
           turns == BackfillProject(d.turns, project)
           e == [d EXCEPT !.project = project, !.turns = turns]
<1>6. q = IF r.cwd = "" THEN d ELSE IF c.current = None THEN e ELSE [e EXCEPT !.current.turn.project = project]
  BY ZenonT(60) DEF ReadSessionMeta
<1>7. external \in STRING \cup {""} /\ sub \in BOOLEAN /\ parent \in STRING \cup {""}
  BY <1>2, <1>5 DEF CodexSession
<1> HIDE DEF external, sub, parent
<1>8. /\ d \in CodexSession /\ d.turns = c.turns /\ d.current = c.current /\ d.window = c.window
      /\ d.errors = c.errors /\ d.project = c.project /\ d.seenTurnContext = c.seenTurnContext
  BY <1>5, <1>7 DEF CodexSession
<1> HIDE DEF d
<1>9. project \in ProjectType /\ project.path = r.cwd
  BY <1>2, ProjectIs
<1> HIDE DEF project
<1>10. /\ turns \in Seq(CodexTurnType) /\ Len(turns) = Len(c.turns)
       /\ \A i \in DOMAIN c.turns : AlikeTurn(c.turns[i], turns[i])
       /\ project.path # "" => \A i \in DOMAIN turns : turns[i].project.path # ""
  <2>1. c.turns \in Seq(CodexTurnType)
    BY <1>5, CodexFields
  <2> QED
    BY <1>8, <1>9, <2>1, BackfillIs
<1> HIDE DEF turns
<1>11. /\ e \in CodexSession /\ e.turns = turns /\ e.current = c.current /\ e.window = c.window
       /\ e.errors = c.errors /\ e.project = project /\ e.seenTurnContext = c.seenTurnContext
  BY <1>8, <1>9, <1>10 DEF CodexSession
<1> HIDE DEF e
<1>12. c.window.ended \in Nat
  BY <1>5, CodexFields
<1>13. Homes(m) <=> Homes(l) \/ r.cwd # ""
  BY HomesGrow
<1>14. /\ SameTurns(c, q) /\ q.errors = c.errors /\ q.seenTurnContext = c.seenTurnContext
       /\ Homes(m) => Homed(q)
  <2>1. CASE r.cwd = ""
    <3>1. q = d
      BY <1>6, <2>1
    <3>2. d.window.ended >= c.window.ended
      BY <1>8, <1>12
    <3>3. SameTurns(c, d)
      BY <1>5, <1>8, <3>2, TurnsUntouched
    <3>4. Homed(c) => Homed(d)
      BY <1>8 DEF Homed
    <3> QED
      BY <1>8, <1>13, <2>1, <3>1, <3>3, <3>4 DEF CodexStanding
  <2>2. CASE r.cwd # "" /\ c.current = None
    <3>1. q = e
      BY <1>6, <2>2
    <3>2. SameTurns(c, e)
      <4>1. e.window.ended >= c.window.ended
        BY <1>11, <1>12
      <4>2. e \in CodexSession /\ Len(e.turns) = Len(c.turns) /\ \A i \in DOMAIN c.turns : AlikeTurn(c.turns[i], e.turns[i])
        BY <1>10, <1>11
      <4>3. e.current = None
        BY <1>11, <2>2
      <4> QED
        BY <2>2, <4>1, <4>2, <4>3 DEF SameTurns
    <3>3. Homed(e)
      BY <1>9, <1>10, <1>11, <2>2 DEF Homed
    <3> QED
      BY <1>11, <3>1, <3>2, <3>3
  <2>3. CASE r.cwd # "" /\ c.current # None
    <3> DEFINE b == c.current
               t == [b.turn EXCEPT !.project = project]
               a == [b EXCEPT !.turn = t]
    <3>1. b \in CodexBuilder /\ b.turn \in CodexTurnType
      BY <1>5, <2>3, CodexFields
    <3>2. q = [e EXCEPT !.current = a]
      <4>1. q = [e EXCEPT !.current.turn.project = project]
        BY <1>6, <2>3
      <4> QED
        BY <1>11, <4>1
    <3>3. /\ t \in CodexTurnType /\ t.project = project /\ t.user = b.turn.user /\ t.final = b.turn.final
          /\ t.invocations = b.turn.invocations /\ t.calls = b.turn.calls /\ t.status = b.turn.status
          /\ t.index = b.turn.index /\ t.ended = b.turn.ended
      BY <1>9, <3>1 DEF CodexTurnType
    <3> HIDE DEF t
    <3>4. a \in CodexBuilder /\ SameTurn(b, a) /\ a.turn = t
      BY <3>1, <3>3 DEF CodexBuilder, SameTurn
    <3> HIDE DEF a
    <3>5. /\ q \in CodexSession /\ q.turns = turns /\ q.current = a /\ q.window = c.window
          /\ q.errors = c.errors /\ q.project = project /\ q.seenTurnContext = c.seenTurnContext
      BY <1>11, <3>2, <3>4 DEF CodexSession
    <3>6. a # None
      BY <3>4, NoneIsNotOpen
    <3>7. a.turn.index = c.current.turn.index /\ a.turn.ended <= q.window.ended
      BY <1>5, <2>3, <3>3, <3>4, <3>5
    <3>8. SameTurns(c, q)
      <4>1. q.window.ended >= c.window.ended
        BY <1>12, <3>5
      <4>2. q \in CodexSession /\ Len(q.turns) = Len(c.turns) /\ \A i \in DOMAIN c.turns : AlikeTurn(c.turns[i], q.turns[i])
        BY <1>10, <3>5
      <4>3. q.current = a /\ q.current # None /\ SameTurn(c.current, a)
        BY <3>4, <3>5, <3>6
      <4> HIDE DEF b
      <4> QED
        BY <2>3, <3>7, <4>1, <4>2, <4>3 DEF SameTurns
    <3>9. Homed(q)
      BY <1>9, <1>10, <2>3, <3>3, <3>4, <3>5 DEF Homed
    <3> QED
      BY <3>5, <3>8, <3>9
  <2> QED
    BY <2>1, <2>2, <2>3
<1>15. SitesKept(c, q, n)
  BY <1>5, <1>14, SameTurnsSites DEF SitesSame, SitesKept
<1> QED
  BY <1>3, <1>4, <1>14, <1>15, QuietReads

-----------------------------------------------------------------------------
(* A context *)

(* A context ends the open turn and begins another. *)
LEMMA ContextReads ==
    ASSUME NEW l, NEW r, NEW m, NEW n, RowsGrown(l, r, m, n), NEW c, CodexStanding(c, l),
           r \in OfType("turn_context"), r.when <= c.window.ended, NEW q, q = ReadTurnContext(c, r)
    PROVE  Reads(c, q, l, r, m, n)
<1> DEFINE f == CodexFlush(c)
           path == IF r.cwd # "" THEN r.cwd ELSE c.project.path
           name == IF path = "" THEN c.project.name ELSE LastPathSegment(path)
           project == [name |-> name, path |-> path]
           when == r.when
           b == CodexTurnBuilder(f, project, when)
           rows == OpenRows(l)
           kept == c.current # None /\ rows \cap Matter(m) # {}
<1>1. r \in CodexRowType /\ r \in CodexRows /\ r.type = "turn_context"
  <2>1. r.type = "turn_context" /\ r \in CodexRows
    BY RowsAre DEF OfType
  <2> QED
    BY <2>1, RowTypes
<1>2. r.cwd \in STRING /\ when \in Nat
  BY <1>1, RowFields
<1>3. /\ r \notin OfType("session_meta") /\ r \notin OfType("response_item") /\ r \notin OfType("event_msg")
  BY <1>1 DEF OfType
<1>4. Quiet(r) /\ r \notin Outputs
  BY <1>3 DEF Quiet, Spoken, Replies, Called, Outputs, Items, Events
<1>5. /\ l \in Seq(CodexRows) /\ Heard(c, l, rows, ClosedSegments(l)) /\ (c.current = None <=> Openings(l) = {})
      /\ c \in CodexSession
  BY DEF CodexStanding, Heard
<1>6. m \in Seq(CodexRows)
  BY RowsAre
<1>7. /\ rows \subseteq DOMAIN l /\ rows \subseteq DOMAIN m /\ rows \cap Matter(m) = rows \cap Matter(l)
      /\ Openings(l) = {} => rows = {}
  <2>1. rows \subseteq DOMAIN l /\ (Openings(l) = {} => rows = {})
    BY RowPlaces
  <2>2. (\A kinds : rows \cap Among(m, kinds) = rows \cap Among(l, kinds)) /\ rows \subseteq DOMAIN m
    BY <2>1, RowsStay
  <2> QED
    BY <2>1, <2>2 DEF Matter
<1>8. Heard(c, m, rows, ClosedSegments(l))
  BY <1>5, <1>7, HeardGrows
<1>9. \A s \in ClosedSegments(l) : \A x \in s : \A y \in rows : x < y
  BY <1>5, SegmentsAre
<1>10. /\ f \in CodexSession /\ f.current = None /\ f.window = c.window /\ f.errors = c.errors
       /\ f.project = c.project /\ f.seenTurnContext = c.seenTurnContext /\ f.contextWindow = c.contextWindow
       /\ f.turns = IF kept THEN Append(c.turns, CodexFinish(c.current)) ELSE c.turns
       /\ c.current # None => (CodexEmpty(c.current) <=> ~kept)
       /\ \E S : TurnsStored(m, f.turns, S, ClosedSegments(l) \cup (IF kept THEN {rows} ELSE {}), f.window.ended)
  <2> DEFINE closed == ClosedSegments(l)
  <2> HIDE DEF rows, closed
  <2>1. Heard(c, m, rows, closed) /\ \A s \in closed : \A x \in s : \A y \in rows : x < y
    BY <1>8, <1>9 DEF closed
  <2>2. LET g == CodexFlush(c)
            k == c.current # None /\ rows \cap Matter(m) # {}
        IN /\ g \in CodexSession /\ g.current = None /\ g.window = c.window /\ g.errors = c.errors
           /\ g.project = c.project /\ g.seenTurnContext = c.seenTurnContext /\ g.contextWindow = c.contextWindow
           /\ g.turns = IF k THEN Append(c.turns, CodexFinish(c.current)) ELSE c.turns
           /\ c.current # None => (CodexEmpty(c.current) <=> ~k)
           /\ \E S : TurnsStored(m, g.turns, S, closed \cup (IF k THEN {rows} ELSE {}), g.window.ended)
    BY <1>6, <1>7, <2>1, FlushHeard
  <2> QED
    BY <2>2, Zenon DEF closed
<1>11. ClosedSegments(l) \cup (IF kept THEN {rows} ELSE {}) = ClosedSegments(m)
  <2>1. ClosedSegments(m) = Segments(l) /\ Segments(l) = ClosedSegments(l) \cup OpenSegment(l)
    BY <1>5, ClosedGrow, SegmentsAre
  <2>2. OpenSegment(l) = IF kept THEN {rows} ELSE {}
    BY <1>5, <1>7 DEF OpenSegment
  <2> QED
    BY <2>1, <2>2
<1>12. SitesSame(c, f)
  <2> HIDE DEF f, kept
  <2>1. kept \in BOOLEAN /\ (kept => c.current # None)
    BY DEF kept
  <2> QED
    BY <1>5, <1>10, <2>1, FlushSites
<1>13. project \in ProjectType /\ project.path = path
  <2>1. c.project.name \in STRING \cup {"unknown"} /\ c.project.path \in STRING \cup {""}
    BY <1>5, CodexFields DEF ProjectType
  <2>2. path \in STRING \cup {""} /\ name \in STRING \cup {"unknown"}
    BY <1>2, <2>1 DEF LastPathSegment
  <2> HIDE DEF path, name
  <2> QED
    BY <2>2 DEF ProjectType
<1>14. q = [f EXCEPT !.seenTurnContext = TRUE, !.current = b]
  BY DEF ReadTurnContext
<1> HIDE DEF f, project, kept, rows
<1>15. b \in CodexBuilder /\ b.turn.calls = <<>> /\ b.turn.project = project
  BY <1>2, <1>10, <1>13, FreshTurn, ZenonT(60)
<1> HIDE DEF b
<1>16. /\ q \in CodexSession /\ q.turns = f.turns /\ q.current = b /\ q.window = f.window /\ q.errors = f.errors
       /\ q.project = f.project /\ q.seenTurnContext = TRUE
  BY <1>10, <1>14, <1>15 DEF CodexSession
<1>17. Heard(q, m, {}, ClosedSegments(m)) /\ q.current # None
  <2>1. \E S : TurnsStored(m, f.turns, S, ClosedSegments(m), f.window.ended)
    BY <1>10, <1>11
  <2>2. when <= f.window.ended
    BY <1>10
  <2>3. q.current = CodexTurnBuilder(f, project, when)
    BY <1>16 DEF b
  <2> HIDE DEF when
  <2> QED
    BY <1>2, <1>6, <1>10, <1>13, <1>16, <2>1, <2>2, <2>3, BegunHeard
<1>18. SitesKept(c, q, n)
  <2>1. SitesSame(f, q)
    BY <1>10, <1>15, <1>16, <1>17, BegunSites
  <2> QED
    BY <1>12, <2>1 DEF SitesSame, SitesKept
<1>19. Homes(m) => Homed(q)
  <2>1. Homes(m) <=> Homes(l)
    BY <1>3, HomesGrow
  <2> SUFFICES ASSUME Homes(l) PROVE Homed(q)
    BY <2>1
  <2>2. Homed(c)
    BY DEF CodexStanding
  <2>3. path # "" /\ q.project.path # ""
    BY <1>10, <1>16, <2>2 DEF Homed
  <2>4. \A i \in DOMAIN q.turns : q.turns[i].project.path # ""
    <3>1. CASE ~kept
      BY <1>10, <1>16, <2>2, <3>1 DEF Homed
    <3>2. CASE kept
      <4> DEFINE t == CodexFinish(c.current)
                 s == c.turns
      <4>1. c.current # None /\ q.turns = Append(s, t)
        BY <1>10, <1>16, <3>2 DEF kept
      <4>2. c.current \in CodexBuilder /\ s \in Seq(CodexTurnType)
        BY <1>5, <4>1, CodexFields
      <4>3. t.project = c.current.turn.project /\ t \in CodexTurnType
        BY <4>2, FinishIs
      <4>4. t.project.path # "" /\ \A i \in DOMAIN s : s[i].project.path # ""
        BY <2>2, <4>1, <4>3 DEF Homed
      <4> HIDE DEF t, s
      <4>5. /\ DOMAIN Append(s, t) = 1 .. Len(s) + 1 /\ Append(s, t)[Len(s) + 1] = t
            /\ \A i \in 1 .. Len(s) : Append(s, t)[i] = s[i]
        BY <4>2, <4>3, AppendIs
      <4>6. DOMAIN s = 1 .. Len(s) /\ Len(s) \in Nat
        BY <4>2
      <4>7. \A i \in 1 .. Len(s) + 1 : i = Len(s) + 1 \/ i \in 1 .. Len(s)
        BY <4>6, UpToLast
      <4> QED
        BY <4>1, <4>4, <4>5, <4>6, <4>7
    <3> QED
      BY <3>1, <3>2
  <2> QED
    BY <1>13, <1>15, <1>16, <2>3, <2>4 DEF Homed
<1>20. Contexts(m) # {} /\ Openings(m) # {}
  <2>1. Opener(r)
    BY DEF Opener
  <2> QED
    BY <2>1, RowPlaces
<1>21. CASE Openings(l) # {}
  <2>1. OpenRows(m) = {} \cup {n}
    <3>1. InsideAt(l, r)
      BY <1>21 DEF InsideAt
    <3> QED
      BY <3>1, OpenRowsGrow
  <2>2. Joins(l, r, m, n, {})
    BY DEF Joins
  <2>3. Prior(q, l, r, m, n)
    BY <1>16, <1>17, <1>20, <2>1, <2>2 DEF Prior
  <2>4. SameTurns(q, q) /\ SitesKept(q, q, n)
    <3>1. q.current.turn.ended <= q.window.ended
      BY <1>17 DEF Heard
    <3>2. q.window.ended \in Nat
      BY <1>16, CodexFields
    <3>3. q.window.ended >= q.window.ended
      BY <3>2
    <3> QED
      BY <1>16, <3>1, <3>3, TurnsUntouched DEF SitesKept
  <2>5. Takes(q.current, b, r, n)
    <3>1. Building(m, b, {})
      BY <1>16, <1>17 DEF Heard
    <3>2. Sane(b)
      BY <3>1, BuildingSane
    <3> QED
      BY <1>1, <1>4, <1>16, <3>2, QuietTakes
  <2>6. q = [q EXCEPT !.current = b]
    BY <1>16 DEF CodexSession
  <2> QED
    BY <1>4, <1>18, <1>19, <2>3, <2>4, <2>5, <2>6, TakenReads
<1>22. CASE Openings(l) = {}
  <2>1. OpenRows(m) = {}
    <3>1. ~InsideAt(l, r)
      BY <1>3, <1>22 DEF InsideAt
    <3> QED
      BY <3>1, OpenRowsGrow
  <2> QED
    BY <1>4, <1>16, <1>17, <1>18, <1>19, <1>20, <2>1 DEF Reads
<1> QED
  BY <1>21, <1>22

-----------------------------------------------------------------------------
(* An output at its place, an item's time *)

(* The i-th call of the open turn waits for the output the n-th row r is. *)
Awaits(d, i, r, n) ==
    /\ d \in CodexSession /\ d.current # None /\ Sane(d.current) /\ r \in CodexRows /\ r \in Outputs /\ n \in Nat
    /\ i \in DOMAIN d.current.turn.calls /\ d.current.turn.calls[i].use = r.call
    /\ d.current.turn.calls[i].raw = <<>> /\ Sites(d, n) = {}

(* The k-th row is at one place. *)
OneSite(c, k) == \E x : Sites(c, k) = {x}

(* An output that completes a call is at one place. *)
LEMMA GivenSites ==
    ASSUME NEW d, NEW i, NEW r, NEW n, Awaits(d, i, r, n), NEW b, b = Given(d.current, i, r, n),
           NEW q \in CodexSession, q.turns = d.turns, q.current = b, q.errors = d.errors
    PROVE  OneSite(q, n)
<1>0. /\ d \in CodexSession /\ d.current # None /\ Sane(d.current) /\ r \in CodexRows /\ r \in Outputs /\ n \in Nat
      /\ i \in DOMAIN d.current.turn.calls /\ d.current.turn.calls[i].use = r.call
      /\ d.current.turn.calls[i].raw = <<>> /\ Sites(d, n) = {}
  BY DEF Awaits
<1> DEFINE old == d.current.turn.calls
           N == Len(d.turns)
           raw == <<n>>
<1>1. /\ Takes(d.current, b, r, n) /\ DOMAIN b.turn.calls = DOMAIN old /\ b.turn.calls[i].raw = raw
      /\ \A j \in DOMAIN old \ {i} : b.turn.calls[j] = old[j]
  BY <1>0, OutputTakes
<1>2. b \in CodexBuilder /\ b # None
  BY <1>1, NoneIsNotOpen DEF Takes
<1>3. q \in CodexSession /\ q.turns = d.turns /\ q.current = b /\ q.errors = d.errors
  OBVIOUS
<1>4. /\ DOMAIN OpenTurns(d) = 1 .. N + 1 /\ OpenTurns(d)[N + 1] = d.current.turn
      /\ \A k \in 1 .. N : OpenTurns(d)[k] = d.turns[k]
  BY <1>0, CodexOpenTurns
<1>5. /\ DOMAIN OpenTurns(q) = 1 .. N + 1 /\ OpenTurns(q)[N + 1] = b.turn
      /\ \A k \in 1 .. N : OpenTurns(q)[k] = d.turns[k]
  BY <1>2, <1>3, CodexOpenTurns
<1>6. N \in Nat /\ \A k \in 1 .. N + 1 : k = N + 1 \/ k \in 1 .. N
  BY <1>0, CodexOpenTurns, UpToLast
<1>7. d.current.turn \in CodexTurnType
  BY <1>0, CodexFields
<1>8. i \in Nat
  <2>1. old \in Seq(CodexCallType)
    BY <1>7, CodexTurnFields
  <2> HIDE DEF old
  <2>2. DOMAIN old = 1 .. Len(old)
    BY <2>1
  <2>3. i \in 1 .. Len(old)
    BY <1>0, <2>2 DEF old
  <2> QED
    BY <2>3
<1> HIDE DEF N, old, raw
<1>9. \A x \in Nat \X Nat : ~CallAt(d, x[1], x[2], raw) /\ ~ErrorAt(d, x[1], x[2], raw)
  BY <1>0 DEF Sites, raw
<1>10. <<N + 1, i>> \in Nat \X Nat
  BY <1>6, <1>8
<1>11. ASSUME NEW x \in Nat \X Nat PROVE x \in Sites(q, n) <=> x = <<N + 1, i>>
  <2> DEFINE t == x[1]
             j == x[2]
  <2>1. x = <<t, j>> /\ t \in Nat /\ j \in Nat
    OBVIOUS
  <2>2. ~ErrorAt(q, t, j, raw)
    BY <1>3, <1>9 DEF ErrorAt
  <2>3. x \in Sites(q, n) <=> CallAt(q, t, j, raw)
    BY <2>2 DEF Sites, raw
  <2> HIDE DEF t, j
  <2>4. ~CallAt(d, t, j, raw)
    BY <1>9 DEF t, j
  <2>5. CASE t \in 1 .. N
    <3>1. ~CallAt(q, t, j, raw)
      <4>1. t \in 1 .. N + 1
        BY <1>6, <2>5
      <4> QED
        BY <1>4, <1>5, <2>4, <2>5, <4>1 DEF CallAt
    <3>2. t # N + 1
      BY <1>6, <2>5
    <3> QED
      BY <2>1, <2>3, <3>1, <3>2
  <2>6. CASE t = N + 1
    <3>1. t \in 1 .. N + 1
      BY <1>6, <2>6
    <3>2. CallAt(q, t, j, raw) <=> j \in DOMAIN b.turn.calls /\ b.turn.calls[j].raw = raw
      BY <1>5, <2>6, <3>1 DEF CallAt
    <3>3. ~(j \in DOMAIN old /\ old[j].raw = raw)
      BY <1>4, <2>4, <2>6, <3>1 DEF CallAt, old
    <3>4. CallAt(q, t, j, raw) <=> j = i
      BY <1>0, <1>1, <3>2, <3>3 DEF old
    <3> QED
      BY <2>1, <2>3, <2>6, <3>4
  <2>7. CASE t \notin 1 .. N + 1
    <3>1. ~CallAt(q, t, j, raw)
      BY <1>5, <2>7 DEF CallAt
    <3>2. t # N + 1
      BY <1>6, <2>7
    <3> QED
      BY <2>1, <2>3, <3>1, <3>2
  <2> QED
    BY <1>6, <2>5, <2>6, <2>7
<1>12. Sites(q, n) \subseteq Nat \X Nat
  BY DEF Sites
<1>13. Sites(q, n) = {<<N + 1, i>>}
  BY <1>10, <1>11, <1>12
<1> QED
  BY <1>13 DEF OneSite

(* A turn is open at a time its session knows of. *)
Timely(a, when) ==
    /\ a \in CodexSession /\ a.current # None /\ a.current.turn.ended <= a.window.ended /\ Sane(a.current)
    /\ when \in Nat /\ when <= a.window.ended
(* The turn is open until then. *)
Timed(a, when) == [a EXCEPT !.current.turn.ended = LaterTime(@, when)]

(* The time of an item is its turn's. *)
LEMMA ItemTime ==
    ASSUME NEW a, NEW when, Timely(a, when), NEW d, d = Timed(a, when)
    PROVE  /\ d \in CodexSession /\ SameTurns(a, d) /\ SitesSame(a, d) /\ d.current # None
           /\ d.errors = a.errors /\ d.project = a.project /\ d.turns = a.turns /\ d.window = a.window
           /\ d.seenTurnContext = a.seenTurnContext /\ d.current.turn.project = a.current.turn.project
<1> DEFINE b == a.current
           ended == LaterTime(b.turn.ended, when)
           t == [b.turn EXCEPT !.ended = ended]
           e == [b EXCEPT !.turn = t]
<1>0. /\ a \in CodexSession /\ a.current # None /\ a.current.turn.ended <= a.window.ended /\ Sane(a.current)
      /\ when \in Nat /\ when <= a.window.ended
  BY DEF Timely
<1>1. b \in CodexBuilder /\ b.turn \in CodexTurnType /\ a.window.ended \in Nat /\ a.turns \in Seq(CodexTurnType)
  BY <1>0, CodexFields
<1>2. b.turn.ended \in Nat
  BY <1>1, CodexTurnFields
<1>3. ended \in Nat /\ ended <= a.window.ended
  BY <1>0, <1>1, <1>2 DEF LaterTime
<1>4. d = [a EXCEPT !.current = e]
  BY <1>0, <1>1 DEF CodexSession, Timed
<1> HIDE DEF ended
<1>5. /\ t \in CodexTurnType /\ t.ended = ended /\ t.user = b.turn.user /\ t.final = b.turn.final
      /\ t.invocations = b.turn.invocations /\ t.calls = b.turn.calls /\ t.status = b.turn.status
      /\ t.index = b.turn.index /\ t.project = b.turn.project
  BY <1>1, <1>3 DEF CodexTurnType
<1> HIDE DEF t
<1>6. e \in CodexBuilder /\ SameTurn(b, e) /\ e.turn = t
  BY <1>1, <1>5 DEF CodexBuilder, SameTurn
<1> HIDE DEF e
<1>7. /\ d \in CodexSession /\ d.current = e /\ d.errors = a.errors /\ d.project = a.project /\ d.turns = a.turns
      /\ d.window = a.window /\ d.seenTurnContext = a.seenTurnContext
  BY <1>0, <1>4, <1>6 DEF CodexSession
<1>8. e # None
  BY <1>6, NoneIsNotOpen
<1>9. SameTurns(a, d)
  <2>1. d.window.ended >= a.window.ended
    BY <1>1, <1>7
  <2>2. Len(d.turns) = Len(a.turns) /\ \A i \in DOMAIN a.turns : AlikeTurn(a.turns[i], d.turns[i])
    BY <1>7 DEF AlikeTurn
  <2>3. d.current # None /\ SameTurn(a.current, d.current)
    BY <1>6, <1>7, <1>8
  <2>4. d.current.turn.index = a.current.turn.index /\ d.current.turn.ended <= d.window.ended
    BY <1>3, <1>5, <1>6, <1>7
  <2> HIDE DEF b
  <2> QED
    BY <1>0, <1>7, <2>1, <2>2, <2>3, <2>4 DEF SameTurns
<1>10. SitesSame(a, d)
  BY <1>0, <1>7, <1>9, SameTurnsSites
<1> QED
  BY <1>5, <1>6, <1>7, <1>8, <1>9, <1>10

(* The turn is still open in a session that has the same turns. *)
LEMMA PriorStays ==
    ASSUME NEW l, NEW r, NEW m, NEW n, NEW a, Prior(a, l, r, m, n), NEW d, SameTurns(a, d),
           d.seenTurnContext = a.seenTurnContext
    PROVE  Prior(d, l, r, m, n)
<1>1. PICK rows : Joins(l, r, m, n, rows) /\ Heard(a, m, rows, ClosedSegments(m)) /\ OpenRows(m) = rows \cup {n}
  BY DEF Prior
<1>2. Heard(d, m, rows, ClosedSegments(m))
  BY <1>1, SameTurnsHeard
<1>3. a.current # None /\ (a.seenTurnContext <=> Contexts(m) # {})
  BY DEF Prior
<1>4. d.current # None /\ d \in CodexSession
  BY <1>3 DEF SameTurns
<1> QED
  BY <1>1, <1>2, <1>3, <1>4 DEF Prior

(* What an open turn is for the next row. *)
LEMMA PriorIs ==
    ASSUME NEW l, NEW r, NEW m, NEW n, NEW a, Prior(a, l, r, m, n)
    PROVE  /\ RowsGrown(l, r, m, n) /\ a \in CodexSession /\ a.current # None /\ Sane(a.current)
           /\ a.current.turn.ended <= a.window.ended /\ n \in Nat
           /\ \E rows : Answered(m, a.current.turn.calls, rows)
<1>1. PICK rows : Joins(l, r, m, n, rows) /\ Heard(a, m, rows, ClosedSegments(m)) /\ OpenRows(m) = rows \cup {n}
  BY DEF Prior
<1>2. a.current # None /\ a \in CodexSession
  BY DEF Prior
<1>3. Building(m, a.current, rows) /\ a.current.turn.ended <= a.window.ended
  BY <1>1, <1>2 DEF Heard
<1>4. Sane(a.current)
  BY <1>3, BuildingSane
<1>5. RowsGrown(l, r, m, n) /\ n \in Nat
  BY <1>1, RowsAre DEF Joins
<1> QED
  BY <1>2, <1>3, <1>4, <1>5 DEF Building

-----------------------------------------------------------------------------
(* An item *)

(* The kinds of response items are told apart by their payload, and no item is of another type. *)
LEMMA ItemKinds ==
    ASSUME NEW r, r \in OfType("response_item")
    PROVE  /\ r \notin OfType("turn_context") /\ r \notin OfType("session_meta") /\ r \notin OfType("event_msg")
           /\ r \notin Events("user_message") /\ ReportOf(r) = NoTokens
           /\ r.payload \notin {"message", "function_call", "custom_tool_call", "function_call_output",
                                "custom_tool_call_output"} => Quiet(r) /\ r \notin Outputs
           /\ r \in Outputs => Quiet(r)
           /\ r \in Outputs <=> r.payload \in {"function_call_output", "custom_tool_call_output"}
           /\ r \in Called <=> r.payload \in {"function_call", "custom_tool_call"}
           /\ r \in Items("message") <=> r.payload = "message"
<1>1. r.type = "response_item"
  BY DEF OfType
<1>2. /\ "response_item" # "turn_context" /\ "response_item" # "session_meta" /\ "response_item" # "event_msg"
      /\ "message" # "function_call_output" /\ "message" # "custom_tool_call_output"
      /\ "function_call" # "function_call_output" /\ "function_call" # "custom_tool_call_output"
      /\ "custom_tool_call" # "function_call_output" /\ "custom_tool_call" # "custom_tool_call_output"
  OBVIOUS
<1>3. r \notin OfType("turn_context") /\ r \notin OfType("session_meta") /\ r \notin OfType("event_msg")
  BY <1>1, <1>2 DEF OfType
<1>4. \A payload : r \notin Events(payload) /\ (r \in Items(payload) <=> r.payload = payload)
  BY <1>3 DEF Events, Items
<1>5. /\ r \in Outputs <=> r.payload \in {"function_call_output", "custom_tool_call_output"}
      /\ r \in Called <=> r.payload \in {"function_call", "custom_tool_call"}
      /\ r \in Items("message") <=> r.payload = "message"
  BY <1>4 DEF Outputs, Called
<1>6. r \in Spoken \cup Replies => r.payload = "message"
  BY <1>4 DEF Spoken, Replies
<1>7. r.payload \notin {"message", "function_call", "custom_tool_call"} => Quiet(r)
  BY <1>4, <1>5, <1>6 DEF Quiet
<1>8. r \in Outputs => r.payload \notin {"message", "function_call", "custom_tool_call"}
  BY <1>2, <1>5
<1> QED
  BY <1>3, <1>4, <1>5, <1>7, <1>8 DEF ReportOf

(* What is made of an item, once its time is noted. *)
ItemRead(d, r, raw) ==
    CASE r.payload = "unreadable" -> [d EXCEPT !.errors = Append(@, raw)]
      [] r.payload = "message" -> [d EXCEPT !.current = RecordMessage(@, r)]
      [] r.payload \in {"function_call", "custom_tool_call"} -> [d EXCEPT !.current = CodexToolCall(@, r)]
      [] r.payload \in {"function_call_output", "custom_tool_call_output"} -> CodexToolOutput(d, r, raw)
      [] OTHER -> d

(* An open turn takes an item. *)
LEMMA ItemTaken ==
    ASSUME NEW l, NEW r, NEW m, NEW n, NEW c, NEW d, Prior(d, l, r, m, n), SitesKept(c, d, n), Sites(d, n) = {},
           Homes(m) => Homed(d), r \in OfType("response_item"), NEW q, q = ItemRead(d, r, <<n>>)
    PROVE  Reads(c, q, l, r, m, n)
<1>1. /\ RowsGrown(l, r, m, n) /\ d \in CodexSession /\ d.current # None /\ Sane(d.current)
      /\ d.current.turn.ended <= d.window.ended /\ n \in Nat
  BY PriorIs
<1>2. r \in CodexRows
  BY <1>1, RowsAre
<1>3. SameTurns(d, d) /\ SitesKept(d, d, n)
  <2>1. d.window.ended \in Nat
    BY <1>1, CodexFields
  <2>2. d.window.ended >= d.window.ended
    BY <2>1
  <2> QED
    BY <1>1, <2>2, TurnsUntouched DEF SitesKept
<1>4. /\ "unreadable" \notin {"message", "function_call", "custom_tool_call", "function_call_output",
                              "custom_tool_call_output"}
      /\ "message" \notin {"function_call", "custom_tool_call", "function_call_output", "custom_tool_call_output"}
      /\ \A x \in {"function_call", "custom_tool_call"} : x \notin {"function_call_output", "custom_tool_call_output"}
  OBVIOUS
<1>5. /\ r.payload \notin {"message", "function_call", "custom_tool_call", "function_call_output",
                           "custom_tool_call_output"} => Quiet(r) /\ r \notin Outputs
      /\ r \in Outputs => Quiet(r)
      /\ r \in Outputs <=> r.payload \in {"function_call_output", "custom_tool_call_output"}
      /\ r \in Called <=> r.payload \in {"function_call", "custom_tool_call"}
      /\ r \in Items("message") <=> r.payload = "message"
  BY ItemKinds
<1>6. ASSUME NEW b, Takes(d.current, b, r, n), q = [d EXCEPT !.current = b]
      PROVE  Homes(m) => Homed(q)
  <2>1. b \in CodexBuilder /\ b.turn.project = d.current.turn.project
    BY <1>6 DEF Takes
  <2>2. q.current = b /\ q.project = d.project /\ q.turns = d.turns
    BY <1>1, <1>6, <2>1 DEF CodexSession
  <2> QED
    BY <1>1, <2>1, <2>2 DEF Homed
<1>7. ASSUME NEW b, Takes(d.current, b, r, n), q = [d EXCEPT !.current = b], r \in Outputs => \E x : Sites(q, n) = {x}
      PROVE  Reads(c, q, l, r, m, n)
  <2>1. Homes(m) => Homed(q)
    BY <1>6, <1>7
  <2> QED
    BY <1>1, <1>3, <1>7, <2>1, TakenReads
<1>8. ASSUME Quiet(r), q = [d EXCEPT !.errors = Append(@, <<n>>)]
      PROVE  Reads(c, q, l, r, m, n)
  <2>1. /\ q \in CodexSession /\ SameTurns(d, q) /\ SitesKept(d, q, n) /\ q.project = d.project
        /\ q.turns = d.turns /\ q.current = d.current /\ q.seenTurnContext = d.seenTurnContext
        /\ Sites(q, n) = Sites(d, n) \cup {<<0, Len(d.errors) + 1>>}
    BY <1>1, <1>8, ErrorSites
  <2>2. Takes(q.current, q.current, r, n)
    BY <1>1, <1>2, <1>8, <2>1, QuietTakes
  <2> DEFINE b == q.current
  <2>3. q = [q EXCEPT !.current = b]
    BY <2>1 DEF CodexSession
  <2>4. \E x : Sites(q, n) = {x}
    BY <2>1
  <2>5. Homes(m) => Homed(q)
    BY <2>1 DEF Homed
  <2> HIDE DEF b
  <2>6. Takes(q.current, b, r, n)
    BY <2>2 DEF b
  <2>7. /\ SameTurns(d, q) /\ SitesKept(d, q, n) /\ q.seenTurnContext = d.seenTurnContext
        /\ r \in Outputs => \E x : Sites(q, n) = {x}
    BY <2>1, <2>4
  <2> QED
    BY <1>1, <2>3, <2>5, <2>6, <2>7, TakenReads
<1>9. CASE r.payload = "unreadable"
  <2>1. q = [d EXCEPT !.errors = Append(@, <<n>>)]
    BY <1>4, <1>9 DEF ItemRead
  <2> QED
    BY <1>4, <1>5, <1>8, <1>9, <2>1
<1>10. CASE r.payload = "message"
  <2> DEFINE b == RecordMessage(d.current, r)
  <2>1. q = [d EXCEPT !.current = b]
    BY <1>4, <1>10 DEF ItemRead
  <2>2. Takes(d.current, b, r, n)
    BY <1>1, <1>2, <1>5, <1>10, MessageTakes
  <2>3. r \notin Outputs
    BY <1>4, <1>5, <1>10
  <2> HIDE DEF b
  <2> QED
    BY <1>7, <2>1, <2>2, <2>3
<1>11. CASE r.payload \in {"function_call", "custom_tool_call"}
  <2> DEFINE b == CodexToolCall(d.current, r)
  <2>1. q = [d EXCEPT !.current = b]
    BY <1>4, <1>11 DEF ItemRead
  <2>2. Takes(d.current, b, r, n)
    BY <1>1, <1>2, <1>5, <1>11, ToolCallTakes
  <2>3. r \notin Outputs
    BY <1>4, <1>5, <1>11
  <2> HIDE DEF b
  <2> QED
    BY <1>7, <2>1, <2>2, <2>3
<1>12. CASE r.payload \in {"function_call_output", "custom_tool_call_output"}
  <2> DEFINE b == d.current
             open == {i \in DOMAIN b.turn.calls : b.turn.calls[i].status = "pending"}
             i == IF r.call \in DOMAIN b.byCall THEN b.byCall[r.call] ELSE 0
  <2>1. q = CodexToolOutput(d, r, <<n>>)
    BY <1>4, <1>12 DEF ItemRead
  <2>2. r \in Outputs
    BY <1>5, <1>12
  <2>3. CASE i \notin open
    <3>1. q = [d EXCEPT !.errors = Append(@, <<n>>)]
      BY <2>1, <2>3 DEF CodexToolOutput
    <3> QED
      BY <1>5, <1>8, <2>2, <3>1
  <2>4. CASE i \in open
    <3>1. b \in CodexBuilder /\ b.turn \in CodexTurnType /\ b.turn.calls \in Seq(CodexCallType)
      BY <1>1, CodexFields, CodexTurnFields
    <3>2. b.turn.calls[i].use = r.call
      <4>1. 0 \notin DOMAIN b.turn.calls
        BY <3>1
      <4>2. r.call \in DOMAIN b.byCall /\ i = b.byCall[r.call]
        BY <2>4, <4>1
      <4> QED
        BY <1>1, <4>2 DEF Sane, CallsFound
    <3>3. b.turn.calls[i].raw = <<>>
      <4>1. PICK rows : Answered(m, b.turn.calls, rows)
        BY PriorIs
      <4> QED
        BY <2>4, <4>1 DEF Answered
    <3>4. q = [d EXCEPT !.current = Given(b, i, r, n)]
      <4> DEFINE raw == <<n>>
                 status == IF OutputFails(b.turn.calls[i].name, r.output) THEN "failed" ELSE "success"
      <4>1. q = [d EXCEPT !.current.turn.calls[i] =
                    [@ EXCEPT !.output = r.output, !.ended = r.when, !.raw = raw, !.status = status]]
        BY <2>1, <2>4 DEF CodexToolOutput
      <4>2. Given(b, i, r, n) =
              [b EXCEPT !.turn = [b.turn EXCEPT !.calls = [b.turn.calls EXCEPT ![i] =
                 [b.turn.calls[i] EXCEPT !.output = r.output, !.ended = r.when, !.raw = raw, !.status = status]]]]
        BY DEF Given
      <4> HIDE DEF raw, status, i, open
      <4> QED
        BY <4>1, <4>2
    <3>5. i \in DOMAIN b.turn.calls
      BY <2>4
    <3> HIDE DEF i, open
    <3>6. Takes(b, Given(b, i, r, n), r, n)
      BY <1>1, <1>2, <2>2, <3>2, <3>3, <3>5, OutputTakes
    <3>7. \E x : Sites(q, n) = {x}
      <4>1. Awaits(d, i, r, n)
        BY <1>1, <1>2, <2>2, <3>2, <3>3, <3>5 DEF Awaits
      <4> DEFINE e == Given(d.current, i, r, n)
      <4>2. e \in CodexBuilder
        BY <3>6 DEF Takes
      <4> HIDE DEF e
      <4>3. q \in CodexSession /\ q.turns = d.turns /\ q.current = e /\ q.errors = d.errors
        BY <1>1, <3>4, <4>2 DEF CodexSession, e
      <4>4. OneSite(q, n)
        BY <4>1, <4>3, GivenSites DEF e
      <4> QED
        BY <4>4 DEF OneSite
    <3> QED
      BY <1>7, <3>4, <3>6, <3>7
  <2> QED
    BY <2>3, <2>4
<1>13. CASE r.payload \notin {"unreadable", "message", "function_call", "custom_tool_call", "function_call_output",
                              "custom_tool_call_output"}
  <2> DEFINE b == d.current
  <2>1. q = d
    BY <1>13 DEF ItemRead
  <2>2. Quiet(r) /\ r \notin Outputs
    BY <1>5, <1>13
  <2>3. Takes(d.current, b, r, n)
    BY <1>1, <1>2, <2>2, QuietTakes
  <2>4. q = [d EXCEPT !.current = b]
    BY <1>1, <2>1 DEF CodexSession
  <2> HIDE DEF b
  <2> QED
    BY <1>7, <2>2, <2>3, <2>4
<1> QED
  BY <1>9, <1>10, <1>11, <1>12, <1>13

-----------------------------------------------------------------------------
(* Each kind of row *)

(* An open turn takes an item, and its time. *)
LEMMA ItemHandled ==
    ASSUME NEW l, NEW r, NEW m, NEW n, NEW c, NEW a, Prior(a, l, r, m, n), SitesKept(c, a, n), Sites(a, n) = {},
           Homes(m) => Homed(a), r \in OfType("response_item"), r.when \in Nat, r.when <= a.window.ended,
           NEW q, q = HandleResponseItem(a, r, <<n>>)
    PROVE  Reads(c, q, l, r, m, n)
<1> DEFINE when == r.when
           d == Timed(a, when)
<1>1. /\ a \in CodexSession /\ a.current # None /\ Sane(a.current)
      /\ a.current.turn.ended <= a.window.ended /\ n \in Nat
  BY PriorIs
<1>2. q = ItemRead(d, r, <<n>>)
  BY DEF HandleResponseItem, ItemRead, Timed
<1> HIDE DEF when
<1>3. when \in Nat /\ when <= a.window.ended
  BY DEF when
<1>x. d = Timed(a, when) /\ Timely(a, when)
  BY <1>1, <1>3 DEF Timely
<1> HIDE DEF d
<1>4. /\ d \in CodexSession /\ SameTurns(a, d) /\ SitesSame(a, d) /\ d.current # None
      /\ d.errors = a.errors /\ d.project = a.project /\ d.turns = a.turns /\ d.window = a.window
      /\ d.seenTurnContext = a.seenTurnContext /\ d.current.turn.project = a.current.turn.project
  BY <1>x, ItemTime
<1>5. Prior(d, l, r, m, n)
  BY <1>4, PriorStays
<1>6. SitesKept(c, d, n) /\ Sites(d, n) = {}
  BY <1>1, <1>4 DEF SitesKept, SitesSame
<1>7. Homes(m) => Homed(d)
  BY <1>1, <1>4 DEF Homed
<1> QED
  BY <1>2, <1>5, <1>6, <1>7, ItemTaken

(* An item is read: by the open turn, by one it begins, or not at all when it is injected before any. *)
LEMMA ItemReads ==
    ASSUME NEW l, NEW r, NEW m, NEW n, RowsGrown(l, r, m, n), NEW c, CodexStanding(c, l),
           r \in OfType("response_item"), r.when \in Nat, r.when <= c.window.ended,
           NEW q, q = ReadResponseItem(c, r, <<n>>)
    PROVE  Reads(c, q, l, r, m, n)
<1> DEFINE raw == <<n>>
<1>1. n \in Nat /\ n \notin DOMAIN l /\ r \in CodexRows
  BY RowsAre
<1>2. Sites(c, n) = {}
  BY <1>1 DEF CodexStanding, Located
<1>3. /\ r \notin OfType("turn_context") /\ r \notin OfType("session_meta") /\ r \notin OfType("event_msg")
      /\ r \in Outputs <=> r.payload \in {"function_call_output", "custom_tool_call_output"}
  BY ItemKinds
<1>4. Homes(m) => Homed(c)
  <2>1. Homes(m) <=> Homes(l)
    BY <1>3, HomesGrow
  <2> QED
    BY <2>1 DEF CodexStanding
<1>5. c \in CodexSession /\ (c.current = None <=> Openings(l) = {}) /\ (c.seenTurnContext <=> Contexts(l) # {})
  BY DEF CodexStanding, Heard
<1>6. CASE c.current # None
  <2>1. q = HandleResponseItem(c, r, raw)
    BY <1>6 DEF ReadResponseItem
  <2>2. Prior(c, l, r, m, n)
    BY <1>3, <1>6, PriorOpen
  <2>3. SitesKept(c, c, n)
    BY DEF SitesKept
  <2> QED
    BY <1>2, <1>4, <2>1, <2>2, <2>3, ItemHandled
<1>7. CASE c.current = None
  <2>1. ~c.seenTurnContext
    BY <1>5, <1>7 DEF Openings, ItemRows
  <2>2. CASE InjectedPreTurn(r)
    <3>1. q = c
      BY <1>7, <2>1, <2>2 DEF ReadResponseItem
    <3>2. ~Opener(r)
      BY <1>3, <2>2 DEF Opener
    <3>3. SitesKept(c, c, n)
      BY DEF SitesKept
    <3>4. SameTurns(c, c)
      <4>1. c.window.ended \in Nat
        BY <1>5, CodexFields
      <4>2. c.window.ended >= c.window.ended
        BY <4>1
      <4> QED
        BY <1>5, <1>7, <4>2, TurnsUntouched
    <3> QED
      BY <1>3, <1>4, <1>7, <3>1, <3>2, <3>3, <3>4, IdleReads
  <2>3. CASE ~InjectedPreTurn(r)
    <3> DEFINE when == r.when
               a == Opened(c, when)
    <3>1. q = HandleResponseItem(a, r, raw)
      BY <1>7, <2>1, <2>3 DEF ReadResponseItem, Opened
    <3>2. Opener(r)
      BY <2>3 DEF Opener
    <3> HIDE DEF when
    <3>3. when \in Nat /\ when <= c.window.ended
      BY DEF when
    <3>x. a = Opened(c, when) /\ OpenFor(c, l, r, when)
      BY <1>7, <3>2, <3>3 DEF OpenFor
    <3> HIDE DEF a
    <3>4. /\ Prior(a, l, r, m, n) /\ SitesSame(c, a) /\ a.project = c.project /\ a.turns = c.turns
          /\ a.current.turn.project = c.project /\ a.window = c.window /\ a.current.turn.ended = when
      BY <3>x, PriorBegun
    <3>5. SitesKept(c, a, n) /\ Sites(a, n) = {}
      BY <1>1, <1>2, <3>4 DEF SitesKept, SitesSame
    <3>6. Homes(m) => Homed(a)
      BY <1>4, <3>4 DEF Homed
    <3>7. r.when <= a.window.ended
      BY <3>4
    <3> QED
      BY <3>1, <3>4, <3>5, <3>6, <3>7, ItemHandled
  <2> QED
    BY <2>2, <2>3
<1> QED
  BY <1>6, <1>7

(* An event is read. *)
LEMMA EventReads ==
    ASSUME NEW l, NEW r, NEW m, NEW n, RowsGrown(l, r, m, n), NEW c, CodexStanding(c, l),
           r \in OfType("event_msg"), r.window \in Nat, NEW q, q = ReadEventMessage(c, r)
    PROVE  Reads(c, q, l, r, m, n)
<1> DEFINE started == r.payload = "task_started" /\ r.window > 0
           window == IF started THEN r.window ELSE c.contextWindow
           d == [c EXCEPT !.contextWindow = window]
<1>1. n \in Nat /\ r \in CodexRows /\ r.type = "event_msg"
  BY RowsAre DEF OfType
<1>2. /\ "event_msg" # "turn_context" /\ "event_msg" # "session_meta" /\ "event_msg" # "response_item"
  OBVIOUS
<1>3. /\ r \notin OfType("turn_context") /\ r \notin OfType("session_meta") /\ r \notin OfType("response_item")
  BY <1>1, <1>2 DEF OfType
<1>4. ~Opener(r) /\ r \notin Outputs
  BY <1>3 DEF Opener, Outputs, Items
<1>5. Homes(m) => Homed(c)
  <2>1. Homes(m) <=> Homes(l)
    BY <1>3, HomesGrow
  <2> QED
    BY <2>1 DEF CodexStanding
<1>6. c \in CodexSession /\ (c.current # None => c.current.turn.ended <= c.window.ended)
  BY HeardEnds DEF CodexStanding
<1>7. window \in Nat
  BY <1>6, CodexFields
<1>8. q = IF c.current = None THEN d
          ELSE [d EXCEPT !.current =
                  ApplyEventMessage([c.current EXCEPT !.contextWindow = IF started THEN r.window ELSE @], r)]
  BY DEF ReadEventMessage
<1> HIDE DEF window, started
<1>9. /\ d \in CodexSession /\ d.turns = c.turns /\ d.current = c.current /\ d.window = c.window
      /\ d.errors = c.errors /\ d.project = c.project /\ d.seenTurnContext = c.seenTurnContext
  BY <1>6, <1>7 DEF CodexSession
<1> HIDE DEF d
<1>10. SameTurns(c, d)
  <2>1. c.window.ended \in Nat
    BY <1>6, CodexFields
  <2>2. d.window.ended >= c.window.ended
    BY <1>9, <2>1
  <2> QED
    BY <1>6, <1>9, <2>2, TurnsUntouched
<1>11. SitesKept(c, d, n)
  BY <1>6, <1>9, <1>10, SameTurnsSites DEF SitesSame, SitesKept
<1>12. CASE c.current = None
  <2>1. q = d
    BY <1>8, <1>12
  <2>2. Homes(m) => Homed(q)
    BY <1>5, <1>9, <2>1 DEF Homed
  <2> QED
    BY <1>3, <1>4, <1>9, <1>10, <1>11, <1>12, <2>1, <2>2, IdleReads
<1>13. CASE c.current # None
  <2> DEFINE b == c.current
             w == IF started THEN r.window ELSE b.contextWindow
             e == [b EXCEPT !.contextWindow = w]
             p == [d EXCEPT !.current = e]
             g == ApplyEventMessage(e, r)
  <2>1. b \in CodexBuilder /\ b.contextWindow \in Nat
    BY <1>6, <1>13, CodexFields, CodexBuilderFields
  <2>2. w \in Nat
    BY <2>1
  <2>3. q = [d EXCEPT !.current = g]
    BY <1>8, <1>13
  <2> HIDE DEF w
  <2>4. e \in CodexBuilder /\ e.turn = b.turn /\ SameTurn(b, e)
    BY <2>1, <2>2 DEF CodexBuilder, SameTurn
  <2> HIDE DEF e
  <2>5. e # None
    BY <2>4, NoneIsNotOpen
  <2>6. /\ p \in CodexSession /\ p.turns = c.turns /\ p.current = e /\ p.window = c.window
        /\ p.errors = c.errors /\ p.project = c.project /\ p.seenTurnContext = c.seenTurnContext
    BY <1>9, <2>4 DEF CodexSession
  <2>7. q = [p EXCEPT !.current = g]
    BY <1>9, <2>3 DEF CodexSession
  <2> HIDE DEF p, g
  <2>8. SameTurns(c, p)
    <3>1. c.window.ended \in Nat /\ c.turns \in Seq(CodexTurnType)
      BY <1>6, CodexFields
    <3>2. p.window.ended >= c.window.ended
      BY <2>6, <3>1
    <3>3. Len(p.turns) = Len(c.turns) /\ \A i \in DOMAIN c.turns : AlikeTurn(c.turns[i], p.turns[i])
      BY <2>6 DEF AlikeTurn
    <3>4. p.current # None /\ SameTurn(c.current, p.current)
      BY <2>4, <2>5, <2>6
    <3>5. p.current.turn.index = c.current.turn.index /\ p.current.turn.ended <= p.window.ended
      BY <1>6, <1>13, <2>4, <2>6
    <3> HIDE DEF b
    <3> QED
      BY <1>13, <2>6, <3>2, <3>3, <3>4, <3>5 DEF SameTurns
  <2>9. SitesKept(c, p, n)
    BY <1>6, <2>6, <2>8, SameTurnsSites DEF SitesSame, SitesKept
  <2>10. Prior(c, l, r, m, n)
    BY <1>3, <1>13, PriorOpen
  <2>11. Prior(p, l, r, m, n)
    BY <2>6, <2>8, <2>10, PriorStays
  <2>12. Takes(p.current, g, r, n)
    <3>1. Sane(p.current)
      BY <2>11, PriorIs
    <3> QED
      BY <1>1, <2>6, <3>1, EventTakes DEF g
  <2>13. Homes(m) => Homed(q)
    <3>1. g \in CodexBuilder /\ g.turn.project = b.turn.project
      BY <2>4, <2>6, <2>12 DEF Takes
    <3>2. q.current = g /\ q.project = c.project /\ q.turns = c.turns
      BY <2>6, <2>7, <3>1 DEF CodexSession
    <3> QED
      BY <1>5, <1>13, <3>1, <3>2 DEF Homed
  <2>14. SitesKept(c, c, n)
    BY DEF SitesKept
  <2> QED
    BY <1>4, <2>6, <2>7, <2>8, <2>9, <2>10, <2>12, <2>13, <2>14, TakenReads
<1> QED
  BY <1>12, <1>13

-----------------------------------------------------------------------------
(* The next row is read. *)
LEMMA RowStands ==
    ASSUME NEW l, NEW r, NEW m, NEW n, RowsGrown(l, r, m, n), NEW c, CodexStanding(c, l),
           NEW q, q = ReadCodex(c, r, <<n>>)
    PROVE  CodexStanding(q, m)
<1>1. CASE r = Unreadable
  <2>1. q = [c EXCEPT !.errors = Append(@, <<n>>)]
    BY <1>1 DEF ReadCodex
  <2>2. RowsGrown(l, Unreadable, m, n)
    BY <1>1
  <2>3. Reads(c, q, l, Unreadable, m, n)
    BY <2>1, <2>2, UnreadableReads
  <2> QED
    BY <2>2, <2>3, ReadsStand
<1>2. CASE r # Unreadable
  <2> DEFINE when == r.when
             d == [c EXCEPT !.window = UpdateSessionTimes(@, when)]
             raw == <<n>>
  <2>1. r \in CodexRows /\ n \in Nat /\ n \notin DOMAIN l
    BY RowsAre
  <2>2. r \in CodexRowType
    BY <1>2, <2>1, RowTypes
  <2>3. when \in Nat /\ r.window \in Nat /\ r.when \in Nat
    BY <2>2, RowFields
  <2>4. /\ r.type = "session_meta" => q = ReadSessionMeta(d, r)
        /\ r.type = "turn_context" => q = ReadTurnContext(d, r)
        /\ r.type = "response_item" => q = ReadResponseItem(d, r, raw)
        /\ r.type = "event_msg" => q = ReadEventMessage(d, r)
        /\ r.type \notin {"session_meta", "turn_context", "response_item", "event_msg"} => q = d
    BY <1>2 DEF ReadCodex
  <2> HIDE DEF when
  <2>5. CodexStanding(d, l) /\ SitesSame(c, d) /\ when <= d.window.ended
    BY <2>3, WindowStands
  <2> HIDE DEF d
  <2>6. r.when <= d.window.ended
    BY <2>5 DEF when
  <2>7. Reads(d, q, l, r, m, n)
    <3>1. CASE r.type = "session_meta"
      <4>1. r \in OfType("session_meta")
        BY <2>1, <3>1 DEF OfType
      <4> QED
        BY <2>4, <2>5, <3>1, <4>1, MetaReads
    <3>2. CASE r.type = "turn_context"
      <4>1. r \in OfType("turn_context")
        BY <2>1, <3>2 DEF OfType
      <4> QED
        BY <2>4, <2>5, <2>6, <3>2, <4>1, ContextReads
    <3>3. CASE r.type = "response_item"
      <4>1. r \in OfType("response_item")
        BY <2>1, <3>3 DEF OfType
      <4> QED
        BY <2>3, <2>4, <2>5, <2>6, <3>3, <4>1, ItemReads
    <3>4. CASE r.type = "event_msg"
      <4>1. r \in OfType("event_msg")
        BY <2>1, <3>4 DEF OfType
      <4> QED
        BY <2>3, <2>4, <2>5, <3>4, <4>1, EventReads
    <3>5. CASE r.type \notin {"session_meta", "turn_context", "response_item", "event_msg"}
      <4>1. /\ r \notin OfType("turn_context") /\ r \notin OfType("session_meta") /\ r \notin OfType("response_item")
            /\ r \notin OfType("event_msg")
        BY <3>5 DEF OfType
      <4>2. ~Opener(r) /\ Quiet(r) /\ r \notin Outputs
        BY <4>1 DEF Opener, Quiet, Spoken, Replies, Called, Outputs, Items, Events
      <4>3. q = d
        BY <2>4, <3>5
      <4>4. SitesKept(d, d, n)
        BY DEF SitesKept
      <4>5. SameTurns(d, d)
        <5>1. d \in CodexSession /\ (d.current # None => d.current.turn.ended <= d.window.ended)
          BY <2>5, HeardEnds DEF CodexStanding
        <5>2. d.window.ended \in Nat
          BY <5>1, CodexFields
        <5>3. d.window.ended >= d.window.ended
          BY <5>2
        <5> QED
          BY <5>1, <5>3, TurnsUntouched
      <4>6. Homes(m) => Homed(d)
        <5>1. Homes(m) <=> Homes(l)
          BY <4>1, HomesGrow
        <5> QED
          BY <2>5, <5>1 DEF CodexStanding
      <4> QED
        BY <2>5, <4>1, <4>2, <4>3, <4>4, <4>5, <4>6, QuietReads
    <3> QED
      BY <3>1, <3>2, <3>3, <3>4, <3>5
  <2> QED
    BY <2>5, <2>7, ReadsStand
<1> QED
  BY <1>1, <1>2

-----------------------------------------------------------------------------
(* Where it begins and what it comes to *)

(* Before the first row nothing is lost. *)
LEMMA NoCodexStands == CodexStanding(NewCodex, <<>>)
<1> DEFINE nothing == <<>>
           c == NewCodex
           project == NoProject
           window == NoWindow
<1>1. /\ nothing \in Seq(CodexRows) /\ nothing \in Seq(CodexTurnType) /\ nothing \in Seq(Seq(Nat))
      /\ nothing \in Seq(SUBSET (DOMAIN nothing)) /\ DOMAIN nothing = {} /\ Len(nothing) = 0
  OBVIOUS
<1>2. project \in ProjectType /\ window \in [started : Nat, ended : Nat] /\ window.ended = 0
  BY DEF NoProject, ProjectType, NoWindow
<1>3. c = [external |-> "", project |-> project, parent |-> "", isSubagent |-> FALSE, window |-> window,
           turns |-> nothing, current |-> None, errors |-> nothing, seenTurnContext |-> FALSE, contextWindow |-> 0]
  BY DEF NewCodex
<1> HIDE DEF c, nothing, project, window
<1>4. /\ c \in CodexSession /\ c.turns = nothing /\ c.current = None /\ c.errors = nothing
      /\ c.seenTurnContext = FALSE /\ c.window = window
  BY <1>1, <1>2, <1>3 DEF CodexSession
<1>5. \A kinds : Among(nothing, kinds) = {}
  BY <1>1 DEF Among
<1>6. /\ Openings(nothing) = {} /\ Contexts(nothing) = {} /\ InTurn(nothing) = {} /\ OpenRows(nothing) = {}
      /\ ClosedSegments(nothing) = {}
  <2>1. Openings(nothing) = {} /\ Contexts(nothing) = {}
    BY <1>5 DEF Openings, ItemRows, Contexts, ContextRows
  <2>2. InTurn(nothing) = {}
    BY <1>1 DEF InTurn
  <2> QED
    BY <2>1, <2>2 DEF OpenRows, ClosedSegments
<1>7. TokensOf(nothing) = SpentIn(nothing, {})
  <2>1. TokensOf(nothing) = NoTokens
    <3>1. [i \in DOMAIN <<>> |-> <<>>[i].tokens] = <<>>
      OBVIOUS
    <3> QED
      BY <3>1, SumTokensEmpty DEF TokensOf, nothing
  <2> QED
    BY <1>1, <2>1, SpentInNone
<1>8. TurnsStored(nothing, nothing, nothing, {}, c.window.ended)
  <2>1. Numbers(nothing, nothing, {})
    BY <1>1 DEF Numbers
  <2>2. UNION {} = {}
    OBVIOUS
  <2> QED
    BY <1>1, <1>7, <2>1, <2>2 DEF TurnsStored
<1>9. Heard(c, nothing, {}, {})
  BY <1>4, <1>8 DEF Heard
<1>10. \A k : Sites(c, k) = {}
  <2>1. OpenTurns(c) = nothing
    BY <1>4 DEF OpenTurns
  <2> QED
    BY <1>1, <1>4, <2>1 DEF Sites, CallAt, ErrorAt
<1>11. Located(c, nothing) /\ ~Homes(nothing)
  BY <1>5, <1>10 DEF Located, Homes
<1>12. CodexStanding(c, nothing)
  BY <1>1, <1>4, <1>6, <1>9, <1>11 DEF CodexStanding
<1> QED
  BY <1>12 DEF c, nothing

-----------------------------------------------------------------------------
(* A set that is numbered has as many elements as the numbers it takes. *)
LEMMA Enumerated ==
    ASSUME NEW k \in Nat, NEW f, DOMAIN f = 1 .. k, \A i, j \in 1 .. k : f[i] = f[j] => i = j
    PROVE  Cardinality({f[i] : i \in 1 .. k}) = k /\ IsFiniteSet({f[i] : i \in 1 .. k})
<1> DEFINE T == {f[i] : i \in 1 .. k}
           g == [i \in 1 .. k |-> f[i]]
<1>1. g \in Surjection(1 .. k, T)
  BY DEF Surjection
<1>2. g \in Injection(1 .. k, T)
  BY DEF Injection, IsInjective
<1>3. IsFiniteSet(1 .. k) /\ Cardinality(1 .. k) = k
  BY FS_Interval
<1> HIDE DEF g, T
<1>4. IsFiniteSet(T) /\ Cardinality(T) = k
  BY <1>1, <1>2, <1>3, FS_Surjection
<1> QED
  BY <1>4 DEF T

(* Some numbers have a least one. *)
LEMMA LeastIs ==
    ASSUME NEW s, s \subseteq Nat, s # {}
    PROVE  Min(s) \in s /\ \A y \in s : Min(s) <= y
<1>1. PICK x \in s : \A y \in s : ~ (<<y, x>> \in OpToRel(<, Nat))
  BY NatLessThanWellFounded, WFMin
<1>2. \A y \in s : ~ (y < x)
  BY <1>1, LessThan
<1>3. \A y \in s : x <= y
  BY <1>2
<1> QED
  BY <1>3 DEF Min

(* NthOf is the number the segments have. *)
LEMMA NthIs ==
    ASSUME NEW rs \in Seq(CodexRows), NEW S, NEW segments, Numbers(rs, S, segments), {} \notin segments
    PROVE  Cardinality(segments) = Len(S) /\ \A i \in DOMAIN S : NthOf(segments, i) = S[i]
<1> DEFINE N == Len(S)
<1>1. /\ N \in Nat /\ DOMAIN S = 1 .. N /\ segments = {S[i] : i \in 1 .. N}
      /\ \A i \in 1 .. N : S[i] \subseteq Nat /\ S[i] # {}
  <2>1. S \in Seq(SUBSET (DOMAIN rs)) /\ {S[i] : i \in DOMAIN S} = segments
    BY DEF Numbers
  <2>2. DOMAIN rs \subseteq Nat
    OBVIOUS
  <2>3. N \in Nat /\ DOMAIN S = 1 .. N
    BY <2>1
  <2>4. \A i \in 1 .. N : S[i] \subseteq DOMAIN rs
    BY <2>1, <2>3
  <2> QED
    BY <2>1, <2>2, <2>3, <2>4
<1>2. \A i, j \in 1 .. N : i < j => \A a \in S[i] : \A c \in S[j] : a < c
  BY <1>1 DEF Numbers
<1> HIDE DEF N
<1>3. \A i \in 1 .. N : Min(S[i]) \in S[i] /\ Min(S[i]) \in Nat
  BY <1>1, LeastIs
<1>4. \A i, j \in 1 .. N : i < j => Min(S[i]) < Min(S[j])
  BY <1>2, <1>3
<1>5. \A i, j \in 1 .. N : Min(S[i]) < Min(S[j]) <=> i < j
  BY <1>1, <1>3, <1>4, SMTT(40)
<1>6. \A i, j \in 1 .. N : S[i] = S[j] => i = j
  BY <1>1, <1>3, <1>4
<1>7. Cardinality(segments) = N
  BY <1>1, <1>6, Enumerated
<1>8. ASSUME NEW i \in 1 .. N
      PROVE  Cardinality({t \in segments : Min(t) < Min(S[i])}) = i - 1
  <2> DEFINE before == {t \in segments : Min(t) < Min(S[i])}
             f == [j \in 1 .. i - 1 |-> S[j]]
  <2>1. i - 1 \in Nat /\ \A j : j \in 1 .. i - 1 <=> j \in 1 .. N /\ j < i
    BY <1>1
  <2>2. before = {S[j] : j \in 1 .. i - 1}
    BY <1>1, <1>5, <2>1
  <2>3. before = {f[j] : j \in 1 .. i - 1}
    BY <2>2
  <2>4. DOMAIN f = 1 .. i - 1 /\ \A j, k \in 1 .. i - 1 : f[j] = f[k] => j = k
    BY <1>6, <2>1
  <2> HIDE DEF f, before
  <2>5. Cardinality(before) = i - 1
    BY <2>1, <2>3, <2>4, Enumerated
  <2> QED
    BY <2>5 DEF before
<1>9. ASSUME NEW i \in 1 .. N PROVE NthOf(segments, i) = S[i]
  <2> DEFINE count(s) == Cardinality({t \in segments : Min(t) < Min(s)})
  <2>1. \A j \in 1 .. N : count(S[j]) = j - 1
    BY <1>8
  <2> HIDE DEF count
  <2>2. S[i] \in segments /\ count(S[i]) = i - 1
    BY <1>1, <2>1
  <2>3. ASSUME NEW s \in segments, count(s) = i - 1 PROVE s = S[i]
    <3>1. PICK j \in 1 .. N : s = S[j]
      BY <1>1
    <3>2. j - 1 = i - 1
      BY <2>1, <2>3, <3>1
    <3> QED
      BY <1>1, <3>1, <3>2
  <2>4. (CHOOSE s \in segments : count(s) = i - 1) = S[i]
    BY <2>2, <2>3
  <2> QED
    BY <2>4 DEF NthOf, count
<1> QED
  BY <1>1, <1>7, <1>9 DEF N

-----------------------------------------------------------------------------
(* The turn that was open is stored with its project. *)
LEMMA FlushHomed ==
    ASSUME NEW c \in CodexSession, Homed(c), NEW turns, NEW kept \in BOOLEAN, kept => c.current # None,
           turns = IF kept THEN Append(c.turns, CodexFinish(c.current)) ELSE c.turns
    PROVE  \A i \in DOMAIN turns : turns[i].project.path # ""
<1>1. CASE ~kept
  BY <1>1 DEF Homed
<1>2. CASE kept
  <2> DEFINE t == CodexFinish(c.current)
             s == c.turns
  <2>1. c.current # None /\ turns = Append(s, t)
    BY <1>2
  <2>2. c.current \in CodexBuilder /\ s \in Seq(CodexTurnType)
    BY <2>1, CodexFields
  <2>3. t.project = c.current.turn.project /\ t \in CodexTurnType
    BY <2>2, FinishIs
  <2>4. t.project.path # "" /\ \A i \in DOMAIN s : s[i].project.path # ""
    BY <2>1, <2>3 DEF Homed
  <2> HIDE DEF t, s
  <2>5. /\ DOMAIN Append(s, t) = 1 .. Len(s) + 1 /\ Append(s, t)[Len(s) + 1] = t
        /\ \A i \in 1 .. Len(s) : Append(s, t)[i] = s[i]
    BY <2>2, <2>3, AppendIs
  <2>6. DOMAIN s = 1 .. Len(s) /\ Len(s) \in Nat
    BY <2>2
  <2>7. \A i \in 1 .. Len(s) + 1 : i = Len(s) + 1 \/ i \in 1 .. Len(s)
    BY <2>6, UpToLast
  <2> QED
    BY <2>1, <2>4, <2>5, <2>6, <2>7
<1> QED
  BY <1>1, <1>2

(* What ParseEvents returns. *)
LEMMA CodexSessionIs ==
    ASSUME NEW c
    PROVE  LET f == CodexFlush(c)
               s == CodexParsed(c)
           IN s.turns = f.turns /\ s.tokens = TokensOf(f.turns) /\ s.errors = f.errors /\ s.window = f.window
<1> DEFINE f == CodexFlush(c)
           T == f.turns
           base == [external |-> f.external, parent |-> f.parent, isSubagent |-> f.isSubagent,
                    window |-> f.window, errors |-> f.errors]
           calls == FoldLeft(LAMBDA n, t : n + Len(t.calls), 0, T)
           status == IF T = <<>> THEN "unknown" ELSE "completed"
           sums == [turns |-> T, tokens |-> TokensOf(T), toolCalls |-> calls, status |-> status]
           s == CodexParsed(c)
<1>1. s = Over(base, sums)
  BY DEF CodexParsed, FinalizeSession
<1> HIDE DEF s, T, calls, status, f
<1>2. /\ DOMAIN base = {"external", "parent", "isSubagent", "window", "errors"}
      /\ DOMAIN sums = {"turns", "tokens", "toolCalls", "status"}
      /\ base.errors = f.errors /\ base.window = f.window
      /\ sums.turns = T /\ sums.tokens = TokensOf(T)
  OBVIOUS
<1> HIDE DEF base, sums
<1>3. s.errors = f.errors /\ s.window = f.window
  BY <1>1, <1>2, OverFirst
<1>4. s.turns = T /\ s.tokens = TokensOf(T)
  BY <1>1, <1>2, OverSecond
<1> QED
  BY <1>3, <1>4 DEF T, s, f

-----------------------------------------------------------------------------
(* What is returned *)

(* The turns a rollout ends with, once the open one is closed. *)
LEMMA EndStored ==
    ASSUME NEW c, NEW rs, CodexStanding(c, rs)
    PROVE  LET f == CodexFlush(c)
           IN /\ f \in CodexSession /\ f.current = None /\ f.errors = c.errors
              /\ \E S : TurnsStored(rs, f.turns, S, Segments(rs), f.window.ended)
              /\ Homes(rs) => \A i \in DOMAIN f.turns : f.turns[i].project.path # ""
              /\ Located(f, rs)
<1> DEFINE f == CodexFlush(c)
           rows == OpenRows(rs)
           closed == ClosedSegments(rs)
           kept == c.current # None /\ rows \cap Matter(rs) # {}
<1>1. /\ rs \in Seq(CodexRows) /\ Heard(c, rs, rows, closed) /\ (c.current = None <=> Openings(rs) = {})
      /\ c \in CodexSession /\ Located(c, rs) /\ (Homes(rs) => Homed(c))
  BY DEF CodexStanding, Heard
<1>2. /\ Segments(rs) = closed \cup OpenSegment(rs) /\ (\A s \in closed : \A a \in s : \A b \in rows : a < b)
      /\ rows \subseteq DOMAIN rs
  BY <1>1, SegmentsAre
<1>3. closed \cup (IF kept THEN {rows} ELSE {}) = Segments(rs)
  <2>1. Openings(rs) = {} => rows = {}
    BY DEF OpenRows, InTurn
  <2>2. OpenSegment(rs) = IF kept THEN {rows} ELSE {}
    BY <1>1, <2>1 DEF OpenSegment
  <2> QED
    BY <1>2, <2>2
<1> HIDE DEF rows, closed
<1>4. /\ f \in CodexSession /\ f.current = None /\ f.window = c.window /\ f.errors = c.errors
      /\ f.turns = IF kept THEN Append(c.turns, CodexFinish(c.current)) ELSE c.turns
      /\ c.current # None => (CodexEmpty(c.current) <=> ~kept)
      /\ \E S : TurnsStored(rs, f.turns, S, closed \cup (IF kept THEN {rows} ELSE {}), f.window.ended)
  <2>1. LET g == CodexFlush(c)
            k == c.current # None /\ rows \cap Matter(rs) # {}
        IN /\ g \in CodexSession /\ g.current = None /\ g.window = c.window /\ g.errors = c.errors
           /\ g.project = c.project /\ g.seenTurnContext = c.seenTurnContext /\ g.contextWindow = c.contextWindow
           /\ g.turns = IF k THEN Append(c.turns, CodexFinish(c.current)) ELSE c.turns
           /\ c.current # None => (CodexEmpty(c.current) <=> ~k)
           /\ \E S : TurnsStored(rs, g.turns, S, closed \cup (IF k THEN {rows} ELSE {}), g.window.ended)
    BY <1>1, <1>2, FlushHeard
  <2> QED
    BY <2>1, Zenon
<1>5. kept \in BOOLEAN /\ (kept => c.current # None)
  OBVIOUS
<1> HIDE DEF f, kept
<1>6. SitesSame(c, f)
  BY <1>1, <1>4, <1>5, FlushSites
<1>7. Homes(rs) => \A i \in DOMAIN f.turns : f.turns[i].project.path # ""
  BY <1>1, <1>4, <1>5, FlushHomed
<1>8. Located(f, rs)
  <2>1. \A k \in Among(rs, Outputs) \cap InTurn(rs) : k \in Nat
    BY <1>1 DEF Among
  <2> QED
    BY <1>1, <1>6, <2>1 DEF Located, SitesSame
<1>9. \E S : TurnsStored(rs, f.turns, S, Segments(rs), f.window.ended)
  BY <1>3, <1>4
<1> QED
  BY <1>4, <1>7, <1>8, <1>9 DEF f

(* A turn that is stored is what its rows say. *)
LEMMA StoredFaithful ==
    ASSUME NEW rs, NEW t, NEW rows, Stored(rs, t, rows) PROVE TurnFaithful(rs, t, rows)
<1>1. ASSUME NEW j \in DOMAIN t.calls, t.calls[j].raw # <<>>
      PROVE  t.calls[j].raw[1] \in rows \cap Among(rs, Outputs) /\ rs[t.calls[j].raw[1]].call = t.calls[j].use
  <2>1. PICK k \in rows \cap Among(rs, Outputs) : t.calls[j].raw = <<k>> /\ rs[k].call = t.calls[j].use
    BY <1>1 DEF Stored, Answered
  <2>2. t.calls[j].raw[1] = k
    BY <2>1
  <2> QED
    BY <2>1, <2>2
<1> QED
  BY <1>1 DEF Stored, TurnFaithful

(* The calls the output in the n-th row completed. *)
CompletedBy(turns, n) ==
    {c \in UNION {{<<i, j>> : j \in DOMAIN turns[i].calls} : i \in DOMAIN turns} :
        turns[c[1]].calls[c[2]].raw = <<n>>}
(* The errors that name it. *)
NamedBy(errors, n) == {i \in DOMAIN errors : errors[i] = <<n>>}

(* An output of a row that is at one place completes one call or is one error. *)
LEMMA OneSiteCounts ==
    ASSUME NEW f \in CodexSession, f.current = None, NEW n \in Nat, OneSite(f, n),
           NEW turns, turns = f.turns, NEW errors, errors = f.errors
    PROVE  Cardinality(CompletedBy(turns, n)) + Cardinality(NamedBy(errors, n)) = 1
<1> DEFINE T == turns
           E == errors
           raw == <<n>>
           pairs == UNION {{<<i, j>> : j \in DOMAIN T[i].calls} : i \in DOMAIN T}
           calls == {c \in pairs : T[c[1]].calls[c[2]].raw = raw}
           reports == {i \in DOMAIN E : E[i] = raw}
<1>1. /\ T \in Seq(CodexTurnType) /\ E \in Seq(Seq(Nat)) /\ OpenTurns(f) = T
  BY CodexFields DEF OpenTurns
<1>2. /\ \A i \in DOMAIN T : i \in Nat /\ i # 0 /\ \A j \in DOMAIN T[i].calls : j \in Nat
      /\ \A i \in DOMAIN E : i \in Nat
  <2>1. \A i \in DOMAIN T : i \in Nat /\ i # 0 /\ T[i] \in CodexTurnType
    BY <1>1
  <2>2. \A i \in DOMAIN T : T[i].calls \in Seq(CodexCallType)
    BY <2>1, CodexTurnFields
  <2>3. \A i \in DOMAIN T : \A j \in DOMAIN T[i].calls : j \in Nat
    <3> SUFFICES ASSUME NEW i \in DOMAIN T, NEW j \in DOMAIN T[i].calls PROVE j \in Nat
      OBVIOUS
    <3> DEFINE s == T[i].calls
    <3>1. s \in Seq(CodexCallType)
      BY <2>2
    <3> HIDE DEF s
    <3>2. DOMAIN s \subseteq Nat
      BY <3>1
    <3> QED
      BY <3>2 DEF s
  <2> QED
    BY <1>1, <2>1, <2>3
<1>3. PICK o : Sites(f, n) = {o}
  BY DEF OneSite
<1>4. \A x : x \in Sites(f, n) <=> x \in Nat \X Nat /\ (CallAt(f, x[1], x[2], raw) \/ ErrorAt(f, x[1], x[2], raw))
  BY DEF Sites
<1>5. \A i, j : CallAt(f, i, j, raw) <=> i \in DOMAIN T /\ j \in DOMAIN T[i].calls /\ T[i].calls[j].raw = raw
  BY <1>1 DEF CallAt
<1>6. \A i, j : ErrorAt(f, i, j, raw) <=> i = 0 /\ j \in DOMAIN E /\ E[j] = raw
  BY DEF ErrorAt
<1>7. \A c : c \in pairs <=> \E i \in DOMAIN T : \E j \in DOMAIN T[i].calls : c = <<i, j>>
  OBVIOUS
<1> HIDE DEF T, E, raw, pairs
<1>8. o \in Nat \X Nat /\ o = <<o[1], o[2]>> /\ (CallAt(f, o[1], o[2], raw) \/ ErrorAt(f, o[1], o[2], raw))
  <2>1. o \in Sites(f, n)
    BY <1>3
  <2>2. o \in Nat \X Nat /\ (CallAt(f, o[1], o[2], raw) \/ ErrorAt(f, o[1], o[2], raw))
    BY <1>4, <2>1
  <2> QED
    BY <2>2
<1>9. \A c : c \in calls <=> \E i \in DOMAIN T : \E j \in DOMAIN T[i].calls : c = <<i, j>> /\ T[i].calls[j].raw = raw
  <2> SUFFICES ASSUME NEW c
               PROVE  c \in calls <=> \E i \in DOMAIN T : \E j \in DOMAIN T[i].calls : c = <<i, j>> /\ T[i].calls[j].raw = raw
    BY Zenon
  <2>1. c \in calls <=> c \in pairs /\ T[c[1]].calls[c[2]].raw = raw
    OBVIOUS
  <2>2. \A i, j : c = <<i, j>> => c[1] = i /\ c[2] = j
    OBVIOUS
  <2> HIDE DEF calls
  <2> QED
    BY <1>7, <2>1, <2>2
<1>10. \A c \in calls : c = o
  <2> SUFFICES ASSUME NEW c \in calls PROVE c = o
    OBVIOUS
  <2>1. PICK i \in DOMAIN T : \E j \in DOMAIN T[i].calls : c = <<i, j>> /\ T[i].calls[j].raw = raw
    BY <1>9
  <2>2. PICK j \in DOMAIN T[i].calls : c = <<i, j>> /\ T[i].calls[j].raw = raw
    BY <2>1
  <2>3. CallAt(f, i, j, raw) /\ i \in Nat /\ j \in Nat
    BY <1>2, <1>5, <2>2
  <2>4. c \in Nat \X Nat /\ c[1] = i /\ c[2] = j
    BY <2>2, <2>3
  <2>5. c \in Sites(f, n)
    BY <1>4, <2>3, <2>4
  <2> QED
    BY <1>3, <2>5
<1>11. \A i \in reports : <<0, i>> = o
  <2> SUFFICES ASSUME NEW i \in DOMAIN E, E[i] = raw PROVE <<0, i>> = o
    OBVIOUS
  <2> DEFINE x == <<0, i>>
  <2>1. x \in Nat \X Nat /\ x[1] = 0 /\ x[2] = i
    BY <1>2
  <2>2. ErrorAt(f, x[1], x[2], raw)
    BY <1>6, <2>1
  <2> HIDE DEF x
  <2>3. x \in Sites(f, n)
    BY <1>4, <2>1, <2>2
  <2> QED
    BY <1>3, <2>3 DEF x
<1>12. Cardinality({}) = 0 /\ Cardinality({o}) = 1 /\ Cardinality({o[2]}) = 1
  BY FS_EmptySet, FS_Singleton
<1> HIDE DEF calls
<1>13. CASE CallAt(f, o[1], o[2], raw)
  <2>1. o \in calls /\ o[1] # 0
    BY <1>2, <1>5, <1>8, <1>9, <1>13
  <2>2. calls = {o}
    BY <1>10, <2>1
  <2>3. reports = {}
    <3>1. \A i \in reports : o[1] = 0
      <4> HIDE DEF reports
      <4> QED
        BY <1>11
    <3> QED
      BY <2>1, <3>1
  <2> HIDE DEF reports
  <2>4. Cardinality(calls) + Cardinality(reports) = 1
    BY <1>12, <2>2, <2>3
  <2> QED
    BY <2>4, Zenon DEF CompletedBy, NamedBy, calls, reports, T, E, raw, pairs
<1>14. CASE ErrorAt(f, o[1], o[2], raw)
  <2>1. o[1] = 0 /\ o[1] \notin DOMAIN T /\ o[2] \in reports
    BY <1>2, <1>6, <1>14
  <2>2. calls = {}
    <3>1. \A c \in calls : c[1] \in DOMAIN T
      BY <1>9
    <3> QED
      BY <1>10, <2>1, <3>1
  <2>3. reports = {o[2]}
    <3>1. \A i \in reports : i = o[2]
      <4> HIDE DEF reports
      <4> QED
        BY <1>11
    <3> QED
      BY <2>1, <3>1
  <2> HIDE DEF reports
  <2>4. Cardinality(calls) + Cardinality(reports) = 1
    BY <1>12, <2>2, <2>3
  <2> QED
    BY <2>4, Zenon DEF CompletedBy, NamedBy, calls, reports, T, E, raw, pairs
<1> QED
  BY <1>8, <1>13, <1>14

(* What ParseEvents returns accounts for the rollout, for any rows. *)
LEMMA CodexStandingFaithful == CodexStanding(codex, rollout) => CodexFaithful
<1> SUFFICES ASSUME CodexStanding(codex, rollout) PROVE CodexFaithful
  OBVIOUS
<1> DEFINE f == CodexFlush(codex)
           session == CodexParsed(codex)
           T == session.turns
           segments == Segments(rollout)
<1>1. /\ T = f.turns /\ session.tokens = TokensOf(T) /\ session.errors = f.errors
      /\ session.window = f.window
  BY CodexSessionIs
<1>2. /\ f \in CodexSession /\ f.current = None
      /\ \E S : TurnsStored(rollout, f.turns, S, segments, f.window.ended)
      /\ Homes(rollout) => \A i \in DOMAIN f.turns : f.turns[i].project.path # ""
      /\ Located(f, rollout)
  BY EndStored
<1> HIDE DEF f, session, T, segments
<1>3. rollout \in Seq(CodexRows)
  BY DEF CodexStanding
<1>4. PICK S : TurnsStored(rollout, T, S, segments, f.window.ended)
  BY <1>1, <1>2
<1>5. /\ Numbers(rollout, S, segments) /\ Len(S) = Len(T) /\ TokensOf(T) = SpentIn(rollout, UNION segments)
      /\ T \in Seq(CodexTurnType)
      /\ \A i \in DOMAIN T : Stored(rollout, T[i], S[i]) /\ T[i].index = i /\ T[i].ended <= f.window.ended
  BY <1>4 DEF TurnsStored
<1>6. DOMAIN S = DOMAIN T
  <2>1. S \in Seq(SUBSET (DOMAIN rollout))
    BY <1>5 DEF Numbers
  <2> QED
    BY <1>5, <2>1
<1>7. {} \notin segments
  BY <1>3, SegmentsAre DEF segments
<1>8. Cardinality(segments) = Len(S) /\ \A i \in DOMAIN S : NthOf(segments, i) = S[i]
  BY <1>3, <1>5, <1>7, NthIs
<1>9. session.tokens = SpentIn(rollout, UNION segments) /\ Len(T) = Cardinality(segments)
  BY <1>1, <1>5, <1>8
<1>10. ASSUME NEW i \in DOMAIN T
       PROVE  /\ T[i].index = i /\ T[i].ended <= session.window.ended
              /\ TurnFaithful(rollout, T[i], NthOf(segments, i))
              /\ (\E r \in OfType("session_meta") : r.cwd # "" /\ Among(rollout, {r}) # {}) => T[i].project.path # ""
  <2>1. TurnFaithful(rollout, T[i], NthOf(segments, i))
    BY <1>5, <1>6, <1>8, StoredFaithful
  <2>2. (\E r \in OfType("session_meta") : r.cwd # "" /\ Among(rollout, {r}) # {}) => T[i].project.path # ""
    BY <1>1, <1>2 DEF Homes
  <2>3. T[i].index = i /\ T[i].ended <= session.window.ended
    BY <1>1, <1>5
  <2> QED
    BY <2>1, <2>2, <2>3
<1>11. ASSUME NEW n \in Among(rollout, Outputs) \cap InTurn(rollout)
       PROVE  LET calls == {c \in UNION {{<<i, j>> : j \in DOMAIN T[i].calls} : i \in DOMAIN T} :
                               T[c[1]].calls[c[2]].raw = <<n>>}
              IN Cardinality(calls) + Cardinality({i \in DOMAIN session.errors : session.errors[i] = <<n>>}) = 1
  <2>1. n \in Nat
    BY <1>3 DEF Among
  <2>2. OneSite(f, n)
    BY <1>2, Zenon DEF Located, OneSite
  <2> DEFINE E == session.errors
  <2>3. E = f.errors
    BY <1>1
  <2> HIDE DEF E
  <2>4. Cardinality(CompletedBy(T, n)) + Cardinality(NamedBy(E, n)) = 1
    BY <1>1, <1>2, <2>1, <2>2, <2>3, OneSiteCounts
  <2> QED
    BY <2>4, Zenon DEF CompletedBy, NamedBy, E
<1> QED
  BY <1>9, <1>10, <1>11, Zenon DEF CodexFaithful, session, segments, T

-----------------------------------------------------------------------------
(* Whatever the order of a rollout's rows, parser/codex/parser.go stores each turn in which something was said  *)
(* or done once, with the usage, the status and the project its rows say, and every output completes the call   *)
(* of its id or is one parse error.                                                                            *)
THEOREM CodexFaithfulAlways == CodexSpec => []CodexFaithful
<1>1. CodexInit => CodexStanding(codex, rollout)
  BY NoCodexStands DEF CodexInit
<1>2. CodexStanding(codex, rollout) /\ [ReadCodexRow]_codexVars => CodexStanding(codex, rollout)'
  <2> SUFFICES ASSUME CodexStanding(codex, rollout), [ReadCodexRow]_codexVars PROVE CodexStanding(codex', rollout')
    BY DEF CodexStanding, Heard, TurnsStored, Numbers, Building, Stored, Says, Answered, CallsFound, ProgressSaid,
           Homes, Homed, Located, Sites, CallAt, ErrorAt, OpenTurns, AllTokens, OpenRows, ClosedSegments, Matter,
           StatusSaid
  <2>1. CASE UNCHANGED codexVars
    BY <2>1 DEF codexVars
  <2>2. CASE ReadCodexRow
    <3>1. PICK r \in CodexRows : rollout' = Append(rollout, r) /\ codex' = ReadCodex(codex, r, <<Len(rollout) + 1>>)
      BY <2>2 DEF ReadCodexRow
    <3> DEFINE n == Len(rollout) + 1
               m == rollout'
               q == codex'
    <3>2. RowsGrown(rollout, r, m, n)
      BY <3>1 DEF CodexStanding, RowsGrown
    <3>3. q = ReadCodex(codex, r, <<n>>)
      BY <3>1
    <3> HIDE DEF n, m, q
    <3>4. CodexStanding(q, m)
      BY <3>2, <3>3, RowStands
    <3> QED
      BY <3>4 DEF q, m
  <2> QED
    BY <2>1, <2>2
<1> QED
  BY <1>1, <1>2, CodexStandingFaithful, PTL DEF CodexSpec

-----------------------------------------------------------------------------
(* Where turns start *)

(* A row of opencode's as it is read. *)
OpencodeEvent == [row : OpencodeRows, raw : Nat \X Nat]

(* Its fields. *)
LEMMA EventFields ==
    ASSUME NEW es \in Seq(OpencodeEvent), NEW i \in DOMAIN es
    PROVE  /\ i \in Nat /\ i > 0 /\ i <= Len(es) /\ es[i].row \in OpencodeRows /\ es[i].raw \in Nat \X Nat
           /\ es[i].row.data \in BOOLEAN /\ es[i].row.text \in Seq(STRING) /\ es[i].row.synthetic \in BOOLEAN
           /\ es[i].row.when \in Nat
<1>1. i \in Nat /\ i > 0 /\ i <= Len(es) /\ es[i] \in OpencodeEvent
  OBVIOUS
<1>2. es[i].row \in OpencodeRows /\ es[i].raw \in Nat \X Nat
  BY <1>1 DEF OpencodeEvent
<1> QED
  BY <1>1, <1>2 DEF OpencodeRows

(* The rows of some kinds up to n. *)
KindsBy(es, kinds, n) == {j \in Kinds(es, kinds) : j <= n}

(* They are those up to the row before, and the row itself if it is of them. *)
LEMMA KindsGrow ==
    ASSUME NEW es \in Seq(OpencodeEvent), NEW n \in DOMAIN es, NEW kinds
    PROVE  /\ KindsBy(es, kinds, n) = KindsBy(es, kinds, n - 1) \cup (IF es[n].row.kind \in kinds THEN {n} ELSE {})
           /\ KindsBy(es, kinds, n - 1) \subseteq 1 .. n - 1 /\ KindsBy(es, kinds, n) \subseteq 1 .. n
           /\ n \in Nat /\ n - 1 \in Nat
<1>1. n \in Nat /\ n > 0 /\ \A j \in DOMAIN es : j \in Nat /\ j > 0
  BY EventFields
<1>2. \A j \in DOMAIN es : j <= n <=> j <= n - 1 \/ j = n
  BY <1>1
<1> QED
  BY <1>1, <1>2 DEF KindsBy, Kinds

(* A message of the user's starts a turn, and an answer if none has started; every other row is in the *)
(* turn of the row before it.                                                                          *)
LEMMA StartNext ==
    ASSUME NEW es \in Seq(OpencodeEvent), NEW n \in DOMAIN es
    PROVE  StartOf(es, n) =
               IF es[n].row.kind = "user" \/ (es[n].row.kind = "assistant" /\ StartOf(es, n - 1) = 0) THEN n
               ELSE StartOf(es, n - 1)
<1> DEFINE U(m) == KindsBy(es, {"user"}, m)
           A(m) == KindsBy(es, {"assistant"}, m)
<1>1. \A m : StartOf(es, m) = IF U(m) # {} THEN Max(U(m)) ELSE IF A(m) # {} THEN Min(A(m)) ELSE 0
  BY DEF StartOf, KindsBy
<1>2. /\ U(n) = U(n - 1) \cup (IF es[n].row.kind \in {"user"} THEN {n} ELSE {})
      /\ U(n - 1) \subseteq 1 .. n - 1 /\ U(n) \subseteq 1 .. n /\ n \in Nat /\ n - 1 \in Nat
  BY KindsGrow
<1>3. /\ A(n) = A(n - 1) \cup (IF es[n].row.kind \in {"assistant"} THEN {n} ELSE {})
      /\ A(n - 1) \subseteq 1 .. n - 1 /\ A(n) \subseteq 1 .. n
  BY KindsGrow
<1> HIDE DEF U, A
<1>4. CASE es[n].row.kind = "user"
  <2>1. n \in U(n) /\ \A y \in U(n) : n >= y
    BY <1>2, <1>4
  <2>2. Max(U(n)) = n
    BY <1>2, <2>1, MaxIs
  <2> QED
    BY <1>1, <1>4, <2>1, <2>2
<1>5. CASE es[n].row.kind # "user"
  <2>1. U(n) = U(n - 1)
    BY <1>2, <1>5
  <2>2. CASE U(n) # {}
    <3>1. Max(U(n - 1)) \in U(n - 1)
      BY <1>2, <2>1, <2>2, GreatestOf
    <3>2. StartOf(es, n - 1) # 0 /\ StartOf(es, n) = StartOf(es, n - 1)
      BY <1>1, <1>2, <2>1, <2>2, <3>1
    <3> QED
      BY <1>5, <3>2
  <2>3. CASE U(n) = {} /\ A(n - 1) # {}
    <3>1. Min(A(n - 1)) \in A(n - 1) /\ \A y \in A(n - 1) : Min(A(n - 1)) <= y
      BY <1>2, <1>3, <2>3, LeastOf
    <3>2. Min(A(n)) \in A(n) /\ \A y \in A(n) : Min(A(n)) <= y
      BY <1>2, <1>3, <2>3, LeastOf
    <3>3. \A y \in A(n - 1) : y \in Nat /\ y < n /\ y > 0
      BY <1>2, <1>3
    <3>4. A(n - 1) \subseteq A(n) /\ \A y \in A(n) : y \in A(n - 1) \/ y = n
      BY <1>3
    <3>5. \A a, b \in A(n) : a \in A(n - 1) /\ (\A y \in A(n - 1) : a <= y) /\ (\A y \in A(n) : b <= y) => b = a
      <4> SUFFICES ASSUME NEW a \in A(n), NEW b \in A(n), a \in A(n - 1), \A y \in A(n - 1) : a <= y,
                          \A y \in A(n) : b <= y
                   PROVE  b = a
        OBVIOUS
      <4>1. a \in Nat /\ a < n /\ b <= a
        BY <3>3
      <4>2. CASE b = n
        BY <1>2, <4>1, <4>2
      <4>3. CASE b \in A(n - 1)
        BY <3>3, <4>1, <4>3
      <4> QED
        BY <3>4, <4>2, <4>3
    <3>6. Min(A(n)) = Min(A(n - 1))
      BY <3>1, <3>2, <3>4, <3>5
    <3>7. Min(A(n - 1)) # 0
      BY <3>1, <3>3
    <3>8. StartOf(es, n - 1) = Min(A(n - 1)) /\ StartOf(es, n) = Min(A(n))
      BY <1>1, <2>1, <2>3, <3>2
    <3> QED
      BY <1>5, <3>6, <3>7, <3>8
  <2>4. CASE U(n) = {} /\ A(n - 1) = {} /\ es[n].row.kind = "assistant"
    <3>1. A(n) = {n}
      BY <1>3, <2>4
    <3>2. Min(A(n)) \in A(n)
      BY <1>2, <1>3, <3>1, LeastOf
    <3> QED
      BY <1>1, <2>1, <2>4, <3>1, <3>2
  <2>5. CASE U(n) = {} /\ A(n - 1) = {} /\ es[n].row.kind # "assistant"
    BY <1>1, <1>3, <1>5, <2>1, <2>5
  <2> QED
    BY <2>2, <2>3, <2>4, <2>5
<1> QED
  BY <1>4, <1>5

(* Before the first row no turn has started. *)
LEMMA StartNone == ASSUME NEW es \in Seq(OpencodeEvent) PROVE StartOf(es, 0) = 0
<1>1. \A kinds : {j \in Kinds(es, kinds) : j <= 0} = {}
  BY EventFields DEF Kinds
<1> QED
  BY <1>1 DEF StartOf

(* A turn starts at or before its rows, its first row starts it, and later rows start no earlier. *)
LEMMA StartsAscend ==
    ASSUME NEW es \in Seq(OpencodeEvent), NEW n \in 0 .. Len(es)
    PROVE  /\ StartOf(es, n) \in 0 .. n /\ StartOf(es, StartOf(es, n)) = StartOf(es, n)
           /\ \A j \in 0 .. n : StartOf(es, j) <= StartOf(es, n)
<1> DEFINE N == Len(es)
           start == [i \in 0 .. N |-> StartOf(es, i)]
           P == {i \in 0 .. N : /\ start[i] \in 0 .. i /\ start[start[i]] = start[i]
                                /\ \A j \in 0 .. i : start[j] \in Nat /\ start[j] <= start[i]}
<1>1. N \in Nat /\ DOMAIN es = 1 .. N /\ start[0] = 0
  BY StartNone
<1>2. ASSUME NEW i \in 1 .. N PROVE start[i] = start[i - 1] \/ start[i] = i
  BY <1>1, StartNext
<1> HIDE DEF start, N
<1>3. 0 \in P
  BY <1>1
<1>4. ASSUME NEW i \in 1 .. N, i - 1 \in P PROVE i \in P
  <2>1. /\ i \in Nat /\ i - 1 \in Nat /\ start[i - 1] \in 0 .. i - 1 /\ start[start[i - 1]] = start[i - 1]
        /\ \A j \in 0 .. i - 1 : start[j] \in Nat /\ start[j] <= start[i - 1]
    BY <1>1, <1>4
  <2>2. \A j \in 0 .. i : j = i \/ j \in 0 .. i - 1
    BY <2>1
  <2>3. start[i] \in 0 .. i /\ start[i - 1] <= start[i]
    BY <1>2, <2>1
  <2>4. start[start[i]] = start[i]
    BY <1>2, <2>1
  <2>5. ASSUME NEW j \in 0 .. i PROVE start[j] \in Nat /\ start[j] <= start[i]
    BY <2>1, <2>2, <2>3
  <2> QED
    BY <2>3, <2>4, <2>5
<1> HIDE DEF P
<1>5. \A i \in 0 .. N : i \in P
  BY <1>1, <1>3, <1>4, UpTo
<1>6. n \in P /\ n \in 0 .. N
  BY <1>5 DEF N
<1>7. start[n] \in 0 .. n /\ start[start[n]] = start[n] /\ \A j \in 0 .. n : start[j] <= start[n]
  BY <1>6 DEF P
<1>8. \A j \in 0 .. n : j \in 0 .. N /\ start[j] = StartOf(es, j)
  BY <1>1, <1>6 DEF start
<1>9. n \in 0 .. n /\ start[n] = StartOf(es, n)
  BY <1>1, <1>6, <1>8
<1>10. start[start[n]] = StartOf(es, StartOf(es, n))
  BY <1>7, <1>8, <1>9
<1> QED
  BY <1>7, <1>8, <1>9, <1>10

-----------------------------------------------------------------------------
(* Rows in their order *)

(* g lists some rows, in their order. *)
InRowOrder(g, rows) ==
    /\ g \in Seq(Nat) /\ rows = {g[k] : k \in DOMAIN g}
    /\ \A j, k \in DOMAIN g : j < k => g[j] < g[k]

(* No rows are listed by the empty sequence. *)
LEMMA NumberedNone == InRowOrder(<<>>, {})
BY DEF InRowOrder

(* A later row is the last of the list. *)
LEMMA NumberedNext ==
    ASSUME NEW g, NEW rows, InRowOrder(g, rows), NEW n \in Nat, \A i \in rows : i < n
    PROVE  InRowOrder(Append(g, n), rows \cup {n})
<1> DEFINE N == Len(g)
           h == Append(g, n)
<1>1. g \in Seq(Nat) /\ rows = {g[k] : k \in DOMAIN g} /\ \A j, k \in DOMAIN g : j < k => g[j] < g[k]
  BY DEF InRowOrder
<1>2. /\ N \in Nat /\ DOMAIN g = 1 .. N /\ DOMAIN h = 1 .. N + 1 /\ h \in Seq(Nat) /\ h[N + 1] = n
      /\ \A k \in 1 .. N : h[k] = g[k] /\ g[k] \in rows
  BY <1>1
<1> HIDE DEF N, h
<1>3. \A k \in 1 .. N + 1 : k = N + 1 \/ k \in 1 .. N
  BY <1>2, UpToLast
<1>4. {h[k] : k \in DOMAIN h} = rows \cup {n}
  <2>1. 1 .. N \subseteq 1 .. N + 1 /\ N + 1 \in 1 .. N + 1
    BY <1>2
  <2> QED
    BY <1>1, <1>2, <1>3, <2>1
<1>5. ASSUME NEW j \in 1 .. N + 1, NEW k \in 1 .. N + 1, j < k PROVE h[j] < h[k]
  <2>1. j \in 1 .. N
    BY <1>2, <1>5
  <2>2. CASE k = N + 1
    BY <1>2, <2>1, <2>2
  <2>3. CASE k \in 1 .. N
    BY <1>1, <1>2, <1>5, <2>1, <2>3
  <2> QED
    BY <1>3, <2>2, <2>3
<1> QED
  BY <1>2, <1>4, <1>5 DEF InRowOrder, h

(* The k-th of the rows is the k-th of the list. *)
LEMMA NthRowIs ==
    ASSUME NEW g, NEW rows, InRowOrder(g, rows)
    PROVE  /\ Cardinality(rows) = Len(g)
           /\ \A k \in DOMAIN g : NthRow(rows, k) = g[k]
<1> DEFINE N == Len(g)
<1>1. /\ N \in Nat /\ DOMAIN g = 1 .. N /\ rows = {g[k] : k \in 1 .. N}
      /\ \A k \in 1 .. N : g[k] \in Nat /\ g[k] \in rows
      /\ \A j, k \in 1 .. N : j < k => g[j] < g[k]
  BY DEF InRowOrder
<1> HIDE DEF N
<1>2. ASSUME NEW j \in 1 .. N, NEW k \in 1 .. N PROVE g[j] < g[k] <=> j < k
  <2>1. g[j] \in Nat /\ g[k] \in Nat /\ j \in Nat /\ k \in Nat
    BY <1>1
  <2>2. (j < k => g[j] < g[k]) /\ (k < j => g[k] < g[j]) /\ (j = k => g[j] = g[k])
    BY <1>1
  <2> QED
    BY <2>1, <2>2
<1>3. ASSUME NEW j \in 1 .. N, NEW k \in 1 .. N, g[j] = g[k] PROVE j = k
  <2>1. ~ (g[j] < g[k]) /\ ~ (g[k] < g[j])
    BY <1>1, <1>3
  <2>2. ~ (j < k) /\ ~ (k < j)
    BY <1>2, <2>1
  <2> QED
    BY <1>1, <2>2
<1>4. Cardinality(rows) = N
  BY <1>1, <1>3, Enumerated
<1>5. ASSUME NEW i \in 1 .. N PROVE Cardinality({j \in rows : j < g[i]}) = i - 1
  <2> DEFINE before == {j \in rows : j < g[i]}
             f == [j \in 1 .. i - 1 |-> g[j]]
  <2>1. i - 1 \in Nat /\ \A j : j \in 1 .. i - 1 <=> j \in 1 .. N /\ j < i
    BY <1>1
  <2>2. before = {g[j] : j \in 1 .. i - 1}
    <3>1. \A j \in 1 .. N : g[j] \in before <=> j < i
      BY <1>1, <1>2
    <3>2. \A x \in before : \E j \in 1 .. N : x = g[j]
      BY <1>1
    <3> HIDE DEF before
    <3> QED
      BY <2>1, <3>1, <3>2
  <2>3. before = {f[j] : j \in 1 .. i - 1}
    BY <2>2
  <2>4. DOMAIN f = 1 .. i - 1 /\ \A j, k \in 1 .. i - 1 : f[j] = f[k] => j = k
    BY <1>3, <2>1
  <2> HIDE DEF f, before
  <2>5. Cardinality(before) = i - 1
    BY <2>1, <2>3, <2>4, Enumerated
  <2> QED
    BY <2>5 DEF before
<1>6. ASSUME NEW i \in 1 .. N PROVE NthRow(rows, i) = g[i]
  <2> DEFINE count(s) == Cardinality({j \in rows : j < s})
  <2>1. \A j \in 1 .. N : count(g[j]) = j - 1
    BY <1>5
  <2> HIDE DEF count
  <2>2. g[i] \in rows /\ count(g[i]) = i - 1
    BY <1>1, <2>1
  <2>3. ASSUME NEW s \in rows, count(s) = i - 1 PROVE s = g[i]
    <3>1. PICK j \in 1 .. N : s = g[j]
      BY <1>1
    <3>2. j - 1 = i - 1
      BY <2>1, <2>3, <3>1
    <3> QED
      BY <1>1, <3>1, <3>2
  <2>4. (CHOOSE s \in rows : count(s) = i - 1) = g[i]
    BY <2>2, <2>3
  <2> QED
    BY <2>4 DEF NthRow, count
<1> QED
  BY <1>1, <1>4, <1>6 DEF N

(* The items of the rows listed by g. *)
Carries(es, items, g) == Len(items) = Len(g) /\ \A k \in DOMAIN g : items[k].raw = es[g[k]].raw

(* They are those rows in their order. *)
LEMMA CarriedRows ==
    ASSUME NEW es, NEW S, NEW items \in Seq(S), NEW g, NEW rows, InRowOrder(g, rows), Carries(es, items, g)
    PROVE  ListsRows(es, RawsOf(items), rows)
<1>1. g \in Seq(Nat) /\ DOMAIN g = 1 .. Len(g) /\ DOMAIN items = 1 .. Len(items) /\ Len(items) \in Nat
  BY DEF InRowOrder
<1>2. Cardinality(rows) = Len(g) /\ \A k \in DOMAIN g : NthRow(rows, k) = g[k]
  BY NthRowIs
<1>3. Len(items) = Len(g) /\ \A k \in DOMAIN g : items[k].raw = es[g[k]].raw
  BY DEF Carries
<1> DEFINE raws == RawsOf(items)
<1>4. DOMAIN raws = 1 .. Len(items) /\ \A k \in DOMAIN raws : raws[k] = items[k].raw
  BY <1>1 DEF RawsOf
<1>5. Len(raws) = Len(items)
  <2> HIDE DEF raws
  <2> QED
    BY <1>1, <1>4
<1> HIDE DEF raws
<1> QED
  BY <1>1, <1>2, <1>3, <1>4, <1>5 DEF ListsRows, raws

-----------------------------------------------------------------------------
(* The rows of a turn *)

(* The rows of some that are in the turn from s, up to n. *)
HereBy(es, rows, s, n) == {i \in rows : StartOf(es, i) = s /\ i <= n}

(* The n-th row joins those of its turn. *)
LEMMA HereGrows ==
    ASSUME NEW es \in Seq(OpencodeEvent), NEW n \in DOMAIN es, NEW rows \in SUBSET (DOMAIN es)
    PROVE  HereBy(es, rows, StartOf(es, n), n) =
               HereBy(es, rows, StartOf(es, n), n - 1) \cup (IF n \in rows THEN {n} ELSE {})
<1>1. n \in Nat /\ \A i \in DOMAIN es : i \in Nat
  BY EventFields
<1>2. \A i \in rows : i <= n <=> i <= n - 1 \/ i = n
  BY <1>1
<1> QED
  BY <1>1, <1>2 DEF HereBy

(* A turn has no row before its start. *)
LEMMA HereNone ==
    ASSUME NEW es \in Seq(OpencodeEvent), NEW n \in DOMAIN es, NEW rows \in SUBSET (DOMAIN es)
    PROVE  HereBy(es, rows, n, n - 1) = {}
<1> SUFFICES ASSUME NEW i \in rows, StartOf(es, i) = n, i <= n - 1 PROVE FALSE
  BY DEF HereBy
<1>1. i \in Nat /\ n \in Nat /\ i \in 0 .. Len(es)
  BY EventFields
<1>2. StartOf(es, i) \in 0 .. i
  BY <1>1, StartsAscend
<1> QED
  BY <1>1, <1>2

(* When the user's next message comes, or no row any more, the turn before has all its rows. *)
LEMMA HereAll ==
    ASSUME NEW es \in Seq(OpencodeEvent), NEW m \in 0 .. Len(es), m = Len(es) \/ StartOf(es, m + 1) = m + 1,
           NEW rows \in SUBSET (DOMAIN es)
    PROVE  HereBy(es, rows, StartOf(es, m), m) = {i \in rows : StartOf(es, i) = StartOf(es, m)}
<1> SUFFICES ASSUME NEW i \in rows, StartOf(es, i) = StartOf(es, m) PROVE i <= m
  BY DEF HereBy
<1> SUFFICES ASSUME ~ (i <= m) PROVE FALSE
  OBVIOUS
<1>1. i \in Nat /\ i \in 0 .. Len(es) /\ m \in Nat /\ i >= m + 1 /\ i <= Len(es)
  BY EventFields
<1>2. StartOf(es, m + 1) = m + 1 /\ m + 1 \in 0 .. i
  BY <1>1
<1>3. StartOf(es, m + 1) <= StartOf(es, i) /\ StartOf(es, m) \in 0 .. m
  BY <1>1, <1>2, StartsAscend
<1> QED
  BY <1>1, <1>2, <1>3

(* The starts before a new one are those before the last, and the last itself if its turn is kept. *)
LEMMA StartsGrow ==
    ASSUME NEW es \in Seq(OpencodeEvent), NEW m \in 0 .. Len(es), StartOf(es, m) # 0,
           NEW w \in Nat, w = m + 1, m = Len(es) \/ StartOf(es, w) = w
    PROVE  {s \in Starts(es) : s < w} =
               {s \in Starts(es) : s < StartOf(es, m)}
                   \cup (IF StartOf(es, m) \in Starts(es) THEN {StartOf(es, m)} ELSE {})
<1> DEFINE c == StartOf(es, m)
<1>1. m \in Nat /\ c \in 0 .. m /\ c < w
  BY StartsAscend
<1>2. ASSUME NEW s \in Starts(es), s < w PROVE s \in Nat /\ (s < c \/ s = c)
  <2>1. PICK i \in Telling(es) : s = StartOf(es, i)
    BY DEF Starts
  <2>2. i \in DOMAIN es
    BY <2>1 DEF Telling, Said, Replied, Texts, Decoded, Kinds
  <2>3. i \in 0 .. Len(es)
    BY <2>2, EventFields
  <2>4. s \in 0 .. i /\ StartOf(es, s) = s
    BY <2>1, <2>3, StartsAscend
  <2>5. s \in 0 .. m
    BY <1>1, <1>2, <2>4
  <2>6. s <= c
    BY <2>4, <2>5, StartsAscend
  <2> QED
    BY <1>1, <2>5, <2>6
<1>3. \A s \in Starts(es) : s < c => s < w
  <2> SUFFICES ASSUME NEW s \in Starts(es), s < c PROVE s < w
    OBVIOUS
  <2>1. PICK i \in Telling(es) : s = StartOf(es, i)
    BY DEF Starts
  <2>2. i \in DOMAIN es
    BY <2>1 DEF Telling, Said, Replied, Texts, Decoded, Kinds
  <2>3. i \in 0 .. Len(es)
    BY <2>2, EventFields
  <2>4. s \in 0 .. i
    BY <2>1, <2>3, StartsAscend
  <2> QED
    BY <1>1, <2>4
<1> HIDE DEF c
<1> QED
  BY <1>1, <1>2, <1>3 DEF c

-----------------------------------------------------------------------------
(* The types of the opencode parser *)

(* The answers and the calls of a turn. *)
OpencodeSteps == {OpencodeStep(e, raw) : e \in OpencodeRows, raw \in Nat \X Nat}
OpencodeCalls == {OpencodeCall(e, raw, n) : e \in OpencodeRows, raw \in Nat \X Nat, n \in Nat}
(* What FromTools finds. *)
OpencodeComponents == {{}} \cup {FromTools(calls) : calls \in Seq(OpencodeCalls)}
(* A turn. *)
OpencodeTurnType ==
    [index : Nat, project : STRING \cup {"unknown"}, user : Seq(STRING), final : Seq(STRING), started : Nat, ended : Nat,
     invocations : Seq(OpencodeSteps), calls : Seq(OpencodeCalls),
     status : {"unknown", "success", "failed", "interrupted"}, tokens : Tokens, components : OpencodeComponents]
(* The open turn. *)
OpencodeBuilder == [turn : OpencodeTurnType, role : {"", "user", "assistant"}, userParts : Seq(STRING)]
(* The state of ParseEvents. *)
OpencodeSession ==
    [external : STRING \cup {""}, title : STRING \cup {""}, project : STRING \cup {"unknown"},
     parent : STRING \cup {""}, isSubagent : BOOLEAN, window : [started : Nat, ended : Nat],
     turns : Seq(OpencodeTurnType), current : {None} \cup OpencodeBuilder, errors : Seq(Nat \X Nat)]

(* What a message costs is a count. *)
LEMMA MessageTokensType == ASSUME NEW e \in OpencodeRows PROVE MessageTokens(e) \in Tokens
<1>1. e.usage \in Tokens /\ e.reasoning \in Nat
  BY DEF OpencodeRows, Tokens
<1> DEFINE u == e.usage
<1>2. u \in Tokens
  BY <1>1
<1>3. MessageTokens(e) = [u EXCEPT !.output = u.output + e.reasoning]
  BY DEF MessageTokens
<1> HIDE DEF u
<1> QED
  BY <1>1, <1>2, <1>3 DEF Tokens, NoTokens

(* An answer has its counts and its row. *)
LEMMA StepIs ==
    ASSUME NEW e \in OpencodeRows, NEW raw \in Nat \X Nat
    PROVE  LET x == OpencodeStep(e, raw)
           IN /\ x \in OpencodeSteps /\ x.tokens = MessageTokens(e) /\ x.raw = raw
              /\ x.status = "interrupted" <=> Aborted(e)
<1>1. OpencodeStep(e, raw) \in OpencodeSteps
  BY DEF OpencodeSteps
<1>2. OpencodeStep(e, raw).tokens = MessageTokens(e) /\ OpencodeStep(e, raw).raw = raw
      /\ OpencodeStep(e, raw).status = OpencodeInvocationStatus(e.finish, e.error)
  BY DEF OpencodeStep
<1>3. OpencodeInvocationStatus(e.finish, e.error) = "interrupted" <=> Aborted(e)
  BY DEF OpencodeInvocationStatus, Aborted
<1> QED
  BY <1>1, <1>2, <1>3

(* Every answer has counts. *)
LEMMA StepsTokens == \A x \in OpencodeSteps : x.tokens \in Tokens
<1> SUFFICES ASSUME NEW x \in OpencodeSteps PROVE x.tokens \in Tokens
  OBVIOUS
<1>1. PICK e \in OpencodeRows, raw \in Nat \X Nat : x = OpencodeStep(e, raw)
  BY DEF OpencodeSteps
<1> QED
  BY <1>1, StepIs, MessageTokensType

(* A call has its row, its status and its invocation. *)
LEMMA CallIs ==
    ASSUME NEW e \in OpencodeRows, NEW raw \in Nat \X Nat, NEW n \in Nat
    PROVE  LET x == OpencodeCall(e, raw, n)
           IN x \in OpencodeCalls /\ x.raw = raw /\ x.invocation = n /\ x.status = ToolStatus(e)
<1>1. OpencodeCall(e, raw, n) \in OpencodeCalls
  BY DEF OpencodeCalls
<1>2. OpencodeCall(e, raw, n).raw = raw /\ OpencodeCall(e, raw, n).invocation = n
      /\ OpencodeCall(e, raw, n).status = ToolStatus(e)
  BY Zenon DEF OpencodeCall
<1> QED
  BY <1>1, <1>2

(* The fields of a turn. *)
LEMMA OpencodeTurnFields ==
    ASSUME NEW t \in OpencodeTurnType
    PROVE  /\ t.index \in Nat /\ t.user \in Seq(STRING) /\ t.final \in Seq(STRING)
           /\ t.started \in Nat /\ t.ended \in Nat /\ t.invocations \in Seq(OpencodeSteps)
           /\ t.calls \in Seq(OpencodeCalls) /\ t.status \in {"unknown", "success", "failed", "interrupted"}
           /\ t.tokens \in Tokens
BY DEF OpencodeTurnType

(* The fields of an open turn. *)
LEMMA OpencodeBuilderFields ==
    ASSUME NEW b \in OpencodeBuilder
    PROVE  b.turn \in OpencodeTurnType /\ b.role \in {"", "user", "assistant"} /\ b.userParts \in Seq(STRING)
BY DEF OpencodeBuilder

(* The missing turn is no open turn. *)
LEMMA NoneIsNoOpencode == None \notin OpencodeBuilder
<1>1. \A b \in OpencodeBuilder : DOMAIN b = {"turn", "role", "userParts"}
  BY DEF OpencodeBuilder
<1>2. DOMAIN None = {"turn"}
  BY DEF None
<1> QED
  BY <1>1, <1>2

(* The fields of the parser. *)
LEMMA OpencodeFields ==
    ASSUME NEW o \in OpencodeSession
    PROVE  /\ o.turns \in Seq(OpencodeTurnType) /\ o.errors \in Seq(Nat \X Nat)
           /\ o.current # None <=> o.current \in OpencodeBuilder
           /\ o.window \in [started : Nat, ended : Nat] /\ o.project \in STRING \cup {"unknown"}
<1>1. /\ o.turns \in Seq(OpencodeTurnType) /\ o.errors \in Seq(Nat \X Nat)
      /\ o.current \in {None} \cup OpencodeBuilder
      /\ o.window \in [started : Nat, ended : Nat] /\ o.project \in STRING \cup {"unknown"}
  BY DEF OpencodeSession
<1> QED
  BY <1>1, NoneIsNoOpencode

(* An open turn with another one in it. *)
LEMMA WithTurn ==
    ASSUME NEW b \in OpencodeBuilder, NEW t \in OpencodeTurnType, NEW q, q = [b EXCEPT !.turn = t]
    PROVE  q \in OpencodeBuilder /\ q.turn = t /\ q.role = b.role /\ q.userParts = b.userParts
BY DEF OpencodeBuilder

(* A parser with another open turn. *)
LEMMA WithCurrent ==
    ASSUME NEW o \in OpencodeSession, NEW b \in OpencodeBuilder, NEW q, q = [o EXCEPT !.current = b]
    PROVE  /\ q \in OpencodeSession /\ q.current = b /\ q.turns = o.turns /\ q.errors = o.errors
           /\ q.project = o.project
BY DEF OpencodeSession

(* A parser with one error more. *)
LEMMA WithError ==
    ASSUME NEW o \in OpencodeSession, NEW raw \in Nat \X Nat, NEW q, q = [o EXCEPT !.errors = Append(@, raw)]
    PROVE  /\ q \in OpencodeSession /\ q.current = o.current /\ q.turns = o.turns
           /\ q.errors = Append(o.errors, raw)
<1> DEFINE S == Nat \X Nat
<1>1. o.errors \in Seq(S) /\ raw \in S
  BY OpencodeFields
<1> HIDE DEF S
<1>2. Append(o.errors, raw) \in Seq(S)
  BY <1>1
<1> DEFINE x == Append(o.errors, raw)
<1>3. q = [o EXCEPT !.errors = x]
  OBVIOUS
<1>4. x \in Seq(Nat \X Nat)
  BY <1>2 DEF S
<1> HIDE DEF x
<1>5. q \in OpencodeSession /\ q.current = o.current /\ q.turns = o.turns /\ q.errors = x
  BY <1>3, <1>4 DEF OpencodeSession
<1> QED
  BY <1>5 DEF x

-----------------------------------------------------------------------------
(* The answers and calls of a turn *)

(* The answers inv are the rows. *)
StepsAre(es, inv, rows) ==
    /\ inv \in Seq(OpencodeSteps)
    /\ \E g : /\ InRowOrder(g, rows) /\ Carries(es, inv, g)
              /\ \A k \in DOMAIN g : inv[k].tokens = MessageTokens(es[g[k]].row)
(* What a call has of its row, among the answers of some rows. *)
CallOf(call, e, steps, n) ==
    call.invocation = Cardinality({i \in steps : i < n}) /\ call.status = ToolStatus(e)
(* The calls are the rows. *)
CallsAre(es, calls, rows, steps) ==
    /\ calls \in Seq(OpencodeCalls)
    /\ \E g : /\ InRowOrder(g, rows) /\ Carries(es, calls, g)
              /\ \A k \in DOMAIN g : CallOf(calls[k], es[g[k]].row, steps, g[k])

(* x is the item of the n-th row, which comes after those of g; h and more have it last. *)
OneItemMore(es, S, items, g, x, n, more, h) ==
    /\ items \in Seq(S) /\ g \in Seq(Nat) /\ x \in S /\ n \in Nat /\ Carries(es, items, g)
    /\ x.raw = es[n].raw /\ h = Append(g, n) /\ more = Append(items, x)

(* One item more for a later row. *)
LEMMA CarriesNext ==
    ASSUME NEW es, NEW S, NEW items, NEW g, NEW x, NEW n, NEW more, NEW h,
           OneItemMore(es, S, items, g, x, n, more, h)
    PROVE  /\ Carries(es, more, h) /\ more \in Seq(S) /\ DOMAIN g = 1 .. Len(g)
           /\ Len(g) \in Nat /\ DOMAIN h = 1 .. Len(g) + 1
           /\ h[Len(g) + 1] = n /\ more[Len(g) + 1] = x
           /\ \A k \in 1 .. Len(g) : h[k] = g[k] /\ more[k] = items[k]
<1> DEFINE N == Len(g)
<1> USE DEF OneItemMore
<1>1. Len(items) = Len(g) /\ \A k \in DOMAIN g : items[k].raw = es[g[k]].raw
  BY DEF Carries
<1>2. /\ N \in Nat /\ DOMAIN g = 1 .. N /\ DOMAIN h = 1 .. N + 1 /\ h[N + 1] = n /\ Len(h) = N + 1
      /\ \A k \in 1 .. N : h[k] = g[k]
  OBVIOUS
<1>3. more \in Seq(S) /\ Len(more) = N + 1 /\ more[N + 1] = x /\ \A k \in 1 .. N : more[k] = items[k]
  BY <1>1
<1> HIDE DEF N
<1>4. \A k \in 1 .. N + 1 : k = N + 1 \/ k \in 1 .. N
  BY <1>2, UpToLast
<1>5. ASSUME NEW k \in 1 .. N + 1 PROVE more[k].raw = es[h[k]].raw
  <2>1. CASE k = N + 1
    BY <1>2, <1>3, <2>1
  <2>2. CASE k \in 1 .. N
    BY <1>1, <1>2, <1>3, <2>2
  <2> QED
    BY <1>4, <2>1, <2>2
<1>6. Carries(es, more, h)
  BY <1>2, <1>3, <1>5 DEF Carries
<1> QED
  BY <1>2, <1>3, <1>6 DEF N

(* No items. *)
LEMMA CarriesNone == \A es : Carries(es, <<>>, <<>>)
BY DEF Carries

(* A message that decodes is the last answer. *)
LEMMA StepsNext ==
    ASSUME NEW es \in Seq(OpencodeEvent), NEW n \in DOMAIN es, NEW inv, NEW rows, StepsAre(es, inv, rows),
           \A i \in rows : i < n
    PROVE  StepsAre(es, Append(inv, OpencodeStep(es[n].row, es[n].raw)), rows \cup {n})
<1> DEFINE x == OpencodeStep(es[n].row, es[n].raw)
<1>1. n \in Nat /\ es[n].row \in OpencodeRows /\ es[n].raw \in Nat \X Nat
  BY EventFields
<1>2. x \in OpencodeSteps /\ x.tokens = MessageTokens(es[n].row) /\ x.raw = es[n].raw
  BY <1>1, StepIs
<1> HIDE DEF x
<1>3. inv \in Seq(OpencodeSteps)
  BY DEF StepsAre
<1>4. PICK g : /\ InRowOrder(g, rows) /\ Carries(es, inv, g)
               /\ \A k \in DOMAIN g : inv[k].tokens = MessageTokens(es[g[k]].row)
  BY DEF StepsAre
<1> DEFINE h == Append(g, n)
           more == Append(inv, x)
           N == Len(g)
<1>5. g \in Seq(Nat)
  BY <1>4 DEF InRowOrder
<1>6. /\ Carries(es, more, h) /\ more \in Seq(OpencodeSteps) /\ DOMAIN g = 1 .. N
      /\ N \in Nat /\ DOMAIN h = 1 .. N + 1 /\ h[N + 1] = n /\ more[N + 1] = x
      /\ \A k \in 1 .. N : h[k] = g[k] /\ more[k] = inv[k]
  <2> DEFINE S == OpencodeSteps
  <2>1. OneItemMore(es, S, inv, g, x, n, more, h)
    BY <1>1, <1>2, <1>3, <1>4, <1>5 DEF OneItemMore
  <2> HIDE DEF S, h, more
  <2>2. /\ Carries(es, more, h) /\ more \in Seq(S) /\ DOMAIN g = 1 .. Len(g)
        /\ Len(g) \in Nat /\ DOMAIN h = 1 .. Len(g) + 1 /\ h[Len(g) + 1] = n /\ more[Len(g) + 1] = x
        /\ \A k \in 1 .. Len(g) : h[k] = g[k] /\ more[k] = inv[k]
    BY <2>1, CarriesNext
  <2> QED
    BY <2>2 DEF S
<1>7. InRowOrder(h, rows \cup {n})
  BY <1>1, <1>4, NumberedNext
<1> HIDE DEF h, more, N
<1>8. ASSUME NEW k \in DOMAIN h PROVE more[k].tokens = MessageTokens(es[h[k]].row)
  <2>1. k = N + 1 \/ k \in 1 .. N
    BY <1>6, UpToLast
  <2>2. CASE k = N + 1
    BY <1>2, <1>6, <2>2
  <2>3. CASE k \in 1 .. N
    BY <1>4, <1>6, <2>3
  <2> QED
    BY <2>1, <2>2, <2>3
<1>9. StepsAre(es, more, rows \cup {n})
  BY <1>6, <1>7, <1>8 DEF StepsAre
<1> QED
  BY <1>9 DEF more, x

(* A tool's part is the last call, of the last answer before it. *)
LEMMA CallsNext ==
    ASSUME NEW es \in Seq(OpencodeEvent), NEW n \in DOMAIN es, NEW calls, NEW rows, NEW steps,
           CallsAre(es, calls, rows, steps), \A i \in rows \cup steps : i < n,
           NEW m \in Nat, m = Cardinality(steps)
    PROVE  CallsAre(es, Append(calls, OpencodeCall(es[n].row, es[n].raw, m)), rows \cup {n}, steps)
<1> DEFINE x == OpencodeCall(es[n].row, es[n].raw, m)
<1>1. n \in Nat /\ es[n].row \in OpencodeRows /\ es[n].raw \in Nat \X Nat
  BY EventFields
<1>2. x \in OpencodeCalls /\ x.raw = es[n].raw /\ x.invocation = m /\ x.status = ToolStatus(es[n].row)
  BY <1>1, CallIs
<1> HIDE DEF x
<1>3. calls \in Seq(OpencodeCalls)
  BY DEF CallsAre
<1>4. PICK g : /\ InRowOrder(g, rows) /\ Carries(es, calls, g)
               /\ \A k \in DOMAIN g : CallOf(calls[k], es[g[k]].row, steps, g[k])
  BY DEF CallsAre
<1> DEFINE h == Append(g, n)
           more == Append(calls, x)
           N == Len(g)
<1>5. g \in Seq(Nat)
  BY <1>4 DEF InRowOrder
<1>6. /\ Carries(es, more, h) /\ more \in Seq(OpencodeCalls) /\ DOMAIN g = 1 .. N
      /\ N \in Nat /\ DOMAIN h = 1 .. N + 1 /\ h[N + 1] = n /\ more[N + 1] = x
      /\ \A k \in 1 .. N : h[k] = g[k] /\ more[k] = calls[k]
  <2> DEFINE S == OpencodeCalls
  <2>1. OneItemMore(es, S, calls, g, x, n, more, h)
    BY <1>1, <1>2, <1>3, <1>4, <1>5 DEF OneItemMore
  <2> HIDE DEF S, h, more
  <2>2. /\ Carries(es, more, h) /\ more \in Seq(S) /\ DOMAIN g = 1 .. Len(g)
        /\ Len(g) \in Nat /\ DOMAIN h = 1 .. Len(g) + 1 /\ h[Len(g) + 1] = n /\ more[Len(g) + 1] = x
        /\ \A k \in 1 .. Len(g) : h[k] = g[k] /\ more[k] = calls[k]
    BY <2>1, CarriesNext
  <2> QED
    BY <2>2 DEF S
<1>7. InRowOrder(h, rows \cup {n})
  BY <1>1, <1>4, NumberedNext
<1> HIDE DEF h, more, N
<1>8. ASSUME NEW k \in DOMAIN h PROVE CallOf(more[k], es[h[k]].row, steps, h[k])
  <2>1. k = N + 1 \/ k \in 1 .. N
    BY <1>6, UpToLast
  <2>2. CASE k = N + 1
    <3>1. {i \in steps : i < n} = steps
      OBVIOUS
    <3>2. CallOf(x, es[n].row, steps, n)
      BY <1>2, <3>1 DEF CallOf
    <3> QED
      BY <1>6, <2>2, <3>2
  <2>3. CASE k \in 1 .. N
    BY <1>4, <1>6, <2>3
  <2> QED
    BY <2>1, <2>2, <2>3
<1>9. CallsAre(es, more, rows \cup {n}, steps)
  BY <1>6, <1>7, <1>8 DEF CallsAre
<1> QED
  BY <1>9 DEF more, x

(* A later answer is no earlier call's. *)
LEMMA CallsStayed ==
    ASSUME NEW es \in Seq(OpencodeEvent), NEW n \in DOMAIN es, NEW calls, NEW rows, NEW steps,
           CallsAre(es, calls, rows, steps), \A i \in rows : i < n
    PROVE  CallsAre(es, calls, rows, steps \cup {n})
<1>1. n \in Nat
  BY EventFields
<1>2. PICK g : /\ InRowOrder(g, rows) /\ Carries(es, calls, g)
               /\ \A k \in DOMAIN g : CallOf(calls[k], es[g[k]].row, steps, g[k])
  BY DEF CallsAre
<1>3. ASSUME NEW k \in DOMAIN g PROVE CallOf(calls[k], es[g[k]].row, steps \cup {n}, g[k])
  <2>1. g[k] \in rows /\ g[k] \in Nat
    BY <1>2 DEF InRowOrder
  <2>2. ~ (n < g[k])
    BY <1>1, <2>1
  <2>3. {i \in steps \cup {n} : i < g[k]} = {i \in steps : i < g[k]}
    BY <2>2
  <2> QED
    BY <1>2, <2>3 DEF CallOf
<1> QED
  BY <1>2, <1>3 DEF CallsAre

-----------------------------------------------------------------------------
(* The open turn *)

(* What the texts of some rows have in them. *)
TextsOf(es, rows) == UNION {Range(es[i].row.text) : i \in rows}
(* The last of some texts. *)
LastText(es, rows) == IF rows = {} THEN <<>> ELSE es[Max(rows)].row.text
(* The status a turn has of its answers. *)
AnsweredStatus(es, steps) == IF \E i \in steps : Aborted(es[i].row) THEN "interrupted" ELSE "unknown"

(* The texts said and replied are in the open turn b. *)
TextsIn(es, b, said, replied) ==
    /\ Range(b.userParts) = TextsOf(es, said) /\ (b.userParts = <<>> <=> said = {})
    /\ b.turn.final = LastText(es, replied) /\ (b.turn.final = <<>> <=> replied = {})
(* The open turn b is what its rows say: its answers, its calls, what was said and what was replied. *)
Builds(es, b, steps, tools, said, replied) ==
    /\ b \in OpencodeBuilder
    /\ StepsAre(es, b.turn.invocations, steps)
    /\ CallsAre(es, b.turn.calls, tools, steps)
    /\ b.turn.status = AnsweredStatus(es, steps)
    /\ TextsIn(es, b, said, replied)

(* The open turn, in which a row had a time. *)
AgedTurn(b, when) == [b.turn EXCEPT !.ended = LaterTime(@, when)]
AgedBuilder(b, when) == [b EXCEPT !.turn = AgedTurn(b, when)]

(* A time is no more than that. *)
LEMMA AgedIs ==
    ASSUME NEW b \in OpencodeBuilder, NEW when \in Nat
    PROVE  LET q == AgedBuilder(b, when)
           IN /\ q \in OpencodeBuilder /\ q.role = b.role /\ q.userParts = b.userParts
              /\ q.turn.index = b.turn.index /\ q.turn.invocations = b.turn.invocations
              /\ q.turn.calls = b.turn.calls /\ q.turn.status = b.turn.status /\ q.turn.final = b.turn.final
<1> DEFINE t == AgedTurn(b, when)
           q == AgedBuilder(b, when)
           x == LaterTime(b.turn.ended, when)
<1>1. b.turn \in OpencodeTurnType /\ b.turn.ended \in Nat
  BY OpencodeBuilderFields, OpencodeTurnFields
<1>2. x \in Nat
  BY <1>1, LaterTimeMax
<1>3. t = [b.turn EXCEPT !.ended = x]
  BY DEF AgedTurn
<1> HIDE DEF x
<1>4. /\ t \in OpencodeTurnType /\ t.index = b.turn.index /\ t.invocations = b.turn.invocations
      /\ t.calls = b.turn.calls /\ t.status = b.turn.status /\ t.final = b.turn.final
  BY <1>1, <1>2, <1>3 DEF OpencodeTurnType
<1>5. q = [b EXCEPT !.turn = t]
  BY DEF AgedBuilder
<1> HIDE DEF t, q
<1>6. q \in OpencodeBuilder /\ q.turn = t /\ q.role = b.role /\ q.userParts = b.userParts
  BY <1>4, <1>5, WithTurn
<1> QED
  BY <1>4, <1>6 DEF q

(* An open turn that has the same is what the same rows say. *)
LEMMA SameBuilds ==
    ASSUME NEW es, NEW steps, NEW tools, NEW said, NEW replied, NEW b, Builds(es, b, steps, tools, said, replied),
           NEW q \in OpencodeBuilder, q.userParts = b.userParts, q.turn.invocations = b.turn.invocations,
           q.turn.calls = b.turn.calls, q.turn.status = b.turn.status, q.turn.final = b.turn.final
    PROVE  Builds(es, q, steps, tools, said, replied)
BY DEF Builds, TextsIn

(* The rows of an open turn are before the n-th. *)
RowsBefore(es, n, steps, tools, said, replied) ==
    /\ es \in Seq(OpencodeEvent) /\ n \in DOMAIN es
    /\ \A i \in steps \cup tools \cup said \cup replied : i \in 1 .. n - 1

(* What the answers of an open turn cost. *)
TurnTokens(b) == TokensOf(b.turn.invocations)
(* The open turn b has become q, which cost something. *)
Alongside(b, q, cost) ==
    q.role = b.role /\ q.turn.index = b.turn.index /\ TurnTokens(q) = AddTokens(TurnTokens(b), cost)

(* What costs nothing adds nothing. *)
LEMMA SameAnswers ==
    ASSUME NEW b \in OpencodeBuilder, NEW q, q.role = b.role, q.turn.index = b.turn.index,
           q.turn.invocations = b.turn.invocations
    PROVE  Alongside(b, q, NoTokens) /\ TurnTokens(b) \in Tokens
<1> DEFINE inv == b.turn.invocations
<1>1. b.turn \in OpencodeTurnType
  BY OpencodeBuilderFields
<1>2. inv \in Seq(OpencodeSteps)
  BY <1>1, OpencodeTurnFields
<1>3. DOMAIN inv = 1 .. Len(inv) /\ Len(inv) \in Nat /\ \A i \in DOMAIN inv : inv[i] \in OpencodeSteps
  <2> HIDE DEF inv
  <2> QED
    BY <1>2
<1> DEFINE g == [i \in DOMAIN inv |-> inv[i].tokens]
<1>4. g \in Seq(Tokens)
  <2>1. \A i \in DOMAIN inv : inv[i].tokens \in Tokens
    BY <1>3, StepsTokens
  <2> HIDE DEF inv
  <2> QED
    BY <1>3, <2>1
<1>5. TokensOf(inv) \in Tokens
  <2> HIDE DEF inv
  <2> QED
    BY <1>4, SumTokensType DEF TokensOf
<1>6. TurnTokens(q) = TokensOf(inv) /\ TurnTokens(b) = TokensOf(inv)
  BY DEF TurnTokens
<1>7. TurnTokens(q) = AddTokens(TurnTokens(b), NoTokens)
  <2> HIDE DEF inv
  <2> QED
    BY <1>5, <1>6, AddNoTokens
<1> QED
  BY <1>5, <1>6, <1>7 DEF Alongside

(* The open turn with one answer more. *)
AnswerOf(b, x) == [b EXCEPT !.turn = OpencodeAnswered(@, x)]

(* A message that decodes is an answer more. *)
LEMMA AnswerBuilds ==
    ASSUME NEW es, NEW n, NEW steps, NEW tools, NEW said, NEW replied,
           RowsBefore(es, n, steps, tools, said, replied),
           NEW b, Builds(es, b, steps, tools, said, replied)
    PROVE  LET q == AnswerOf(b, OpencodeStep(es[n].row, es[n].raw))
           IN Builds(es, q, steps \cup {n}, tools, said, replied) /\ Alongside(b, q, MessageTokens(es[n].row))
<1> DEFINE x == OpencodeStep(es[n].row, es[n].raw)
           t == OpencodeAnswered(b.turn, x)
           q == AnswerOf(b, x)
<1>1. /\ es \in Seq(OpencodeEvent) /\ n \in DOMAIN es /\ \A i \in steps \cup tools : i < n
      /\ n \in Nat
  BY EventFields DEF RowsBefore
<1>2. /\ b \in OpencodeBuilder /\ StepsAre(es, b.turn.invocations, steps)
      /\ CallsAre(es, b.turn.calls, tools, steps) /\ b.turn.status = AnsweredStatus(es, steps)
      /\ TextsIn(es, b, said, replied)
  BY DEF Builds
<1>3. b.turn \in OpencodeTurnType /\ b.turn.invocations \in Seq(OpencodeSteps)
      /\ b.turn.status \in {"unknown", "success", "failed", "interrupted"}
  BY <1>2, OpencodeBuilderFields, OpencodeTurnFields
<1>4. x \in OpencodeSteps /\ x.tokens = MessageTokens(es[n].row) /\ (x.status = "interrupted" <=> Aborted(es[n].row))
  BY <1>1, EventFields, StepIs
<1> DEFINE inv == Append(b.turn.invocations, x)
           status == IF x.status = "interrupted" THEN "interrupted" ELSE b.turn.status
<1>5. StepsAre(es, inv, steps \cup {n})
  BY <1>1, <1>2, StepsNext
<1>6. inv \in Seq(OpencodeSteps)
  BY <1>5 DEF StepsAre
<1>7. TokensOf(inv) = AddTokens(TokensOf(b.turn.invocations), MessageTokens(es[n].row))
  BY <1>3, <1>4, StepsTokens, TokensOfAppend
<1>8. status \in {"unknown", "success", "failed", "interrupted"}
  BY <1>3
<1>9. t = [b.turn EXCEPT !.invocations = inv, !.status = status]
  BY DEF OpencodeAnswered
<1>10. status = AnsweredStatus(es, steps \cup {n})
  <2>1. (\E i \in steps \cup {n} : Aborted(es[i].row)) <=> (\E i \in steps : Aborted(es[i].row)) \/ Aborted(es[n].row)
    OBVIOUS
  <2> QED
    BY <1>2, <1>4, <2>1 DEF AnsweredStatus
<1>16. q = [b EXCEPT !.turn = t]
  BY DEF AnswerOf
<1> HIDE DEF inv, status, t, q, x
<1>11. /\ t \in OpencodeTurnType /\ t.index = b.turn.index /\ t.invocations = inv /\ t.status = status
       /\ t.calls = b.turn.calls /\ t.final = b.turn.final
  BY <1>3, <1>6, <1>8, <1>9 DEF OpencodeTurnType
<1>12. q \in OpencodeBuilder /\ q.turn = t /\ q.role = b.role /\ q.userParts = b.userParts
  BY <1>2, <1>11, <1>16, WithTurn
<1>13. CallsAre(es, b.turn.calls, tools, steps \cup {n})
  BY <1>1, <1>2, CallsStayed
<1>14. TextsIn(es, q, said, replied)
  BY <1>2, <1>11, <1>12 DEF TextsIn
<1>15. Builds(es, q, steps \cup {n}, tools, said, replied)
  BY <1>5, <1>10, <1>11, <1>12, <1>13, <1>14 DEF Builds
<1>17. Alongside(b, q, MessageTokens(es[n].row))
  BY <1>7, <1>11, <1>12 DEF Alongside, TurnTokens
<1> QED
  BY <1>15, <1>17 DEF q, x

(* The answers of a turn are as many as their rows. *)
LEMMA StepsCounted ==
    ASSUME NEW es, NEW inv, NEW rows, StepsAre(es, inv, rows)
    PROVE  Len(inv) = Cardinality(rows) /\ Len(inv) \in Nat /\ (inv = <<>> <=> rows = {})
<1>1. PICK g : InRowOrder(g, rows) /\ Carries(es, inv, g)
  BY DEF StepsAre
<1>2. inv \in Seq(OpencodeSteps) /\ Len(inv) \in Nat
  BY DEF StepsAre
<1>3. Len(inv) = Len(g) /\ Cardinality(rows) = Len(g)
  BY <1>1, NthRowIs DEF Carries
<1>4. g \in Seq(Nat) /\ rows = {g[k] : k \in DOMAIN g}
  BY <1>1 DEF InRowOrder
<1>5. g = <<>> <=> rows = {}
  BY <1>4, SMTT(40)
<1> QED
  BY <1>2, <1>3, <1>4, <1>5

(* There are calls when there are rows of tools. *)
LEMMA CallsCounted ==
    ASSUME NEW es, NEW calls, NEW rows, NEW steps, CallsAre(es, calls, rows, steps)
    PROVE  calls = <<>> <=> rows = {}
<1>1. PICK g : InRowOrder(g, rows) /\ Carries(es, calls, g)
  BY DEF CallsAre
<1>2. calls \in Seq(OpencodeCalls) /\ Len(calls) \in Nat
  BY DEF CallsAre
<1>3. Len(calls) = Len(g)
  BY <1>1 DEF Carries
<1>4. g \in Seq(Nat) /\ rows = {g[k] : k \in DOMAIN g}
  BY <1>1 DEF InRowOrder
<1>5. g = <<>> <=> rows = {}
  BY <1>4
<1> QED
  BY <1>2, <1>3, <1>4, <1>5

(* A tool's part is a call more. *)
LEMMA CallBuilds ==
    ASSUME NEW es, NEW n, NEW steps, NEW tools, NEW said, NEW replied,
           RowsBefore(es, n, steps, tools, said, replied),
           NEW b, Builds(es, b, steps, tools, said, replied)
    PROVE  LET q == OpencodeToolCall(b, es[n].row, es[n].raw)
           IN Builds(es, q, steps, tools \cup {n}, said, replied) /\ Alongside(b, q, NoTokens)
<1> DEFINE q == OpencodeToolCall(b, es[n].row, es[n].raw)
<1>1. /\ es \in Seq(OpencodeEvent) /\ n \in DOMAIN es /\ (\A i \in steps \cup tools : i < n) /\ n \in Nat
  BY EventFields DEF RowsBefore
<1>2. /\ b \in OpencodeBuilder /\ StepsAre(es, b.turn.invocations, steps)
      /\ CallsAre(es, b.turn.calls, tools, steps) /\ b.turn.status = AnsweredStatus(es, steps)
      /\ TextsIn(es, b, said, replied)
  BY DEF Builds
<1>3. b.turn \in OpencodeTurnType
  BY <1>2, OpencodeBuilderFields
<1> DEFINE m == Len(b.turn.invocations)
           calls == Append(b.turn.calls, OpencodeCall(es[n].row, es[n].raw, m))
           t == [b.turn EXCEPT !.calls = calls]
<1>4. m \in Nat /\ m = Cardinality(steps)
  BY <1>2, StepsCounted
<1>5. CallsAre(es, calls, tools \cup {n}, steps)
  <2> HIDE DEF m
  <2> QED
    BY <1>1, <1>2, <1>4, CallsNext
<1>6. q = [b EXCEPT !.turn = t]
  BY DEF OpencodeToolCall
<1> HIDE DEF calls
<1>7. calls \in Seq(OpencodeCalls)
  BY <1>5 DEF CallsAre
<1>8. /\ t \in OpencodeTurnType /\ t.index = b.turn.index /\ t.invocations = b.turn.invocations
      /\ t.status = b.turn.status /\ t.calls = calls /\ t.final = b.turn.final
  BY <1>3, <1>7 DEF OpencodeTurnType
<1> HIDE DEF t, q
<1>9. q \in OpencodeBuilder /\ q.turn = t /\ q.role = b.role /\ q.userParts = b.userParts
  BY <1>2, <1>6, <1>8, WithTurn
<1>10. TextsIn(es, q, said, replied)
  BY <1>2, <1>8, <1>9 DEF TextsIn
<1>11. Builds(es, q, steps, tools \cup {n}, said, replied)
  BY <1>2, <1>5, <1>8, <1>9, <1>10 DEF Builds
<1>12. Alongside(b, q, NoTokens)
  BY <1>2, <1>8, <1>9, SameAnswers
<1> QED
  BY <1>11, <1>12 DEF q

(* Texts put together. *)
LEMMA RangeTogether ==
    ASSUME NEW s \in Seq(STRING), NEW u \in Seq(STRING)
    PROVE  Range(s \o u) = Range(s) \cup Range(u) /\ s \o u \in Seq(STRING) /\ (s \o u = <<>> <=> s = <<>> /\ u = <<>>)
<1> DEFINE v == s \o u
           N == Len(s)
           M == Len(u)
<1>1. /\ N \in Nat /\ M \in Nat /\ v \in Seq(STRING) /\ DOMAIN v = 1 .. N + M /\ DOMAIN s = 1 .. N /\ DOMAIN u = 1 .. M
      /\ Len(v) = N + M /\ (\A i \in 1 .. N : v[i] = s[i]) /\ \A i \in 1 .. M : v[i + N] = u[i]
  OBVIOUS
<1>2. (v = <<>> <=> Len(v) = 0) /\ (s = <<>> <=> N = 0) /\ (u = <<>> <=> M = 0)
  BY <1>1
<1> HIDE DEF v, N, M
<1>3. ASSUME NEW i \in 1 .. N + M PROVE v[i] \in Range(s) \cup Range(u)
  <2>1. CASE i <= N
    <3>1. i \in 1 .. N /\ i \in DOMAIN s /\ v[i] = s[i]
      BY <1>1, <2>1
    <3> QED
      BY <3>1 DEF Range
  <2>2. CASE ~ (i <= N)
    <3>1. i - N \in 1 .. M /\ (i - N) + N = i
      BY <1>1, <2>2
    <3> QED
      BY <1>1, <3>1 DEF Range
  <2> QED
    BY <2>1, <2>2
<1>4. ASSUME NEW i \in 1 .. N PROVE s[i] \in Range(v)
  <2>1. i \in 1 .. N + M /\ v[i] = s[i]
    BY <1>1
  <2> QED
    BY <1>1, <2>1 DEF Range
<1>5. ASSUME NEW i \in 1 .. M PROVE u[i] \in Range(v)
  <2>1. i + N \in 1 .. N + M /\ v[i + N] = u[i]
    BY <1>1
  <2> QED
    BY <1>1, <2>1 DEF Range
<1>6. Range(v) \subseteq Range(s) \cup Range(u)
  BY <1>1, <1>3 DEF Range
<1>7. Range(s) \subseteq Range(v) /\ Range(u) \subseteq Range(v)
  BY <1>1, <1>4, <1>5 DEF Range
<1> QED
  BY <1>1, <1>2, <1>6, <1>7 DEF v, N, M

(* A row that has text. *)
Worded(e) == e.text # <<>>
(* The open turn with something said, or with a reply. *)
SaidOf(b, e) == [b EXCEPT !.userParts = @ \o e.text]
ReplyOf(b, e) == [b EXCEPT !.turn.final = e.text]

(* What the user said is said. *)
LEMMA SaidBuilds ==
    ASSUME NEW es, NEW n, NEW steps, NEW tools, NEW said, NEW replied,
           RowsBefore(es, n, steps, tools, said, replied),
           NEW b, Builds(es, b, steps, tools, said, replied),
           Worded(es[n].row)
    PROVE  LET q == SaidOf(b, es[n].row)
           IN Builds(es, q, steps, tools, said \cup {n}, replied) /\ Alongside(b, q, NoTokens)
<1> DEFINE text == es[n].row.text
           q == SaidOf(b, es[n].row)
           parts == b.userParts \o text
<1>1. /\ b \in OpencodeBuilder /\ StepsAre(es, b.turn.invocations, steps)
      /\ CallsAre(es, b.turn.calls, tools, steps) /\ b.turn.status = AnsweredStatus(es, steps)
      /\ TextsIn(es, b, said, replied)
  BY DEF Builds
<1>2. b.userParts \in Seq(STRING) /\ text \in Seq(STRING)
  BY <1>1, OpencodeBuilderFields, EventFields DEF RowsBefore
<1>3. Range(parts) = Range(b.userParts) \cup Range(text) /\ parts \in Seq(STRING) /\ parts # <<>>
  <2> HIDE DEF text
  <2>1. text # <<>>
    BY DEF text, Worded
  <2> QED
    BY <1>2, <2>1, RangeTogether
<1>4. TextsOf(es, said \cup {n}) = TextsOf(es, said) \cup Range(text)
  BY DEF TextsOf
<1>5. q = [b EXCEPT !.userParts = parts]
  BY DEF SaidOf
<1> HIDE DEF parts, text, q
<1>6. q \in OpencodeBuilder /\ q.turn = b.turn /\ q.role = b.role /\ q.userParts = parts
  BY <1>1, <1>3, <1>5 DEF OpencodeBuilder
<1>7. TextsIn(es, q, said \cup {n}, replied)
  BY <1>1, <1>3, <1>4, <1>6 DEF TextsIn
<1>8. Builds(es, q, steps, tools, said \cup {n}, replied)
  BY <1>1, <1>6, <1>7 DEF Builds
<1>9. Alongside(b, q, NoTokens)
  BY <1>1, <1>6, SameAnswers
<1> QED
  BY <1>8, <1>9 DEF q, text

(* The latest reply is the last. *)
LEMMA ReplyBuilds ==
    ASSUME NEW es, NEW n, NEW steps, NEW tools, NEW said, NEW replied,
           RowsBefore(es, n, steps, tools, said, replied),
           NEW b, Builds(es, b, steps, tools, said, replied),
           Worded(es[n].row)
    PROVE  LET q == ReplyOf(b, es[n].row)
           IN Builds(es, q, steps, tools, said, replied \cup {n}) /\ Alongside(b, q, NoTokens)
<1> DEFINE text == es[n].row.text
           q == ReplyOf(b, es[n].row)
           t == [b.turn EXCEPT !.final = text]
<1>1. /\ b \in OpencodeBuilder /\ StepsAre(es, b.turn.invocations, steps)
      /\ CallsAre(es, b.turn.calls, tools, steps) /\ b.turn.status = AnsweredStatus(es, steps)
      /\ TextsIn(es, b, said, replied)
  BY DEF Builds
<1>2. b.turn \in OpencodeTurnType /\ text \in Seq(STRING) /\ text # <<>>
  BY <1>1, OpencodeBuilderFields, EventFields DEF RowsBefore, Worded
<1>3. q = [b EXCEPT !.turn = [b.turn EXCEPT !.final = text]]
  BY Zenon DEF ReplyOf
<1>4. Max(replied \cup {n}) = n
  <2>1. n \in Nat /\ \A i \in replied : i \in 1 .. n - 1
    BY EventFields DEF RowsBefore
  <2>2. n > 0
    BY EventFields DEF RowsBefore
  <2> DEFINE R == replied \cup {n}
  <2>3. R \in SUBSET (1 .. n) /\ n \in R /\ \A y \in R : n >= y
    BY <2>1, <2>2
  <2> HIDE DEF R
  <2>4. Max(R) = n
    BY <2>1, <2>3, MaxIs
  <2> QED
    BY <2>4 DEF R
<1>5. LastText(es, replied \cup {n}) = text
  BY <1>4 DEF LastText
<1> HIDE DEF text, q
<1>6. /\ t \in OpencodeTurnType /\ t.index = b.turn.index /\ t.invocations = b.turn.invocations
      /\ t.status = b.turn.status /\ t.calls = b.turn.calls /\ t.final = text
  BY <1>2 DEF OpencodeTurnType
<1> HIDE DEF t
<1>7. q \in OpencodeBuilder /\ q.turn = t /\ q.role = b.role /\ q.userParts = b.userParts
  <2>1. q = [b EXCEPT !.turn = t]
    BY <1>3 DEF t
  <2> QED
    BY <1>1, <1>6, <2>1 DEF OpencodeBuilder
<1>8. TextsIn(es, q, said, replied \cup {n})
  BY <1>1, <1>2, <1>5, <1>6, <1>7 DEF TextsIn
<1>9. Builds(es, q, steps, tools, said, replied \cup {n})
  BY <1>1, <1>6, <1>7, <1>8 DEF Builds
<1>10. Alongside(b, q, NoTokens)
  BY <1>1, <1>6, <1>7, SameAnswers
<1> QED
  BY <1>9, <1>10 DEF q, text

(* Nothing is what no rows say. *)
LEMMA NothingBuilt ==
    ASSUME NEW es
    PROVE  /\ StepsAre(es, <<>>, {}) /\ CallsAre(es, <<>>, {}, {}) /\ AnsweredStatus(es, {}) = "unknown"
           /\ TextsOf(es, {}) = {} /\ LastText(es, {}) = <<>> /\ Range(<<>>) = {} /\ TokensOf(<<>>) = NoTokens
           /\ <<>> \in Seq(STRING)
<1>1. InRowOrder(<<>>, {}) /\ Carries(es, <<>>, <<>>) /\ DOMAIN <<>> = {}
  BY NumberedNone, CarriesNone
<1>2. <<>> \in Seq(OpencodeSteps) /\ <<>> \in Seq(OpencodeCalls)
  OBVIOUS
<1>3. StepsAre(es, <<>>, {})
  BY <1>1, <1>2 DEF StepsAre
<1>4. CallsAre(es, <<>>, {}, {})
  BY <1>1, <1>2 DEF CallsAre
<1>5. [i \in DOMAIN <<>> |-> <<>>[i].tokens] = <<>>
  OBVIOUS
<1>6. TokensOf(<<>>) = NoTokens
  BY <1>5, SumTokensEmpty DEF TokensOf
<1>7. AnsweredStatus(es, {}) = "unknown"
  BY DEF AnsweredStatus
<1>8. TextsOf(es, {}) = {} /\ LastText(es, {}) = <<>> /\ Range(<<>>) = {}
  BY <1>1 DEF TextsOf, LastText, Range
<1>9. <<>> \in Seq(STRING)
  OBVIOUS
<1> QED
  BY <1>3, <1>4, <1>6, <1>7, <1>8, <1>9

(* A new turn of a parser's. *)
FirstTurn(o, when) == [Turn(Len(o.turns) + 1, when) EXCEPT !.project = o.project]

(* It has nothing in it. *)
LEMMA FirstTurnIs ==
    ASSUME NEW o \in OpencodeSession, NEW when \in Nat
    PROVE  /\ FirstTurn(o, when) \in OpencodeTurnType /\ FirstTurn(o, when).index = Len(o.turns) + 1
           /\ FirstTurn(o, when).invocations = <<>> /\ FirstTurn(o, when).calls = <<>>
           /\ FirstTurn(o, when).final = <<>> /\ FirstTurn(o, when).status = "unknown"
<1>1. o.turns \in Seq(OpencodeTurnType) /\ o.project \in STRING \cup {"unknown"}
  BY OpencodeFields
<1> DEFINE k == Len(o.turns) + 1
           p == o.project
           a == Turn(k, when)
           t == FirstTurn(o, when)
           nothing == <<>>
<1>2. k \in Nat /\ p \in STRING \cup {"unknown"}
  BY <1>1
<1>3. a = [index |-> k, project |-> "", user |-> nothing, final |-> nothing, started |-> when, ended |-> when,
           invocations |-> nothing, calls |-> nothing, status |-> "unknown", tokens |-> NoTokens,
           components |-> {}]
  BY DEF Turn
<1>4. t = [a EXCEPT !.project = p]
  BY DEF FirstTurn
<1>5. {} \in OpencodeComponents /\ nothing \in Seq(STRING) /\ nothing \in Seq(OpencodeSteps)
      /\ nothing \in Seq(OpencodeCalls)
  BY DEF OpencodeComponents
<1>6. NoTokens \in Tokens
  BY NoTokensType
<1> HIDE DEF t, k, p, a, nothing
<1>7. t \in OpencodeTurnType
  BY <1>2, <1>3, <1>4, <1>5, <1>6 DEF OpencodeTurnType
<1>8. t.index = k /\ t.invocations = nothing /\ t.calls = nothing /\ t.final = nothing /\ t.status = "unknown"
  BY <1>3, <1>4
<1> QED
  BY <1>7, <1>8 DEF t, k, nothing

(* A new turn of a role. *)
TurnFrom(o, when, role) == [OpencodeTurn(o, when) EXCEPT !.role = role]

(* A new turn has no rows yet. *)
LEMMA NewBuilds ==
    ASSUME NEW es, NEW o \in OpencodeSession, NEW when \in Nat, NEW role \in {"", "user", "assistant"}
    PROVE  LET q == TurnFrom(o, when, role)
           IN /\ Builds(es, q, {}, {}, {}, {}) /\ q.role = role /\ q.turn.index = Len(o.turns) + 1
              /\ TurnTokens(q) = NoTokens
<1> DEFINE t == FirstTurn(o, when)
           a == OpencodeTurn(o, when)
           q == TurnFrom(o, when, role)
           nothing == <<>>
<1>1. a = [turn |-> t, role |-> "", userParts |-> nothing] /\ q = [a EXCEPT !.role = role]
  BY Zenon DEF TurnFrom, OpencodeTurn, FirstTurn
<1>2. /\ t \in OpencodeTurnType /\ t.index = Len(o.turns) + 1
      /\ t.invocations = nothing /\ t.calls = nothing /\ t.final = nothing /\ t.status = "unknown"
  BY FirstTurnIs
<1>3. /\ StepsAre(es, nothing, {}) /\ CallsAre(es, nothing, {}, {}) /\ AnsweredStatus(es, {}) = "unknown"
      /\ TextsOf(es, {}) = {} /\ LastText(es, {}) = nothing /\ Range(nothing) = {} /\ TokensOf(nothing) = NoTokens
  BY NothingBuilt
<1>4. nothing \in Seq(STRING)
  BY NothingBuilt
<1> HIDE DEF t, q, a, nothing
<1>5. q \in OpencodeBuilder /\ q.turn = t /\ q.role = role /\ q.userParts = nothing
  BY <1>1, <1>2, <1>4 DEF OpencodeBuilder
<1>6. TextsIn(es, q, {}, {})
  BY <1>2, <1>3, <1>5 DEF TextsIn, nothing
<1>7. Builds(es, q, {}, {}, {}, {})
  BY <1>2, <1>3, <1>5, <1>6 DEF Builds
<1> QED
  BY <1>2, <1>3, <1>5, <1>7 DEF q, TurnTokens

-----------------------------------------------------------------------------
(* The rows that matter *)

(* The rows that matter are rows. *)
LEMMA RowsMatter ==
    ASSUME NEW es
    PROVE  /\ Decoded(es, "assistant") \in SUBSET (DOMAIN es) /\ Decoded(es, "tool") \in SUBSET (DOMAIN es)
           /\ Said(es) \in SUBSET (DOMAIN es) /\ Replied(es) \in SUBSET (DOMAIN es)
BY DEF Said, Replied, Texts, Decoded, Kinds

(* What the n-th row is by its kind. *)
LEMMA RowIs ==
    ASSUME NEW es, NEW n \in DOMAIN es, NEW r, r = es[n].row, StartOf(es, n) # 0
    PROVE  /\ n \in Decoded(es, "assistant") <=> r.kind = "assistant" /\ r.data
           /\ n \in Decoded(es, "tool") <=> r.kind = "tool" /\ r.data
           /\ n \in Said(es) <=> /\ r.kind = "text" /\ r.data /\ r.text # <<>> /\ ~r.synthetic /\ n \in ByUser(es)
                                 /\ ~IsLocalCommandInjection(r.text)
           /\ n \in Replied(es) <=> r.kind = "text" /\ r.data /\ r.text # <<>> /\ ~r.synthetic /\ n \notin ByUser(es)
BY DEF Said, Replied, Texts, Decoded, Kinds

(* A message of the user's is the user's, an answer is not, another row is as the row before it. *)
LEMMA ByUserNext ==
    ASSUME NEW es \in Seq(OpencodeEvent), NEW n \in DOMAIN es
    PROVE  /\ es[n].row.kind = "user" => n \in ByUser(es)
           /\ es[n].row.kind = "assistant" => n \notin ByUser(es)
           /\ es[n].row.kind \notin {"user", "assistant"} /\ StartOf(es, n) # 0
                  => (n \in ByUser(es) <=> n - 1 \in ByUser(es))
<1>1. /\ n \in Nat /\ n > 0 /\ n <= Len(es) /\ \A j \in DOMAIN es : j \in Nat
  BY EventFields
<1>2. StartOf(es, n) \in 0 .. n
  BY <1>1, StartsAscend
<1>3. StartOf(es, n) = IF es[n].row.kind = "user" \/ (es[n].row.kind = "assistant" /\ StartOf(es, n - 1) = 0) THEN n
                       ELSE StartOf(es, n - 1)
  BY StartNext
<1>4. ASSUME es[n].row.kind = "user" PROVE n \in ByUser(es)
  <2>1. StartOf(es, n) = n /\ n \in Kinds(es, {"user"})
    BY <1>3, <1>4 DEF Kinds
  <2>2. \A j \in Kinds(es, {"assistant"}) : j <= n => j < n
    BY <1>1, <1>4 DEF Kinds
  <2> QED
    BY <2>1, <2>2 DEF ByUser
<1>5. ASSUME es[n].row.kind = "assistant" PROVE n \notin ByUser(es)
  <2>1. n \in Kinds(es, {"assistant"}) /\ n <= n /\ ~ (n < StartOf(es, n))
    BY <1>1, <1>2, <1>5 DEF Kinds
  <2> QED
    BY <2>1 DEF ByUser
<1>6. ASSUME es[n].row.kind \notin {"user", "assistant"}, StartOf(es, n) # 0
      PROVE  n \in ByUser(es) <=> n - 1 \in ByUser(es)
  <2>1. StartOf(es, n) = StartOf(es, n - 1)
    BY <1>3, <1>6
  <2>2. \A j \in Kinds(es, {"assistant"}) : j <= n <=> j <= n - 1
    BY <1>1, <1>6 DEF Kinds
  <2>3. n - 1 \in DOMAIN es
    <3>1. n - 1 # 0
      BY <1>6, <2>1, StartNone
    <3> QED
      BY <1>1, <3>1
  <2> QED
    BY <2>1, <2>2, <2>3 DEF ByUser
<1> QED
  BY <1>4, <1>5, <1>6

(* The open turn b is what the rows up to n say that are in the turn from s. *)
OpenAs(es, s, n, b) ==
    Builds(es, b, HereBy(es, Decoded(es, "assistant"), s, n), HereBy(es, Decoded(es, "tool"), s, n),
           HereBy(es, Said(es), s, n), HereBy(es, Replied(es), s, n))

(* The rows of a turn before the n-th. *)
LEMMA BeforeNth ==
    ASSUME NEW es \in Seq(OpencodeEvent), NEW n \in DOMAIN es, NEW s
    PROVE  RowsBefore(es, n, HereBy(es, Decoded(es, "assistant"), s, n - 1), HereBy(es, Decoded(es, "tool"), s, n - 1),
                      HereBy(es, Said(es), s, n - 1), HereBy(es, Replied(es), s, n - 1))
<1>1. \A i \in DOMAIN es : i \in Nat /\ i > 0
  BY EventFields
<1>2. n \in Nat /\ n - 1 \in Nat
  BY EventFields
<1>3. \A i \in DOMAIN es : i <= n - 1 => i \in 1 .. n - 1
  BY <1>1, <1>2
<1>4. ASSUME NEW rows \in SUBSET (DOMAIN es) PROVE \A i \in HereBy(es, rows, s, n - 1) : i \in 1 .. n - 1
  BY <1>3 DEF HereBy
<1> QED
  BY <1>4, RowsMatter DEF RowsBefore

(* A turn opened at its first row has none before it. *)
LEMMA OpensAs ==
    ASSUME NEW es \in Seq(OpencodeEvent), NEW n \in DOMAIN es, NEW b, Builds(es, b, {}, {}, {}, {})
    PROVE  OpenAs(es, n, n - 1, b)
BY RowsMatter, HereNone DEF OpenAs

(* How the rows grow with the n-th. *)
LEMMA HereNow ==
    ASSUME NEW es \in Seq(OpencodeEvent), NEW n \in DOMAIN es, NEW rows \in SUBSET (DOMAIN es)
    PROVE  /\ n \in rows => HereBy(es, rows, StartOf(es, n), n) = HereBy(es, rows, StartOf(es, n), n - 1) \cup {n}
           /\ n \notin rows => HereBy(es, rows, StartOf(es, n), n) = HereBy(es, rows, StartOf(es, n), n - 1)
<1>1. HereBy(es, rows, StartOf(es, n), n) =
          HereBy(es, rows, StartOf(es, n), n - 1) \cup (IF n \in rows THEN {n} ELSE {})
  BY HereGrows
<1> QED
  BY <1>1

(* A row that does not matter. *)
LEMMA OpenStays ==
    ASSUME NEW es \in Seq(OpencodeEvent), NEW n \in DOMAIN es, NEW b, OpenAs(es, StartOf(es, n), n - 1, b),
           n \notin Decoded(es, "assistant"), n \notin Decoded(es, "tool"), n \notin Said(es), n \notin Replied(es)
    PROVE  OpenAs(es, StartOf(es, n), n, b)
BY RowsMatter, HereNow DEF OpenAs

(* An answer. *)
LEMMA AnswerOpens ==
    ASSUME NEW es \in Seq(OpencodeEvent), NEW n \in DOMAIN es, NEW b, OpenAs(es, StartOf(es, n), n - 1, b),
           n \in Decoded(es, "assistant"), NEW q, q = AnswerOf(b, OpencodeStep(es[n].row, es[n].raw))
    PROVE  OpenAs(es, StartOf(es, n), n, q) /\ Alongside(b, q, MessageTokens(es[n].row))
<1> DEFINE s == StartOf(es, n)
           steps == HereBy(es, Decoded(es, "assistant"), s, n - 1)
           tools == HereBy(es, Decoded(es, "tool"), s, n - 1)
           said == HereBy(es, Said(es), s, n - 1)
           replied == HereBy(es, Replied(es), s, n - 1)
<1>1. Builds(es, b, steps, tools, said, replied)
  BY DEF OpenAs
<1>2. RowsBefore(es, n, steps, tools, said, replied)
  BY BeforeNth
<1>3. n \notin Decoded(es, "tool") /\ n \notin Said(es) /\ n \notin Replied(es)
  BY DEF Said, Replied, Texts, Decoded, Kinds
<1>4. /\ HereBy(es, Decoded(es, "assistant"), s, n) = steps \cup {n}
      /\ HereBy(es, Decoded(es, "tool"), s, n) = tools /\ HereBy(es, Said(es), s, n) = said
      /\ HereBy(es, Replied(es), s, n) = replied
  BY <1>3, RowsMatter, HereNow
<1> HIDE DEF s, steps, tools, said, replied
<1>5. Builds(es, q, steps \cup {n}, tools, said, replied) /\ Alongside(b, q, MessageTokens(es[n].row))
  BY <1>1, <1>2, AnswerBuilds
<1> QED
  BY <1>4, <1>5 DEF OpenAs, s

(* A tool's part. *)
LEMMA CallOpens ==
    ASSUME NEW es \in Seq(OpencodeEvent), NEW n \in DOMAIN es, NEW b, OpenAs(es, StartOf(es, n), n - 1, b),
           n \in Decoded(es, "tool"), NEW q, q = OpencodeToolCall(b, es[n].row, es[n].raw)
    PROVE  OpenAs(es, StartOf(es, n), n, q) /\ Alongside(b, q, NoTokens)
<1> DEFINE s == StartOf(es, n)
           steps == HereBy(es, Decoded(es, "assistant"), s, n - 1)
           tools == HereBy(es, Decoded(es, "tool"), s, n - 1)
           said == HereBy(es, Said(es), s, n - 1)
           replied == HereBy(es, Replied(es), s, n - 1)
<1>1. Builds(es, b, steps, tools, said, replied)
  BY DEF OpenAs
<1>2. RowsBefore(es, n, steps, tools, said, replied)
  BY BeforeNth
<1>3. n \notin Decoded(es, "assistant") /\ n \notin Said(es) /\ n \notin Replied(es)
  BY DEF Said, Replied, Texts, Decoded, Kinds
<1>4. /\ HereBy(es, Decoded(es, "assistant"), s, n) = steps
      /\ HereBy(es, Decoded(es, "tool"), s, n) = tools \cup {n} /\ HereBy(es, Said(es), s, n) = said
      /\ HereBy(es, Replied(es), s, n) = replied
  BY <1>3, RowsMatter, HereNow
<1> HIDE DEF s, steps, tools, said, replied
<1>5. Builds(es, q, steps, tools \cup {n}, said, replied) /\ Alongside(b, q, NoTokens)
  BY <1>1, <1>2, CallBuilds
<1> QED
  BY <1>4, <1>5 DEF OpenAs, s

(* What the user said. *)
LEMMA SaidOpens ==
    ASSUME NEW es \in Seq(OpencodeEvent), NEW n \in DOMAIN es, NEW b, OpenAs(es, StartOf(es, n), n - 1, b),
           n \in Said(es), NEW q, q = SaidOf(b, es[n].row)
    PROVE  OpenAs(es, StartOf(es, n), n, q) /\ Alongside(b, q, NoTokens)
<1> DEFINE s == StartOf(es, n)
           steps == HereBy(es, Decoded(es, "assistant"), s, n - 1)
           tools == HereBy(es, Decoded(es, "tool"), s, n - 1)
           said == HereBy(es, Said(es), s, n - 1)
           replied == HereBy(es, Replied(es), s, n - 1)
<1>1. Builds(es, b, steps, tools, said, replied)
  BY DEF OpenAs
<1>2. RowsBefore(es, n, steps, tools, said, replied)
  BY BeforeNth
<1>3. n \notin Decoded(es, "assistant") /\ n \notin Decoded(es, "tool") /\ n \notin Replied(es)
  BY DEF Said, Replied, Texts, Decoded, Kinds
<1>4. /\ HereBy(es, Decoded(es, "assistant"), s, n) = steps /\ HereBy(es, Decoded(es, "tool"), s, n) = tools
      /\ HereBy(es, Said(es), s, n) = said \cup {n} /\ HereBy(es, Replied(es), s, n) = replied
  BY <1>3, RowsMatter, HereNow
<1> HIDE DEF s, steps, tools, said, replied
<1>5. Worded(es[n].row)
  BY DEF Said, Replied, Texts, Worded
<1>6. Builds(es, q, steps, tools, said \cup {n}, replied) /\ Alongside(b, q, NoTokens)
  BY <1>1, <1>2, <1>5, SaidBuilds
<1> QED
  BY <1>4, <1>6 DEF OpenAs, s

(* A reply. *)
LEMMA ReplyOpens ==
    ASSUME NEW es \in Seq(OpencodeEvent), NEW n \in DOMAIN es, NEW b, OpenAs(es, StartOf(es, n), n - 1, b),
           n \in Replied(es), NEW q, q = ReplyOf(b, es[n].row)
    PROVE  OpenAs(es, StartOf(es, n), n, q) /\ Alongside(b, q, NoTokens)
<1> DEFINE s == StartOf(es, n)
           steps == HereBy(es, Decoded(es, "assistant"), s, n - 1)
           tools == HereBy(es, Decoded(es, "tool"), s, n - 1)
           said == HereBy(es, Said(es), s, n - 1)
           replied == HereBy(es, Replied(es), s, n - 1)
<1>1. Builds(es, b, steps, tools, said, replied)
  BY DEF OpenAs
<1>2. RowsBefore(es, n, steps, tools, said, replied)
  BY BeforeNth
<1>3. n \notin Decoded(es, "assistant") /\ n \notin Decoded(es, "tool") /\ n \notin Said(es)
  BY DEF Said, Replied, Texts, Decoded, Kinds
<1>4. /\ HereBy(es, Decoded(es, "assistant"), s, n) = steps /\ HereBy(es, Decoded(es, "tool"), s, n) = tools
      /\ HereBy(es, Said(es), s, n) = said /\ HereBy(es, Replied(es), s, n) = replied \cup {n}
  BY <1>3, RowsMatter, HereNow
<1> HIDE DEF s, steps, tools, said, replied
<1>5. Worded(es[n].row)
  BY DEF Said, Replied, Texts, Worded
<1>6. Builds(es, q, steps, tools, said, replied \cup {n}) /\ Alongside(b, q, NoTokens)
  BY <1>1, <1>2, <1>5, ReplyBuilds
<1> QED
  BY <1>4, <1>6 DEF OpenAs, s

(* A text, when the role of the open turn tells whose it is. *)
LEMMA TextOpens ==
    ASSUME NEW es \in Seq(OpencodeEvent), NEW n \in DOMAIN es, NEW b, OpenAs(es, StartOf(es, n), n - 1, b),
           es[n].row.kind = "text", es[n].row.data, StartOf(es, n) # 0, b.role = "user" <=> n \in ByUser(es),
           NEW q, q = OpencodeText(b, es[n].row)
    PROVE  OpenAs(es, StartOf(es, n), n, q) /\ Alongside(b, q, NoTokens)
<1> DEFINE r == es[n].row
<1>1. /\ n \notin Decoded(es, "assistant") /\ n \notin Decoded(es, "tool")
      /\ n \in Said(es) <=> r.text # <<>> /\ ~r.synthetic /\ b.role = "user" /\ ~IsLocalCommandInjection(r.text)
      /\ n \in Replied(es) <=> r.text # <<>> /\ ~r.synthetic /\ b.role # "user"
  BY RowIs
<1>2. CASE n \notin Said(es) /\ n \notin Replied(es)
  <2>1. q = b
    BY <1>1, <1>2 DEF OpencodeText
  <2>2. b \in OpencodeBuilder
    BY DEF OpenAs, Builds
  <2>3. Alongside(b, q, NoTokens)
    BY <2>1, <2>2, SameAnswers
  <2> QED
    BY <1>1, <1>2, <2>1, <2>3, OpenStays
<1>3. CASE n \in Said(es)
  <2>1. q = SaidOf(b, es[n].row)
    BY <1>1, <1>3 DEF OpencodeText, SaidOf
  <2> QED
    BY <1>3, <2>1, SaidOpens
<1>4. CASE n \in Replied(es)
  <2>1. q = ReplyOf(b, es[n].row)
    BY <1>1, <1>4 DEF OpencodeText, ReplyOf
  <2> QED
    BY <1>4, <2>1, ReplyOpens
<1> QED
  BY <1>2, <1>3, <1>4

-----------------------------------------------------------------------------
(* The end of a turn *)

(* The open turn with what the user said and what it cost. *)
ToldTurn(b) == [b.turn EXCEPT !.user = b.userParts, !.tokens = TokensOf(b.turn.invocations)]

(* It is the open turn otherwise. *)
LEMMA ToldTurnIs ==
    ASSUME NEW b \in OpencodeBuilder
    PROVE  LET t == ToldTurn(b)
           IN /\ t \in OpencodeTurnType /\ t.index = b.turn.index /\ t.invocations = b.turn.invocations
              /\ t.calls = b.turn.calls /\ t.final = b.turn.final /\ t.status = b.turn.status
              /\ t.user = b.userParts /\ t.tokens = TurnTokens(b)
<1> DEFINE t == ToldTurn(b)
           c == TokensOf(b.turn.invocations)
<1>1. b.turn \in OpencodeTurnType /\ b.userParts \in Seq(STRING)
  BY OpencodeBuilderFields
<1>2. c \in Tokens /\ c = TurnTokens(b)
  BY SameAnswers DEF TurnTokens
<1>3. t = [b.turn EXCEPT !.user = b.userParts, !.tokens = c]
  BY DEF ToldTurn
<1> HIDE DEF t, c
<1>4. t \in OpencodeTurnType
  BY <1>1, <1>2, <1>3 DEF OpencodeTurnType
<1>5. /\ t.index = b.turn.index /\ t.invocations = b.turn.invocations
      /\ t.calls = b.turn.calls /\ t.final = b.turn.final /\ t.status = b.turn.status
      /\ t.user = b.userParts /\ t.tokens = c
  BY <1>1, <1>3 DEF OpencodeTurnType
<1> QED
  BY <1>2, <1>4, <1>5 DEF t

(* A status is one of those of a turn. *)
LEMMA OpencodeStatusType ==
    ASSUME NEW t \in OpencodeTurnType
    PROVE  /\ ResolveTurnStatus(t) \in {"unknown", "success", "failed", "interrupted"}
           /\ t.status = "interrupted" => ResolveTurnStatus(t) = "interrupted"
           /\ t.status = "unknown" => ResolveTurnStatus(t) = StatusForTurn(t)
<1>1. t.status \in {"unknown", "success", "failed", "interrupted"}
  BY OpencodeTurnFields
<1>2. StatusForTurn(t) \in {"unknown", "success", "failed"}
  BY DEF StatusForTurn
<1> QED
  BY <1>1, <1>2 DEF ResolveTurnStatus

(* The turn that is stored. *)
LEMMA OpencodeFinishIs ==
    ASSUME NEW b \in OpencodeBuilder
    PROVE  LET t == OpencodeFinish(b)
           IN /\ t \in OpencodeTurnType /\ t.index = b.turn.index /\ t.invocations = b.turn.invocations
              /\ t.calls = b.turn.calls /\ t.final = b.turn.final /\ t.user = b.userParts
              /\ t.tokens = TurnTokens(b) /\ t.status = ResolveTurnStatus(ToldTurn(b))
<1> DEFINE u == ToldTurn(b)
           t == OpencodeFinish(b)
           status == ResolveTurnStatus(u)
           components == FromTools(u.calls)
<1>1. t = [u EXCEPT !.status = status, !.components = components]
  BY Zenon DEF OpencodeFinish, ToldTurn
<1>2. /\ u \in OpencodeTurnType /\ u.index = b.turn.index /\ u.invocations = b.turn.invocations
      /\ u.calls = b.turn.calls /\ u.final = b.turn.final
      /\ u.user = b.userParts /\ u.tokens = TurnTokens(b)
  BY ToldTurnIs
<1>3. status \in {"unknown", "success", "failed", "interrupted"}
  <2> HIDE DEF u
  <2> QED
    BY <1>2, OpencodeStatusType
<1>4. components \in OpencodeComponents
  <2>1. u.calls \in Seq(OpencodeCalls)
    BY <1>2, OpencodeTurnFields
  <2> DEFINE calls == u.calls
  <2> HIDE DEF u, calls
  <2>2. FromTools(calls) \in OpencodeComponents
    BY <2>1 DEF OpencodeComponents, calls
  <2> QED
    BY <2>2 DEF calls
<1> HIDE DEF t, status, components
<1>5. t.status = status /\ t \in OpencodeTurnType /\ t.index = u.index /\ t.invocations = u.invocations
      /\ t.calls = u.calls /\ t.final = u.final /\ t.user = u.user /\ t.tokens = u.tokens
  <2> HIDE DEF u
  <2> QED
    BY <1>1, <1>2, <1>3, <1>4 DEF OpencodeTurnType
<1> HIDE DEF u
<1>6. t.status = status
  BY <1>5
<1> QED
  BY <1>2, <1>5, <1>6 DEF t, status, u

(* The calls that failed are the rows of tools that say so. *)
LEMMA FailedCalls ==
    ASSUME NEW es, NEW calls, NEW rows, NEW steps, CallsAre(es, calls, rows, steps)
    PROVE  (\E i \in DOMAIN calls : calls[i].status = "failed") <=> (\E i \in rows : es[i].row.state = "error")
<1>1. PICK g : /\ InRowOrder(g, rows) /\ Carries(es, calls, g)
               /\ \A k \in DOMAIN g : CallOf(calls[k], es[g[k]].row, steps, g[k])
  BY DEF CallsAre
<1>2. calls \in Seq(OpencodeCalls)
  BY DEF CallsAre
<1>3. g \in Seq(Nat) /\ rows = {g[k] : k \in DOMAIN g}
  BY <1>1 DEF InRowOrder
<1>4. DOMAIN calls = DOMAIN g
  BY <1>1, <1>2, <1>3 DEF Carries
<1>5. \A e : ToolStatus(e) = "failed" <=> e.state = "error"
  BY DEF ToolStatus
<1>6. \A k \in DOMAIN g : calls[k].status = "failed" <=> es[g[k]].row.state = "error"
  BY <1>1, <1>5 DEF CallOf
<1> QED
  BY <1>3, <1>4, <1>6

(* The turn that is stored has the outcome of its rows. *)
LEMMA OutcomeTold ==
    ASSUME NEW es, NEW b, NEW steps, NEW tools, NEW said, NEW replied, Builds(es, b, steps, tools, said, replied)
    PROVE  OpencodeFinish(b).status = OpencodeOutcome(es, steps, tools, replied)
<1> DEFINE t == ToldTurn(b)
<1>1. /\ b \in OpencodeBuilder /\ StepsAre(es, b.turn.invocations, steps)
      /\ CallsAre(es, b.turn.calls, tools, steps) /\ b.turn.status = AnsweredStatus(es, steps)
      /\ (b.turn.final = <<>> <=> replied = {})
  BY DEF Builds, TextsIn
<1>2. /\ t \in OpencodeTurnType /\ t.invocations = b.turn.invocations
      /\ t.calls = b.turn.calls /\ t.final = b.turn.final /\ t.status = b.turn.status
  BY <1>1, ToldTurnIs
<1>3. OpencodeFinish(b).status = ResolveTurnStatus(t)
  BY <1>1, OpencodeFinishIs
<1> HIDE DEF t
<1>4. /\ t.status = "interrupted" => ResolveTurnStatus(t) = "interrupted"
      /\ t.status = "unknown" => ResolveTurnStatus(t) = StatusForTurn(t)
  BY <1>2, OpencodeStatusType
<1>5. (\E i \in DOMAIN t.calls : t.calls[i].status = "failed") <=> (\E i \in tools : es[i].row.state = "error")
  BY <1>1, <1>2, FailedCalls
<1>6. t.invocations = <<>> <=> steps = {}
  BY <1>1, <1>2, StepsCounted
<1>7. t.final = <<>> <=> replied = {}
  BY <1>1, <1>2
<1>8. CASE \E i \in steps : Aborted(es[i].row)
  <2>1. t.status = "interrupted"
    BY <1>1, <1>2, <1>8 DEF AnsweredStatus
  <2> QED
    BY <1>3, <1>4, <1>8, <2>1 DEF OpencodeOutcome
<1>9. CASE ~ \E i \in steps : Aborted(es[i].row)
  <2>1. t.status = "unknown"
    BY <1>1, <1>2, <1>9 DEF AnsweredStatus
  <2>2. StatusForTurn(t) = IF \E i \in tools : es[i].row.state = "error" THEN "failed"
                           ELSE IF replied # {} \/ steps # {} THEN "success" ELSE "unknown"
    BY <1>5, <1>6, <1>7 DEF StatusForTurn
  <2> QED
    BY <1>3, <1>4, <1>9, <2>1, <2>2 DEF OpencodeOutcome
<1> QED
  BY <1>8, <1>9

(* The open turn is kept if a row mattered. *)
LEMMA OpencodeEmptyIs ==
    ASSUME NEW es, NEW b, NEW steps, NEW tools, NEW said, NEW replied, Builds(es, b, steps, tools, said, replied)
    PROVE  OpencodeEmpty(b) <=> steps = {} /\ tools = {} /\ said = {} /\ replied = {}
<1>1. /\ StepsAre(es, b.turn.invocations, steps) /\ CallsAre(es, b.turn.calls, tools, steps)
      /\ (b.turn.final = <<>> <=> replied = {}) /\ (b.userParts = <<>> <=> said = {})
  BY DEF Builds, TextsIn
<1>2. (b.turn.invocations = <<>> <=> steps = {}) /\ (b.turn.calls = <<>> <=> tools = {})
  BY <1>1, StepsCounted, CallsCounted
<1> QED
  BY <1>1, <1>2 DEF OpencodeEmpty

(* The turn that is stored is what the rows of its turn say. *)
LEMMA StretchTold ==
    ASSUME NEW es, NEW b, NEW s,
           Builds(es, b, {i \in Decoded(es, "assistant") : StartOf(es, i) = s},
                  {i \in Decoded(es, "tool") : StartOf(es, i) = s},
                  {i \in Said(es) : StartOf(es, i) = s}, {i \in Replied(es) : StartOf(es, i) = s})
    PROVE  StretchFaithful(es, OpencodeFinish(b), s)
<1> DEFINE steps == {i \in Decoded(es, "assistant") : StartOf(es, i) = s}
           tools == {i \in Decoded(es, "tool") : StartOf(es, i) = s}
           said == {i \in Said(es) : StartOf(es, i) = s}
           answers == {i \in Replied(es) : StartOf(es, i) = s}
           t == OpencodeFinish(b)
           inv == b.turn.invocations
           calls == b.turn.calls
<1> HIDE DEF steps, tools, said, answers, t
<1>1. Builds(es, b, steps, tools, said, answers)
  BY DEF steps, tools, said, answers
<1>2. /\ b \in OpencodeBuilder /\ StepsAre(es, inv, steps)
      /\ CallsAre(es, calls, tools, steps) /\ TextsIn(es, b, said, answers)
  BY <1>1 DEF Builds
<1>3. t.invocations = inv /\ t.calls = calls /\ t.final = b.turn.final /\ t.user = b.userParts
  BY <1>2, OpencodeFinishIs DEF t
<1>4. t.status = OpencodeOutcome(es, steps, tools, answers)
  BY <1>1, OutcomeTold DEF t
<1> HIDE DEF inv, calls
<1>5. ListsRows(es, RawsOf(inv), steps) /\ \A k \in DOMAIN inv : inv[k].tokens = MessageTokens(es[NthRow(steps, k)].row)
  <2>1. inv \in Seq(OpencodeSteps)
    BY <1>2 DEF StepsAre
  <2>2. PICK g : /\ InRowOrder(g, steps) /\ Carries(es, inv, g)
                 /\ \A k \in DOMAIN g : inv[k].tokens = MessageTokens(es[g[k]].row)
    BY <1>2 DEF StepsAre
  <2>3. \A k \in DOMAIN g : NthRow(steps, k) = g[k]
    BY <2>2, NthRowIs
  <2>4. DOMAIN inv = DOMAIN g
    BY <2>1, <2>2 DEF Carries, InRowOrder
  <2>5. ListsRows(es, RawsOf(inv), steps)
    BY <2>1, <2>2, CarriedRows
  <2> QED
    BY <2>2, <2>3, <2>4, <2>5
<1>6. /\ ListsRows(es, RawsOf(calls), tools)
      /\ \A k \in DOMAIN calls : calls[k].invocation = Cardinality({i \in steps : i < NthRow(tools, k)})
  <2>1. calls \in Seq(OpencodeCalls)
    BY <1>2 DEF CallsAre
  <2>2. PICK g : /\ InRowOrder(g, tools) /\ Carries(es, calls, g)
                 /\ \A k \in DOMAIN g : CallOf(calls[k], es[g[k]].row, steps, g[k])
    BY <1>2 DEF CallsAre
  <2>3. \A k \in DOMAIN g : NthRow(tools, k) = g[k]
    BY <2>2, NthRowIs
  <2>4. DOMAIN calls = DOMAIN g
    BY <2>1, <2>2 DEF Carries, InRowOrder
  <2>5. ListsRows(es, RawsOf(calls), tools)
    BY <2>1, <2>2, CarriedRows
  <2>6. \A k \in DOMAIN calls : calls[k].invocation = Cardinality({i \in steps : i < g[k]})
    BY <2>2, <2>4 DEF CallOf
  <2> QED
    BY <2>3, <2>4, <2>5, <2>6
<1>7. Range(t.user) = UNION {Range(es[i].row.text) : i \in said}
  BY <1>2, <1>3 DEF TextsIn, TextsOf
<1>8. t.final = IF answers = {} THEN <<>> ELSE es[Max(answers)].row.text
  BY <1>2, <1>3 DEF TextsIn, LastText
<1>9. /\ ListsRows(es, RawsOf(t.invocations), steps) /\ ListsRows(es, RawsOf(t.calls), tools)
      /\ \A k \in DOMAIN t.invocations : t.invocations[k].tokens = MessageTokens(es[NthRow(steps, k)].row)
      /\ \A k \in DOMAIN t.calls : t.calls[k].invocation = Cardinality({i \in steps : i < NthRow(tools, k)})
  BY <1>3, <1>5, <1>6
<1> QED
  BY <1>4, <1>7, <1>8, <1>9, Zenon DEF StretchFaithful, steps, tools, said, answers, t

-----------------------------------------------------------------------------
(* The turns that are stored, the errors, the bill *)

(* The turns stored are those of some starts, in their order, each what its rows say. *)
TurnsTold(es, turns, starts) ==
    /\ turns \in Seq(OpencodeTurnType)
    /\ \E g : /\ InRowOrder(g, starts) /\ Len(turns) = Len(g)
              /\ \A t \in DOMAIN g : turns[t].index = t /\ StretchFaithful(es, turns[t], g[t])

(* A later turn is the last. *)
LEMMA TurnTold ==
    ASSUME NEW es, NEW turns, NEW starts, TurnsTold(es, turns, starts), NEW t \in OpencodeTurnType, NEW s \in Nat,
           \A x \in starts : x < s, t.index = Len(turns) + 1, StretchFaithful(es, t, s)
    PROVE  TurnsTold(es, Append(turns, t), starts \cup {s})
<1>1. turns \in Seq(OpencodeTurnType)
  BY DEF TurnsTold
<1>2. PICK g : /\ InRowOrder(g, starts) /\ Len(turns) = Len(g)
               /\ \A i \in DOMAIN g : turns[i].index = i /\ StretchFaithful(es, turns[i], g[i])
  BY DEF TurnsTold
<1> DEFINE N == Len(g)
           h == Append(g, s)
           more == Append(turns, t)
<1>3. /\ N \in Nat /\ DOMAIN g = 1 .. N /\ DOMAIN h = 1 .. N + 1 /\ h[N + 1] = s /\ Len(h) = N + 1
      /\ \A k \in 1 .. N : h[k] = g[k]
  BY <1>2 DEF InRowOrder
<1>4. more \in Seq(OpencodeTurnType) /\ Len(more) = N + 1 /\ more[N + 1] = t /\ \A k \in 1 .. N : more[k] = turns[k]
  BY <1>1, <1>2
<1>5. InRowOrder(h, starts \cup {s})
  BY <1>2, NumberedNext
<1>6. t.index = N + 1
  BY <1>2
<1> HIDE DEF N, h, more
<1>7. ASSUME NEW i \in DOMAIN h PROVE more[i].index = i /\ StretchFaithful(es, more[i], h[i])
  <2>1. i = N + 1 \/ i \in 1 .. N
    BY <1>3, UpToLast
  <2>2. CASE i = N + 1
    BY <1>3, <1>4, <1>6, <2>2
  <2>3. CASE i \in 1 .. N
    BY <1>2, <1>3, <1>4, <2>3
  <2> QED
    BY <2>1, <2>2, <2>3
<1>8. TurnsTold(es, more, starts \cup {s})
  BY <1>3, <1>4, <1>5, <1>7 DEF TurnsTold
<1> QED
  BY <1>8 DEF more

(* The errors are some rows in their order. *)
ErrorsTold(es, errors, rows) ==
    /\ errors \in Seq(Nat \X Nat)
    /\ \E g : InRowOrder(g, rows) /\ Len(errors) = Len(g) /\ \A k \in DOMAIN g : errors[k] = es[g[k]].raw

(* A later row is the last error. *)
LEMMA ErrorTold ==
    ASSUME NEW es \in Seq(OpencodeEvent), NEW n \in DOMAIN es, NEW errors, NEW rows, ErrorsTold(es, errors, rows),
           \A i \in rows : i < n
    PROVE  ErrorsTold(es, Append(errors, es[n].raw), rows \cup {n})
<1> DEFINE S == Nat \X Nat
           x == es[n].raw
<1>1. n \in Nat /\ x \in S
  BY EventFields
<1>2. errors \in Seq(S)
  BY DEF ErrorsTold
<1>3. PICK g : InRowOrder(g, rows) /\ Len(errors) = Len(g) /\ \A k \in DOMAIN g : errors[k] = es[g[k]].raw
  BY DEF ErrorsTold
<1> DEFINE N == Len(g)
           h == Append(g, n)
           more == Append(errors, x)
<1>4. /\ N \in Nat /\ DOMAIN g = 1 .. N /\ DOMAIN h = 1 .. N + 1 /\ h[N + 1] = n /\ Len(h) = N + 1
      /\ \A k \in 1 .. N : h[k] = g[k]
  BY <1>1, <1>3 DEF InRowOrder
<1>5. more \in Seq(S) /\ Len(more) = N + 1 /\ more[N + 1] = x /\ \A k \in 1 .. N : more[k] = errors[k]
  <2> HIDE DEF S, x
  <2> QED
    BY <1>1, <1>2, <1>3
<1>6. InRowOrder(h, rows \cup {n})
  BY <1>1, <1>3, NumberedNext
<1> HIDE DEF N, h, more
<1>7. ASSUME NEW i \in DOMAIN h PROVE more[i] = es[h[i]].raw
  <2>1. i = N + 1 \/ i \in 1 .. N
    BY <1>4, UpToLast
  <2>2. CASE i = N + 1
    BY <1>4, <1>5, <2>2
  <2>3. CASE i \in 1 .. N
    BY <1>3, <1>4, <1>5, <2>3
  <2> QED
    BY <2>1, <2>2, <2>3
<1>8. more \in Seq(Nat \X Nat) /\ Len(more) = Len(h)
  BY <1>4, <1>5 DEF S
<1> HIDE DEF S, x
<1>9. ErrorsTold(es, more, rows \cup {n})
  BY <1>6, <1>7, <1>8 DEF ErrorsTold
<1> QED
  BY <1>9 DEF more, x

(* The errors are the rows in their order. *)
LEMMA ErrorsListed ==
    ASSUME NEW es, NEW errors, NEW rows, ErrorsTold(es, errors, rows) PROVE ListsRows(es, errors, rows)
<1>1. errors \in Seq(Nat \X Nat)
  BY DEF ErrorsTold
<1>2. PICK g : InRowOrder(g, rows) /\ Len(errors) = Len(g) /\ \A k \in DOMAIN g : errors[k] = es[g[k]].raw
  BY DEF ErrorsTold
<1>3. Cardinality(rows) = Len(g) /\ \A k \in DOMAIN g : NthRow(rows, k) = g[k]
  BY <1>2, NthRowIs
<1>4. DOMAIN errors = DOMAIN g
  BY <1>1, <1>2 DEF InRowOrder
<1> QED
  BY <1>2, <1>3, <1>4 DEF ListsRows

(* What the first n rows cost. *)
Costs(es, n) == [i \in 1 .. n |-> CostOf(es[i].row)]
BillBy(es, n) == SumTokens(Costs(es, n))

(* A row costs a count. *)
LEMMA CostType == ASSUME NEW e \in OpencodeRows PROVE CostOf(e) \in Tokens
BY MessageTokensType, NoTokensType DEF CostOf

(* The n-th row adds its cost. *)
LEMMA BillNext ==
    ASSUME NEW es \in Seq(OpencodeEvent), NEW n \in DOMAIN es
    PROVE  BillBy(es, n) = AddTokens(BillBy(es, n - 1), CostOf(es[n].row)) /\ BillBy(es, n - 1) \in Tokens
<1> DEFINE m == n - 1
           c == Costs(es, m)
           x == CostOf(es[n].row)
           d == Costs(es, n)
<1>1. n \in Nat /\ m \in Nat /\ n = m + 1 /\ n <= Len(es) /\ DOMAIN es = 1 .. Len(es) /\ x \in Tokens
  BY EventFields, CostType
<1>2. \A i \in 1 .. n : CostOf(es[i].row) \in Tokens
  <2>1. \A i \in 1 .. n : i \in DOMAIN es
    BY <1>1
  <2>2. \A i \in DOMAIN es : es[i].row \in OpencodeRows
    BY EventFields
  <2> QED
    BY <2>1, <2>2, CostType
<1> HIDE DEF m
<1>3. c \in Seq(Tokens) /\ Len(c) = m /\ DOMAIN c = 1 .. m /\ \A i \in 1 .. m : c[i] = CostOf(es[i].row)
  BY <1>1, <1>2 DEF Costs
<1>4. d \in Seq(Tokens) /\ Len(d) = m + 1 /\ DOMAIN d = 1 .. m + 1 /\ \A i \in 1 .. m + 1 : d[i] = CostOf(es[i].row)
  BY <1>1, <1>2 DEF Costs
<1> HIDE DEF c, d
<1>5. d = Append(c, x)
  <2> DEFINE a == Append(c, x)
  <2> HIDE DEF x
  <2>1. a \in Seq(Tokens) /\ Len(a) = m + 1 /\ a[m + 1] = x /\ \A i \in 1 .. m : a[i] = c[i]
    BY <1>1, <1>3
  <2> HIDE DEF a
  <2>2. DOMAIN a = 1 .. m + 1 /\ d = [i \in 1 .. m + 1 |-> d[i]] /\ a = [i \in 1 .. m + 1 |-> a[i]]
    BY <1>4, <2>1
  <2>3. ASSUME NEW i \in 1 .. m + 1 PROVE a[i] = d[i]
    <3>1. i = m + 1 \/ i \in 1 .. m
      BY <1>1, UpToLast
    <3> QED
      BY <1>1, <1>3, <1>4, <2>1, <3>1 DEF x
  <2>4. d = a
    BY <2>2, <2>3
  <2> QED
    BY <2>4 DEF a
<1>6. SumTokens(d) = AddTokens(SumTokens(c), x) /\ SumTokens(c) \in Tokens
  BY <1>1, <1>3, <1>5, SumTokensAppend, SumTokensType
<1> QED
  BY <1>6 DEF BillBy, c, d, m, x

(* Nothing is billed before the first row. *)
LEMMA BillNone == \A es : BillBy(es, 0) = NoTokens
<1> SUFFICES ASSUME NEW es PROVE BillBy(es, 0) = NoTokens
  OBVIOUS
<1>1. Costs(es, 0) = <<>>
  BY DEF Costs
<1> QED
  BY <1>1, SumTokensEmpty DEF BillBy

-----------------------------------------------------------------------------
(* What ParseEvents stands at after n rows *)

(* The open turn is the user's. *)
UserTurn(b) == b.role = "user"
(* The starts before s. *)
StartsBefore(es, s) == {x \in Starts(es) : x < s}
(* The rows that are errors, up to n. *)
LostBy(es, n) == {i \in Lost(es) : i <= n}
(* The turns stored and the open one b cost what the first n rows do. *)
BilledTo(es, n, turns, b) == AddTokens(TokensOf(turns), TurnTokens(b)) = BillBy(es, n)

(* What ParseEvents has made of the first n rows. *)
OpencodeStanding(es, n, o) ==
    /\ es \in Seq(OpencodeEvent) /\ n \in 0 .. Len(es) /\ o \in OpencodeSession
    /\ (o.current = None <=> StartOf(es, n) = 0)
    /\ TurnsTold(es, o.turns, StartsBefore(es, StartOf(es, n)))
    /\ ErrorsTold(es, o.errors, LostBy(es, n))
    /\ o.current = None => TokensOf(o.turns) = BillBy(es, n)
    /\ o.current # None =>
           /\ OpenAs(es, StartOf(es, n), n, o.current) /\ o.current.turn.index = Len(o.turns) + 1
           /\ (UserTurn(o.current) <=> n \in ByUser(es)) /\ BilledTo(es, n, o.turns, o.current)

(* What it has when the n-th row's turn is open and the row still to be handled. *)
OpencodeReady(es, n, o) ==
    /\ es \in Seq(OpencodeEvent) /\ n \in DOMAIN es /\ o \in OpencodeSession /\ o.current \in OpencodeBuilder
    /\ StartOf(es, n) # 0
    /\ TurnsTold(es, o.turns, StartsBefore(es, StartOf(es, n)))
    /\ ErrorsTold(es, o.errors, LostBy(es, n - 1))
    /\ OpenAs(es, StartOf(es, n), n - 1, o.current) /\ o.current.turn.index = Len(o.turns) + 1
    /\ BilledTo(es, n - 1, o.turns, o.current)

(* Every turn stored has counts. *)
LEMMA OpencodeTurnsTokens == \A t \in OpencodeTurnType : t.tokens \in Tokens
BY OpencodeTurnFields

(* The turns stored cost a count. *)
LEMMA StoredTokens == ASSUME NEW turns \in Seq(OpencodeTurnType) PROVE TokensOf(turns) \in Tokens
<1> DEFINE S == OpencodeTurnType
           g == [i \in DOMAIN turns |-> turns[i].tokens]
<1>1. DOMAIN turns = 1 .. Len(turns) /\ Len(turns) \in Nat /\ \A i \in DOMAIN turns : turns[i] \in S
  <2>1. turns \in Seq(S)
    OBVIOUS
  <2> HIDE DEF S
  <2> QED
    BY <2>1
<1>2. \A i \in DOMAIN turns : turns[i].tokens \in Tokens
  BY <1>1, OpencodeTurnsTokens
<1>3. g \in Seq(Tokens)
  BY <1>1, <1>2
<1> QED
  BY <1>3, SumTokensType DEF TokensOf

(* The open turn in q has the same place as that of o, and costs what o's does and cost. *)
StaysOpen(o, q, cost) ==
    /\ q.turns = o.turns /\ q.current.turn.index = o.current.turn.index
    /\ TurnTokens(q.current) = AddTokens(TurnTokens(o.current), cost)

(* The n-th row has been handled. *)
LEMMA Handled ==
    ASSUME NEW es, NEW n, NEW o, OpencodeReady(es, n, o), NEW q \in OpencodeSession,
           q.current \in OpencodeBuilder, OpenAs(es, StartOf(es, n), n, q.current), StaysOpen(o, q, CostOf(es[n].row)),
           UserTurn(q.current) <=> n \in ByUser(es), ErrorsTold(es, q.errors, LostBy(es, n))
    PROVE  OpencodeStanding(es, n, q)
<1> DEFINE cost == CostOf(es[n].row)
<1>1. /\ es \in Seq(OpencodeEvent) /\ n \in DOMAIN es /\ o \in OpencodeSession /\ o.current \in OpencodeBuilder
      /\ StartOf(es, n) # 0 /\ TurnsTold(es, o.turns, StartsBefore(es, StartOf(es, n)))
      /\ o.current.turn.index = Len(o.turns) + 1 /\ BilledTo(es, n - 1, o.turns, o.current)
  BY DEF OpencodeReady
<1>2. n \in 0 .. Len(es) /\ cost \in Tokens
  BY <1>1, EventFields, CostType
<1>3. q.turns = o.turns /\ q.current.turn.index = Len(q.turns) + 1
      /\ TurnTokens(q.current) = AddTokens(TurnTokens(o.current), cost)
  BY <1>1 DEF StaysOpen
<1>4. TokensOf(o.turns) \in Tokens /\ TurnTokens(o.current) \in Tokens
  BY <1>1, OpencodeFields, StoredTokens, SameAnswers
<1>5. BilledTo(es, n, q.turns, q.current)
  <2> DEFINE a == TokensOf(o.turns)
             b == TurnTokens(o.current)
  <2>1. AddTokens(a, b) = BillBy(es, n - 1) /\ BillBy(es, n) = AddTokens(BillBy(es, n - 1), cost)
    BY <1>1, BillNext DEF BilledTo
  <2>2. a \in Tokens /\ b \in Tokens
    BY <1>4
  <2>3. TokensOf(q.turns) = a /\ TurnTokens(q.current) = AddTokens(b, cost)
    BY <1>3
  <2> HIDE DEF a, b, cost
  <2>4. AddTokens(a, AddTokens(b, cost)) = AddTokens(AddTokens(a, b), cost)
    BY <1>2, <2>2, AddTokensAssociates
  <2> QED
    BY <2>1, <2>3, <2>4 DEF BilledTo
<1>6. q.current # None
  BY NoneIsNoOpencode
<1> HIDE DEF cost
<1> QED
  BY <1>1, <1>2, <1>3, <1>5, <1>6 DEF OpencodeStanding

(* The row is in the turn of the row before it. *)
LEMMA ReadyIn ==
    ASSUME NEW es, NEW n, NEW o, OpencodeStanding(es, n - 1, o), n \in DOMAIN es, o.current # None,
           StartOf(es, n) = StartOf(es, n - 1)
    PROVE  OpencodeReady(es, n, o)
<1>1. /\ es \in Seq(OpencodeEvent) /\ o \in OpencodeSession /\ StartOf(es, n - 1) # 0
      /\ TurnsTold(es, o.turns, StartsBefore(es, StartOf(es, n - 1)))
      /\ ErrorsTold(es, o.errors, LostBy(es, n - 1))
      /\ OpenAs(es, StartOf(es, n - 1), n - 1, o.current) /\ o.current.turn.index = Len(o.turns) + 1
      /\ BilledTo(es, n - 1, o.turns, o.current)
  BY DEF OpencodeStanding
<1>2. o.current \in OpencodeBuilder
  BY <1>1, OpencodeFields
<1> QED
  BY <1>1, <1>2 DEF OpencodeReady

(* A parser with its turn opened. *)
WithOpen(o, b) == [o EXCEPT !.current = b]

(* It is the same otherwise. *)
LEMMA WithOpenIs ==
    ASSUME NEW o \in OpencodeSession, NEW b \in OpencodeBuilder
    PROVE  /\ WithOpen(o, b) \in OpencodeSession /\ WithOpen(o, b).current = b /\ WithOpen(o, b).turns = o.turns
           /\ WithOpen(o, b).errors = o.errors
BY WithCurrent DEF WithOpen

(* Rows are counted from one. *)
LEMMA RowNumbers == ASSUME NEW es \in Seq(OpencodeEvent), NEW n \in DOMAIN es PROVE n # 0
<1>1. n \in Nat /\ n > 0
  BY EventFields
<1> QED
  BY <1>1

(* The role of an open turn. *)
HasRole(b, role) == b.role = role
(* The row starts a turn, and the turns before are stored. *)
StoredBefore(es, n, o) ==
    /\ es \in Seq(OpencodeEvent) /\ n \in DOMAIN es /\ o \in OpencodeSession /\ StartOf(es, n) = n
    /\ TurnsTold(es, o.turns, StartsBefore(es, n)) /\ ErrorsTold(es, o.errors, LostBy(es, n - 1))
    /\ TokensOf(o.turns) = BillBy(es, n - 1)

(* The row opens its turn. *)
LEMMA ReadyNew ==
    ASSUME NEW es, NEW n, NEW o, StoredBefore(es, n, o), NEW role \in {"", "user", "assistant"},
           NEW q, q = WithOpen(o, TurnFrom(o, es[n].row.when, role))
    PROVE  OpencodeReady(es, n, q) /\ HasRole(q.current, role)
<1>0. /\ es \in Seq(OpencodeEvent) /\ n \in DOMAIN es /\ o \in OpencodeSession /\ StartOf(es, n) = n
      /\ TurnsTold(es, o.turns, StartsBefore(es, n)) /\ ErrorsTold(es, o.errors, LostBy(es, n - 1))
      /\ TokensOf(o.turns) = BillBy(es, n - 1)
  BY DEF StoredBefore
<1> DEFINE b == TurnFrom(o, es[n].row.when, role)
<1>1. n \in Nat /\ n > 0 /\ es[n].row.when \in Nat
  BY <1>0, EventFields
<1>2. Builds(es, b, {}, {}, {}, {}) /\ b.role = role /\ b.turn.index = Len(o.turns) + 1 /\ TurnTokens(b) = NoTokens
  BY <1>0, <1>1, NewBuilds
<1> HIDE DEF b
<1>3. b \in OpencodeBuilder /\ OpenAs(es, n, n - 1, b)
  BY <1>0, <1>2, OpensAs DEF Builds
<1>4. q \in OpencodeSession /\ q.current = b /\ q.turns = o.turns /\ q.errors = o.errors
  BY <1>0, <1>3, WithOpenIs DEF b
<1>5. TokensOf(o.turns) \in Tokens
  BY <1>0, OpencodeFields, StoredTokens
<1>6. BilledTo(es, n - 1, o.turns, b)
  BY <1>0, <1>2, <1>5, AddNoTokens DEF BilledTo
<1>7. StartOf(es, n) # 0
  BY <1>0, RowNumbers, Zenon
<1> QED
  BY <1>0, <1>2, <1>3, <1>4, <1>6, <1>7 DEF OpencodeReady, HasRole

(* Before the first turn there is no start. *)
LEMMA NoStartBefore ==
    ASSUME NEW es \in Seq(OpencodeEvent), NEW m \in 0 .. Len(es), StartOf(es, m) = 0
    PROVE  StartsBefore(es, m + 1) = {} /\ StartsBefore(es, 0) = {}
<1>1. m \in Nat
  OBVIOUS
<1>2. ASSUME NEW s \in Starts(es) PROVE s \in Nat /\ s > m
  <2>1. PICK i \in Telling(es) : s = StartOf(es, i)
    BY DEF Starts
  <2>2. i \in DOMAIN es /\ StartOf(es, i) # 0
    BY <2>1 DEF Telling, Said, Replied, Texts, Decoded, Kinds
  <2>3. i \in 0 .. Len(es) /\ i \in Nat
    BY <2>2, EventFields
  <2>4. s \in 0 .. i /\ StartOf(es, s) = s /\ s # 0
    BY <2>1, <2>2, <2>3, StartsAscend
  <2>5. s <= m => s <= 0
    <3> SUFFICES ASSUME s <= m PROVE s <= 0
      OBVIOUS
    <3>1. s \in 0 .. m
      BY <1>1, <2>4
    <3>2. StartOf(es, s) <= StartOf(es, m)
      BY <3>1, StartsAscend
    <3> QED
      BY <2>4, <3>2
  <2> QED
    BY <1>1, <2>3, <2>4, <2>5
<1>3. \A s \in Starts(es) : ~ (s < m + 1) /\ ~ (s < 0)
  BY <1>1, <1>2
<1> QED
  BY <1>3 DEF StartsBefore

-----------------------------------------------------------------------------
(* The open turn is closed *)

(* A turn is kept if one of its rows matters. *)
LEMMA KeptIs ==
    ASSUME NEW es, NEW c
    PROVE  c \in Starts(es) <=> ~ (/\ {i \in Decoded(es, "assistant") : StartOf(es, i) = c} = {}
                                   /\ {i \in Decoded(es, "tool") : StartOf(es, i) = c} = {}
                                   /\ {i \in Said(es) : StartOf(es, i) = c} = {}
                                   /\ {i \in Replied(es) : StartOf(es, i) = c} = {})
BY DEF Starts, Telling

(* A parser with the turn t stored and none open, or only none open. *)
StoreTurn(o, t) == [o EXCEPT !.turns = Append(@, t), !.current = None]
DropTurn(o) == [o EXCEPT !.current = None]

(* They are the same otherwise. *)
LEMMA ClosedAre ==
    ASSUME NEW o \in OpencodeSession, NEW t \in OpencodeTurnType
    PROVE  /\ StoreTurn(o, t) \in OpencodeSession /\ StoreTurn(o, t).current = None
           /\ StoreTurn(o, t).turns = Append(o.turns, t) /\ StoreTurn(o, t).errors = o.errors
           /\ DropTurn(o) \in OpencodeSession /\ DropTurn(o).current = None /\ DropTurn(o).turns = o.turns
           /\ DropTurn(o).errors = o.errors
<1> DEFINE S == OpencodeTurnType
           x == Append(o.turns, t)
<1>1. o.turns \in Seq(S) /\ t \in S
  BY OpencodeFields
<1>2. x \in Seq(S)
  <2> HIDE DEF S
  <2> QED
    BY <1>1
<1>3. x \in Seq(OpencodeTurnType)
  BY <1>2
<1>4. StoreTurn(o, t) = [o EXCEPT !.turns = x, !.current = None]
  BY DEF StoreTurn
<1> HIDE DEF x
<1>5. StoreTurn(o, t) \in OpencodeSession /\ StoreTurn(o, t).current = None /\ StoreTurn(o, t).turns = x
      /\ StoreTurn(o, t).errors = o.errors
  BY <1>3, <1>4 DEF OpencodeSession
<1>6. DropTurn(o) \in OpencodeSession /\ DropTurn(o).current = None /\ DropTurn(o).turns = o.turns
      /\ DropTurn(o).errors = o.errors
  BY DEF DropTurn, OpencodeSession
<1> QED
  BY <1>5, <1>6 DEF x

(* When the turn has all its rows it is stored, if one of them matters. *)
LEMMA FlushTold ==
    ASSUME NEW es, NEW m, NEW o, OpencodeStanding(es, m, o), NEW w \in Nat, w = m + 1,
           m = Len(es) \/ StartOf(es, w) = w, NEW f, f = OpencodeFlush(o)
    PROVE  /\ f \in OpencodeSession /\ f.current = None /\ f.errors = o.errors
           /\ TurnsTold(es, f.turns, StartsBefore(es, w)) /\ TokensOf(f.turns) = BillBy(es, m)
<1> DEFINE c == StartOf(es, m)
           b == o.current
           t == OpencodeFinish(b)
<1>1. /\ es \in Seq(OpencodeEvent) /\ m \in 0 .. Len(es) /\ o \in OpencodeSession
      /\ (o.current = None <=> c = 0) /\ TurnsTold(es, o.turns, StartsBefore(es, c))
      /\ o.current = None => TokensOf(o.turns) = BillBy(es, m)
      /\ o.current # None =>
             /\ OpenAs(es, c, m, b) /\ b.turn.index = Len(o.turns) + 1 /\ BilledTo(es, m, o.turns, b)
  BY DEF OpencodeStanding
<1>2. CASE o.current = None
  <2>1. f = o
    BY <1>2 DEF OpencodeFlush
  <2>2. StartsBefore(es, w) = StartsBefore(es, c)
    BY <1>1, <1>2, NoStartBefore
  <2> QED
    BY <1>1, <1>2, <2>1, <2>2
<1>3. CASE o.current # None
  <2>1. c # 0 /\ b \in OpencodeBuilder
    BY <1>1, <1>3, OpencodeFields
  <2>2. f = IF OpencodeEmpty(b) THEN DropTurn(o) ELSE StoreTurn(o, t)
    BY <1>3 DEF OpencodeFlush, DropTurn, StoreTurn
  <2>3. m = Len(es) \/ StartOf(es, m + 1) = m + 1
    OBVIOUS
  <2>4. \A rows \in SUBSET (DOMAIN es) : HereBy(es, rows, c, m) = {i \in rows : StartOf(es, i) = c}
    BY <1>1, <2>3, HereAll
  <2>5. Builds(es, b, {i \in Decoded(es, "assistant") : StartOf(es, i) = c},
               {i \in Decoded(es, "tool") : StartOf(es, i) = c},
               {i \in Said(es) : StartOf(es, i) = c}, {i \in Replied(es) : StartOf(es, i) = c})
    BY <1>1, <1>3, <2>4, RowsMatter DEF OpenAs
  <2>6. OpencodeEmpty(b) <=> c \notin Starts(es)
    <3> DEFINE steps == {i \in Decoded(es, "assistant") : StartOf(es, i) = c}
               tools == {i \in Decoded(es, "tool") : StartOf(es, i) = c}
               said == {i \in Said(es) : StartOf(es, i) = c}
               replied == {i \in Replied(es) : StartOf(es, i) = c}
    <3>1. Builds(es, b, steps, tools, said, replied)
      BY <2>5
    <3>2. c \in Starts(es) <=> ~ (steps = {} /\ tools = {} /\ said = {} /\ replied = {})
      BY KeptIs
    <3> HIDE DEF steps, tools, said, replied
    <3>3. OpencodeEmpty(b) <=> steps = {} /\ tools = {} /\ said = {} /\ replied = {}
      BY <3>1, OpencodeEmptyIs
    <3> QED
      BY <3>2, <3>3
  <2>7. StretchFaithful(es, t, c)
    BY <2>5, StretchTold
  <2>8. t \in OpencodeTurnType /\ t.index = b.turn.index /\ t.tokens = TurnTokens(b)
    BY <2>1, OpencodeFinishIs
  <2>9. StartsBefore(es, w) = StartsBefore(es, c) \cup (IF c \in Starts(es) THEN {c} ELSE {})
    BY <1>1, <2>1, StartsGrow DEF StartsBefore
  <2>10. /\ StoreTurn(o, t) \in OpencodeSession /\ StoreTurn(o, t).current = None
         /\ StoreTurn(o, t).turns = Append(o.turns, t) /\ StoreTurn(o, t).errors = o.errors
         /\ DropTurn(o) \in OpencodeSession /\ DropTurn(o).current = None /\ DropTurn(o).turns = o.turns
         /\ DropTurn(o).errors = o.errors
    BY <1>1, <2>8, ClosedAre
  <2>11. c \in Nat /\ o.turns \in Seq(OpencodeTurnType)
    BY <1>1, StartsAscend, OpencodeFields
  <2>12. TokensOf(o.turns) \in Tokens /\ AddTokens(TokensOf(o.turns), TurnTokens(b)) = BillBy(es, m)
    BY <1>1, <1>3, <2>11, StoredTokens DEF BilledTo
  <2>13. b.turn.index = Len(o.turns) + 1
    BY <1>1, <1>3
  <2> HIDE DEF c, t
  <2>14. CASE c \in Starts(es)
    <3>1. f = StoreTurn(o, t)
      BY <2>2, <2>6, <2>14
    <3>2. TurnsTold(es, Append(o.turns, t), StartsBefore(es, c) \cup {c})
      <4>1. \A x \in StartsBefore(es, c) : x < c
        BY DEF StartsBefore
      <4>2. t.index = Len(o.turns) + 1
        BY <2>8, <2>13
      <4> QED
        BY <1>1, <2>7, <2>8, <2>11, <4>1, <4>2, TurnTold
    <3>3. TokensOf(Append(o.turns, t)) = AddTokens(TokensOf(o.turns), t.tokens)
      BY <2>8, <2>11, OpencodeTurnsTokens, TokensOfAppend
    <3> QED
      BY <2>8, <2>9, <2>10, <2>12, <2>14, <3>1, <3>2, <3>3
  <2>15. CASE c \notin Starts(es)
    <3>1. f = DropTurn(o)
      BY <2>2, <2>6, <2>15
    <3>2. TurnTokens(b) = NoTokens
      <4> DEFINE steps == {i \in Decoded(es, "assistant") : StartOf(es, i) = c}
      <4>1. steps = {}
        BY <2>15, KeptIs
      <4>2. StepsAre(es, b.turn.invocations, steps)
        BY <2>5 DEF Builds
      <4> HIDE DEF steps
      <4>3. b.turn.invocations = <<>>
        BY <4>1, <4>2, StepsCounted
      <4> QED
        BY <4>3, NothingBuilt DEF TurnTokens
    <3>3. TokensOf(o.turns) = BillBy(es, m)
      BY <2>12, <3>2, AddNoTokens
    <3>4. StartsBefore(es, w) = StartsBefore(es, c)
      BY <2>9, <2>15
    <3> QED
      BY <1>1, <2>10, <3>1, <3>3, <3>4
  <2> QED
    BY <2>14, <2>15
<1> QED
  BY <1>2, <1>3

-----------------------------------------------------------------------------
(* A row is read *)

(* What is no part of a turn does not matter. *)
LEMMA StandingSame ==
    ASSUME NEW es, NEW m, NEW p, OpencodeStanding(es, m, p), NEW o \in OpencodeSession,
           o.turns = p.turns, o.current = p.current, o.errors = p.errors
    PROVE  OpencodeStanding(es, m, o)
BY DEF OpencodeStanding

(* The errors grow with the n-th row if it is one. *)
LEMMA LostGrows ==
    ASSUME NEW es \in Seq(OpencodeEvent), NEW n \in DOMAIN es, NEW errors, ErrorsTold(es, errors, LostBy(es, n - 1))
    PROVE  /\ n \notin Lost(es) => ErrorsTold(es, errors, LostBy(es, n))
           /\ n \in Lost(es) => ErrorsTold(es, Append(errors, es[n].raw), LostBy(es, n))
<1>1. n \in Nat /\ \A i \in DOMAIN es : i \in Nat
  BY EventFields
<1>2. Lost(es) \subseteq DOMAIN es
  BY DEF Lost
<1>3. \A i \in Lost(es) : (i <= n <=> i <= n - 1 \/ i = n) /\ (i <= n - 1 => i < n)
  BY <1>1, <1>2
<1>4. n \notin Lost(es) => LostBy(es, n) = LostBy(es, n - 1)
  BY <1>3 DEF LostBy
<1>5. n \in Lost(es) => LostBy(es, n) = LostBy(es, n - 1) \cup {n}
  BY <1>1, <1>3 DEF LostBy
<1>6. \A i \in LostBy(es, n - 1) : i < n
  BY <1>3 DEF LostBy
<1>7. ErrorsTold(es, Append(errors, es[n].raw), LostBy(es, n - 1) \cup {n})
  BY <1>6, ErrorTold
<1> QED
  BY <1>4, <1>5, <1>7

(* What makes the n-th row an error. *)
LEMMA LostIs ==
    ASSUME NEW es, NEW n \in DOMAIN es
    PROVE  n \in Lost(es) <=>
               \/ es[n].row.kind \notin {"session", "user", "assistant"} \cup PartKinds
               \/ es[n].row.kind \in PartKinds /\ StartOf(es, n) = 0
               \/ es[n].row.kind \in {"assistant", "text", "tool"} /\ ~es[n].row.data
BY DEF Lost

(* A row before the first turn. *)
LEMMA NextNone ==
    ASSUME NEW es, NEW n, NEW o, OpencodeStanding(es, n - 1, o), n \in DOMAIN es, o.current = None,
           StartOf(es, n) = StartOf(es, n - 1), CostOf(es[n].row) = NoTokens,
           NEW q \in OpencodeSession, q.current = None, q.turns = o.turns, ErrorsTold(es, q.errors, LostBy(es, n))
    PROVE  OpencodeStanding(es, n, q)
<1>1. /\ es \in Seq(OpencodeEvent) /\ o \in OpencodeSession /\ StartOf(es, n - 1) = 0
      /\ TurnsTold(es, o.turns, StartsBefore(es, StartOf(es, n - 1))) /\ TokensOf(o.turns) = BillBy(es, n - 1)
  BY DEF OpencodeStanding
<1>2. n \in 0 .. Len(es)
  BY <1>1, EventFields
<1>3. BillBy(es, n) = BillBy(es, n - 1)
  BY <1>1, BillNext, AddNoTokens
<1> QED
  BY <1>1, <1>2, <1>3 DEF OpencodeStanding

(* A row that changes nothing in its turn. *)
LEMMA QuietHandled ==
    ASSUME NEW es, NEW n, NEW o, OpencodeReady(es, n, o), CostOf(es[n].row) = NoTokens,
           n \notin Decoded(es, "assistant"), n \notin Decoded(es, "tool"), n \notin Said(es), n \notin Replied(es),
           UserTurn(o.current) <=> n \in ByUser(es),
           NEW q \in OpencodeSession, q.current = o.current, q.turns = o.turns, ErrorsTold(es, q.errors, LostBy(es, n))
    PROVE  OpencodeStanding(es, n, q)
<1>1. /\ es \in Seq(OpencodeEvent) /\ n \in DOMAIN es /\ o.current \in OpencodeBuilder
      /\ OpenAs(es, StartOf(es, n), n - 1, o.current)
  BY DEF OpencodeReady
<1>2. OpenAs(es, StartOf(es, n), n, q.current)
  BY <1>1, OpenStays
<1>3. Alongside(o.current, q.current, NoTokens)
  BY <1>1, SameAnswers
<1>4. StaysOpen(o, q, CostOf(es[n].row))
  BY <1>3 DEF StaysOpen, Alongside
<1> QED
  BY <1>1, <1>2, <1>4, Handled

(* Parts and rows of other kinds cost nothing. *)
LEMMA FreeRow == \A e : e.kind # "assistant" => CostOf(e) = NoTokens
BY DEF CostOf

(* A row of another kind matters to no turn. *)
LEMMA RowOfNone ==
    ASSUME NEW es, NEW n \in DOMAIN es, es[n].row.kind \notin {"assistant", "text", "tool"}
    PROVE  n \notin Decoded(es, "assistant") /\ n \notin Decoded(es, "tool") /\ n \notin Said(es) /\ n \notin Replied(es)
BY DEF Said, Replied, Texts, Decoded, Kinds

(* The session's row, or one of no known kind, or without a message: nothing of a turn. *)
LEMMA AsideTold ==
    ASSUME NEW es, NEW n, NEW o, OpencodeStanding(es, n - 1, o), n \in DOMAIN es,
           es[n].row.kind \notin {"user", "assistant"},
           o.current = None \/ es[n].row.kind \notin PartKinds,
           NEW q \in OpencodeSession, q.current = o.current, q.turns = o.turns, ErrorsTold(es, q.errors, LostBy(es, n))
    PROVE  OpencodeStanding(es, n, q)
<1>1. es \in Seq(OpencodeEvent) /\ o \in OpencodeSession /\ (o.current = None <=> StartOf(es, n - 1) = 0)
  BY DEF OpencodeStanding
<1>2. StartOf(es, n) = StartOf(es, n - 1)
  BY <1>1, StartNext
<1>3. CostOf(es[n].row) = NoTokens
  BY FreeRow
<1>4. CASE o.current = None
  BY <1>2, <1>3, <1>4, NextNone
<1>5. CASE o.current # None
  <2>1. OpencodeReady(es, n, o)
    BY <1>2, <1>5, ReadyIn
  <2>2. es[n].row.kind \notin {"assistant", "text", "tool"}
    BY <1>5 DEF PartKinds
  <2>3. UserTurn(o.current) <=> n - 1 \in ByUser(es)
    BY <1>5 DEF OpencodeStanding
  <2>4. n \in ByUser(es) <=> n - 1 \in ByUser(es)
    BY <1>1, <1>2, <1>5, ByUserNext
  <2> QED
    BY <1>3, <2>1, <2>2, <2>3, <2>4, RowOfNone, QuietHandled
<1> QED
  BY <1>4, <1>5

(* The user's message. *)
LEMMA UserTold ==
    ASSUME NEW es, NEW n, NEW o, OpencodeStanding(es, n - 1, o), n \in DOMAIN es, es[n].row.kind = "user",
           NEW q, q = WithOpen(OpencodeFlush(o), TurnFrom(OpencodeFlush(o), es[n].row.when, "user"))
    PROVE  OpencodeStanding(es, n, q)
<1> DEFINE f == OpencodeFlush(o)
           m == n - 1
<1>1. es \in Seq(OpencodeEvent) /\ ErrorsTold(es, o.errors, LostBy(es, m))
  BY DEF OpencodeStanding
<1>2. n \in Nat /\ n = m + 1 /\ StartOf(es, n) = n
  BY <1>1, EventFields, StartNext
<1>3. /\ f \in OpencodeSession /\ f.current = None /\ f.errors = o.errors
      /\ TurnsTold(es, f.turns, StartsBefore(es, n)) /\ TokensOf(f.turns) = BillBy(es, m)
  <2>1. OpencodeStanding(es, m, o)
    OBVIOUS
  <2> HIDE DEF m, f
  <2> QED
    BY <1>2, <2>1, FlushTold DEF f
<1> HIDE DEF f
<1>4. OpencodeReady(es, n, q) /\ HasRole(q.current, "user")
  <2>1. StoredBefore(es, n, f)
    BY <1>1, <1>2, <1>3 DEF StoredBefore
  <2>2. q = WithOpen(f, TurnFrom(f, es[n].row.when, "user"))
    BY DEF f
  <2> QED
    BY <2>1, <2>2, ReadyNew
<1>5. UserTurn(q.current) /\ n \in ByUser(es)
  BY <1>1, <1>4, ByUserNext DEF UserTurn, HasRole
<1>6. n \notin Lost(es)
  BY LostIs DEF PartKinds
<1>7. ErrorsTold(es, q.errors, LostBy(es, n)) /\ q \in OpencodeSession
  BY <1>1, <1>4, <1>6, LostGrows DEF OpencodeReady
<1>8. CostOf(es[n].row) = NoTokens
  BY FreeRow
<1> QED
  BY <1>4, <1>5, <1>7, <1>8, RowOfNone, QuietHandled

-----------------------------------------------------------------------------
(* An answer and a part are read *)

(* An open turn an answer takes over has the same in it. *)
LEMMA AnsweringIs ==
    ASSUME NEW b \in OpencodeBuilder, NEW e, e.when \in Nat
    PROVE  LET q == OpencodeAnswering(b, e)
           IN /\ q \in OpencodeBuilder /\ HasRole(q, "assistant") /\ q.userParts = b.userParts
              /\ q.turn.index = b.turn.index /\ q.turn.invocations = b.turn.invocations
              /\ q.turn.calls = b.turn.calls /\ q.turn.status = b.turn.status /\ q.turn.final = b.turn.final
<1> DEFINE a == [b EXCEPT !.role = "assistant"]
           when == e.when
           q == OpencodeAnswering(b, e)
<1>1. a \in OpencodeBuilder /\ a.turn = b.turn /\ a.role = "assistant" /\ a.userParts = b.userParts
  BY DEF OpencodeBuilder
<1>2. q = AgedBuilder(a, when)
  BY Zenon DEF OpencodeAnswering, AgedBuilder, AgedTurn
<1>3. when \in Nat
  OBVIOUS
<1> HIDE DEF a, when, q
<1>4. /\ q \in OpencodeBuilder /\ q.role = a.role /\ q.userParts = a.userParts
      /\ q.turn.index = a.turn.index /\ q.turn.invocations = a.turn.invocations
      /\ q.turn.calls = a.turn.calls /\ q.turn.status = a.turn.status /\ q.turn.final = a.turn.final
  BY <1>1, <1>2, <1>3, AgedIs
<1> QED
  BY <1>1, <1>4 DEF q, HasRole

(* A parser with one error more. *)
ErrorOf(o, raw) == [o EXCEPT !.errors = Append(@, raw)]

(* It is the same otherwise. *)
LEMMA ErrorOfIs ==
    ASSUME NEW o \in OpencodeSession, NEW raw \in Nat \X Nat
    PROVE  /\ ErrorOf(o, raw) \in OpencodeSession /\ ErrorOf(o, raw).current = o.current
           /\ ErrorOf(o, raw).turns = o.turns /\ ErrorOf(o, raw).errors = Append(o.errors, raw)
BY WithError DEF ErrorOf

(* How StartAssistant changes the parser. *)
LEMMA StartAssistantIs ==
    ASSUME NEW o, NEW e, NEW raw, NEW d, d = WithOpen(o, OpencodeAnswering(o.current, e))
    PROVE  StartAssistant(o, e, raw) =
               IF ~e.data THEN ErrorOf(d, raw) ELSE WithOpen(d, AnswerOf(d.current, OpencodeStep(e, raw)))
BY Zenon DEF StartAssistant, WithOpen, ErrorOf, AnswerOf

(* How HandlePart does. *)
LEMMA HandlePartIs ==
    ASSUME NEW o, NEW e, NEW raw, NEW d, d = WithOpen(o, AgedBuilder(o.current, e.when))
    PROVE  HandlePart(o, e, raw) =
               IF e.kind \notin {"text", "tool"} THEN d
               ELSE IF ~e.data THEN ErrorOf(d, raw)
               ELSE IF e.kind = "text" THEN WithOpen(d, OpencodeText(d.current, e))
               ELSE WithOpen(d, OpencodeToolCall(d.current, e, raw))
BY Zenon DEF HandlePart, WithOpen, ErrorOf, AgedBuilder, AgedTurn

(* Another open turn with the same in it. *)
SameOpen(b, a) ==
    /\ a \in OpencodeBuilder /\ a.userParts = b.userParts /\ a.turn.index = b.turn.index
    /\ a.turn.invocations = b.turn.invocations /\ a.turn.calls = b.turn.calls
    /\ a.turn.status = b.turn.status /\ a.turn.final = b.turn.final

(* It is as ready for the row. *)
LEMMA ReadyAlike ==
    ASSUME NEW es, NEW n, NEW o, OpencodeReady(es, n, o), NEW b, SameOpen(o.current, b)
    PROVE  /\ OpencodeReady(es, n, WithOpen(o, b)) /\ WithOpen(o, b) \in OpencodeSession
           /\ WithOpen(o, b).current = b /\ WithOpen(o, b).turns = o.turns /\ WithOpen(o, b).errors = o.errors
<1> DEFINE d == WithOpen(o, b)
           a == o.current
           s == StartOf(es, n)
<1>1. /\ es \in Seq(OpencodeEvent) /\ n \in DOMAIN es /\ o \in OpencodeSession /\ a \in OpencodeBuilder
      /\ s # 0 /\ TurnsTold(es, o.turns, StartsBefore(es, s)) /\ ErrorsTold(es, o.errors, LostBy(es, n - 1))
      /\ OpenAs(es, s, n - 1, a) /\ a.turn.index = Len(o.turns) + 1 /\ BilledTo(es, n - 1, o.turns, a)
  BY DEF OpencodeReady
<1>2. /\ b \in OpencodeBuilder /\ b.userParts = a.userParts /\ b.turn.index = a.turn.index
      /\ b.turn.invocations = a.turn.invocations /\ b.turn.calls = a.turn.calls
      /\ b.turn.status = a.turn.status /\ b.turn.final = a.turn.final
  BY DEF SameOpen
<1>3. d \in OpencodeSession /\ d.current = b /\ d.turns = o.turns /\ d.errors = o.errors
  BY <1>1, <1>2, WithOpenIs
<1>4. OpenAs(es, s, n - 1, b)
  BY <1>1, <1>2, SameBuilds DEF OpenAs
<1>5. BilledTo(es, n - 1, o.turns, b)
  BY <1>1, <1>2 DEF BilledTo, TurnTokens
<1>6. b.turn.index = Len(o.turns) + 1
  BY <1>1, <1>2
<1> HIDE DEF d, a
<1>7. OpencodeReady(es, n, d)
  BY <1>1, <1>2, <1>3, <1>4, <1>5, <1>6 DEF OpencodeReady
<1> QED
  BY <1>3, <1>7 DEF d

(* An answer. *)
LEMMA AnswerTold ==
    ASSUME NEW es, NEW n, NEW o, OpencodeReady(es, n, o), es[n].row.kind = "assistant",
           NEW q, q = StartAssistant(o, es[n].row, es[n].raw)
    PROVE  OpencodeStanding(es, n, q)
<1> DEFINE e == es[n].row
           raw == es[n].raw
           b == OpencodeAnswering(o.current, e)
           d == WithOpen(o, b)
           x == AnswerOf(b, OpencodeStep(e, raw))
<1>1. es \in Seq(OpencodeEvent) /\ n \in DOMAIN es /\ o.current \in OpencodeBuilder /\ StartOf(es, n) # 0
  BY DEF OpencodeReady
<1>2. e.when \in Nat /\ raw \in Nat \X Nat /\ e.data \in BOOLEAN /\ e.kind = "assistant"
  BY <1>1, EventFields
<1> HIDE DEF e, raw
<1>3. SameOpen(o.current, b) /\ HasRole(b, "assistant") /\ b \in OpencodeBuilder
  BY <1>1, <1>2, AnsweringIs DEF SameOpen
<1> HIDE DEF b
<1>4. OpencodeReady(es, n, d) /\ d \in OpencodeSession /\ d.current = b /\ d.turns = o.turns /\ d.errors = o.errors
  BY <1>3, ReadyAlike
<1>5. OpenAs(es, StartOf(es, n), n - 1, b) /\ ErrorsTold(es, d.errors, LostBy(es, n - 1))
  BY <1>4 DEF OpencodeReady
<1>6. q = IF ~e.data THEN ErrorOf(d, raw) ELSE WithOpen(d, x)
  <2>1. q = IF ~e.data THEN ErrorOf(d, raw) ELSE WithOpen(d, AnswerOf(d.current, OpencodeStep(e, raw)))
    BY StartAssistantIs DEF e, raw, b
  <2> QED
    BY <1>4, <2>1
<1> HIDE DEF d
<1>7. n \notin ByUser(es)
  BY <1>1, ByUserNext
<1>8. ~UserTurn(b)
  BY <1>3 DEF UserTurn, HasRole
<1>9. CASE ~e.data
  <2>1. n \in Lost(es) /\ CostOf(e) = NoTokens
    BY <1>1, <1>9, LostIs DEF CostOf, e
  <2>2. /\ q \in OpencodeSession /\ q.current = d.current
        /\ q.turns = d.turns /\ q.errors = Append(d.errors, raw)
    BY <1>2, <1>4, <1>6, <1>9, ErrorOfIs
  <2>3. ErrorsTold(es, q.errors, LostBy(es, n))
    BY <1>1, <1>5, <2>1, <2>2, LostGrows DEF raw
  <2>4. n \notin Decoded(es, "assistant") /\ n \notin Decoded(es, "tool") /\ n \notin Said(es) /\ n \notin Replied(es)
    BY <1>1, <1>2, <1>9, RowIs DEF e
  <2> QED
    BY <1>4, <1>7, <1>8, <2>1, <2>2, <2>3, <2>4, QuietHandled DEF e
<1>10. CASE e.data
  <2>1. n \notin Lost(es) /\ CostOf(e) = MessageTokens(e) /\ n \in Decoded(es, "assistant")
    BY <1>1, <1>2, <1>10, LostIs, RowIs DEF CostOf, e, PartKinds
  <2>2. OpenAs(es, StartOf(es, n), n, x) /\ Alongside(b, x, MessageTokens(e))
    <3>1. x = AnswerOf(b, OpencodeStep(es[n].row, es[n].raw))
      BY DEF e, raw
    <3> HIDE DEF x
    <3> QED
      BY <1>1, <1>5, <2>1, <3>1, AnswerOpens DEF e
  <2> HIDE DEF x
  <2>3. x \in OpencodeBuilder
    BY <2>2 DEF OpenAs, Builds
  <2>4. q \in OpencodeSession /\ q.current = x /\ q.turns = d.turns /\ q.errors = d.errors
    BY <1>4, <1>6, <1>10, <2>3, WithOpenIs
  <2>5. ErrorsTold(es, q.errors, LostBy(es, n))
    BY <1>1, <1>5, <2>1, <2>4, LostGrows
  <2>6. StaysOpen(d, q, CostOf(e)) /\ ~UserTurn(x)
    BY <1>4, <1>8, <2>1, <2>2, <2>4 DEF StaysOpen, Alongside, UserTurn
  <2> QED
    BY <1>4, <1>7, <2>2, <2>3, <2>4, <2>5, <2>6, Handled DEF e
<1> QED
  BY <1>2, <1>9, <1>10

(* A part. *)
LEMMA PartTold ==
    ASSUME NEW es, NEW n, NEW o, OpencodeReady(es, n, o), es[n].row.kind \in PartKinds,
           UserTurn(o.current) <=> n \in ByUser(es),
           NEW q, q = HandlePart(o, es[n].row, es[n].raw)
    PROVE  OpencodeStanding(es, n, q)
<1> DEFINE e == es[n].row
           raw == es[n].raw
           b == AgedBuilder(o.current, e.when)
           d == WithOpen(o, b)
           text == OpencodeText(b, e)
           call == OpencodeToolCall(b, e, raw)
<1>1. es \in Seq(OpencodeEvent) /\ n \in DOMAIN es /\ o.current \in OpencodeBuilder /\ StartOf(es, n) # 0
  BY DEF OpencodeReady
<1>2. e.when \in Nat /\ raw \in Nat \X Nat /\ e.data \in BOOLEAN /\ e.kind \in PartKinds
  BY <1>1, EventFields
<1> HIDE DEF e, raw
<1>3. SameOpen(o.current, b) /\ b.role = o.current.role /\ b \in OpencodeBuilder
  BY <1>1, <1>2, AgedIs DEF SameOpen
<1>4. UserTurn(b) <=> n \in ByUser(es)
  BY <1>3 DEF UserTurn
<1> HIDE DEF b
<1>5. OpencodeReady(es, n, d) /\ d \in OpencodeSession /\ d.current = b /\ d.turns = o.turns /\ d.errors = o.errors
  BY <1>3, ReadyAlike
<1>6. OpenAs(es, StartOf(es, n), n - 1, b) /\ ErrorsTold(es, d.errors, LostBy(es, n - 1))
  BY <1>5 DEF OpencodeReady
<1>7. q = IF e.kind \notin {"text", "tool"} THEN d ELSE IF ~e.data THEN ErrorOf(d, raw)
          ELSE IF e.kind = "text" THEN WithOpen(d, text) ELSE WithOpen(d, call)
  <2>1. q = IF e.kind \notin {"text", "tool"} THEN d ELSE IF ~e.data THEN ErrorOf(d, raw)
            ELSE IF e.kind = "text" THEN WithOpen(d, OpencodeText(d.current, e))
            ELSE WithOpen(d, OpencodeToolCall(d.current, e, raw))
    BY HandlePartIs DEF e, raw, b
  <2> QED
    BY <1>5, <2>1
<1>8. CostOf(e) = NoTokens
  BY <1>2 DEF CostOf, PartKinds
<1> HIDE DEF d
<1>9. CASE e.kind \notin {"text", "tool"}
  <2>1. n \notin Lost(es)
    BY <1>1, <1>2, <1>9, LostIs DEF e, PartKinds
  <2>2. n \notin Decoded(es, "assistant") /\ n \notin Decoded(es, "tool") /\ n \notin Said(es) /\ n \notin Replied(es)
    BY <1>1, <1>2, <1>9, RowOfNone DEF e, PartKinds
  <2>3. q = d
    BY <1>7, <1>9
  <2>4. ErrorsTold(es, q.errors, LostBy(es, n))
    BY <1>1, <1>6, <2>1, <2>3, LostGrows
  <2> QED
    BY <1>4, <1>5, <1>8, <2>2, <2>3, <2>4, QuietHandled DEF e
<1>10. CASE e.kind \in {"text", "tool"} /\ ~e.data
  <2>1. n \in Lost(es)
    BY <1>1, <1>10, LostIs DEF e
  <2>2. n \notin Decoded(es, "assistant") /\ n \notin Decoded(es, "tool") /\ n \notin Said(es) /\ n \notin Replied(es)
    BY <1>1, <1>10, RowIs DEF e
  <2>3. q = ErrorOf(d, raw)
    BY <1>7, <1>10
  <2>4. /\ q \in OpencodeSession /\ q.current = d.current
        /\ q.turns = d.turns /\ q.errors = Append(d.errors, raw)
    BY <1>2, <1>5, <2>3, ErrorOfIs
  <2>5. ErrorsTold(es, q.errors, LostBy(es, n))
    BY <1>1, <1>6, <2>1, <2>4, LostGrows DEF raw
  <2> QED
    BY <1>4, <1>5, <1>8, <2>2, <2>4, <2>5, QuietHandled DEF e
<1>11. ASSUME e.kind \in {"text", "tool"}, e.data,
              NEW x, q = WithOpen(d, x), OpenAs(es, StartOf(es, n), n, x), Alongside(b, x, NoTokens)
       PROVE  OpencodeStanding(es, n, q)
  <2>1. n \notin Lost(es)
    BY <1>1, <1>2, <1>11, LostIs DEF e, PartKinds
  <2>2. x \in OpencodeBuilder
    BY <1>11 DEF OpenAs, Builds
  <2>3. q \in OpencodeSession /\ q.current = x /\ q.turns = d.turns /\ q.errors = d.errors
    BY <1>5, <1>11, <2>2, WithOpenIs
  <2>4. ErrorsTold(es, q.errors, LostBy(es, n))
    BY <1>1, <1>6, <2>1, <2>3, LostGrows
  <2>5. StaysOpen(d, q, CostOf(e)) /\ (UserTurn(x) <=> n \in ByUser(es))
    BY <1>4, <1>5, <1>8, <1>11, <2>3 DEF StaysOpen, Alongside, UserTurn
  <2> QED
    BY <1>5, <1>11, <2>2, <2>3, <2>4, <2>5, Handled DEF e
<1>12. CASE e.kind = "text" /\ e.data
  <2>1. q = WithOpen(d, text)
    BY <1>7, <1>12
  <2>2. OpenAs(es, StartOf(es, n), n, text) /\ Alongside(b, text, NoTokens)
    <3>1. text = OpencodeText(b, es[n].row) /\ es[n].row.kind = "text" /\ es[n].row.data
      BY <1>12 DEF e
    <3> HIDE DEF text
    <3>2. b.role = "user" <=> n \in ByUser(es)
      BY <1>4 DEF UserTurn
    <3> QED
      BY <1>1, <1>6, <3>1, <3>2, TextOpens
  <2> HIDE DEF text
  <2> QED
    BY <1>11, <1>12, <2>1, <2>2
<1>13. CASE e.kind = "tool" /\ e.data
  <2>1. q = WithOpen(d, call)
    BY <1>7, <1>13
  <2>2. OpenAs(es, StartOf(es, n), n, call) /\ Alongside(b, call, NoTokens)
    <3>1. call = OpencodeToolCall(b, es[n].row, es[n].raw)
      BY DEF e, raw
    <3>2. n \in Decoded(es, "tool")
      BY <1>1, <1>13, RowIs DEF e
    <3> HIDE DEF call
    <3> QED
      BY <1>1, <1>6, <3>1, <3>2, CallOpens
  <2> HIDE DEF call
  <2> QED
    BY <1>11, <1>13, <2>1, <2>2
<1> QED
  BY <1>2, <1>9, <1>10, <1>12, <1>13

-----------------------------------------------------------------------------
(* Row by row *)

(* The parser, in which a row had a time. *)
TimedOpencode(p, when) == [p EXCEPT !.window = UpdateSessionTimes(@, when)]

(* It is the same otherwise. *)
LEMMA TimedIs ==
    ASSUME NEW p \in OpencodeSession, NEW when \in Nat, NEW o, o = TimedOpencode(p, when)
    PROVE  o \in OpencodeSession /\ o.turns = p.turns /\ o.current = p.current /\ o.errors = p.errors
<1> DEFINE w == UpdateSessionTimes(p.window, when)
<1>1. w \in [started : Nat, ended : Nat]
  BY OpencodeFields, WindowIs
<1>2. o = [p EXCEPT !.window = w]
  BY DEF TimedOpencode
<1> HIDE DEF w
<1> QED
  BY <1>1, <1>2 DEF OpencodeSession

(* What the session's row says is no part of a turn. *)
LEMMA SessionIsAside ==
    ASSUME NEW o \in OpencodeSession, NEW e \in OpencodeRows, NEW q, q = ApplySession(o, e)
    PROVE  q \in OpencodeSession /\ q.turns = o.turns /\ q.current = o.current /\ q.errors = o.errors
<1>1. /\ e.id \in STRING /\ e.title \in STRING /\ e.directory \in STRING /\ e.parent \in STRING
  BY DEF OpencodeRows
<1>2. /\ o.external \in STRING \cup {""} /\ o.title \in STRING \cup {""} /\ o.project \in STRING \cup {"unknown"}
      /\ o.parent \in STRING \cup {""} /\ o.isSubagent \in BOOLEAN
  BY DEF OpencodeSession
<1> DEFINE external == IF e.id # "" THEN e.id ELSE o.external
           title == IF e.title # "" THEN e.title ELSE o.title
           project == IF e.directory # "" THEN e.directory ELSE o.project
           sub == o.isSubagent \/ e.parent # ""
           parent == IF e.parent # "" THEN e.parent ELSE o.parent
<1>3. /\ external \in STRING \cup {""} /\ title \in STRING \cup {""} /\ project \in STRING \cup {"unknown"}
      /\ parent \in STRING \cup {""}
  BY <1>1, <1>2
<1>4. sub \in BOOLEAN
  OBVIOUS
<1>5. q = [o EXCEPT !.external = external, !.title = title, !.project = project, !.isSubagent = sub, !.parent = parent]
  BY DEF ApplySession
<1> HIDE DEF external, title, project, sub, parent
<1> QED
  BY <1>3, <1>4, <1>5, ZenonT(60) DEF OpencodeSession

(* A record with a field set to what it is. *)
LEMMA SameRole ==
    \A t, role, parts : [[turn |-> t, role |-> role, userParts |-> parts] EXCEPT !.role = role]
                            = [turn |-> t, role |-> role, userParts |-> parts]
OBVIOUS

(* A turn opened by no message of the user's has no role yet. *)
LEMMA NoRoleYet == \A o, when : OpencodeTurn(o, when) = TurnFrom(o, when, "")
<1> SUFFICES ASSUME NEW o, NEW when PROVE OpencodeTurn(o, when) = TurnFrom(o, when, "")
  OBVIOUS
<1> DEFINE t == FirstTurn(o, when)
           a == OpencodeTurn(o, when)
<1>1. a = [turn |-> t, role |-> "", userParts |-> <<>>]
  BY Zenon DEF OpencodeTurn, FirstTurn
<1>2. TurnFrom(o, when, "") = [a EXCEPT !.role = ""]
  BY DEF TurnFrom
<1> HIDE DEF t, a
<1> QED
  BY <1>1, <1>2, SameRole, Zenon DEF a

(* What the row e makes of the parser o. *)
ReadAs(q, o, e, raw) ==
    q = IF e.kind = "session" THEN ApplySession(o, e)
        ELSE IF e.kind = "user" THEN WithOpen(OpencodeFlush(o), TurnFrom(OpencodeFlush(o), e.when, "user"))
        ELSE IF e.kind = "assistant"
        THEN StartAssistant(IF o.current = None THEN WithOpen(o, TurnFrom(o, e.when, "")) ELSE o, e, raw)
        ELSE IF e.kind \in PartKinds /\ o.current # None THEN HandlePart(o, e, raw)
        ELSE ErrorOf(o, raw)

(* What ReadOpencode does. *)
LEMMA ReadOpencodeIs ==
    \A p, row : ReadAs(ReadOpencode(p, row), TimedOpencode(p, row.row.when), row.row, row.raw)
<1> SUFFICES ASSUME NEW p, NEW row
             PROVE  ReadAs(ReadOpencode(p, row), TimedOpencode(p, row.row.when), row.row, row.raw)
  BY Zenon
<1> DEFINE o == TimedOpencode(p, row.row.when)
<1>1. WithOpen(o, OpencodeTurn(o, row.row.when)) = WithOpen(o, TurnFrom(o, row.row.when, ""))
  BY NoRoleYet, Zenon
<1> QED
  BY <1>1, Zenon DEF ReadOpencode, TimedOpencode, WithOpen, TurnFrom, ErrorOf, ReadAs

(* Every row is read for what it says. *)
LEMMA OpencodeRowTold ==
    ASSUME NEW es, NEW n, NEW p, OpencodeStanding(es, n - 1, p), n \in DOMAIN es,
           NEW q, q = ReadOpencode(p, es[n])
    PROVE  OpencodeStanding(es, n, q)
<1> DEFINE e == es[n].row
           raw == es[n].raw
           o == TimedOpencode(p, e.when)
           opened == IF o.current = None THEN WithOpen(o, TurnFrom(o, e.when, "")) ELSE o
<1>0. q = ReadOpencode(p, es[n])
  OBVIOUS
<1>1. es \in Seq(OpencodeEvent) /\ p \in OpencodeSession
  BY DEF OpencodeStanding
<1>2. e.when \in Nat /\ raw \in Nat \X Nat /\ e \in OpencodeRows
  BY <1>1, EventFields
<1>3. o \in OpencodeSession /\ o.turns = p.turns /\ o.current = p.current /\ o.errors = p.errors
  BY <1>1, <1>2, TimedIs
<1>4. OpencodeStanding(es, n - 1, o)
  BY <1>3, StandingSame
<1>5. ReadAs(q, o, e, raw)
  BY <1>0, ReadOpencodeIs
<1> HIDE DEF o
<1>6. /\ (o.current = None <=> StartOf(es, n - 1) = 0) /\ ErrorsTold(es, o.errors, LostBy(es, n - 1))
      /\ TurnsTold(es, o.turns, StartsBefore(es, StartOf(es, n - 1)))
      /\ n - 1 \in 0 .. Len(es) /\ (o.current = None => TokensOf(o.turns) = BillBy(es, n - 1))
  BY <1>4 DEF OpencodeStanding
<1>7. o.current # None => (UserTurn(o.current) <=> n - 1 \in ByUser(es))
  BY <1>4 DEF OpencodeStanding
<1>8. CASE e.kind = "session"
  <2>1. q = ApplySession(o, e)
    BY <1>5, <1>8 DEF ReadAs
  <2>2. q \in OpencodeSession /\ q.turns = o.turns /\ q.current = o.current /\ q.errors = o.errors
    BY <1>2, <1>3, <2>1, SessionIsAside
  <2>3. n \notin Lost(es)
    BY <1>8, LostIs DEF PartKinds
  <2>4. ErrorsTold(es, q.errors, LostBy(es, n))
    BY <1>1, <1>6, <2>2, <2>3, LostGrows
  <2> QED
    BY <1>4, <1>8, <2>2, <2>4, AsideTold DEF PartKinds
<1>9. CASE e.kind = "user"
  <2>1. q = WithOpen(OpencodeFlush(o), TurnFrom(OpencodeFlush(o), es[n].row.when, "user"))
    BY <1>5, <1>9 DEF ReadAs
  <2> QED
    BY <1>4, <1>9, <2>1, UserTold
<1>10. CASE e.kind = "assistant"
  <2>1. q = StartAssistant(opened, e, raw)
    BY <1>5, <1>10 DEF ReadAs
  <2>2. OpencodeReady(es, n, opened)
    <3>1. CASE o.current = None
      <4>1. StartOf(es, n) = n /\ StartOf(es, n - 1) = 0
        BY <1>1, <1>6, <1>10, <3>1, StartNext
      <4>2. StartsBefore(es, n) = StartsBefore(es, 0)
        <5>1. n \in Nat /\ (n - 1) + 1 = n
          BY <1>1, EventFields
        <5> DEFINE m == n - 1
        <5>2. m \in 0 .. Len(es) /\ StartOf(es, m) = 0 /\ m + 1 = n
          BY <1>6, <4>1, <5>1
        <5> HIDE DEF m
        <5>3. StartsBefore(es, m + 1) = {} /\ StartsBefore(es, 0) = {}
          BY <1>1, <5>2, NoStartBefore
        <5> QED
          BY <5>2, <5>3
      <4>3. StoredBefore(es, n, o)
        BY <1>1, <1>3, <1>6, <3>1, <4>1, <4>2 DEF StoredBefore
      <4>4. opened = WithOpen(o, TurnFrom(o, es[n].row.when, ""))
        BY <3>1
      <4> HIDE DEF opened
      <4> QED
        BY <4>3, <4>4, ReadyNew
    <3>2. CASE o.current # None
      <4>1. StartOf(es, n) = StartOf(es, n - 1)
        BY <1>1, <1>6, <1>10, <3>2, StartNext
      <4>2. OpencodeReady(es, n, o)
        BY <1>4, <3>2, <4>1, ReadyIn
      <4> QED
        BY <3>2, <4>2
    <3> QED
      BY <3>1, <3>2
  <2> HIDE DEF opened
  <2> QED
    BY <1>10, <2>1, <2>2, AnswerTold
<1>11. CASE e.kind \in PartKinds /\ o.current # None
  <2>1. q = HandlePart(o, e, raw) /\ e.kind \notin {"user", "assistant"}
    BY <1>5, <1>11 DEF PartKinds, ReadAs
  <2>2. StartOf(es, n) = StartOf(es, n - 1) /\ StartOf(es, n) # 0
    BY <1>1, <1>6, <1>11, <2>1, StartNext
  <2>3. OpencodeReady(es, n, o)
    BY <1>4, <1>11, <2>2, ReadyIn
  <2>4. UserTurn(o.current) <=> n \in ByUser(es)
    BY <1>1, <1>7, <1>11, <2>1, <2>2, ByUserNext
  <2> QED
    BY <1>11, <2>1, <2>3, <2>4, PartTold
<1>12. CASE e.kind \notin {"session", "user", "assistant"} /\ ~ (e.kind \in PartKinds /\ o.current # None)
  <2>1. q = ErrorOf(o, raw)
    BY <1>5, <1>12 DEF ReadAs
  <2>2. StartOf(es, n) = StartOf(es, n - 1)
    BY <1>1, <1>12, StartNext
  <2>3. n \in Lost(es)
    BY <1>6, <1>12, <2>2, LostIs
  <2>4. /\ q \in OpencodeSession /\ q.current = o.current /\ q.turns = o.turns /\ q.errors = Append(o.errors, raw)
    BY <1>2, <1>3, <2>1, ErrorOfIs
  <2>5. ErrorsTold(es, q.errors, LostBy(es, n))
    BY <1>1, <1>6, <2>3, <2>4, LostGrows
  <2> QED
    BY <1>4, <1>12, <2>4, <2>5, AsideTold
<1> QED
  BY <1>8, <1>9, <1>10, <1>11, <1>12

(* Before the first row nothing has been read. *)
LEMMA NoRowTold == ASSUME NEW es \in Seq(OpencodeEvent) PROVE OpencodeStanding(es, 0, NewOpencode)
<1> DEFINE o == NewOpencode
           nothing == <<>>
<1>1. StartOf(es, 0) = 0 /\ BillBy(es, 0) = NoTokens
  BY StartNone, BillNone
<1>2. StartsBefore(es, 0) = {}
  <2>1. 0 \in 0 .. Len(es)
    OBVIOUS
  <2> QED
    BY <1>1, <2>1, NoStartBefore
<1>3. LostBy(es, 0) = {}
  BY EventFields DEF LostBy, Lost
<1>4. TokensOf(nothing) = NoTokens /\ InRowOrder(nothing, {}) /\ Len(nothing) = 0 /\ DOMAIN nothing = {}
      /\ nothing \in Seq(OpencodeTurnType) /\ nothing \in Seq(Nat \X Nat)
  BY NothingBuilt, NumberedNone
<1>5. o = [external |-> "", title |-> "", project |-> "unknown", parent |-> "", isSubagent |-> FALSE,
           window |-> NoWindow, turns |-> nothing, current |-> None, errors |-> nothing]
  BY DEF NewOpencode
<1>6. NoWindow \in [started : Nat, ended : Nat]
  BY DEF NoWindow
<1> HIDE DEF o, nothing
<1>7. o \in OpencodeSession /\ o.turns = nothing /\ o.errors = nothing /\ o.current = None
  BY <1>4, <1>5, <1>6 DEF OpencodeSession
<1>8. TurnsTold(es, nothing, {}) /\ ErrorsTold(es, nothing, {})
  BY <1>4 DEF TurnsTold, ErrorsTold
<1>9. 0 \in 0 .. Len(es)
  OBVIOUS
<1>10. OpencodeStanding(es, 0, o)
  BY <1>1, <1>2, <1>3, <1>4, <1>7, <1>8, <1>9 DEF OpencodeStanding
<1> QED
  BY <1>10 DEF o

-----------------------------------------------------------------------------
(* What ParseEvents returns *)

(* The states ParseEvents goes through. *)
Readings(read, es) ==
    read = [i \in 0 .. Len(es) |-> IF i = 0 THEN NewOpencode ELSE ReadOpencode(read[i - 1], es[i])]
(* What is returned of the last. *)
OpencodeEnd(o) ==
    LET f == OpencodeFlush(o)
    IN FinalizeSession([external |-> f.external, title |-> f.title, parent |-> f.parent,
                        isSubagent |-> f.isSubagent, window |-> f.window, errors |-> f.errors], f.turns)

(* Each of them has read its rows for what they say. *)
LEMMA ReadsTold ==
    ASSUME NEW es \in Seq(OpencodeEvent), NEW read, Readings(read, es)
    PROVE  \A i \in 0 .. Len(es) : OpencodeStanding(es, i, read[i])
<1> DEFINE n == Len(es)
           P == {i \in 0 .. n : OpencodeStanding(es, i, read[i])}
<1>1. n \in Nat /\ DOMAIN es = 1 .. n
  OBVIOUS
<1>2. \A i \in 0 .. n : read[i] = IF i = 0 THEN NewOpencode ELSE ReadOpencode(read[i - 1], es[i])
  <2>1. read = [i \in 0 .. n |-> IF i = 0 THEN NewOpencode ELSE ReadOpencode(read[i - 1], es[i])]
    BY DEF Readings
  <2> QED
    BY <2>1
<1> HIDE DEF n
<1>3. 0 \in P
  <2>1. 0 \in 0 .. n /\ read[0] = NewOpencode
    BY <1>1, <1>2
  <2> QED
    BY <2>1, NoRowTold
<1>4. ASSUME NEW i \in 1 .. n, i - 1 \in P PROVE i \in P
  <2>1. i \in 0 .. n /\ i # 0 /\ i \in DOMAIN es
    BY <1>1
  <2>2. read[i] = ReadOpencode(read[i - 1], es[i])
    BY <1>2, <2>1
  <2>3. OpencodeStanding(es, i - 1, read[i - 1])
    BY <1>4
  <2>4. OpencodeStanding(es, i, read[i])
    BY <2>1, <2>2, <2>3, OpencodeRowTold
  <2> QED
    BY <2>1, <2>4
<1> HIDE DEF P
<1>5. \A i \in 0 .. n : i \in P
  BY <1>1, <1>3, <1>4, UpTo
<1> QED
  BY <1>5 DEF P, n

(* There are such states, and ParseEvents returns what it makes of the last. *)
LEMMA ReadIsReached ==
    ASSUME NEW es \in Seq(OpencodeEvent)
    PROVE  \E read : Readings(read, es) /\ OpencodeParsed(es) = OpencodeEnd(read[Len(es)])
<1> DEFINE n == Len(es)
           S == OpencodeSession
           Step(i, o) == IF OpencodeStanding(es, i - 1, o) THEN ReadOpencode(o, es[i]) ELSE NewOpencode
           step == [x \in (1 .. n) \X S |-> Step(x[1], x[2])]
<1>1. n \in Nat /\ DOMAIN es = 1 .. n
  OBVIOUS
<1>2. OpencodeStanding(es, 0, NewOpencode) /\ NewOpencode \in S
  <2>1. OpencodeStanding(es, 0, NewOpencode)
    BY NoRowTold
  <2> QED
    BY <2>1 DEF OpencodeStanding
<1>3. ASSUME NEW i \in 1 .. n, NEW o \in S PROVE Step(i, o) \in S
  <2>1. CASE OpencodeStanding(es, i - 1, o)
    <3> DEFINE q == ReadOpencode(o, es[i])
    <3>1. OpencodeStanding(es, i, q)
      BY <1>1, <2>1, OpencodeRowTold
    <3> HIDE DEF q
    <3>2. q \in S
      BY <3>1 DEF OpencodeStanding
    <3> QED
      BY <2>1, <3>2 DEF q
  <2> HIDE DEF S
  <2> QED
    BY <1>2, <2>1
<1> HIDE DEF Step, S
<1>4. step \in [(1 .. n) \X S -> S]
  BY <1>3
<1>5. \A i \in 1 .. n : \A o \in S : step[<<i, o>>] = Step(i, o)
  OBVIOUS
<1> HIDE DEF step
<1>6. PICK f \in [0 .. n -> S] : Follows(f, n, NewOpencode, step)
  BY <1>1, <1>2, <1>4, RecursionExists
<1>7. \A i \in 0 .. n : f[i] = IF i = 0 THEN NewOpencode ELSE Step(i, f[i - 1])
  <2>1. f = [i \in 0 .. n |-> IF i = 0 THEN NewOpencode ELSE step[<<i, f[i - 1]>>]]
    BY <1>6 DEF Follows
  <2>2. \A i \in 0 .. n : i = 0 \/ (i \in 1 .. n /\ i - 1 \in 0 .. n)
    BY <1>1
  <2>3. \A i \in 1 .. n : step[<<i, f[i - 1]>>] = Step(i, f[i - 1])
    BY <1>1, <1>5, <1>6, <2>2
  <2> QED
    BY <2>1, <2>2, <2>3
<1> DEFINE P == {i \in 0 .. n : OpencodeStanding(es, i, f[i])}
<1>8. \A i \in 0 .. n : i \in P
  <2>1. 0 \in P
    BY <1>1, <1>2, <1>7
  <2>2. ASSUME NEW i \in 1 .. n, i - 1 \in P PROVE i \in P
    <3>1. i \in 0 .. n /\ i # 0 /\ i \in DOMAIN es
      BY <1>1
    <3>2. OpencodeStanding(es, i - 1, f[i - 1])
      BY <2>2
    <3>3. f[i] = ReadOpencode(f[i - 1], es[i])
      BY <1>7, <3>1, <3>2 DEF Step
    <3>4. OpencodeStanding(es, i, f[i])
      BY <3>1, <3>2, <3>3, OpencodeRowTold
    <3> QED
      BY <3>1, <3>4
  <2> HIDE DEF P
  <2> QED
    BY <1>1, <2>1, <2>2, UpTo
<1>9. Readings(f, es)
  <2>1. \A i \in 0 .. n : f[i] = IF i = 0 THEN NewOpencode ELSE ReadOpencode(f[i - 1], es[i])
    <3>1. \A i \in 0 .. n : i = 0 \/ i - 1 \in 0 .. n
      BY <1>1
    <3>2. \A i \in 0 .. n : OpencodeStanding(es, i, f[i])
      BY <1>8
    <3> QED
      BY <1>7, <3>1, <3>2 DEF Step
  <2>2. f = [i \in 0 .. n |-> f[i]]
    BY <1>6
  <2> QED
    BY <2>1, <2>2 DEF Readings
<1> DEFINE read == CHOOSE g : Readings(g, es)
<1>10. Readings(read, es)
  BY <1>9
<1>11. OpencodeParsed(es) = OpencodeEnd(read[Len(es)])
  BY Zenon DEF OpencodeParsed, OpencodeEnd, Readings
<1> QED
  BY <1>10, <1>11

(* What is returned of the last state. *)
LEMMA OpencodeEndIs ==
    ASSUME NEW o
    PROVE  LET f == OpencodeFlush(o)
               s == OpencodeEnd(o)
           IN s.turns = f.turns /\ s.tokens = TokensOf(f.turns) /\ s.errors = f.errors
<1> DEFINE f == OpencodeFlush(o)
           T == f.turns
           base == [external |-> f.external, title |-> f.title, parent |-> f.parent,
                    isSubagent |-> f.isSubagent, window |-> f.window, errors |-> f.errors]
           calls == FoldLeft(LAMBDA n, t : n + Len(t.calls), 0, T)
           status == IF T = <<>> THEN "unknown" ELSE "completed"
           sums == [turns |-> T, tokens |-> TokensOf(T), toolCalls |-> calls, status |-> status]
           s == OpencodeEnd(o)
<1>1. s = Over(base, sums)
  BY DEF OpencodeEnd, FinalizeSession
<1> HIDE DEF s, T, calls, status, f
<1>2. /\ DOMAIN base = {"external", "title", "parent", "isSubagent", "window", "errors"}
      /\ DOMAIN sums = {"turns", "tokens", "toolCalls", "status"}
      /\ base.errors = f.errors /\ sums.turns = T /\ sums.tokens = TokensOf(T)
  OBVIOUS
<1> HIDE DEF base, sums
<1>3. s.errors = f.errors
  BY <1>1, <1>2, OverFirst
<1>4. s.turns = T /\ s.tokens = TokensOf(T)
  BY <1>1, <1>2, OverSecond
<1> QED
  BY <1>3, <1>4 DEF T, s, f

(* Every start is of a row. *)
LEMMA AllStarts ==
    ASSUME NEW es \in Seq(OpencodeEvent)
    PROVE  StartsBefore(es, Len(es) + 1) = Starts(es) /\ LostBy(es, Len(es)) = Lost(es)
<1> DEFINE n == Len(es)
<1>1. n \in Nat /\ \A i \in DOMAIN es : i \in 0 .. n /\ i <= n
  OBVIOUS
<1>2. ASSUME NEW s \in Starts(es) PROVE s < n + 1
  <2>1. PICK i \in Telling(es) : s = StartOf(es, i)
    BY DEF Starts
  <2>2. i \in DOMAIN es
    BY <2>1 DEF Telling, Said, Replied, Texts, Decoded, Kinds
  <2>3. s \in 0 .. i /\ i \in 0 .. n
    BY <1>1, <2>1, <2>2, StartsAscend
  <2> QED
    BY <1>1, <2>3
<1>3. \A i \in Lost(es) : i <= n
  BY <1>1 DEF Lost
<1> QED
  BY <1>2, <1>3 DEF StartsBefore, LostBy

(* The turns stored are the starts, in their order. *)
LEMMA TurnsNumbered ==
    ASSUME NEW es, NEW turns, NEW starts, TurnsTold(es, turns, starts)
    PROVE  /\ Len(turns) = Cardinality(starts)
           /\ \A t \in DOMAIN turns : turns[t].index = t /\ StretchFaithful(es, turns[t], NthRow(starts, t))
<1>1. turns \in Seq(OpencodeTurnType)
  BY DEF TurnsTold
<1>2. PICK g : /\ InRowOrder(g, starts) /\ Len(turns) = Len(g)
               /\ \A t \in DOMAIN g : turns[t].index = t /\ StretchFaithful(es, turns[t], g[t])
  BY DEF TurnsTold
<1>3. DOMAIN turns = DOMAIN g
  BY <1>1, <1>2 DEF InRowOrder
<1>4. Cardinality(starts) = Len(g) /\ \A k \in DOMAIN g : NthRow(starts, k) = g[k]
  BY <1>2, NthRowIs
<1> QED
  BY <1>2, <1>3, <1>4

(* The session is what the rows es say. *)
SaysAll(es, session) ==
    /\ session.tokens = SumTokens([i \in DOMAIN es |-> CostOf(es[i].row)])
    /\ Len(session.turns) = Cardinality(Starts(es))
    /\ \A t \in DOMAIN session.turns :
          session.turns[t].index = t /\ StretchFaithful(es, session.turns[t], NthRow(Starts(es), t))
    /\ ListsRows(es, session.errors, Lost(es))

(* What ParseEvents returns of any rows is what they say. *)
LEMMA ParsedSaysAll == ASSUME NEW es \in Seq(OpencodeEvent) PROVE SaysAll(es, OpencodeParsed(es))
<1> DEFINE n == Len(es)
           session == OpencodeParsed(es)
<1>1. PICK read : Readings(read, es) /\ session = OpencodeEnd(read[n])
  BY ReadIsReached
<1> DEFINE o == read[n]
           f == OpencodeFlush(o)
           w == n + 1
<1>2. n \in 0 .. Len(es) /\ w \in Nat /\ DOMAIN es = 1 .. n
  OBVIOUS
<1>3. OpencodeStanding(es, n, o)
  BY <1>1, <1>2, ReadsTold
<1>4. session.turns = f.turns /\ session.tokens = TokensOf(f.turns) /\ session.errors = f.errors
  BY <1>1, OpencodeEndIs
<1> HIDE DEF session, o, f
<1>5. /\ f.errors = o.errors /\ TurnsTold(es, f.turns, StartsBefore(es, w)) /\ TokensOf(f.turns) = BillBy(es, n)
  BY <1>2, <1>3, FlushTold DEF f
<1>6. ErrorsTold(es, o.errors, LostBy(es, n))
  BY <1>3 DEF OpencodeStanding
<1>7. StartsBefore(es, w) = Starts(es) /\ LostBy(es, n) = Lost(es)
  BY AllStarts
<1>8. BillBy(es, n) = SumTokens([i \in DOMAIN es |-> CostOf(es[i].row)])
  BY <1>2, Zenon DEF BillBy, Costs
<1>9. Len(f.turns) = Cardinality(Starts(es))
      /\ \A t \in DOMAIN f.turns : f.turns[t].index = t /\ StretchFaithful(es, f.turns[t], NthRow(Starts(es), t))
  BY <1>5, <1>7, TurnsNumbered
<1>10. ListsRows(es, f.errors, Lost(es))
  BY <1>5, <1>6, <1>7, ErrorsListed
<1>11. SaysAll(es, session)
  BY <1>4, <1>5, <1>8, <1>9, <1>10 DEF SaysAll
<1> QED
  BY <1>11 DEF session

-----------------------------------------------------------------------------
(* The collector *)

(* The messages of an unknown role, and those up to n. *)
Strangers(es) == {i \in DOMAIN es : UnknownRole(es[i])}
StrangersBy(es, n) == {i \in Strangers(es) : i <= n}

(* What the collector has reported after each row. *)
Retells(g, es) ==
    g = [i \in 0 .. Len(es) |->
            IF i = 0 THEN <<>>
            ELSE IF UnknownRole(es[i]) THEN Append(g[i - 1], es[i].raw) ELSE g[i - 1]]

(* It reports the messages of an unknown role in their order, each once. *)
LEMMA UnknownRolesTold ==
    ASSUME NEW es \in Seq(OpencodeEvent)
    PROVE  ListsRows(es, UnknownRoles(es), Strangers(es))
<1> DEFINE n == Len(es)
           S == Seq(Nat \X Nat)
           Next1(i, x) == IF UnknownRole(es[i]) THEN Append(x, es[i].raw) ELSE x
           step == [y \in (1 .. n) \X S |-> Next1(y[1], y[2])]
           nothing == <<>>
<1>1. n \in Nat /\ DOMAIN es = 1 .. n
  OBVIOUS
<1>2. \A i \in 1 .. n : i \in Nat /\ es[i].raw \in Nat \X Nat
  BY <1>1, EventFields
<1>3. nothing \in S /\ \A i \in 1 .. n : \A x \in S : Next1(i, x) \in S
  <2> DEFINE R == Nat \X Nat
  <2>1. \A i \in 1 .. n : es[i].raw \in R
    BY <1>2
  <2> HIDE DEF R, n
  <2>2. \A i \in 1 .. n : \A x \in Seq(R) : Append(x, es[i].raw) \in Seq(R)
    BY <2>1
  <2>3. nothing \in Seq(R)
    OBVIOUS
  <2> QED
    BY <2>2, <2>3 DEF R
<1> HIDE DEF n, S, nothing
<1>4. \A i \in 1 .. n : \A x \in S : step[<<i, x>>] = Next1(i, x)
  OBVIOUS
<1>5. step \in [(1 .. n) \X S -> S]
  <2> HIDE DEF Next1
  <2> QED
    BY <1>3
<1> HIDE DEF step, Next1
<1>6. PICK f \in [0 .. n -> S] : Follows(f, n, nothing, step)
  BY <1>1, <1>3, <1>5, RecursionExists
<1>7. \A i \in 0 .. n : i = 0 \/ (i \in 1 .. n /\ i - 1 \in 0 .. n /\ i # 0)
  BY <1>1
<1>8. f = [i \in 0 .. n |-> IF i = 0 THEN nothing ELSE Next1(i, f[i - 1])]
  <2>1. f = [i \in 0 .. n |-> IF i = 0 THEN nothing ELSE step[<<i, f[i - 1]>>]]
    BY <1>6 DEF Follows
  <2>2. \A i \in 1 .. n : step[<<i, f[i - 1]>>] = Next1(i, f[i - 1])
    BY <1>4, <1>6, <1>7
  <2> QED
    BY <1>7, <2>1, <2>2
<1> DEFINE told == CHOOSE g : Retells(g, es)
<1>9. Retells(told, es)
  <2>1. Retells(f, es)
    BY <1>8, Zenon DEF Retells, Next1, nothing, n
  <2> QED
    BY <2>1
<1>10. UnknownRoles(es) = told[n]
  BY Zenon DEF UnknownRoles, Retells, n
<1> HIDE DEF told
<1>11. told = [i \in 0 .. n |-> IF i = 0 THEN nothing ELSE Next1(i, told[i - 1])]
  BY <1>9, Zenon DEF Retells, Next1, nothing, n
<1> DEFINE P == {i \in 0 .. n : ErrorsTold(es, told[i], StrangersBy(es, i))}
<1>12. 0 \in P
  <2>1. StrangersBy(es, 0) = {}
    BY <1>1, <1>2 DEF StrangersBy, Strangers
  <2>2. told[0] = <<>> /\ 0 \in 0 .. n
    BY <1>1, <1>11 DEF nothing
  <2>3. ErrorsTold(es, <<>>, {})
    BY NumberedNone DEF ErrorsTold
  <2> QED
    BY <2>1, <2>2, <2>3
<1>13. ASSUME NEW i \in 1 .. n, i - 1 \in P PROVE i \in P
  <2>1. i \in DOMAIN es /\ i \in 0 .. n /\ i # 0 /\ i \in Nat
    BY <1>1
  <2>2. ErrorsTold(es, told[i - 1], StrangersBy(es, i - 1))
    BY <1>13
  <2>3. told[i] = Next1(i, told[i - 1])
    BY <1>11, <2>1
  <2>4. \A j \in Strangers(es) : j \in Nat
    BY <1>1 DEF Strangers
  <2>5. StrangersBy(es, i) = StrangersBy(es, i - 1) \cup (IF UnknownRole(es[i]) THEN {i} ELSE {})
        /\ \A j \in StrangersBy(es, i - 1) : j < i
    <3>1. \A j \in Strangers(es) : (j <= i <=> j <= i - 1 \/ j = i) /\ (j <= i - 1 => j < i)
      BY <2>1, <2>4
    <3>2. i \in Strangers(es) <=> UnknownRole(es[i])
      BY <2>1 DEF Strangers
    <3> QED
      BY <2>1, <3>1, <3>2 DEF StrangersBy
  <2>6. CASE UnknownRole(es[i])
    <3>1. ErrorsTold(es, Append(told[i - 1], es[i].raw), StrangersBy(es, i - 1) \cup {i})
      BY <2>1, <2>2, <2>5, ErrorTold
    <3> QED
      BY <2>1, <2>3, <2>5, <2>6, <3>1 DEF Next1
  <2>7. CASE ~ UnknownRole(es[i])
    BY <2>1, <2>2, <2>3, <2>5, <2>7 DEF Next1
  <2> QED
    BY <2>6, <2>7
<1> HIDE DEF P
<1>14. n \in P
  <2>1. \A i \in 0 .. n : i \in P
    BY <1>1, <1>12, <1>13, UpTo
  <2> QED
    BY <1>1, <2>1
<1>15. StrangersBy(es, n) = Strangers(es)
  BY <1>1 DEF StrangersBy, Strangers
<1> QED
  BY <1>10, <1>14, <1>15, ErrorsListed DEF P

(* A message with its parts. *)
OpencodeMessage == [row : OpencodeRows, parts : Seq(OpencodeRows)]
(* What is in the database and what was read of it. *)
OpencodeStored ==
    /\ messages \in Seq(OpencodeMessage)
    /\ loaded # NotLoaded => loaded \in Seq(Seq(OpencodeRows))
    /\ opencode # Nothing => /\ opencode.events \in Seq(OpencodeEvent)
                             /\ opencode.session = OpencodeParsed(opencode.events)
                             /\ opencode.reported = UnknownRoles(opencode.events)

(* The rows of the m-th message. *)
RowsOfMessage(parts, m) ==
    <<[row |-> messages[m].row, raw |-> <<m, 0>>]>>
    \o (IF m > Len(parts) THEN <<>>
        ELSE [k \in DOMAIN parts[m] |-> [row |-> parts[m][k], raw |-> <<m, k>>]])
(* The row of the session. *)
FirstRows == <<[row |-> SessionRow, raw |-> <<0, 0>>]>>
(* The rows up to the m-th message. *)
Gathers(rows, parts) ==
    rows = [m \in 0 .. Len(messages) |-> IF m = 0 THEN FirstRows ELSE rows[m - 1] \o RowsOfMessage(parts, m)]

(* A row and where it is from are an event. *)
LEMMA EventIs ==
    ASSUME NEW r \in OpencodeRows, NEW m \in Nat, NEW k \in Nat
    PROVE  [row |-> r, raw |-> <<m, k>>] \in OpencodeEvent
BY DEF OpencodeEvent

(* The rows of a message are events. *)
LEMMA MessageRowsAre ==
    ASSUME messages \in Seq(OpencodeMessage), NEW parts \in Seq(Seq(OpencodeRows)), NEW m \in 1 .. Len(messages)
    PROVE  RowsOfMessage(parts, m) \in Seq(OpencodeEvent)
<1> DEFINE S == OpencodeEvent
           head == [row |-> messages[m].row, raw |-> <<m, 0>>]
           tail == IF m > Len(parts) THEN <<>>
                   ELSE [k \in DOMAIN parts[m] |-> [row |-> parts[m][k], raw |-> <<m, k>>]]
<1>1. m \in Nat /\ messages[m] \in OpencodeMessage
  OBVIOUS
<1>2. head \in S
  BY <1>1, EventIs DEF OpencodeMessage
<1>3. tail \in Seq(S)
  <2>1. CASE m > Len(parts)
    BY <2>1
  <2>2. CASE ~ (m > Len(parts))
    <3> DEFINE p == parts[m]
    <3>1. p \in Seq(OpencodeRows)
      <4> DEFINE R == Seq(OpencodeRows)
      <4>1. parts \in Seq(R) /\ m \in 1 .. Len(parts)
        BY <1>1, <2>2
      <4> HIDE DEF R
      <4>2. parts[m] \in R
        BY <4>1
      <4> QED
        BY <4>2 DEF R
    <3> HIDE DEF p
    <3>2. DOMAIN p = 1 .. Len(p) /\ Len(p) \in Nat /\ \A k \in 1 .. Len(p) : p[k] \in OpencodeRows /\ k \in Nat
      BY <3>1
    <3>3. \A k \in 1 .. Len(p) : [row |-> p[k], raw |-> <<m, k>>] \in S
      BY <1>1, <3>2, EventIs
    <3>4. tail = [k \in 1 .. Len(p) |-> [row |-> p[k], raw |-> <<m, k>>]]
      BY <2>2, <3>2 DEF p
    <3> HIDE DEF tail, S
    <3> QED
      BY <3>2, <3>3, <3>4
  <2> QED
    BY <2>1, <2>2
<1>4. RowsOfMessage(parts, m) = <<head>> \o tail
  BY DEF RowsOfMessage
<1> HIDE DEF head, tail, S
<1>5. <<head>> \o tail \in Seq(S)
  BY <1>2, <1>3
<1> QED
  BY <1>4, <1>5 DEF S

(* The rows collected are events, whenever the parts were read. *)
LEMMA CollectedAre ==
    ASSUME OpencodeAssumption, messages \in Seq(OpencodeMessage), NEW parts \in Seq(Seq(OpencodeRows))
    PROVE  Collected(parts) \in Seq(OpencodeEvent)
<1> DEFINE n == Len(messages)
           S == Seq(OpencodeEvent)
           step == [x \in (1 .. n) \X S |-> x[2] \o RowsOfMessage(parts, x[1])]
<1>1. n \in Nat
  OBVIOUS
<1>2. FirstRows \in S
  <2> DEFINE head == [row |-> SessionRow, raw |-> <<0, 0>>]
             E == OpencodeEvent
  <2>1. SessionRow \in OpencodeRows
    BY DEF OpencodeAssumption
  <2>2. head \in E
    BY <2>1, EventIs
  <2>3. FirstRows = <<head>>
    BY DEF FirstRows
  <2> HIDE DEF head, E
  <2>4. <<head>> \in Seq(E)
    BY <2>2
  <2> QED
    BY <2>3, <2>4 DEF E
<1>3. \A m \in 1 .. n : RowsOfMessage(parts, m) \in S
  BY MessageRowsAre
<1>4. \A x, y \in S : x \o y \in S
  <2> DEFINE E == OpencodeEvent
  <2> HIDE DEF E
  <2>1. \A x, y \in Seq(E) : x \o y \in Seq(E)
    OBVIOUS
  <2> QED
    BY <2>1 DEF E
<1> HIDE DEF n, S
<1>5. step \in [(1 .. n) \X S -> S]
  BY <1>3, <1>4
<1>6. \A m \in 1 .. n : \A x \in S : step[<<m, x>>] = x \o RowsOfMessage(parts, m)
  OBVIOUS
<1> HIDE DEF step
<1>7. PICK f \in [0 .. n -> S] : Follows(f, n, FirstRows, step)
  BY <1>1, <1>2, <1>5, RecursionExists
<1>8. f = [m \in 0 .. n |-> IF m = 0 THEN FirstRows ELSE f[m - 1] \o RowsOfMessage(parts, m)]
  <2>1. f = [m \in 0 .. n |-> IF m = 0 THEN FirstRows ELSE step[<<m, f[m - 1]>>]]
    BY <1>7 DEF Follows
  <2>2. \A m \in 0 .. n : m = 0 \/ (m \in 1 .. n /\ m - 1 \in 0 .. n)
    BY <1>1
  <2>3. \A m \in 1 .. n : step[<<m, f[m - 1]>>] = f[m - 1] \o RowsOfMessage(parts, m)
    <3> SUFFICES ASSUME NEW m \in 1 .. n PROVE step[<<m, f[m - 1]>>] = f[m - 1] \o RowsOfMessage(parts, m)
      OBVIOUS
    <3> DEFINE x == f[m - 1]
    <3>1. m - 1 \in 0 .. n
      BY <1>1
    <3>2. x \in S
      BY <1>7, <3>1
    <3> HIDE DEF x
    <3>3. step[<<m, x>>] = x \o RowsOfMessage(parts, m)
      BY <1>6, <3>2
    <3> QED
      BY <3>3 DEF x
  <2>4. \A m \in 0 .. n : f[m] = IF m = 0 THEN FirstRows ELSE f[m - 1] \o RowsOfMessage(parts, m)
    <3>1. \A m \in 0 .. n : f[m] = IF m = 0 THEN FirstRows ELSE step[<<m, f[m - 1]>>]
      BY <2>1, Zenon
    <3> QED
      BY <2>2, <2>3, <3>1
  <2>5. f = [m \in 0 .. n |-> f[m]]
    BY <1>7
  <2> QED
    BY <2>4, <2>5
<1> DEFINE rows == CHOOSE g : Gathers(g, parts)
<1>9. Gathers(rows, parts)
  BY <1>8 DEF Gathers, n
<1>10. Collected(parts) = rows[n]
  BY Zenon DEF Collected, Gathers, RowsOfMessage, FirstRows, n
<1> HIDE DEF rows
<1>11. rows = [m \in 0 .. n |-> IF m = 0 THEN FirstRows ELSE rows[m - 1] \o RowsOfMessage(parts, m)]
  BY <1>9 DEF Gathers, n
<1> DEFINE P == {m \in 0 .. n : rows[m] \in S}
<1>12. 0 \in P
  BY <1>1, <1>2, <1>11
<1>13. ASSUME NEW m \in 1 .. n, m - 1 \in P PROVE m \in P
  <2>1. m \in 0 .. n /\ m # 0
    BY <1>1
  <2>2. rows[m] = rows[m - 1] \o RowsOfMessage(parts, m)
    BY <1>11, <2>1
  <2> QED
    BY <1>3, <1>4, <1>13, <2>1, <2>2
<1> HIDE DEF P
<1>14. n \in P
  <2>1. \A m \in 0 .. n : m \in P
    BY <1>1, <1>12, <1>13, UpTo
  <2> QED
    BY <1>1, <2>1
<1> QED
  BY <1>10, <1>14 DEF P, S

(* The database stays one of messages with their parts. *)
LEMMA MessagesStay ==
    ASSUME OpencodeAssumption, messages \in Seq(OpencodeMessage), WriteMessage \/ WritePart \/ UpdatePart
    PROVE  messages' \in Seq(OpencodeMessage)
<1> DEFINE S == OpencodeMessage
           nothing == <<>>
<1>1. MessageRows \subseteq OpencodeRows /\ PartRows \subseteq OpencodeRows /\ nothing \in Seq(OpencodeRows)
  BY DEF OpencodeAssumption
<1>2. messages \in Seq(S) /\ \A m \in DOMAIN messages : messages[m] \in S
  OBVIOUS
<1>3. \A m \in DOMAIN messages : \A x \in S : [messages EXCEPT ![m] = x] \in Seq(S)
  <2> HIDE DEF S
  <2> QED
    BY <1>2
<1>4. CASE WriteMessage
  <2>1. PICK r \in MessageRows : messages' = Append(messages, [row |-> r, parts |-> nothing])
    BY <1>4 DEF WriteMessage
  <2> DEFINE x == [row |-> r, parts |-> nothing]
  <2> HIDE DEF nothing
  <2>2. x \in S
    BY <1>1 DEF OpencodeMessage
  <2> HIDE DEF x, S
  <2>3. Append(messages, x) \in Seq(S)
    BY <1>2, <2>2
  <2> QED
    BY <2>1, <2>3 DEF S, x
<1>5. CASE WritePart
  <2>1. PICK m \in DOMAIN messages : \E r \in PartRows : messages' = [messages EXCEPT ![m].parts = Append(@, r)]
    BY <1>5 DEF WritePart
  <2>2. PICK r \in PartRows : messages' = [messages EXCEPT ![m].parts = Append(@, r)]
    BY <2>1
  <2> DEFINE M == messages[m]
             x == [M EXCEPT !.parts = Append(M.parts, r)]
  <2>3. M \in S /\ r \in OpencodeRows
    BY <1>1, <1>2
  <2>4. Append(M.parts, r) \in Seq(OpencodeRows)
    <3> DEFINE R == OpencodeRows
               p == M.parts
    <3>1. p \in Seq(R) /\ r \in R
      BY <2>3 DEF OpencodeMessage
    <3> HIDE DEF R, p
    <3>2. Append(p, r) \in Seq(R)
      BY <3>1
    <3> QED
      BY <3>2 DEF R, p
  <2>5. x \in S
    <3> DEFINE p == Append(M.parts, r)
    <3> HIDE DEF p, M
    <3>1. [M EXCEPT !.parts = p] \in OpencodeMessage
      BY <2>3, <2>4 DEF OpencodeMessage, p
    <3> QED
      BY <3>1 DEF p
  <2>6. messages' = [messages EXCEPT ![m] = x]
    BY <2>2
  <2> HIDE DEF x, S
  <2>7. messages' \in Seq(S)
    BY <1>3, <2>5, <2>6
  <2> QED
    BY <2>7 DEF S
<1>6. CASE UpdatePart
  <2>1. PICK m \in DOMAIN messages : \E k \in DOMAIN messages[m].parts :
            messages' = [messages EXCEPT ![m].parts[k].state = "completed"]
    BY <1>6 DEF UpdatePart
  <2>2. PICK k \in DOMAIN messages[m].parts : messages' = [messages EXCEPT ![m].parts[k].state = "completed"]
    BY <2>1
  <2> DEFINE M == messages[m]
             p == M.parts
             e == p[k]
             d == [e EXCEPT !.state = "completed"]
             q == [p EXCEPT ![k] = d]
             x == [M EXCEPT !.parts = q]
  <2>3. messages' = [messages EXCEPT ![m] = x]
    BY <2>2
  <2>4. M \in S /\ k \in DOMAIN p
    BY <1>2
  <2>5. p \in Seq(OpencodeRows)
    BY <2>4 DEF OpencodeMessage
  <2> HIDE DEF M, p
  <2>6. e \in OpencodeRows
    <3> DEFINE R == OpencodeRows
    <3> HIDE DEF R
    <3>1. p \in Seq(R) => p[k] \in R
      BY <2>4
    <3> QED
      BY <2>5, <3>1 DEF R
  <2> HIDE DEF e
  <2>7. d \in OpencodeRows
    BY <2>6 DEF OpencodeRows
  <2> HIDE DEF d
  <2>8. q \in Seq(OpencodeRows)
    <3> DEFINE R == OpencodeRows
    <3> HIDE DEF R
    <3>1. p \in Seq(R) /\ d \in R => q \in Seq(R)
      BY <2>4
    <3> QED
      BY <2>5, <2>7, <3>1 DEF R
  <2> HIDE DEF q
  <2>9. x \in S
    BY <2>4, <2>8 DEF OpencodeMessage
  <2> HIDE DEF x, S
  <2>10. messages' \in Seq(S)
    BY <1>3, <2>3, <2>9
  <2> QED
    BY <2>10 DEF S
<1> QED
  BY <1>4, <1>5, <1>6

(* The parts read are rows. *)
LEMMA LoadedAre ==
    ASSUME messages \in Seq(OpencodeMessage)
    PROVE  [m \in DOMAIN messages |-> messages[m].parts] \in Seq(Seq(OpencodeRows))
<1> DEFINE R == Seq(OpencodeRows)
<1>1. DOMAIN messages = 1 .. Len(messages) /\ Len(messages) \in Nat
      /\ \A m \in DOMAIN messages : messages[m] \in OpencodeMessage
  OBVIOUS
<1>2. \A m \in DOMAIN messages : messages[m].parts \in R
  BY <1>1 DEF OpencodeMessage
<1> HIDE DEF R
<1>3. [m \in DOMAIN messages |-> messages[m].parts] \in Seq(R)
  BY <1>1, <1>2
<1> QED
  BY <1>3 DEF R

(* The database and what was read of it stay so. *)
LEMMA OpencodeStays ==
    ASSUME OpencodeAssumption, OpencodeStored, [OpencodeNext]_opencodeVars PROVE OpencodeStored'
<1>1. messages \in Seq(OpencodeMessage)
  BY DEF OpencodeStored
<1>2. CASE UNCHANGED opencodeVars
  BY <1>2 DEF opencodeVars, OpencodeStored
<1>3. CASE LoadParts
  <2>1. messages' = messages /\ opencode' = Nothing
        /\ (loaded' = NotLoaded \/ loaded' = [m \in DOMAIN messages |-> messages[m].parts])
    BY <1>3 DEF LoadParts
  <2>2. loaded' = NotLoaded \/ loaded' \in Seq(Seq(OpencodeRows))
    BY <1>1, <2>1, LoadedAre
  <2> QED
    BY <1>1, <2>1, <2>2 DEF OpencodeStored
<1>4. CASE CollectSessionFile
  <2> DEFINE es == Collected(loaded)
  <2>1. loaded' = NotLoaded /\ messages' = messages
        /\ (opencode' # Nothing => /\ opencode'.events = es /\ opencode'.session = OpencodeParsed(es)
                                   /\ opencode'.reported = UnknownRoles(es))
    <3> DEFINE s == OpencodeParsed(es)
               u == UnknownRoles(es)
               x == [events |-> es, session |-> s, reported |-> u]
    <3>1. loaded' = NotLoaded /\ messages' = messages /\ opencode' \in {x, Nothing}
      <4> DEFINE all == \A m \in DOMAIN messages : messages[m].row.json
      <4>1. loaded' = NotLoaded /\ messages' = messages /\ opencode' = IF all THEN x ELSE Nothing
        BY <1>4, Zenon DEF CollectSessionFile
      <4> HIDE DEF all, x
      <4> QED
        BY <4>1
    <3> HIDE DEF es, s, u
    <3>2. x.events = es /\ x.session = s /\ x.reported = u
      OBVIOUS
    <3> HIDE DEF x
    <3> QED
      BY <3>1, <3>2 DEF s, u
  <2>2. loaded \in Seq(Seq(OpencodeRows))
    BY <1>4 DEF CollectSessionFile, OpencodeStored
  <2>3. es \in Seq(OpencodeEvent)
    BY <1>1, <2>2, CollectedAre
  <2> HIDE DEF es
  <2> QED
    BY <1>1, <2>1, <2>3 DEF OpencodeStored
<1>5. CASE WriteMessage \/ WritePart \/ UpdatePart
  <2>1. messages' \in Seq(OpencodeMessage)
    BY <1>1, <1>5, MessagesStay
  <2>2. loaded' = loaded /\ opencode' = opencode
    BY <1>5 DEF WriteMessage, WritePart, UpdatePart
  <2> QED
    BY <2>1, <2>2 DEF OpencodeStored
<1> QED
  BY <1>2, <1>3, <1>4, <1>5 DEF OpencodeNext

-----------------------------------------------------------------------------
(* However opencode writes while its parts and its messages are read, the session that           *)
(* parser/opencode/parser.go makes of the rows accounts for every row: each turn in which            *)
(* something was said or done once, with its calls, usage, text and outcome; its errors are the     *)
(* rows it cannot place, once each, and the collector's the messages of an unknown role, once each    *)
(* again.                                                                                            *)
THEOREM OpencodeFaithfulAlways == OpencodeSpec => []OpencodeFaithful
<1>1. OpencodeInit => OpencodeStored
  <2> SUFFICES ASSUME OpencodeInit PROVE OpencodeStored
    OBVIOUS
  <2>1. messages = <<>> /\ loaded = NotLoaded /\ opencode = Nothing
    BY DEF OpencodeInit
  <2> DEFINE S == OpencodeMessage
  <2> HIDE DEF S
  <2>2. <<>> \in Seq(S)
    OBVIOUS
  <2> QED
    BY <2>1, <2>2 DEF OpencodeStored, S
<1>2. OpencodeStored /\ [OpencodeNext]_opencodeVars => OpencodeStored'
  BY OpencodeAssumption, OpencodeStays
<1>3. OpencodeStored => OpencodeFaithful
  <2> SUFFICES ASSUME OpencodeStored, opencode # Nothing PROVE OpencodeFaithful
    BY DEF OpencodeFaithful
  <2> DEFINE es == opencode.events
             session == opencode.session
  <2>1. es \in Seq(OpencodeEvent) /\ session = OpencodeParsed(es) /\ opencode.reported = UnknownRoles(es)
    BY DEF OpencodeStored
  <2>2. SaysAll(es, session)
    BY <2>1, ParsedSaysAll
  <2>3. ListsRows(es, opencode.reported, {i \in DOMAIN es : UnknownRole(es[i])})
    BY <2>1, UnknownRolesTold DEF Strangers
  <2> QED
    BY <2>2, <2>3, Zenon DEF OpencodeFaithful, SaysAll
<1> QED
  BY <1>1, <1>2, <1>3, PTL DEF OpencodeSpec

============================================================================
