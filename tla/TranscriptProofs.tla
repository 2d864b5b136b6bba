-------------------------- MODULE TranscriptProofs --------------------------
(***************************************************************************)
(* The claude-code parser is faithful to every transcript: what ParseEvents   *)
(* returns accounts for each tool result, each message and its cost, each      *)
(* background task and the title, for any lines in any order and number.  The   *)
(* inductive invariant is Standing: after each line the state of the parser      *)
(* accounts for the lines read so far.                                            *)
(***************************************************************************)
EXTENDS ClaudeParser, Recursion, FiniteSetTheorems, TLAPS

-----------------------------------------------------------------------------
(* Tokens, records and times *)

(* The counts of tokens a message is billed for. *)
Tokens == [DOMAIN NoTokens -> Nat]

(* What is counted. *)
LEMMA TokenFields ==
    DOMAIN NoTokens = {"input", "output", "cacheRead", "cacheWrite", "cacheWriteLong"}
BY DEF NoTokens

(* Nothing spent is a count. *)
LEMMA NoTokensType == NoTokens \in Tokens
BY DEF Tokens, NoTokens

(* Counts add up to counts. *)
LEMMA AddTokensType ==
    ASSUME NEW a \in Tokens, NEW b \in Tokens PROVE AddTokens(a, b) \in Tokens
BY DEF Tokens, AddTokens

(* Nothing spent changes no sum. *)
LEMMA AddNoTokens ==
    ASSUME NEW a \in Tokens PROVE AddTokens(a, NoTokens) = a /\ AddTokens(NoTokens, a) = a
<1>1. \A f \in DOMAIN NoTokens : NoTokens[f] = 0
  BY DEF NoTokens
<1>2. a = [f \in DOMAIN NoTokens |-> a[f]] /\ \A f \in DOMAIN NoTokens : a[f] \in Nat
  BY DEF Tokens
<1>3. \A f \in DOMAIN NoTokens : a[f] + NoTokens[f] = a[f] /\ NoTokens[f] + a[f] = a[f]
  BY <1>1, <1>2
<1> QED
  BY <1>2, <1>3 DEF AddTokens

(* Counts may be added in any grouping. *)
LEMMA AddTokensAssociates ==
    ASSUME NEW a \in Tokens, NEW b \in Tokens, NEW c \in Tokens
    PROVE  AddTokens(AddTokens(a, b), c) = AddTokens(a, AddTokens(b, c))
<1>1. \A f \in DOMAIN NoTokens : a[f] \in Nat /\ b[f] \in Nat /\ c[f] \in Nat
  BY DEF Tokens
<1>2. \A f \in DOMAIN NoTokens : (a[f] + b[f]) + c[f] = a[f] + (b[f] + c[f])
  BY <1>1
<1> QED
  BY <1>2 DEF AddTokens

(* What a list of counts adds up to is the last of its partial sums. *)
Sums(sum, s) ==
    sum = [n \in 0 .. Len(s) |-> IF n = 0 THEN NoTokens ELSE AddTokens(sum[n - 1], s[n])]

(* SumTokens is the last of the partial sums of its recursion, which exist. *)
LEMMA SumIsReached ==
    ASSUME NEW s \in Seq(Tokens)
    PROVE  \E sum \in [0 .. Len(s) -> Tokens] : Sums(sum, s) /\ SumTokens(s) = sum[Len(s)]
<1> DEFINE n == Len(s)
           step == [x \in (1 .. n) \X Tokens |-> AddTokens(x[2], s[x[1]])]
<1>1. n \in Nat /\ \A i \in 1 .. n : s[i] \in Tokens
  OBVIOUS
<1>2. step \in [(1 .. n) \X Tokens -> Tokens]
  BY <1>1, AddTokensType
<1>3. \A i \in 1 .. n : \A x \in Tokens : step[<<i, x>>] = AddTokens(x, s[i])
  OBVIOUS
<1> HIDE DEF step
<1>4. PICK f \in [0 .. n -> Tokens] : Follows(f, n, NoTokens, step)
  BY <1>1, <1>2, NoTokensType, RecursionExists
<1>5. \A i \in 1 .. n : step[<<i, f[i - 1]>>] = AddTokens(f[i - 1], s[i])
  BY <1>1, <1>3
<1>6. Sums(f, s)
  <2>1. f = [i \in 0 .. n |-> IF i = 0 THEN NoTokens ELSE step[<<i, f[i - 1]>>]]
    BY <1>4 DEF Follows
  <2>2. \A i \in 0 .. n : i = 0 \/ i \in 1 .. n
    BY <1>1
  <2>3. \A i \in 0 .. n : f[i] = IF i = 0 THEN NoTokens ELSE AddTokens(f[i - 1], s[i])
    BY <1>5, <2>1, <2>2
  <2>4. f = [i \in 0 .. n |-> f[i]]
    BY <2>1
  <2> QED
    BY <2>3, <2>4 DEF Sums
<1> DEFINE sum == CHOOSE g : Sums(g, s)
<1>7. Sums(sum, s)
  BY <1>6
<1>8. SumTokens(s) = sum[Len(s)]
  BY Zenon DEF SumTokens, Sums
<1>9. sum \in [0 .. n -> Tokens]
  <2> HIDE DEF sum
  <2>1. sum = [i \in 0 .. n |-> IF i = 0 THEN NoTokens ELSE AddTokens(sum[i - 1], s[i])]
    BY <1>7 DEF Sums
  <2> DEFINE P == {i \in 0 .. n : sum[i] \in Tokens}
  <2>2. 0 \in P
    BY <1>1, <2>1, NoTokensType
  <2>3. ASSUME NEW i \in 1 .. n, i - 1 \in P PROVE i \in P
    BY <1>1, <2>1, <2>3, AddTokensType
  <2> HIDE DEF P
  <2>4. \A i \in 0 .. n : i \in P
    BY <1>1, <2>2, <2>3, UpTo
  <2>5. \A i \in 0 .. n : sum[i] \in Tokens
    BY <2>4 DEF P
  <2>6. DOMAIN sum = 0 .. n /\ sum = [i \in 0 .. n |-> sum[i]]
    BY <2>1
  <2> QED
    BY <2>5, <2>6
<1> QED
  BY <1>7, <1>8, <1>9

(* A sum of counts is a count. *)
LEMMA SumTokensType == ASSUME NEW s \in Seq(Tokens) PROVE SumTokens(s) \in Tokens
<1>1. Len(s) \in Nat /\ Len(s) \in 0 .. Len(s)
  OBVIOUS
<1> QED
  BY <1>1, SumIsReached

(* Nothing adds up to nothing. *)
LEMMA SumTokensEmpty == SumTokens(<<>>) = NoTokens
<1>1. <<>> \in Seq(Tokens) /\ Len(<<>>) = 0 /\ 0 \in 0 .. 0
  OBVIOUS
<1>2. PICK sum : Sums(sum, <<>>) /\ SumTokens(<<>>) = sum[0]
  BY <1>1, SumIsReached
<1> QED
  BY <1>1, <1>2 DEF Sums

(* Two lists that agree up to n have the same partial sums up to n. *)
LEMMA SumsAgree ==
    ASSUME NEW s \in Seq(Tokens), NEW u \in Seq(Tokens), NEW n \in Nat, n <= Len(s), n <= Len(u),
           \A i \in 1 .. n : s[i] = u[i], NEW f, NEW g, Sums(f, s), Sums(g, u)
    PROVE  f[n] = g[n]
<1> DEFINE P == {i \in 0 .. n : f[i] = g[i]}
<1>1. /\ f = [i \in 0 .. Len(s) |-> IF i = 0 THEN NoTokens ELSE AddTokens(f[i - 1], s[i])]
      /\ g = [i \in 0 .. Len(u) |-> IF i = 0 THEN NoTokens ELSE AddTokens(g[i - 1], u[i])]
  BY DEF Sums
<1>2. Len(s) \in Nat /\ Len(u) \in Nat
  OBVIOUS
<1>3. 0 \in P
  BY <1>1, <1>2
<1>4. ASSUME NEW i \in 1 .. n, i - 1 \in P PROVE i \in P
  BY <1>1, <1>2, <1>4
<1> HIDE DEF P
<1>5. \A i \in 0 .. n : i \in P
  BY <1>3, <1>4, UpTo
<1> QED
  BY <1>5 DEF P

(* One more count is added to the sum. *)
LEMMA SumTokensAppend ==
    ASSUME NEW s \in Seq(Tokens), NEW x \in Tokens
    PROVE  SumTokens(Append(s, x)) = AddTokens(SumTokens(s), x)
<1> DEFINE u == Append(s, x)
           n == Len(s)
<1>1. /\ u \in Seq(Tokens) /\ Len(u) = n + 1 /\ n \in Nat
      /\ u[n + 1] = x /\ \A i \in 1 .. n : u[i] = s[i]
  OBVIOUS
<1>2. PICK f : Sums(f, s) /\ SumTokens(s) = f[n]
  BY SumIsReached
<1>3. PICK g : Sums(g, u) /\ SumTokens(u) = g[n + 1]
  BY <1>1, SumIsReached
<1> HIDE DEF u
<1>4. f[n] = g[n]
  BY <1>1, <1>2, <1>3, SumsAgree
<1>5. g[n + 1] = AddTokens(g[n], x)
  <2>1. g = [i \in 0 .. n + 1 |-> IF i = 0 THEN NoTokens ELSE AddTokens(g[i - 1], u[i])]
    BY <1>1, <1>3 DEF Sums
  <2>2. n + 1 \in 0 .. n + 1 /\ n + 1 # 0 /\ (n + 1) - 1 = n
    BY <1>1
  <2> QED
    BY <1>1, <2>1, <2>2
<1> QED
  BY <1>2, <1>3, <1>4, <1>5 DEF u

(* A bound that holds of every count holds of their sum. *)
LEMMA SumTokensBound ==
    ASSUME NEW s \in Seq(Tokens), \A i \in 1 .. Len(s) : s[i].cacheWriteLong <= s[i].cacheWrite
    PROVE  SumTokens(s).cacheWriteLong <= SumTokens(s).cacheWrite
<1> DEFINE n == Len(s)
<1>1. PICK f \in [0 .. n -> Tokens] : Sums(f, s) /\ SumTokens(s) = f[n]
  BY SumIsReached
<1>2. n \in Nat /\ \A i \in 1 .. n : s[i] \in Tokens
  OBVIOUS
<1>3. f = [i \in 0 .. n |-> IF i = 0 THEN NoTokens ELSE AddTokens(f[i - 1], s[i])]
  BY <1>1 DEF Sums
<1> DEFINE P == {i \in 0 .. n : f[i].cacheWriteLong <= f[i].cacheWrite}
<1>4. 0 \in P
  BY <1>2, <1>3 DEF NoTokens
<1>5. ASSUME NEW i \in 1 .. n, i - 1 \in P PROVE i \in P
  <2>1. f[i] = AddTokens(f[i - 1], s[i]) /\ f[i - 1] \in Tokens /\ s[i] \in Tokens /\ i \in 0 .. n
    <3>1. i \in 0 .. n /\ i # 0 /\ i - 1 \in 0 .. n
      BY <1>2
    <3> QED
      BY <1>1, <1>2, <1>3, <3>1
  <2>2. /\ f[i].cacheWriteLong = f[i - 1].cacheWriteLong + s[i].cacheWriteLong
        /\ f[i].cacheWrite = f[i - 1].cacheWrite + s[i].cacheWrite
    BY <2>1, TokenFields DEF AddTokens
  <2>3. /\ f[i - 1].cacheWriteLong \in Nat /\ f[i - 1].cacheWrite \in Nat
        /\ s[i].cacheWriteLong \in Nat /\ s[i].cacheWrite \in Nat
    BY <2>1, TokenFields DEF Tokens
  <2>4. f[i - 1].cacheWriteLong <= f[i - 1].cacheWrite /\ s[i].cacheWriteLong <= s[i].cacheWrite
    BY <1>5
  <2> QED
    BY <2>1, <2>2, <2>3, <2>4
<1> HIDE DEF P
<1>6. \A i \in 0 .. n : i \in P
  BY <1>2, <1>4, <1>5, UpTo
<1> QED
  BY <1>1, <1>2, <1>6 DEF P

(* A function laid over another. *)
LEMMA OverDomain == \A a, b : DOMAIN Over(a, b) = DOMAIN a \cup DOMAIN b
BY DEF Over

(* What the first record has it keeps. *)
LEMMA OverFirst == \A a, b : \A x \in DOMAIN a : Over(a, b)[x] = a[x]
BY DEF Over

(* What only the second record has is added. *)
LEMMA OverSecond == \A a, b : \A x \in DOMAIN b \ DOMAIN a : Over(a, b)[x] = b[x]
BY DEF Over

(* The least and the greatest of some numbers up to n. *)
LEMMA GreatestOf ==
    ASSUME NEW n \in Nat, NEW S \in SUBSET (1 .. n), S # {}
    PROVE  Max(S) \in S /\ \A y \in S : Max(S) >= y
<1> DEFINE P == {i \in 0 .. n : S \cap 1 .. i = {} \/ \E x \in S \cap 1 .. i : \A y \in S \cap 1 .. i : x >= y}
<1>1. 0 \in P
  OBVIOUS
<1>2. ASSUME NEW i \in 1 .. n, i - 1 \in P PROVE i \in P
  <2>1. 1 .. i = (1 .. i - 1) \cup {i}
    OBVIOUS
  <2>2. CASE i \in S
    <3>1. i \in S \cap 1 .. i /\ \A y \in S \cap 1 .. i : i >= y
      BY <2>2
    <3> QED
      BY <3>1
  <2>3. CASE i \notin S
    <3>1. S \cap 1 .. i = S \cap 1 .. i - 1
      BY <2>1, <2>3
    <3> QED
      BY <1>2, <3>1
  <2> QED
    BY <2>2, <2>3
<1> HIDE DEF P
<1>3. \A i \in 0 .. n : i \in P
  BY <1>1, <1>2, UpTo
<1>4. n \in P /\ S \cap 1 .. n = S
  <2>1. n \in 0 .. n
    OBVIOUS
  <2> QED
    BY <1>3, <2>1
<1>5. \E x \in S : \A y \in S : x >= y
  BY <1>4 DEF P
<1> QED
  BY <1>5 DEF Max

(* The least of some numbers up to n is one of them. *)
LEMMA LeastOf ==
    ASSUME NEW n \in Nat, NEW S \in SUBSET (1 .. n), S # {}
    PROVE  Min(S) \in S /\ \A y \in S : Min(S) <= y
<1> DEFINE T == {n + 1 - x : x \in S}
<1>1. T \in SUBSET (1 .. n) /\ T # {}
  <2>1. \A x \in S : n + 1 - x \in 1 .. n
    OBVIOUS
  <2> QED
    BY <2>1
<1>2. PICK z \in T : \A y \in T : z >= y
  BY <1>1, GreatestOf
<1>3. PICK x \in S : z = n + 1 - x
  BY <1>2
<1>4. \A y \in S : x <= y
  <2> SUFFICES ASSUME NEW y \in S PROVE x <= y
    OBVIOUS
  <2>1. n + 1 - y \in T
    OBVIOUS
  <2>2. z >= n + 1 - y
    BY <1>2, <2>1
  <2> QED
    BY <1>3, <2>2
<1> QED
  BY <1>4 DEF Min

(* The greatest of the numbers, when a greater one than all comes and when none does. *)
LEMMA MaxIs ==
    ASSUME NEW n \in Nat, NEW S \in SUBSET (1 .. n), NEW x \in S, \A y \in S : x >= y
    PROVE  Max(S) = x
<1>1. Max(S) \in S /\ Max(S) >= x
  BY GreatestOf
<1>2. \A m \in S : m >= x => m = x
  OBVIOUS
<1> QED
  BY <1>1, <1>2

(* LaterTime is the later of two times. *)
LEMMA LaterTimeMax ==
    ASSUME NEW a \in Nat, NEW b \in Nat
    PROVE  LaterTime(a, b) \in {a, b} /\ LaterTime(a, b) >= a /\ LaterTime(a, b) >= b /\ LaterTime(a, b) \in Nat
BY DEF LaterTime

-----------------------------------------------------------------------------
(* The types of the claude-code parser *)

(* The maps from part of A to B. *)
Partial(A, B) == UNION {[D -> B] : D \in SUBSET A}

(* A tool result as the parser holds it: the line and the place it was read at are its raw. *)
ResultType == [use : STRING, output : STRING, error : BOOLEAN, when : Nat, raw : Seq(Nat)]
(* A tool call of a turn; raw is the result that completed it. *)
CallType ==
    [name : Seq(STRING), use : STRING, input : Seq(STRING), invocation : Nat, output : STRING \cup {""},
     status : {"pending", "success", "rejected", "failed"}, started : Nat, ended : Nat, raw : Seq(Nat)]
(* An answer of the model. *)
InvocationType == [tokens : Tokens, ended : Nat, status : {"success", "interrupted", "unknown"}]
(* What FromTools finds. *)
Components == {{}} \cup {FromTools(calls) : calls \in Seq(CallType)}
(* A turn before background tasks are reconciled. *)
TurnType ==
    [index : Nat, project : {""}, user : Seq(STRING), final : Seq(STRING), started : Nat, ended : Nat,
     invocations : Seq(InvocationType), calls : Seq(CallType), status : {"unknown", "success", "failed"},
     tokens : Tokens, components : Components]
(* The open turn, with the calls by their use id and the results that wait for theirs. *)
BuilderType == [turn : TurnType, byUse : Partial(STRING, Nat), pending : Seq(ResultType)]
(* The state of ParseEvents. *)
ClaudeType ==
    [external : STRING \cup {""}, window : [started : Nat, ended : Nat], turns : Seq(TurnType),
     current : {None} \cup BuilderType, errors : Seq(Seq(Nat)),
     seenMsg : Partial(STRING, [turn : Nat, invocation : Nat]),
     completions : Partial(STRING, [status : STRING, when : Nat, raw : Seq(Nat)]),
     aiTitle : STRING \cup {""}, customTitle : STRING \cup {""}, isSubagent : BOOLEAN]
(* A parser in a turn. *)
OpenType == {p \in ClaudeType : p.current # None}

(* The missing turn is no open turn. *)
LEMMA NoneIsNoBuilder == None \notin BuilderType
<1>1. \A b \in BuilderType : b.turn \in TurnType
  BY DEF BuilderType
<1>2. \A t \in TurnType : "calls" \in DOMAIN t
  BY DEF TurnType
<1>3. \A b \in BuilderType : DOMAIN b = {"turn", "byUse", "pending"}
  BY DEF BuilderType
<1>4. DOMAIN None = {"turn"}
  BY DEF None
<1> QED
  BY <1>3, <1>4

(* A parser is in a turn or in none. *)
LEMMA OpenIsBuilder ==
    ASSUME NEW p \in ClaudeType PROVE p.current # None <=> p.current \in BuilderType
BY NoneIsNoBuilder DEF ClaudeType

(* The empty map is a map to anything. *)
LEMMA NoMap == \A B : <<>> \in Partial(STRING, B) /\ DOMAIN <<>> = {}
<1> SUFFICES ASSUME NEW B PROVE <<>> \in Partial(STRING, B) /\ DOMAIN <<>> = {}
  OBVIOUS
<1>1. <<>> \in [{} -> B] /\ DOMAIN <<>> = {}
  OBVIOUS
<1> QED
  BY <1>1 DEF Partial

(* A map over another is a map. *)
LEMMA OverPartial ==
    ASSUME NEW A, NEW B, NEW f \in Partial(A, B), NEW g \in Partial(A, B)
    PROVE  Over(f, g) \in Partial(A, B)
<1>1. PICK D \in SUBSET A : f \in [D -> B]
  BY DEF Partial
<1>2. PICK E \in SUBSET A : g \in [E -> B]
  BY DEF Partial
<1>3. Over(f, g) \in [D \cup E -> B]
  BY <1>1, <1>2 DEF Over
<1> QED
  BY <1>3 DEF Partial

(* The calls still open are calls of the turn. *)
LEMMA PendingCallsAre ==
    ASSUME NEW b \in BuilderType
    PROVE  PendingCalls(b) \in SUBSET (1 .. Len(b.turn.calls)) /\ Len(b.turn.calls) \in Nat
<1>1. b.turn \in TurnType
  BY DEF BuilderType
<1>2. b.turn.calls \in Seq(CallType)
  BY <1>1 DEF TurnType
<1> QED
  BY <1>2 DEF PendingCalls

(* The call a result is for is a pending one, and of its use id when it has one. *)
LEMMA ResolvesPending ==
    ASSUME NEW b \in BuilderType, NEW use \in STRING
    PROVE  LET i == ResolveToolCall(b, use)
           IN \/ i = 0
              \/ /\ i \in PendingCalls(b) /\ i > 0
                 /\ use = "" \/ (use \in DOMAIN b.byUse /\ b.byUse[use] = i)
<1> DEFINE fits == IF use = "" THEN PendingCalls(b)
                   ELSE {i \in PendingCalls(b) : use \in DOMAIN b.byUse /\ b.byUse[use] = i}
<1>1. fits \in SUBSET (1 .. Len(b.turn.calls)) /\ Len(b.turn.calls) \in Nat
  BY PendingCallsAre
<1>2. CASE fits = {}
  BY <1>2 DEF ResolveToolCall
<1>3. CASE fits # {}
  <2>1. Min(fits) \in fits /\ ResolveToolCall(b, use) = Min(fits)
    <3>1. ResolveToolCall(b, use) = Min(fits)
      BY <1>3 DEF ResolveToolCall
    <3> HIDE DEF fits
    <3> QED
      BY <1>1, <1>3, <3>1, LeastOf
  <2> DEFINE i == ResolveToolCall(b, use)
  <2>2. i \in fits /\ i \in Nat /\ i > 0
    <3> HIDE DEF fits
    <3>1. \A x \in fits : x \in Nat /\ x > 0
      BY <1>1
    <3> QED
      BY <2>1, <3>1
  <2>3. i \in PendingCalls(b) /\ (use = "" \/ (use \in DOMAIN b.byUse /\ b.byUse[use] = i))
    BY <2>2
  <2> QED
    BY <2>2, <2>3
<1> QED
  BY <1>2, <1>3

(* A result changes one call and nothing else of the turn. *)
LEMMA ApplyResultIs ==
    ASSUME NEW b \in BuilderType, NEW i \in DOMAIN b.turn.calls, NEW r \in ResultType
    PROVE  LET a == ApplyResult(b, i, r)
           IN /\ a \in BuilderType
              /\ a.byUse = b.byUse /\ a.pending = b.pending
              /\ a.turn.index = b.turn.index /\ a.turn.ended = b.turn.ended
              /\ a.turn.tokens = b.turn.tokens /\ a.turn.invocations = b.turn.invocations
              /\ DOMAIN a.turn.calls = DOMAIN b.turn.calls
              /\ \A k \in DOMAIN b.turn.calls \ {i} : a.turn.calls[k] = b.turn.calls[k]
              /\ a.turn.calls[i].raw = r.raw /\ a.turn.calls[i].status # "pending"
              /\ a.turn.calls[i].use = b.turn.calls[i].use
<1> DEFINE c == b.turn.calls[i]
           d == [c EXCEPT !.output = r.output, !.ended = r.when, !.raw = r.raw,
                          !.status = IF ~r.error THEN "success"
                                     ELSE IF r.output = "declined" THEN "rejected" ELSE "failed"]
           calls == [b.turn.calls EXCEPT ![i] = d]
           turn == [b.turn EXCEPT !.calls = calls]
           a == [b EXCEPT !.turn = turn]
<1>1. b.turn \in TurnType /\ b.turn.calls \in Seq(CallType)
  BY DEF BuilderType, TurnType
<1>2. c \in CallType
  BY <1>1
<1>3. d \in CallType /\ d.raw = r.raw /\ d.status # "pending" /\ d.use = c.use
  BY <1>2 DEF CallType, ResultType
<1>4. ApplyResult(b, i, r) = a
  BY DEF ApplyResult
<1> HIDE DEF d
<1>5. calls \in Seq(CallType) /\ DOMAIN calls = DOMAIN b.turn.calls /\ calls[i] = d
      /\ \A k \in DOMAIN b.turn.calls \ {i} : calls[k] = b.turn.calls[k]
  BY <1>1, <1>3
<1> HIDE DEF calls
<1>6. turn \in TurnType /\ turn.calls = calls /\ turn.index = b.turn.index /\ turn.ended = b.turn.ended
      /\ turn.tokens = b.turn.tokens /\ turn.invocations = b.turn.invocations
  BY <1>1, <1>5 DEF TurnType
<1> HIDE DEF turn
<1>7. a \in BuilderType /\ a.turn = turn /\ a.byUse = b.byUse /\ a.pending = b.pending
  BY <1>6 DEF BuilderType
<1> HIDE DEF a
<1> QED
  BY <1>3, <1>4, <1>5, <1>6, <1>7

-----------------------------------------------------------------------------
(* Where a result is *)

(* The turns a reader of p would find, the open one included. *)
OpenTurns(p) == IF p.current = None THEN p.turns ELSE Append(p.turns, p.current.turn)
(* The results of the open turn whose call has not come. *)
Waiting(p) == IF p.current = None THEN <<>> ELSE p.current.pending

(* Where the result r is: with a call, among the errors, or after the j-th of those that wait. *)
Places(p, r, j) ==
    {o \in Int \X Nat :
       \/ /\ o[1] \in DOMAIN OpenTurns(p) /\ o[2] \in DOMAIN OpenTurns(p)[o[1]].calls
          /\ OpenTurns(p)[o[1]].calls[o[2]].raw = r
       \/ o[1] = 0 /\ o[2] \in DOMAIN p.errors /\ p.errors[o[2]] = r
       \/ o[1] = -1 /\ o[2] \in DOMAIN Waiting(p) /\ o[2] > j /\ Waiting(p)[o[2]].raw = r}

(* The results of R are in one place each, and no other is anywhere. *)
Accounts(p, R, j) ==
    \A r \in Nat \X Nat : IF r \in R THEN \E o : Places(p, r, j) = {o} ELSE Places(p, r, j) = {}

(* The use id a result names. *)
UseOf(ls, r) == ls[r[1]].results[r[2]].use
(* A call without a result is pending, and a result is one of its use. *)
Marked(p, ls) ==
    \A t \in DOMAIN OpenTurns(p) : \A i \in DOMAIN OpenTurns(p)[t].calls :
        LET call == OpenTurns(p)[t].calls[i]
        IN \/ call.raw = <<>> /\ call.status = "pending"
           \/ /\ call.raw \in ResultsRead(ls) /\ call.status # "pending"
              /\ UseOf(ls, call.raw) \in {"", call.use}
(* What waits is a result of the transcript. *)
WaitsFor(p, ls) ==
    \A i \in DOMAIN Waiting(p) : Waiting(p)[i].raw \in ResultsRead(ls) /\ Waiting(p)[i].use = UseOf(ls, Waiting(p)[i].raw)
(* A use id leads to a call of that id. *)
Uses(p) ==
    p.current # None =>
       \A u \in DOMAIN p.current.byUse :
          p.current.byUse[u] \in DOMAIN p.current.turn.calls /\ p.current.turn.calls[p.current.byUse[u]].use = u
(* Turns are numbered as they come, end within the session and have what their answers cost. *)
Numbered(p) ==
    \A t \in DOMAIN OpenTurns(p) :
        /\ OpenTurns(p)[t].index = t /\ OpenTurns(p)[t].ended <= p.window.ended
        /\ OpenTurns(p)[t].tokens = TokensOf(OpenTurns(p)[t].invocations)

(* All of it at once. *)
Core(p, ls, R, j) ==
    p \in ClaudeType /\ Marked(p, ls) /\ WaitsFor(p, ls) /\ Uses(p) /\ Numbered(p) /\ Accounts(p, R, j)

(* What each turn cost. *)
Spent(p) == [t \in DOMAIN OpenTurns(p) |-> OpenTurns(p)[t].tokens]
(* What q has from p when only calls and results were touched. *)
Frame(p, q) ==
    /\ SumTokens(Spent(q)) = SumTokens(Spent(p)) /\ q.window = p.window /\ q.seenMsg = p.seenMsg
    /\ q.completions = p.completions /\ q.isSubagent = p.isSubagent
    /\ q.aiTitle = p.aiTitle /\ q.customTitle = p.customTitle

(* Two such steps make one. *)
LEMMA FrameTransitive ==
    ASSUME NEW p, NEW q, NEW s, Frame(p, q), Frame(q, s) PROVE Frame(p, s)
BY DEF Frame

(* The fields of the parser, typed. *)
LEMMA ClaudeFields ==
    ASSUME NEW p \in ClaudeType
    PROVE  /\ DOMAIN p = {"external", "window", "turns", "current", "errors", "seenMsg", "completions",
                          "aiTitle", "customTitle", "isSubagent"}
           /\ p.turns \in Seq(TurnType) /\ p.errors \in Seq(Seq(Nat)) /\ p.window \in [started : Nat, ended : Nat]
           /\ OpenTurns(p) \in Seq(TurnType) /\ Waiting(p) \in Seq(ResultType)
           /\ p.current # None =>
                /\ p.current \in BuilderType /\ p.current.turn \in TurnType
                /\ p.current.pending \in Seq(ResultType) /\ p.current.byUse \in Partial(STRING, Nat)
<1>1. /\ DOMAIN p = {"external", "window", "turns", "current", "errors", "seenMsg", "completions",
                     "aiTitle", "customTitle", "isSubagent"}
      /\ p.turns \in Seq(TurnType) /\ p.errors \in Seq(Seq(Nat)) /\ p.window \in [started : Nat, ended : Nat]
  BY DEF ClaudeType
<1>2. p.current # None => p.current \in BuilderType
  BY OpenIsBuilder
<1>3. p.current # None =>
        /\ p.current \in BuilderType /\ p.current.turn \in TurnType
        /\ p.current.pending \in Seq(ResultType) /\ p.current.byUse \in Partial(STRING, Nat)
  BY <1>2 DEF BuilderType
<1>4. OpenTurns(p) \in Seq(TurnType) /\ Waiting(p) \in Seq(ResultType)
  BY <1>1, <1>3 DEF OpenTurns, Waiting
<1> QED
  BY <1>1, <1>3, <1>4

(* The fields of a turn, typed. *)
LEMMA TurnFields ==
    ASSUME NEW t \in TurnType
    PROVE  /\ DOMAIN t = {"index", "project", "user", "final", "started", "ended", "invocations", "calls",
                          "status", "tokens", "components"}
           /\ t.index \in Nat /\ t.ended \in Nat /\ t.started \in Nat /\ t.tokens \in Tokens
           /\ t.invocations \in Seq(InvocationType) /\ t.calls \in Seq(CallType)
BY DEF TurnType

(* The open turn is the last. *)
LEMMA OpenTurnsAre ==
    ASSUME NEW p \in ClaudeType, p.current # None
    PROVE  /\ DOMAIN OpenTurns(p) = 1 .. Len(p.turns) + 1 /\ Len(p.turns) \in Nat
           /\ DOMAIN p.turns = 1 .. Len(p.turns)
           /\ OpenTurns(p)[Len(p.turns) + 1] = p.current.turn
           /\ \A t \in 1 .. Len(p.turns) : OpenTurns(p)[t] = p.turns[t]
           /\ Waiting(p) = p.current.pending
<1>1. p.turns \in Seq(TurnType)
  BY ClaudeFields
<1> QED
  BY <1>1 DEF OpenTurns, Waiting

(* p and q with the same current None-ness have their turns counted alike. *)
LEMMA SpentType ==
    ASSUME NEW p \in ClaudeType
    PROVE  Spent(p) \in Seq(Tokens) /\ Len(Spent(p)) = Len(OpenTurns(p)) /\ TokensOf(OpenTurns(p)) = SumTokens(Spent(p))
<1>1. OpenTurns(p) \in Seq(TurnType)
  BY ClaudeFields
<1>2. \A t \in DOMAIN OpenTurns(p) : OpenTurns(p)[t].tokens \in Tokens
  BY <1>1, TurnFields
<1>3. DOMAIN OpenTurns(p) = 1 .. Len(OpenTurns(p)) /\ Len(OpenTurns(p)) \in Nat
  BY <1>1
<1> QED
  BY <1>2, <1>3 DEF Spent, TokensOf

(* A result that arrives takes one place. *)
Gains(p, q, j, r, o) ==
    \A x \in Nat \X Nat : Places(q, x, j) = Places(p, x, j) \cup (IF x = r THEN {o} ELSE {})

(* Each result still has one place after one arrived. *)
LEMMA AccountsGain ==
    ASSUME NEW p, NEW q, NEW R, NEW j, NEW r \in Nat \X Nat, r \notin R, Accounts(p, R, j), NEW o,
           Gains(p, q, j, r, o)
    PROVE  Accounts(q, R \cup {r}, j)
BY DEF Accounts, Gains

(* A result that waited finds its place. *)
Moves(p, q, i, r, w, o) ==
    \A x \in Nat \X Nat : /\ w \in Places(p, x, i) <=> x = r
                          /\ Places(q, x, i + 1) = (Places(p, x, i) \ {w}) \cup (IF x = r THEN {o} ELSE {})

(* Each result still has one place after one found its call or became an error. *)
LEMMA AccountsMove ==
    ASSUME NEW p, NEW q, NEW R, NEW i \in Nat, NEW r \in Nat \X Nat, Accounts(p, R, i), NEW o, NEW w,
           Moves(p, q, i, r, w, o)
    PROVE  Accounts(q, R, i + 1)
<1> USE DEF Moves
<1> SUFFICES ASSUME NEW x \in Nat \X Nat
             PROVE  IF x \in R THEN \E y : Places(q, x, i + 1) = {y} ELSE Places(q, x, i + 1) = {}
  BY Zenon DEF Accounts
<1>1. IF x \in R THEN \E y : Places(p, x, i) = {y} ELSE Places(p, x, i) = {}
  BY Zenon DEF Accounts
<1>2. CASE x = r
  <2>1. w \in Places(p, r, i)
    OBVIOUS
  <2>2. r \in R /\ Places(p, r, i) = {w}
    BY <1>1, <1>2, <2>1
  <2>3. Places(q, r, i + 1) = (Places(p, r, i) \ {w}) \cup {o}
    OBVIOUS
  <2>4. Places(q, r, i + 1) = {o}
    BY <2>2, <2>3
  <2> QED
    BY <1>2, <2>2, <2>4
<1>3. CASE x # r
  <2>1. w \notin Places(p, x, i) /\ Places(q, x, i + 1) = Places(p, x, i) \ {w}
    BY <1>3
  <2>2. Places(q, x, i + 1) = Places(p, x, i)
    BY <2>1
  <2> QED
    BY <1>1, <2>2
<1> QED
  BY <1>2, <1>3

(* What has to hold besides the accounts. *)
Kept(p, ls) == p \in ClaudeType /\ Marked(p, ls) /\ WaitsFor(p, ls) /\ Uses(p) /\ Numbered(p)

(* What is kept of the turns is apart from where the results are. *)
LEMMA CoreIs == \A p, ls, R, j : Core(p, ls, R, j) <=> Kept(p, ls) /\ Accounts(p, R, j)
BY DEF Core, Kept

(* The places of a sequence. *)
LEMMA DomainOfSeq == \A S : \A s \in Seq(S) : DOMAIN s = 1 .. Len(s) /\ Len(s) \in Nat /\ \A i \in DOMAIN s : i \in Nat /\ s[i] \in S
OBVIOUS

(* The last number and those before it. *)
LEMMA UpToLast == \A n \in Nat : \A t \in 1 .. n + 1 : t = n + 1 \/ t \in 1 .. n
OBVIOUS

(* q is p but for the call i of the open turn m. *)
OnlyCall(p, q, m, i) ==
    /\ m \in Nat \ {0} /\ DOMAIN OpenTurns(p) = 1 .. m /\ DOMAIN OpenTurns(q) = 1 .. m
    /\ \A t \in 1 .. m : t # m => OpenTurns(q)[t] = OpenTurns(p)[t]
    /\ OpenTurns(q)[m].index = OpenTurns(p)[m].index /\ OpenTurns(q)[m].ended = OpenTurns(p)[m].ended
    /\ OpenTurns(q)[m].tokens = OpenTurns(p)[m].tokens
    /\ OpenTurns(q)[m].invocations = OpenTurns(p)[m].invocations
    /\ i \in Nat /\ i \in DOMAIN OpenTurns(p)[m].calls
    /\ DOMAIN OpenTurns(q)[m].calls = DOMAIN OpenTurns(p)[m].calls
    /\ \A k \in DOMAIN OpenTurns(p)[m].calls \ {i} : OpenTurns(q)[m].calls[k] = OpenTurns(p)[m].calls[k]
    /\ Waiting(q) = Waiting(p) /\ q.errors = p.errors /\ q.window = p.window

(* The turns of p and q but for one call. *)
AlikeTurns(p, q, m, i) ==
                           \A t \in 1 .. m : /\ OpenTurns(q)[t].index = OpenTurns(p)[t].index
                             /\ OpenTurns(q)[t].ended = OpenTurns(p)[t].ended
                             /\ OpenTurns(q)[t].tokens = OpenTurns(p)[t].tokens
                             /\ OpenTurns(q)[t].invocations = OpenTurns(p)[t].invocations
                             /\ DOMAIN OpenTurns(q)[t].calls = DOMAIN OpenTurns(p)[t].calls
                             /\ \A k \in DOMAIN OpenTurns(p)[t].calls :
                                   (t = m /\ k = i) \/ OpenTurns(q)[t].calls[k] = OpenTurns(p)[t].calls[k]

(* A completed call leaves every other call of every turn. *)
LEMMA OnlyCallTurns ==
    ASSUME NEW p, NEW q, NEW m, NEW i, OnlyCall(p, q, m, i)
    PROVE  AlikeTurns(p, q, m, i)
<1> USE DEF AlikeTurns
<1> TAKE t \in 1 .. m
<1>1. CASE t = m
  BY <1>1 DEF OnlyCall
<1>2. CASE t # m
  <2>1. OpenTurns(q)[t] = OpenTurns(p)[t]
    BY <1>2 DEF OnlyCall
  <2> QED
    BY <2>1
<1> QED
  BY <1>1, <1>2

(* A completed call is the new place of its result. *)
LEMMA OnlyCallPlaces ==
    ASSUME NEW p, NEW q, NEW m, NEW i, OnlyCall(p, q, m, i), NEW j \in Nat, NEW x \in Nat \X Nat,
           OpenTurns(p)[m].calls[i].raw = <<>>, NEW r, OpenTurns(q)[m].calls[i].raw = r
    PROVE  Places(q, x, j) = Places(p, x, j) \cup (IF x = r THEN {<<m, i>>} ELSE {})
<1>1. m \in Nat /\ m > 0 /\ i \in Nat /\ <<m, i>> \in Int \X Nat
  BY DEF OnlyCall
<1>2. x # <<>>
  OBVIOUS
<1> DEFINE InCall(s, o) == /\ o[1] \in DOMAIN OpenTurns(s) /\ o[2] \in DOMAIN OpenTurns(s)[o[1]].calls
                           /\ OpenTurns(s)[o[1]].calls[o[2]].raw = x
           Else(s, o) == \/ o[1] = 0 /\ o[2] \in DOMAIN s.errors /\ s.errors[o[2]] = x
                         \/ o[1] = -1 /\ o[2] \in DOMAIN Waiting(s) /\ o[2] > j /\ Waiting(s)[o[2]].raw = x
<1>3. \A o \in Int \X Nat : /\ o \in Places(p, x, j) <=> InCall(p, o) \/ Else(p, o)
                            /\ o \in Places(q, x, j) <=> InCall(q, o) \/ Else(q, o)
  BY DEF Places
<1>4. \A o \in Int \X Nat : Else(q, o) <=> Else(p, o)
  BY DEF OnlyCall
<1>5. ASSUME NEW o \in Int \X Nat, o # <<m, i>> PROVE InCall(q, o) <=> InCall(p, o)
  <2>1. ~(o[1] = m /\ o[2] = i)
    BY <1>5
  <2>2. DOMAIN OpenTurns(p) = 1 .. m /\ DOMAIN OpenTurns(q) = 1 .. m
    BY DEF OnlyCall
  <2>3. o[1] \in 1 .. m => /\ DOMAIN OpenTurns(q)[o[1]].calls = DOMAIN OpenTurns(p)[o[1]].calls
                           /\ \A k \in DOMAIN OpenTurns(p)[o[1]].calls :
                                (o[1] = m /\ k = i) \/ OpenTurns(q)[o[1]].calls[k] = OpenTurns(p)[o[1]].calls[k]
    BY OnlyCallTurns DEF AlikeTurns
  <2> QED
    BY <2>1, <2>2, <2>3
<1>6. InCall(q, <<m, i>>) <=> x = r
  BY <1>1 DEF OnlyCall
<1>7. ~InCall(p, <<m, i>>) /\ ~Else(p, <<m, i>>)
  BY <1>1, <1>2
<1> HIDE DEF InCall, Else
<1>8. Places(q, x, j) \subseteq Int \X Nat /\ Places(p, x, j) \subseteq Int \X Nat
  BY DEF Places
<1>9. \A o \in Int \X Nat : o # <<m, i>> => (o \in Places(q, x, j) <=> o \in Places(p, x, j))
  BY <1>3, <1>4, <1>5
<1>10. <<m, i>> \notin Places(p, x, j) /\ (<<m, i>> \in Places(q, x, j) <=> x = r)
  BY <1>1, <1>3, <1>4, <1>6, <1>7
<1> QED
  BY <1>1, <1>8, <1>9, <1>10

(* A call completed by a result of its use leaves the calls marked. *)
LEMMA OnlyCallMarked ==
    ASSUME NEW p, NEW q, NEW m, NEW i, NEW ls, OnlyCall(p, q, m, i), Marked(p, ls),
           OpenTurns(q)[m].calls[i].raw \in ResultsRead(ls), OpenTurns(q)[m].calls[i].status # "pending",
           UseOf(ls, OpenTurns(q)[m].calls[i].raw) \in {"", OpenTurns(q)[m].calls[i].use}
    PROVE  Marked(q, ls)
<1> SUFFICES ASSUME NEW t \in DOMAIN OpenTurns(q), NEW k \in DOMAIN OpenTurns(q)[t].calls
             PROVE  LET call == OpenTurns(q)[t].calls[k]
                    IN \/ call.raw = <<>> /\ call.status = "pending"
                       \/ /\ call.raw \in ResultsRead(ls) /\ call.status # "pending"
                          /\ UseOf(ls, call.raw) \in {"", call.use}
  BY Zenon DEF Marked
<1>0. AlikeTurns(p, q, m, i)
  BY OnlyCallTurns
<1>1. t \in 1 .. m /\ t \in DOMAIN OpenTurns(p) /\ k \in DOMAIN OpenTurns(p)[t].calls
  BY <1>0 DEF OnlyCall, AlikeTurns
<1>2. CASE t = m /\ k = i
  BY <1>2
<1>3. CASE ~(t = m /\ k = i)
  <2>1. OpenTurns(q)[t].calls[k] = OpenTurns(p)[t].calls[k]
    BY <1>1, <1>3, <1>0 DEF AlikeTurns
  <2>2. LET call == OpenTurns(p)[t].calls[k]
        IN \/ call.raw = <<>> /\ call.status = "pending"
           \/ /\ call.raw \in ResultsRead(ls) /\ call.status # "pending"
              /\ UseOf(ls, call.raw) \in {"", call.use}
    BY <1>1, Zenon DEF Marked
  <2> QED
    BY <2>1, <2>2
<1> QED
  BY <1>2, <1>3

(* A completed call changes no number, time or cost. *)
LEMMA OnlyCallNumbered ==
    ASSUME NEW p, NEW q, NEW m, NEW i, OnlyCall(p, q, m, i), Numbered(p)
    PROVE  Numbered(q) /\ Spent(q) = Spent(p)
<1>1. DOMAIN OpenTurns(p) = 1 .. m /\ DOMAIN OpenTurns(q) = 1 .. m /\ q.window = p.window
  BY DEF OnlyCall
<1>0. AlikeTurns(p, q, m, i)
  BY OnlyCallTurns
<1>2. Numbered(q)
  BY <1>0, <1>1 DEF Numbered, AlikeTurns
<1> QED
  BY <1>0, <1>1, <1>2 DEF Spent, AlikeTurns

(* The i-th call of the open turn waits for the result r. *)
Answers(p, ls, i, r) ==
    /\ p.current # None /\ i \in DOMAIN p.current.turn.calls /\ p.current.turn.calls[i].status = "pending"
    /\ r \in ResultType /\ r.raw \in ResultsRead(ls) /\ r.use = UseOf(ls, r.raw)
    /\ r.use = "" \/ (r.use \in DOMAIN p.current.byUse /\ p.current.byUse[r.use] = i)
(* p with the call i of the open turn completed by r. *)
Completed(p, i, r) == [p EXCEPT !.current = ApplyResult(@, i, r)]

(* What completing a call leaves as it was. *)
LEMMA CompletedIs ==
    ASSUME NEW p \in ClaudeType, NEW ls, NEW i, NEW r, Answers(p, ls, i, r)
    PROVE  LET q == Completed(p, i, r)
               m == Len(p.turns) + 1
           IN /\ q \in ClaudeType /\ q.current # None /\ q.current.pending = p.current.pending
              /\ q.current.byUse = p.current.byUse
              /\ OnlyCall(p, q, m, i) /\ OpenTurns(p)[m] = p.current.turn /\ OpenTurns(q)[m] = q.current.turn
              /\ q.current.turn.calls[i].raw = r.raw /\ q.current.turn.calls[i].status # "pending"
              /\ q.current.turn.calls[i].use = p.current.turn.calls[i].use
              /\ q.seenMsg = p.seenMsg /\ q.completions = p.completions /\ q.isSubagent = p.isSubagent
              /\ q.aiTitle = p.aiTitle /\ q.customTitle = p.customTitle
<1> DEFINE b == p.current
           a == ApplyResult(b, i, r)
           q == Completed(p, i, r)
           n == Len(p.turns)
           m == n + 1
<1>1. b \in BuilderType /\ b.turn \in TurnType /\ p.current # None
  BY ClaudeFields DEF Answers
<1>2. i \in DOMAIN b.turn.calls /\ r \in ResultType
  BY DEF Answers
<1>3. i \in Nat
  <2>1. b.turn.calls \in Seq(CallType)
    BY <1>1, TurnFields
  <2> QED
    BY <1>2, <2>1, DomainOfSeq, Zenon
<1>4. /\ a \in BuilderType
      /\ a.byUse = b.byUse /\ a.pending = b.pending
      /\ a.turn.index = b.turn.index /\ a.turn.ended = b.turn.ended
      /\ a.turn.tokens = b.turn.tokens /\ a.turn.invocations = b.turn.invocations
      /\ DOMAIN a.turn.calls = DOMAIN b.turn.calls
      /\ \A k \in DOMAIN b.turn.calls \ {i} : a.turn.calls[k] = b.turn.calls[k]
      /\ a.turn.calls[i].raw = r.raw /\ a.turn.calls[i].status # "pending"
      /\ a.turn.calls[i].use = b.turn.calls[i].use
  BY <1>1, <1>2, ApplyResultIs
<1> HIDE DEF a
<1>5. q = [p EXCEPT !.current = a]
  BY DEF a, Completed
<1>6. q \in ClaudeType
  BY <1>4, <1>5 DEF ClaudeType
<1>7. /\ q.current = a /\ q.turns = p.turns /\ q.errors = p.errors /\ q.window = p.window /\ q.seenMsg = p.seenMsg
      /\ q.completions = p.completions /\ q.isSubagent = p.isSubagent
      /\ q.aiTitle = p.aiTitle /\ q.customTitle = p.customTitle
  BY <1>5, ClaudeFields
<1> HIDE DEF q
<1>8. q.current # None
  BY <1>4, <1>6, <1>7, OpenIsBuilder
<1>9. /\ DOMAIN OpenTurns(p) = 1 .. m /\ n \in Nat /\ OpenTurns(p)[m] = b.turn
      /\ \A t \in 1 .. n : OpenTurns(p)[t] = p.turns[t]
      /\ Waiting(p) = b.pending
  BY <1>1, OpenTurnsAre
<1>10. /\ DOMAIN OpenTurns(q) = 1 .. m /\ OpenTurns(q)[m] = a.turn
       /\ \A t \in 1 .. n : OpenTurns(q)[t] = p.turns[t]
       /\ Waiting(q) = a.pending
  BY <1>6, <1>7, <1>8, OpenTurnsAre
<1>11. \A t \in 1 .. m : t # m => OpenTurns(q)[t] = OpenTurns(p)[t]
  <2> HIDE DEF b, n
  <2> QED
    BY <1>9, <1>10, UpToLast
<1>12. m \in Nat \ {0}
  BY <1>9
<1>13. OnlyCall(p, q, m, i)
  <2> HIDE DEF b, m
  <2> QED
    BY <1>2, <1>3, <1>4, <1>7, <1>9, <1>10, <1>11, <1>12 DEF OnlyCall
<1> QED
  BY <1>4, <1>6, <1>7, <1>8, <1>9, <1>10, <1>13 DEF q

(* A call of the open turn gets its result. *)
LEMMA CallCompleted ==
    ASSUME NEW p, NEW ls, Kept(p, ls), NEW i, NEW r, Answers(p, ls, i, r)
    PROVE  LET q == Completed(p, i, r)
           IN /\ Kept(q, ls) /\ Frame(p, q) /\ q.current # None
              /\ q.current.pending = p.current.pending
              /\ \A j \in Nat : \A x \in Nat \X Nat :
                    Places(q, x, j) = Places(p, x, j) \cup (IF x = r.raw THEN {<<Len(p.turns) + 1, i>>} ELSE {})
<1> DEFINE q == Completed(p, i, r)
           m == Len(p.turns) + 1
<1>1. /\ p \in ClaudeType /\ Marked(p, ls) /\ WaitsFor(p, ls) /\ Uses(p) /\ Numbered(p)
  BY DEF Kept
<1>2. /\ q \in ClaudeType /\ q.current # None /\ q.current.pending = p.current.pending
      /\ q.current.byUse = p.current.byUse
      /\ OnlyCall(p, q, m, i) /\ OpenTurns(p)[m] = p.current.turn /\ OpenTurns(q)[m] = q.current.turn
      /\ q.current.turn.calls[i].raw = r.raw /\ q.current.turn.calls[i].status # "pending"
      /\ q.current.turn.calls[i].use = p.current.turn.calls[i].use
      /\ q.seenMsg = p.seenMsg /\ q.completions = p.completions /\ q.isSubagent = p.isSubagent
      /\ q.aiTitle = p.aiTitle /\ q.customTitle = p.customTitle
  BY <1>1, CompletedIs
<1> HIDE DEF q, m
<1>3. /\ p.current # None /\ p.current.turn.calls[i].status = "pending" /\ i \in DOMAIN p.current.turn.calls
      /\ r.raw \in ResultsRead(ls) /\ r.use = UseOf(ls, r.raw)
      /\ r.use = "" \/ (r.use \in DOMAIN p.current.byUse /\ p.current.byUse[r.use] = i)
  BY DEF Answers
<1>4. \A u \in DOMAIN p.current.byUse :
          p.current.byUse[u] \in DOMAIN p.current.turn.calls /\ p.current.turn.calls[p.current.byUse[u]].use = u
  BY <1>1, <1>3 DEF Uses
<1>5. UseOf(ls, r.raw) \in {"", q.current.turn.calls[i].use}
  BY <1>2, <1>3, <1>4
<1>6. m \in DOMAIN OpenTurns(p) /\ m \in Nat
  BY <1>2 DEF OnlyCall
<1>7. OpenTurns(p)[m].calls[i].raw = <<>>
  BY <1>1, <1>2, <1>3, <1>6 DEF Marked
<1>8. Marked(q, ls)
  <2>1. /\ OnlyCall(p, q, m, i) /\ Marked(p, ls)
        /\ OpenTurns(q)[m].calls[i].raw \in ResultsRead(ls) /\ OpenTurns(q)[m].calls[i].status # "pending"
        /\ UseOf(ls, OpenTurns(q)[m].calls[i].raw) \in {"", OpenTurns(q)[m].calls[i].use}
    BY <1>1, <1>2, <1>3, <1>5
  <2> QED
    BY <2>1, OnlyCallMarked
<1>9. WaitsFor(q, ls)
  BY <1>1, <1>2 DEF WaitsFor, OnlyCall
<1>10. \A k \in DOMAIN p.current.turn.calls :
          k \in DOMAIN q.current.turn.calls /\ q.current.turn.calls[k].use = p.current.turn.calls[k].use
  <2>1. /\ DOMAIN q.current.turn.calls = DOMAIN p.current.turn.calls
        /\ \A k \in DOMAIN p.current.turn.calls \ {i} : q.current.turn.calls[k] = p.current.turn.calls[k]
    BY <1>2 DEF OnlyCall
  <2> TAKE k \in DOMAIN p.current.turn.calls
  <2>2. CASE k = i
    BY <1>2, <2>1, <2>2
  <2>3. CASE k # i
    BY <2>1, <2>3
  <2> QED
    BY <2>2, <2>3
<1>11. Uses(q)
  BY <1>2, <1>4, <1>10 DEF Uses
<1>12. Numbered(q) /\ Spent(q) = Spent(p)
  BY <1>1, <1>2, OnlyCallNumbered
<1>13. q.window = p.window
  BY <1>2 DEF OnlyCall
<1>14. Frame(p, q)
  BY <1>2, <1>12, <1>13 DEF Frame
<1>15. OpenTurns(q)[m].calls[i].raw = r.raw
  BY <1>2
<1>16. \A j \in Nat : \A x \in Nat \X Nat :
          Places(q, x, j) = Places(p, x, j) \cup (IF x = r.raw THEN {<<m, i>>} ELSE {})
  BY <1>2, <1>7, <1>15, OnlyCallPlaces
<1>17. Kept(q, ls)
  BY <1>2, <1>8, <1>9, <1>11, <1>12 DEF Kept
<1> QED
  BY <1>2, <1>14, <1>16, <1>17 DEF q, m

(* An error is reported. *)
Reported(p, raw) == [p EXCEPT !.errors = Append(@, raw)]

(* A parse error adds one place and changes no turn. *)
LEMMA ReportedKeeps ==
    ASSUME NEW p, NEW ls, Kept(p, ls), NEW raw \in Seq(Nat)
    PROVE  LET q == Reported(p, raw)
           IN /\ Kept(q, ls) /\ Frame(p, q) /\ q.current = p.current /\ q.turns = p.turns
              /\ \A j \in Nat : \A x \in Nat \X Nat :
                    Places(q, x, j) = Places(p, x, j) \cup (IF x = raw THEN {<<0, Len(p.errors) + 1>>} ELSE {})
<1> DEFINE q == Reported(p, raw)
           n == Len(p.errors) + 1
<1>1. /\ p \in ClaudeType /\ Marked(p, ls) /\ WaitsFor(p, ls) /\ Uses(p) /\ Numbered(p)
  BY DEF Kept
<1>2. /\ q \in ClaudeType /\ q.current = p.current /\ q.turns = p.turns /\ q.errors = Append(p.errors, raw)
      /\ q.window = p.window /\ q.seenMsg = p.seenMsg
      /\ q.completions = p.completions /\ q.isSubagent = p.isSubagent
      /\ q.aiTitle = p.aiTitle /\ q.customTitle = p.customTitle
  <2>1. p.errors \in Seq(Seq(Nat)) /\ Append(p.errors, raw) \in Seq(Seq(Nat))
    BY <1>1, ClaudeFields
  <2>2. q \in ClaudeType
    BY <1>1, <2>1 DEF ClaudeType, Reported
  <2> QED
    BY <1>1, <2>2, ClaudeFields DEF Reported
<1> HIDE DEF q
<1>3. OpenTurns(q) = OpenTurns(p) /\ Waiting(q) = Waiting(p)
  BY <1>2 DEF OpenTurns, Waiting
<1>4. Kept(q, ls)
  <2>1. Marked(q, ls)
    BY <1>1, <1>3 DEF Marked
  <2>2. WaitsFor(q, ls)
    BY <1>1, <1>3 DEF WaitsFor
  <2>3. Uses(q)
    BY <1>1, <1>2 DEF Uses
  <2>4. Numbered(q)
    BY <1>1, <1>2, <1>3 DEF Numbered
  <2> QED
    BY <1>2, <2>1, <2>2, <2>3, <2>4 DEF Kept
<1>5. Frame(p, q)
  BY <1>2, <1>3 DEF Frame, Spent
<1>6. /\ Len(p.errors) \in Nat /\ DOMAIN p.errors = 1 .. Len(p.errors) /\ DOMAIN q.errors = 1 .. n
      /\ q.errors[n] = raw /\ \A i \in 1 .. Len(p.errors) : q.errors[i] = p.errors[i]
  <2>1. p.errors \in Seq(Seq(Nat))
    BY <1>1, ClaudeFields
  <2> QED
    BY <1>2, <2>1
<1>7. ASSUME NEW j \in Nat, NEW x \in Nat \X Nat
      PROVE  Places(q, x, j) = Places(p, x, j) \cup (IF x = raw THEN {<<0, n>>} ELSE {})
  <2>1. n \in Nat /\ <<0, n>> \in Int \X Nat
    BY <1>6
  <2>2. \A o \in Int \X Nat : o # <<0, n>> => (o \in Places(q, x, j) <=> o \in Places(p, x, j))
    <3> SUFFICES ASSUME NEW o \in Int \X Nat, o # <<0, n>>
                 PROVE  o \in Places(q, x, j) <=> o \in Places(p, x, j)
      OBVIOUS
    <3>1. ~(o[1] = 0 /\ o[2] = n)
      OBVIOUS
    <3>2. (o[1] = 0 /\ o[2] \in DOMAIN q.errors /\ q.errors[o[2]] = x)
          <=> (o[1] = 0 /\ o[2] \in DOMAIN p.errors /\ p.errors[o[2]] = x)
      BY <1>6, <3>1
    <3> QED
      BY <1>3, <3>2 DEF Places
  <2>3. ~(0 \in DOMAIN OpenTurns(p)) /\ ~(n \in DOMAIN p.errors)
    <3>1. OpenTurns(p) \in Seq(TurnType)
      BY <1>1, ClaudeFields
    <3> QED
      BY <1>6, <3>1
  <2>4. <<0, n>> \notin Places(p, x, j) /\ (<<0, n>> \in Places(q, x, j) <=> x = raw)
    BY <1>3, <1>6, <2>1, <2>3 DEF Places
  <2>5. Places(q, x, j) \subseteq Int \X Nat /\ Places(p, x, j) \subseteq Int \X Nat
    BY DEF Places
  <2> HIDE DEF n
  <2> QED
    BY <2>1, <2>2, <2>4, <2>5
<1> QED
  BY <1>2, <1>4, <1>5, <1>7 DEF q

(* A result waits for its call. *)
Waited(p, r) == [p EXCEPT !.current.pending = Append(@, r)]

(* A result that comes before its call waits, in a place of its own. *)
LEMMA WaitedKeeps ==
    ASSUME NEW p, NEW ls, Kept(p, ls), p.current # None, NEW r \in ResultType,
           r.raw \in ResultsRead(ls), r.use = UseOf(ls, r.raw)
    PROVE  LET q == Waited(p, r)
           IN /\ Kept(q, ls) /\ Frame(p, q) /\ q.current # None
              /\ \A x \in Nat \X Nat :
                    Places(q, x, 0) = Places(p, x, 0)
                       \cup (IF x = r.raw THEN {<<-1, Len(p.current.pending) + 1>>} ELSE {})
<1> DEFINE q == Waited(p, r)
           n == Len(p.current.pending) + 1
           a == [p.current EXCEPT !.pending = Append(@, r)]
<1>1. /\ p \in ClaudeType /\ Marked(p, ls) /\ WaitsFor(p, ls) /\ Uses(p) /\ Numbered(p)
  BY DEF Kept
<1>2. p.current \in BuilderType /\ p.current.pending \in Seq(ResultType)
  BY <1>1, ClaudeFields
<1>3. a \in BuilderType /\ a.turn = p.current.turn /\ a.byUse = p.current.byUse /\ a.pending = Append(p.current.pending, r)
  BY <1>2 DEF BuilderType
<1>4. q = [p EXCEPT !.current = a]
  BY DEF Waited
<1> HIDE DEF a
<1>5. /\ q \in ClaudeType /\ q.current = a /\ q.turns = p.turns /\ q.errors = p.errors
      /\ q.window = p.window /\ q.seenMsg = p.seenMsg
      /\ q.completions = p.completions /\ q.isSubagent = p.isSubagent
      /\ q.aiTitle = p.aiTitle /\ q.customTitle = p.customTitle
  BY <1>1, <1>3, <1>4 DEF ClaudeType
<1> HIDE DEF q
<1>6. q.current # None
  BY <1>3, <1>5, OpenIsBuilder
<1>7. OpenTurns(q) = OpenTurns(p) /\ Waiting(p) = p.current.pending /\ Waiting(q) = Append(p.current.pending, r)
  BY <1>3, <1>5, <1>6 DEF OpenTurns, Waiting
<1>8. /\ Len(p.current.pending) \in Nat /\ DOMAIN Waiting(p) = 1 .. Len(p.current.pending)
      /\ DOMAIN Waiting(q) = 1 .. n
      /\ Waiting(q)[n] = r /\ \A i \in 1 .. Len(p.current.pending) : Waiting(q)[i] = Waiting(p)[i]
  BY <1>2, <1>7
<1>9. WaitsFor(q, ls)
  <2> SUFFICES ASSUME NEW i \in 1 .. n
               PROVE  Waiting(q)[i].raw \in ResultsRead(ls) /\ Waiting(q)[i].use = UseOf(ls, Waiting(q)[i].raw)
    BY <1>8 DEF WaitsFor
  <2>1. CASE i = n
    BY <1>8, <2>1
  <2>2. CASE i # n
    <3>1. i \in 1 .. Len(p.current.pending)
      BY <1>8, <2>2, UpToLast
    <3> QED
      BY <1>1, <1>8, <3>1 DEF WaitsFor
  <2> QED
    BY <2>1, <2>2
<1>10. Kept(q, ls)
  <2>1. Marked(q, ls)
    BY <1>1, <1>7 DEF Marked
  <2>3. Uses(q)
    BY <1>1, <1>3, <1>5 DEF Uses
  <2>4. Numbered(q)
    BY <1>1, <1>5, <1>7 DEF Numbered
  <2> QED
    BY <1>5, <1>9, <2>1, <2>3, <2>4 DEF Kept
<1>11. Frame(p, q)
  BY <1>5, <1>7 DEF Frame, Spent
<1>12. ASSUME NEW x \in Nat \X Nat
       PROVE  Places(q, x, 0) = Places(p, x, 0) \cup (IF x = r.raw THEN {<<-1, n>>} ELSE {})
  <2>1. n \in Nat /\ n > 0 /\ <<-1, n>> \in Int \X Nat
    BY <1>8
  <2>2. \A o \in Int \X Nat : o # <<-1, n>> => (o \in Places(q, x, 0) <=> o \in Places(p, x, 0))
    <3> SUFFICES ASSUME NEW o \in Int \X Nat, o # <<-1, n>>
                 PROVE  o \in Places(q, x, 0) <=> o \in Places(p, x, 0)
      OBVIOUS
    <3>1. ~(o[1] = -1 /\ o[2] = n)
      OBVIOUS
    <3>2. (o[1] = -1 /\ o[2] \in DOMAIN Waiting(q) /\ o[2] > 0 /\ Waiting(q)[o[2]].raw = x)
          <=> (o[1] = -1 /\ o[2] \in DOMAIN Waiting(p) /\ o[2] > 0 /\ Waiting(p)[o[2]].raw = x)
      BY <1>8, <3>1
    <3> QED
      BY <1>5, <1>7, <3>2 DEF Places
  <2>3. ~(-1 \in DOMAIN OpenTurns(p)) /\ ~(n \in DOMAIN Waiting(p))
    <3>1. OpenTurns(p) \in Seq(TurnType)
      BY <1>1, ClaudeFields
    <3> QED
      BY <1>8, <3>1
  <2>4. <<-1, n>> \notin Places(p, x, 0) /\ (<<-1, n>> \in Places(q, x, 0) <=> x = r.raw)
    BY <1>7, <1>8, <2>1, <2>3 DEF Places
  <2>5. Places(q, x, 0) \subseteq Int \X Nat /\ Places(p, x, 0) \subseteq Int \X Nat
    BY DEF Places
  <2> HIDE DEF n
  <2> QED
    BY <2>1, <2>2, <2>4, <2>5
<1> QED
  BY <1>6, <1>10, <1>11, <1>12 DEF q

-----------------------------------------------------------------------------
(* A result arrives, a waiting one is resolved *)

(* A result is named by its line and its place in the line. *)
LEMMA ResultsReadPairs ==
    ASSUME NEW ls \in Seq(ClaudeLines) PROVE ResultsRead(ls) \subseteq Nat \X Nat
<1>1. \A n \in DOMAIN ls : n \in Nat /\ ls[n] \in ClaudeLines
  OBVIOUS
<1>2. ASSUME NEW n \in Of(ls, "user"), NEW k \in DOMAIN ls[n].results PROVE <<n, k>> \in Nat \X Nat
  <2>1. n \in DOMAIN ls /\ ls[n].type = "user"
    BY DEF Of
  <2>2. ls[n] # Unreadable
    BY <2>1 DEF Unreadable
  <2>3. ls[n].results \in Seq([use : STRING, output : STRING, error : BOOLEAN])
    BY <1>1, <2>1, <2>2, ClaudeAssumption DEF ClaudeAssumption
  <2>4. k \in Nat
    BY <2>3, DomainOfSeq, Zenon
  <2> QED
    BY <1>1, <2>1, <2>4
<1> QED
  BY <1>2 DEF ResultsRead

(* A result of the transcript that is in no place yet. *)
Arrives(ls, R, r) ==
    r \in ResultType /\ r.raw \in ResultsRead(ls) /\ r.use = UseOf(ls, r.raw) /\ r.raw \in Nat \X Nat /\ r.raw \notin R

(* The call ResolveToolCall finds may be completed. *)
LEMMA ResolvesCall ==
    ASSUME NEW p \in ClaudeType, p.current # None, NEW ls, NEW r \in ResultType,
           r.raw \in ResultsRead(ls), r.use = UseOf(ls, r.raw), NEW i, i = ResolveToolCall(p.current, r.use), i # 0
    PROVE  Answers(p, ls, i, r) /\ i > 0
<1>1. p.current \in BuilderType
  BY OpenIsBuilder
<1>2. r.use \in STRING
  BY DEF ResultType
<1>3. /\ i \in PendingCalls(p.current) /\ i > 0
      /\ r.use = "" \/ (r.use \in DOMAIN p.current.byUse /\ p.current.byUse[r.use] = i)
  BY <1>1, <1>2, ResolvesPending
<1> QED
  BY <1>3 DEF Answers, PendingCalls

(* A result that arrives completes a call, waits or is an error. *)
LEMMA AttachStep ==
    ASSUME NEW p, NEW ls, NEW R, Kept(p, ls), Accounts(p, R, 0), p.current # None, NEW r, Arrives(ls, R, r),
           NEW q, q = AttachToolResult(p, r)
    PROVE  Kept(q, ls) /\ Accounts(q, R \cup {r.raw}, 0) /\ Frame(p, q) /\ q.current # None
<1> DEFINE i == ResolveToolCall(p.current, r.use)
<1>1. /\ r \in ResultType /\ r.raw \in ResultsRead(ls) /\ r.use = UseOf(ls, r.raw)
      /\ r.raw \in Nat \X Nat /\ r.raw \notin R /\ r.raw \in Seq(Nat) /\ r.use \in STRING
  BY DEF Arrives, ResultType
<1>2. p \in ClaudeType
  BY DEF Kept
<1>3. i # 0 => Answers(p, ls, i, r) /\ i > 0
  BY <1>1, <1>2, ResolvesCall
<1>4. \/ i > 0 /\ i # 0 /\ q = Completed(p, i, r)
      \/ i = 0 /\ q = Waited(p, r)
      \/ i = 0 /\ q = Reported(p, r.raw)
  <2>1. i = 0 \/ i > 0
    BY <1>3
  <2>2. 0 > 0 <=> FALSE
    OBVIOUS
  <2> HIDE DEF i
  <2>3. q = CASE i > 0 -> Completed(p, i, r)
              [] i = 0 /\ r.use # "" /\ r.use \notin DOMAIN p.current.byUse -> Waited(p, r)
              [] OTHER -> Reported(p, r.raw)
    BY DEF AttachToolResult, Completed, Waited, Reported, i
  <2> QED
    BY <2>1, <2>2, <2>3, <1>3
<1> HIDE DEF i
<1>5. CASE i > 0 /\ i # 0 /\ q = Completed(p, i, r)
  <2> DEFINE o == <<Len(p.turns) + 1, i>>
  <2>1. /\ Kept(q, ls) /\ Frame(p, q) /\ q.current # None
        /\ \A j \in Nat : \A x \in Nat \X Nat :
              Places(q, x, j) = Places(p, x, j) \cup (IF x = r.raw THEN {o} ELSE {})
    BY <1>3, <1>5, CallCompleted
  <2>2. Gains(p, q, 0, r.raw, o)
    BY <2>1 DEF Gains
  <2> HIDE DEF o
  <2> QED
    BY <1>1, <2>1, <2>2, AccountsGain
<1>6. CASE q = Waited(p, r)
  <2> DEFINE o == <<-1, Len(p.current.pending) + 1>>
  <2>1. /\ Kept(q, ls) /\ Frame(p, q) /\ q.current # None
        /\ \A x \in Nat \X Nat :
              Places(q, x, 0) = Places(p, x, 0) \cup (IF x = r.raw THEN {o} ELSE {})
    BY <1>1, <1>6, WaitedKeeps
  <2>2. Gains(p, q, 0, r.raw, o)
    BY <2>1 DEF Gains
  <2> HIDE DEF o
  <2> QED
    BY <1>1, <2>1, <2>2, AccountsGain
<1>7. CASE q = Reported(p, r.raw)
  <2> DEFINE o == <<0, Len(p.errors) + 1>>
  <2>1. /\ Kept(q, ls) /\ Frame(p, q) /\ q.current = p.current
        /\ \A j \in Nat : \A x \in Nat \X Nat :
              Places(q, x, j) = Places(p, x, j) \cup (IF x = r.raw THEN {o} ELSE {})
    BY <1>1, <1>7, ReportedKeeps
  <2>2. Gains(p, q, 0, r.raw, o)
    BY <2>1 DEF Gains
  <2> HIDE DEF o
  <2> QED
    BY <1>1, <2>1, <2>2, AccountsGain
<1> QED
  BY <1>4, <1>5, <1>6, <1>7

(* The next of those that wait. *)
LEMMA NextWaiting ==
    ASSUME NEW p \in ClaudeType, NEW k \in Nat, k + 1 \in DOMAIN Waiting(p),
           NEW x \in Nat \X Nat
    PROVE  /\ <<-1, k + 1>> \in Places(p, x, k) <=> x = Waiting(p)[k + 1].raw
           /\ Places(p, x, k + 1) = Places(p, x, k) \ {<<-1, k + 1>>}
<1>1. OpenTurns(p) \in Seq(TurnType) /\ Waiting(p) \in Seq(ResultType)
  BY ClaudeFields
<1>2. -1 \notin DOMAIN OpenTurns(p)
  BY <1>1
<1>3. <<-1, k + 1>> \in Int \X Nat /\ k + 1 > k
  OBVIOUS
<1>4. <<-1, k + 1>> \in Places(p, x, k) <=> x = Waiting(p)[k + 1].raw
  BY <1>2, <1>3 DEF Places
<1>5. \A b \in Nat : b > k + 1 <=> b > k /\ b # k + 1
  OBVIOUS
<1>6. ASSUME NEW o \in Int \X Nat
      PROVE  o \in Places(p, x, k + 1) <=> o \in Places(p, x, k) /\ o # <<-1, k + 1>>
  <2>1. o = <<-1, k + 1>> <=> o[1] = -1 /\ o[2] = k + 1
    OBVIOUS
  <2>2. o[2] \in Nat
    OBVIOUS
  <2>3. (o[1] = -1 /\ o[2] \in DOMAIN Waiting(p) /\ o[2] > k + 1 /\ Waiting(p)[o[2]].raw = x)
        <=> (o[1] = -1 /\ o[2] \in DOMAIN Waiting(p) /\ o[2] > k /\ Waiting(p)[o[2]].raw = x) /\ o # <<-1, k + 1>>
    BY <1>5, <2>1, <2>2
  <2>4. o = <<-1, k + 1>> => o[1] # 0 /\ o[1] \notin DOMAIN OpenTurns(p)
    BY <1>2, <2>1
  <2> QED
    BY <2>3, <2>4 DEF Places
<1>7. Places(p, x, k) \subseteq Int \X Nat /\ Places(p, x, k + 1) \subseteq Int \X Nat
  BY DEF Places
<1> QED
  BY <1>4, <1>6, <1>7

(* At the end of the turn a waiting result completes a call or is an error. *)
LEMMA ResolveStep ==
    ASSUME NEW p, NEW ls \in Seq(ClaudeLines), NEW R, NEW k \in Nat, Kept(p, ls), Accounts(p, R, k), p.current # None,
           k + 1 \in DOMAIN p.current.pending, NEW q, q = ResolvePendingResult(p, p.current.pending[k + 1])
    PROVE  /\ Kept(q, ls) /\ Accounts(q, R, k + 1) /\ Frame(p, q)
           /\ q.current # None /\ q.current.pending = p.current.pending
<1> DEFINE r == p.current.pending[k + 1]
           i == ResolveToolCall(p.current, r.use)
           w == <<-1, k + 1>>
<1>1. p \in ClaudeType /\ WaitsFor(p, ls)
  BY DEF Kept
<1>2. Waiting(p) = p.current.pending /\ p.current.pending \in Seq(ResultType)
  BY <1>1, OpenTurnsAre, ClaudeFields
<1>3. r \in ResultType /\ r.raw \in Seq(Nat) /\ r.use \in STRING
  <2>1. r \in ResultType
    BY <1>2
  <2> QED
    BY <2>1 DEF ResultType
<1>4. r.raw \in ResultsRead(ls) /\ r.use = UseOf(ls, r.raw) /\ r.raw \in Nat \X Nat
  <2>1. r.raw \in ResultsRead(ls) /\ r.use = UseOf(ls, r.raw)
    BY <1>1, <1>2 DEF WaitsFor
  <2> QED
    BY <2>1, ResultsReadPairs
<1>5. i # 0 => Answers(p, ls, i, r) /\ i > 0
  BY <1>1, <1>3, <1>4, ResolvesCall
<1>6. \A x \in Nat \X Nat : /\ w \in Places(p, x, k) <=> x = r.raw
                            /\ Places(p, x, k + 1) = Places(p, x, k) \ {w}
  <2>1. k + 1 \in DOMAIN Waiting(p) /\ Waiting(p)[k + 1] = r
    BY <1>2
  <2>2. \A x \in Nat \X Nat : /\ w \in Places(p, x, k) <=> x = Waiting(p)[k + 1].raw
                              /\ Places(p, x, k + 1) = Places(p, x, k) \ {w}
    BY <1>1, <2>1, NextWaiting
  <2> QED
    BY <2>1, <2>2
<1>7. \/ i # 0 /\ q = Completed(p, i, r)
      \/ q = Reported(p, r.raw)
  <2>1. q = IF i > 0 THEN Completed(p, i, r) ELSE Reported(p, r.raw)
    BY DEF ResolvePendingResult, Completed, Reported
  <2> HIDE DEF i, r
  <2>2. ~(0 > 0)
    OBVIOUS
  <2> QED
    BY <2>1, <2>2
<1> HIDE DEF i, r
<1>8. CASE i # 0 /\ q = Completed(p, i, r)
  <2> DEFINE o == <<Len(p.turns) + 1, i>>
  <2>1. /\ Kept(q, ls) /\ Frame(p, q) /\ q.current # None /\ q.current.pending = p.current.pending
        /\ \A j \in Nat : \A x \in Nat \X Nat :
              Places(q, x, j) = Places(p, x, j) \cup (IF x = r.raw THEN {o} ELSE {})
    BY <1>5, <1>8, CallCompleted
  <2> HIDE DEF o, w
  <2>2. Moves(p, q, k, r.raw, w, o)
    <3>1. k + 1 \in Nat
      OBVIOUS
    <3> QED
      BY <1>6, <2>1, <3>1 DEF Moves
  <2>3. Accounts(q, R, k + 1)
    BY <1>4, <2>2, AccountsMove
  <2> QED
    BY <2>1, <2>3
<1>9. CASE q = Reported(p, r.raw)
  <2> DEFINE o == <<0, Len(p.errors) + 1>>
  <2>1. /\ Kept(q, ls) /\ Frame(p, q) /\ q.current = p.current
        /\ \A j \in Nat : \A x \in Nat \X Nat :
              Places(q, x, j) = Places(p, x, j) \cup (IF x = r.raw THEN {o} ELSE {})
    BY <1>3, <1>9, ReportedKeeps
  <2> HIDE DEF o, w
  <2>2. Moves(p, q, k, r.raw, w, o)
    <3>1. k + 1 \in Nat
      OBVIOUS
    <3> QED
      BY <1>6, <2>1, <3>1 DEF Moves
  <2>3. Accounts(q, R, k + 1)
    BY <1>4, <2>2, AccountsMove
  <2> QED
    BY <2>1, <2>3
<1> QED
  BY <1>7, <1>8, <1>9

-----------------------------------------------------------------------------
(* The results of a line *)

(* A line that is JSON. *)
ClaudeLine ==
    [type : STRING \ {"unreadable"}, session : STRING, when : Nat, meta : BOOLEAN, content : Seq(STRING),
     title : STRING, id : STRING, text : Seq(STRING), stop : STRING, usage : [DOMAIN NoTokens -> Nat],
     uses : Seq([name : Seq(STRING), use : STRING, input : Seq(STRING)]),
     results : Seq([use : STRING, output : STRING, error : BOOLEAN])]

(* A line is JSON or not. *)
LEMMA LineTypes == \A e \in ClaudeLines : e = Unreadable \/ e \in ClaudeLine
BY ClaudeAssumption DEF ClaudeAssumption, ClaudeLine

(* The fields of a line, typed. *)
LEMMA LineFields ==
    ASSUME NEW e \in ClaudeLine
    PROVE  /\ e # Unreadable /\ e.type # "unreadable" /\ e.session \in STRING /\ e.when \in Nat /\ e.title \in STRING
           /\ e.id \in STRING /\ e.text \in Seq(STRING) /\ e.content \in Seq(STRING) /\ e.usage \in Tokens
           /\ e.uses \in Seq([name : Seq(STRING), use : STRING, input : Seq(STRING)])
           /\ e.results \in Seq([use : STRING, output : STRING, error : BOOLEAN])
<1>1. e.type # "unreadable" /\ Unreadable.type = "unreadable"
  BY DEF ClaudeLine, Unreadable
<1> QED
  BY <1>1 DEF ClaudeLine, Tokens

(* A line and a place in it. *)
LEMMA PairIsAppended == \A n, k \in Nat : Append(<<n>>, k) = <<n, k>> /\ <<n, k>> \in Seq(Nat)
<1> SUFFICES ASSUME NEW n \in Nat, NEW k \in Nat PROVE Append(<<n>>, k) = <<n, k>> /\ <<n, k>> \in Seq(Nat)
  OBVIOUS
<1>1. <<n>> \in Seq(Nat) /\ Len(<<n>>) = 1 /\ <<n>>[1] = n
  OBVIOUS
<1>2. <<n, k>> \in Seq(Nat) /\ Len(<<n, k>>) = 2 /\ <<n, k>>[1] = n /\ <<n, k>>[2] = k
  OBVIOUS
<1> DEFINE s == <<n>>
<1> HIDE DEF s
<1>3. Append(s, k) \in Seq(Nat) /\ Len(Append(s, k)) = 2 /\ Append(s, k)[1] = n /\ Append(s, k)[2] = k
  BY <1>1 DEF s
<1> DEFINE t == <<n, k>>
           u == Append(s, k)
<1> HIDE DEF t, u
<1>4. t = [i \in 1 .. 2 |-> t[i]] /\ u = [i \in 1 .. 2 |-> u[i]]
  <2>1. \A z \in Seq(Nat) : Len(z) = 2 => z = [i \in 1 .. 2 |-> z[i]]
    OBVIOUS
  <2> QED
    BY <1>2, <1>3, <2>1 DEF t, u
<1>5. \A i \in 1 .. 2 : t[i] = u[i]
  BY <1>2, <1>3 DEF t, u
<1> QED
  BY <1>2, <1>4, <1>5 DEF t, u, s

(* A result keeps its use id, its line and its place. *)
LEMMA ResultOfIs ==
    ASSUME NEW e \in ClaudeLine, NEW n \in Nat, NEW k \in DOMAIN e.results
    PROVE  /\ ResultOf(e, <<n>>, k) \in ResultType
           /\ ResultOf(e, <<n>>, k).raw = <<n, k>> /\ ResultOf(e, <<n>>, k).use = e.results[k].use
<1>1. e.results \in Seq([use : STRING, output : STRING, error : BOOLEAN])
  BY LineFields
<1>2. k \in Nat /\ e.results[k] \in [use : STRING, output : STRING, error : BOOLEAN]
  BY <1>1, DomainOfSeq
<1>3. e.when \in Nat /\ Append(<<n>>, k) = <<n, k>> /\ <<n, k>> \in Seq(Nat)
  <2>1. k \in Nat
    BY <1>2
  <2>2. Append(<<n>>, k) = <<n, k>> /\ <<n, k>> \in Seq(Nat)
    BY <2>1, PairIsAppended
  <2> QED
    BY <2>2, LineFields
<1> DEFINE x == e.results[k]
           head == [when |-> e.when, raw |-> Append(<<n>>, k)]
           r == Over(head, x)
<1>4. DOMAIN head = {"when", "raw"} /\ DOMAIN x = {"use", "output", "error"}
  BY <1>2
<1>5. r = [y \in {"when", "raw"} \cup {"use", "output", "error"} |-> IF y \in {"when", "raw"} THEN head[y] ELSE x[y]]
  BY <1>4 DEF Over
<1>6. head.when = e.when /\ head.raw = <<n, k>>
  BY <1>3
<1>7. x.use \in STRING /\ x.output \in STRING /\ x.error \in BOOLEAN
  BY <1>2
<1> HIDE DEF x, head
<1>8. r.when = e.when /\ r.raw = <<n, k>> /\ r.use = x.use /\ r.output = x.output /\ r.error = x.error
  BY <1>5, <1>6
<1>9. r \in ResultType
  <2>1. r = [y \in {"use", "output", "error", "when", "raw"} |-> r[y]]
    BY <1>5
  <2> HIDE DEF r
  <2> QED
    BY <1>3, <1>7, <1>8, <2>1 DEF ResultType
<1> QED
  BY <1>8, <1>9 DEF ResultOf, x, head

(* One result after the other. *)
OfLine(n, k) == {<<n, i>> : i \in 1 .. k}
(* s is p with the first k results of line n attached. *)
Attached(p, s, ls, R, n, k) ==
    Kept(s, ls) /\ Accounts(s, R \cup OfLine(n, k), 0) /\ Frame(p, s) /\ s.current # None
(* The results of line n, e, are to be attached to the open turn of p. *)
Attachable(p, ls, R, n, e) ==
    /\ Kept(p, ls) /\ Accounts(p, R, 0) /\ p.current # None
    /\ e \in ClaudeLine /\ e.type = "user" /\ n \in DOMAIN ls /\ n \in Nat /\ ls[n] = e
    /\ \A k \in Nat : <<n, k>> \notin R
(* s with one more of them. *)
Nth(e, n, s, k) == AttachToolResult(s, ResultOf(e, <<n>>, k))

(* The places of a line, one by one. *)
LEMMA OneMoreOfLine ==
    ASSUME NEW n, NEW k \in Nat \ {0}
    PROVE  OfLine(n, k) = OfLine(n, k - 1) \cup {<<n, k>>}
<1>1. 1 .. k = (1 .. k - 1) \cup {k}
  OBVIOUS
<1> QED
  BY <1>1 DEF OfLine

(* One more result of the line is attached. *)
LEMMA AttachNth ==
    ASSUME NEW p, NEW s, NEW ls, NEW R, NEW n, NEW e, Attachable(p, ls, R, n, e),
           NEW k \in 1 .. Len(e.results), Attached(p, s, ls, R, n, k - 1)
    PROVE  Attached(p, Nth(e, n, s, k), ls, R, n, k) /\ Nth(e, n, s, k) \in OpenType
<1> DEFINE r == ResultOf(e, <<n>>, k)
           q == Nth(e, n, s, k)
           R1 == R \cup OfLine(n, k - 1)
<1>1. e \in ClaudeLine /\ e.type = "user" /\ n \in DOMAIN ls /\ n \in Nat /\ ls[n] = e /\ \A i \in Nat : <<n, i>> \notin R
  BY DEF Attachable
<1>2. e.results \in Seq([use : STRING, output : STRING, error : BOOLEAN])
  BY <1>1, LineFields
<1>3. k \in DOMAIN e.results /\ k \in Nat \ {0}
  BY <1>2
<1>4. r \in ResultType /\ r.raw = <<n, k>> /\ r.use = e.results[k].use
  BY <1>1, <1>3, ResultOfIs
<1> HIDE DEF r
<1>5. r.raw \in ResultsRead(ls) /\ r.use = UseOf(ls, r.raw) /\ r.raw \in Nat \X Nat
  <2>1. n \in Of(ls, "user")
    BY <1>1 DEF Of
  <2>2. r.raw \in ResultsRead(ls)
    BY <1>1, <1>3, <1>4, <2>1 DEF ResultsRead
  <2> QED
    BY <1>1, <1>3, <1>4, <2>2 DEF UseOf
<1>6. r.raw \notin R1
  <2>1. \A i \in 1 .. k - 1 : <<n, i>> # <<n, k>>
    BY <1>3
  <2> QED
    BY <1>1, <1>3, <1>4, <2>1 DEF OfLine
<1>7. Arrives(ls, R1, r)
  BY <1>4, <1>5, <1>6 DEF Arrives
<1>8. Kept(s, ls) /\ Accounts(s, R1, 0) /\ Frame(p, s) /\ s.current # None
  BY DEF Attached
<1>9. q = AttachToolResult(s, r)
  BY DEF Nth, r
<1> HIDE DEF q, R1
<1>10. Kept(q, ls) /\ Accounts(q, R1 \cup {r.raw}, 0) /\ Frame(s, q) /\ q.current # None
  BY <1>7, <1>8, <1>9, AttachStep
<1>11. R1 \cup {r.raw} = R \cup OfLine(n, k)
  BY <1>3, <1>4, OneMoreOfLine DEF R1
<1>12. Frame(p, q)
  BY <1>8, <1>10, FrameTransitive
<1>13. q \in OpenType
  BY <1>10 DEF Kept, OpenType
<1> QED
  BY <1>10, <1>11, <1>12, <1>13 DEF Attached, q

(* Whatever goes through the results one by one has them all attached. *)
LEMMA AttachesInTurn ==
    ASSUME NEW p, NEW ls, NEW R, NEW n, NEW e, Attachable(p, ls, R, n, e), NEW g, g[0] = p,
           \A k \in 1 .. Len(e.results) : Nth(e, n, g[k - 1], k) \in OpenType => g[k] = Nth(e, n, g[k - 1], k)
    PROVE  \A k \in 0 .. Len(e.results) : Attached(p, g[k], ls, R, n, k)
<1>1. Len(e.results) \in Nat
  <2>1. e \in ClaudeLine
    BY DEF Attachable
  <2> QED
    BY <2>1, LineFields
<1> DEFINE P == {k \in 0 .. Len(e.results) : Attached(p, g[k], ls, R, n, k)}
<1>2. 0 \in P
  <2>1. R \cup OfLine(n, 0) = R
    BY DEF OfLine
  <2>2. Frame(p, p)
    BY DEF Frame
  <2> QED
    <3>1. Attached(p, p, ls, R, n, 0)
      BY <2>1, <2>2 DEF Attachable, Attached
    <3>2. 0 \in 0 .. Len(e.results)
      BY <1>1
    <3> QED
      BY <3>1, <3>2
<1>3. ASSUME NEW k \in 1 .. Len(e.results), k - 1 \in P PROVE k \in P
  <2>1. Attached(p, g[k - 1], ls, R, n, k - 1)
    BY <1>3
  <2>2. Attached(p, Nth(e, n, g[k - 1], k), ls, R, n, k) /\ Nth(e, n, g[k - 1], k) \in OpenType
    BY <2>1, AttachNth
  <2>3. g[k] = Nth(e, n, g[k - 1], k)
    BY <2>2
  <2> QED
    BY <2>2, <2>3
<1> HIDE DEF P
<1>4. \A k \in 0 .. Len(e.results) : k \in P
  BY <1>1, <1>2, <1>3, UpTo
<1> QED
  BY <1>4 DEF P

(* AttachAll attaches every result of the line. *)
LEMMA AttachAllIs ==
    ASSUME NEW p, NEW ls, NEW R, NEW n, NEW e, Attachable(p, ls, R, n, e)
    PROVE  Attached(p, AttachAll(p, e, <<n>>), ls, R, n, Len(e.results))
<1> DEFINE N == Len(e.results)
           Good(x, k) == Nth(e, n, x, k)
           step == [x \in (1 .. N) \X OpenType |-> IF Good(x[2], x[1]) \in OpenType THEN Good(x[2], x[1]) ELSE x[2]]
           Steps(g) == g = [k \in 0 .. N |-> IF k = 0 THEN p ELSE Good(g[k - 1], k)]
<1>1. N \in Nat
  <2>1. e \in ClaudeLine
    BY DEF Attachable
  <2> QED
    BY <2>1, LineFields
<1>2. p \in OpenType
  BY DEF Attachable, Kept, OpenType
<1>3. step \in [(1 .. N) \X OpenType -> OpenType]
  OBVIOUS
<1>4. \A k \in 1 .. N : \A x \in OpenType :
         Good(x, k) \in OpenType => step[<<k, x>>] = Good(x, k)
  OBVIOUS
<1> HIDE DEF step
<1>5. PICK f \in [0 .. N -> OpenType] : Follows(f, N, p, step)
  BY <1>1, <1>2, <1>3, RecursionExists
<1>6. f[0] = p /\ \A k \in 1 .. N : f[k] = step[<<k, f[k - 1]>>] /\ f[k - 1] \in OpenType
  <2>1. f = [i \in 0 .. N |-> IF i = 0 THEN p ELSE step[<<i, f[i - 1]>>]]
    BY <1>5 DEF Follows
  <2>2. 0 \in 0 .. N /\ \A k \in 1 .. N : k \in 0 .. N /\ k - 1 \in 0 .. N /\ k # 0
    BY <1>1
  <2>3. \A k \in 1 .. N : f[k - 1] \in OpenType
    BY <2>2
  <2>4. \A k \in 1 .. N : f[k] = step[<<k, f[k - 1]>>]
    BY <2>1, <2>2
  <2>5. f[0] = p
    BY <2>1, <2>2
  <2> QED
    BY <2>3, <2>4, <2>5
<1>7. \A k \in 1 .. N : Nth(e, n, f[k - 1], k) \in OpenType => f[k] = Nth(e, n, f[k - 1], k)
  BY <1>4, <1>6
<1>8. \A k \in 0 .. N : Attached(p, f[k], ls, R, n, k)
  BY <1>6, <1>7, AttachesInTurn
<1>9. \A k \in 1 .. N : f[k] = Nth(e, n, f[k - 1], k)
  <2> TAKE k \in 1 .. N
  <2>1. Attached(p, f[k - 1], ls, R, n, k - 1)
    BY <1>1, <1>8
  <2>2. Nth(e, n, f[k - 1], k) \in OpenType
    BY <2>1, AttachNth
  <2> QED
    BY <1>7, <2>2
<1>10. Steps(f)
  <2>1. \A k \in 0 .. N : f[k] = IF k = 0 THEN p ELSE Good(f[k - 1], k)
    BY <1>1, <1>6, <1>9
  <2>2. f = [k \in 0 .. N |-> f[k]]
    OBVIOUS
  <2> HIDE DEF Good
  <2> QED
    BY <2>1, <2>2
<1> DEFINE after == CHOOSE g : Steps(g)
<1>11. Steps(after)
  BY <1>10
<1>12. AttachAll(p, e, <<n>>) = after[N]
  BY Zenon DEF AttachAll, Nth
<1> HIDE DEF after, Good
<1>13. after[0] = p /\ \A k \in 1 .. N : after[k] = Good(after[k - 1], k)
  <2>1. after = [k \in 0 .. N |-> IF k = 0 THEN p ELSE Good(after[k - 1], k)]
    BY <1>11
  <2>2. 0 \in 0 .. N /\ \A k \in 1 .. N : k \in 0 .. N /\ k # 0
    BY <1>1
  <2> HIDE DEF N
  <2> QED
    BY <2>1, <2>2
<1>14. Attached(p, after[N], ls, R, n, N)
  <2>1. \A k \in 0 .. N : Attached(p, after[k], ls, R, n, k)
    BY <1>13, AttachesInTurn DEF Good
  <2> QED
    BY <1>1, <2>1
<1> QED
  BY <1>12, <1>14

-----------------------------------------------------------------------------
(* The end of a turn *)

(* s is p with the first k of the results that waited resolved. *)
Resolved(p, s, ls, R, k) ==
    /\ Kept(s, ls) /\ Accounts(s, R, k) /\ Frame(p, s)
    /\ s.current # None /\ s.current.pending = p.current.pending
(* The open turn of p may end. *)
Resolvable(p, ls, R) == ls \in Seq(ClaudeLines) /\ Kept(p, ls) /\ Accounts(p, R, 0) /\ p.current # None

(* What waits is a sequence of results. *)
LEMMA ResolvableFields ==
    ASSUME NEW p, NEW ls, NEW R, Resolvable(p, ls, R)
    PROVE  /\ p.current.pending \in Seq(ResultType) /\ Len(p.current.pending) \in Nat
           /\ DOMAIN p.current.pending = 1 .. Len(p.current.pending)
<1>1. p \in ClaudeType /\ p.current # None
  BY DEF Resolvable, Kept
<1>2. p.current.pending \in Seq(ResultType)
  BY <1>1, ClaudeFields
<1> QED
  BY <1>2, DomainOfSeq

(* One more waiting result is resolved. *)
LEMMA ResolveNth ==
    ASSUME NEW p, NEW s, NEW ls, NEW R, Resolvable(p, ls, R),
           NEW k \in 1 .. Len(p.current.pending), Resolved(p, s, ls, R, k - 1)
    PROVE  LET q == ResolvePendingResult(s, p.current.pending[k])
           IN Resolved(p, q, ls, R, k) /\ q \in OpenType
<1> DEFINE q == ResolvePendingResult(s, p.current.pending[k])
<1>1. k \in Nat /\ k - 1 \in Nat /\ (k - 1) + 1 = k /\ k \in DOMAIN p.current.pending /\ ls \in Seq(ClaudeLines)
  BY ResolvableFields DEF Resolvable
<1>2. /\ Kept(s, ls) /\ Accounts(s, R, k - 1) /\ Frame(p, s)
      /\ s.current # None /\ s.current.pending = p.current.pending
  BY DEF Resolved
<1>3. (k - 1) + 1 \in DOMAIN s.current.pending /\ q = ResolvePendingResult(s, s.current.pending[(k - 1) + 1])
  BY <1>1, <1>2
<1> HIDE DEF q
<1>4. /\ Kept(q, ls) /\ Accounts(q, R, (k - 1) + 1) /\ Frame(s, q)
      /\ q.current # None /\ q.current.pending = s.current.pending
  BY <1>1, <1>2, <1>3, ResolveStep
<1>5. Frame(p, q)
  BY <1>2, <1>4, FrameTransitive
<1>6. q \in OpenType
  BY <1>4 DEF OpenType, Kept
<1> QED
  BY <1>1, <1>2, <1>4, <1>5, <1>6 DEF Resolved, q

(* Whatever function resolves them in turn has resolved the first k. *)
LEMMA ResolvesInTurn ==
    ASSUME NEW p, NEW ls, NEW R, Resolvable(p, ls, R), NEW g, g[0] = p,
           \A k \in 1 .. Len(p.current.pending) :
              ResolvePendingResult(g[k - 1], p.current.pending[k]) \in OpenType
                 => g[k] = ResolvePendingResult(g[k - 1], p.current.pending[k])
    PROVE  \A k \in 0 .. Len(p.current.pending) : Resolved(p, g[k], ls, R, k)
<1> DEFINE N == Len(p.current.pending)
           P == {k \in 0 .. N : Resolved(p, g[k], ls, R, k)}
<1>1. N \in Nat
  BY ResolvableFields
<1>2. 0 \in P
  <2>1. Frame(p, p)
    BY DEF Frame
  <2>2. Resolved(p, p, ls, R, 0)
    BY <2>1 DEF Resolvable, Resolved
  <2>3. 0 \in 0 .. N
    BY <1>1
  <2> QED
    BY <2>2, <2>3
<1>3. ASSUME NEW k \in 1 .. N, k - 1 \in P PROVE k \in P
  <2>1. Resolved(p, g[k - 1], ls, R, k - 1)
    BY <1>3
  <2> DEFINE q == ResolvePendingResult(g[k - 1], p.current.pending[k])
  <2>2. Resolved(p, q, ls, R, k) /\ q \in OpenType
    BY <2>1, ResolveNth
  <2>3. g[k] = q
    BY <2>2
  <2> QED
    BY <2>2, <2>3
<1> HIDE DEF P
<1>4. \A k \in 0 .. N : k \in P
  BY <1>1, <1>2, <1>3, UpTo
<1> QED
  BY <1>4 DEF P

(* ResolvePending resolves every waiting result. *)
LEMMA ResolvePendingIs ==
    ASSUME NEW p, NEW ls, NEW R, Resolvable(p, ls, R)
    PROVE  Resolved(p, ResolvePending(p), ls, R, Len(p.current.pending))
<1> DEFINE rs == p.current.pending
           N == Len(rs)
           Good(x, k) == ResolvePendingResult(x, rs[k])
           step == [x \in (1 .. N) \X OpenType |-> IF Good(x[2], x[1]) \in OpenType THEN Good(x[2], x[1]) ELSE x[2]]
           Steps(g) == g = [k \in 0 .. N |-> IF k = 0 THEN p ELSE Good(g[k - 1], k)]
<1>1. N \in Nat
  BY ResolvableFields
<1>2. p \in OpenType
  BY DEF Resolvable, Kept, OpenType
<1>3. step \in [(1 .. N) \X OpenType -> OpenType]
  OBVIOUS
<1>4. \A k \in 1 .. N : \A x \in OpenType :
         Good(x, k) \in OpenType => step[<<k, x>>] = Good(x, k)
  OBVIOUS
<1> HIDE DEF step
<1>5. PICK f \in [0 .. N -> OpenType] : Follows(f, N, p, step)
  BY <1>1, <1>2, <1>3, RecursionExists
<1>6. f[0] = p /\ \A k \in 1 .. N : f[k] = step[<<k, f[k - 1]>>] /\ f[k - 1] \in OpenType
  <2>1. f = [i \in 0 .. N |-> IF i = 0 THEN p ELSE step[<<i, f[i - 1]>>]]
    BY <1>5 DEF Follows
  <2>2. 0 \in 0 .. N /\ \A k \in 1 .. N : k \in 0 .. N /\ k - 1 \in 0 .. N /\ k # 0
    BY <1>1
  <2>3. \A k \in 1 .. N : f[k - 1] \in OpenType
    BY <2>2
  <2>4. \A k \in 1 .. N : f[k] = step[<<k, f[k - 1]>>]
    BY <2>1, <2>2
  <2>5. f[0] = p
    BY <2>1, <2>2
  <2> QED
    BY <2>3, <2>4, <2>5
<1>7. \A k \in 1 .. N : Good(f[k - 1], k) \in OpenType => f[k] = Good(f[k - 1], k)
  BY <1>4, <1>6
<1>8. \A k \in 0 .. N : Resolved(p, f[k], ls, R, k)
  BY <1>6, <1>7, ResolvesInTurn
<1>9. \A k \in 1 .. N : f[k] = Good(f[k - 1], k)
  <2> TAKE k \in 1 .. N
  <2>1. Resolved(p, f[k - 1], ls, R, k - 1)
    BY <1>1, <1>8
  <2>2. Good(f[k - 1], k) \in OpenType
    BY <2>1, ResolveNth
  <2> QED
    BY <1>7, <2>2
<1>10. Steps(f)
  <2>1. \A k \in 0 .. N : f[k] = IF k = 0 THEN p ELSE Good(f[k - 1], k)
    BY <1>1, <1>6, <1>9
  <2>2. f = [k \in 0 .. N |-> f[k]]
    OBVIOUS
  <2> HIDE DEF Good
  <2> QED
    BY <2>1, <2>2
<1> DEFINE after == CHOOSE g : Steps(g)
<1>11. Steps(after)
  BY <1>10
<1>12. ResolvePending(p) = after[N]
  BY Zenon DEF ResolvePending
<1> HIDE DEF after, Good
<1>13. after[0] = p /\ \A k \in 1 .. N : after[k] = Good(after[k - 1], k)
  <2>1. after = [k \in 0 .. N |-> IF k = 0 THEN p ELSE Good(after[k - 1], k)]
    BY <1>11
  <2>2. 0 \in 0 .. N /\ \A k \in 1 .. N : k \in 0 .. N /\ k # 0
    BY <1>1
  <2> HIDE DEF N
  <2> QED
    BY <2>1, <2>2
<1>14. Resolved(p, after[N], ls, R, N)
  <2>1. \A k \in 0 .. N : Resolved(p, after[k], ls, R, k)
    BY <1>13, ResolvesInTurn DEF Good
  <2> QED
    BY <1>1, <2>1
<1> QED
  BY <1>12, <1>14

(* What q finds in its turns is what p finds. *)
AlikeOpen(p, q) ==
    /\ DOMAIN OpenTurns(q) = DOMAIN OpenTurns(p) /\ q.window = p.window /\ q.errors = p.errors
    /\ \A t \in DOMAIN OpenTurns(p) :
          /\ OpenTurns(q)[t].index = OpenTurns(p)[t].index /\ OpenTurns(q)[t].ended = OpenTurns(p)[t].ended
          /\ OpenTurns(q)[t].tokens = OpenTurns(p)[t].tokens
          /\ OpenTurns(q)[t].invocations = OpenTurns(p)[t].invocations
          /\ OpenTurns(q)[t].calls = OpenTurns(p)[t].calls

(* Turns with the same calls, numbers, times and costs are kept alike. *)
LEMMA AlikeKeeps ==
    ASSUME NEW p, NEW q, NEW ls, AlikeOpen(p, q), Marked(p, ls), Numbered(p)
    PROVE  Marked(q, ls) /\ Numbered(q) /\ Spent(q) = Spent(p)
<1>1. Marked(q, ls)
  <2> DEFINE T == OpenTurns(p)
             U == OpenTurns(q)
  <2>1. DOMAIN U = DOMAIN T /\ \A t \in DOMAIN T : U[t].calls = T[t].calls
    BY DEF AlikeOpen
  <2> HIDE DEF T, U
  <2>2. \A t \in DOMAIN T : \A i \in DOMAIN T[t].calls :
           LET call == T[t].calls[i]
           IN \/ call.raw = <<>> /\ call.status = "pending"
              \/ /\ call.raw \in ResultsRead(ls) /\ call.status # "pending"
                 /\ UseOf(ls, call.raw) \in {"", call.use}
    BY DEF Marked, T
  <2>3. \A t \in DOMAIN U : \A i \in DOMAIN U[t].calls :
           LET call == U[t].calls[i]
           IN \/ call.raw = <<>> /\ call.status = "pending"
              \/ /\ call.raw \in ResultsRead(ls) /\ call.status # "pending"
                 /\ UseOf(ls, call.raw) \in {"", call.use}
    BY <2>1, <2>2, Zenon
  <2> QED
    BY <2>3 DEF Marked, U
<1>2. Numbered(q)
  BY DEF AlikeOpen, Numbered
<1>3. Spent(q) = Spent(p)
  BY DEF AlikeOpen, Spent
<1> QED
  BY <1>1, <1>2, <1>3

(* The status a turn ends with. *)
LEMMA StatusType ==
    ASSUME NEW t \in TurnType PROVE ResolveTurnStatus(t) \in {"unknown", "success", "failed"}
<1>1. t.status \in {"unknown", "success", "failed"}
  BY DEF TurnType
<1>2. StatusForTurn(t) \in {"unknown", "success", "failed"}
  BY DEF StatusForTurn
<1> QED
  BY <1>1, <1>2 DEF ResolveTurnStatus

(* The turn is closed: every result that waited is resolved. *)
LEMMA FinishKeeps ==
    ASSUME NEW p, NEW ls, NEW R, Resolvable(p, ls, R), NEW f, f = ClaudeFinish(p)
    PROVE  Kept(f, ls) /\ Accounts(f, R, 0) /\ Frame(p, f) /\ f.current = None
<1> DEFINE q == ResolvePending(p)
           N == Len(p.current.pending)
           t == q.current.turn
           u == [t EXCEPT !.status = ResolveTurnStatus(t), !.components = FromTools(t.calls)]
<1>1. /\ Kept(q, ls) /\ Accounts(q, R, N) /\ Frame(p, q)
      /\ q.current # None /\ q.current.pending = p.current.pending
  BY ResolvePendingIs DEF Resolved
<1>2. f = [q EXCEPT !.turns = Append(@, u), !.current = None]
  BY DEF ClaudeFinish
<1>3. p.current.pending \in Seq(ResultType) /\ N \in Nat /\ DOMAIN p.current.pending = 1 .. N
  BY ResolvableFields
<1> HIDE DEF q, N
<1>4. q \in ClaudeType /\ t \in TurnType /\ Marked(q, ls) /\ Numbered(q)
  BY <1>1, ClaudeFields DEF Kept
<1>5. /\ u \in TurnType /\ u.index = t.index /\ u.ended = t.ended /\ u.tokens = t.tokens
      /\ u.invocations = t.invocations /\ u.calls = t.calls
  <2>1. ResolveTurnStatus(t) \in {"unknown", "success", "failed"}
    BY <1>4, StatusType
  <2>2. t.calls \in Seq(CallType) /\ FromTools(t.calls) \in Components
    BY <1>4, TurnFields DEF Components
  <2> HIDE DEF t
  <2> QED
    BY <1>4, <2>1, <2>2 DEF TurnType
<1> HIDE DEF u
<1>6. /\ f \in ClaudeType /\ f.current = None /\ f.turns = Append(q.turns, u) /\ f.errors = q.errors
      /\ f.window = q.window /\ f.seenMsg = q.seenMsg
      /\ f.completions = q.completions /\ f.isSubagent = q.isSubagent
      /\ f.aiTitle = q.aiTitle /\ f.customTitle = q.customTitle
  <2>1. q.turns \in Seq(TurnType) /\ Append(q.turns, u) \in Seq(TurnType)
    BY <1>4, <1>5, ClaudeFields
  <2>2. f \in ClaudeType
    BY <1>2, <1>4, <2>1 DEF ClaudeType
  <2> QED
    BY <1>2, <1>4, <2>2, ClaudeFields
<1>7. AlikeOpen(q, f)
  <2>1. OpenTurns(f) = Append(q.turns, u) /\ OpenTurns(q) = Append(q.turns, t) /\ q.turns \in Seq(TurnType)
    BY <1>1, <1>4, <1>6, ClaudeFields DEF OpenTurns
  <2>2. \A i \in 1 .. Len(q.turns) + 1 :
          \/ i = Len(q.turns) + 1 /\ OpenTurns(f)[i] = u /\ OpenTurns(q)[i] = t
          \/ OpenTurns(f)[i] = OpenTurns(q)[i]
    BY <2>1
  <2>3. DOMAIN OpenTurns(q) = 1 .. Len(q.turns) + 1 /\ DOMAIN OpenTurns(f) = 1 .. Len(q.turns) + 1
    BY <2>1
  <2> HIDE DEF t
  <2> QED
    BY <1>5, <1>6, <2>2, <2>3 DEF AlikeOpen
<1>8. Marked(f, ls) /\ Numbered(f) /\ Spent(f) = Spent(q)
  BY <1>4, <1>7, AlikeKeeps
<1>9. Waiting(f) = <<>> /\ Waiting(q) = p.current.pending
  BY <1>1, <1>6 DEF Waiting
<1>10. Kept(f, ls)
  <2>1. WaitsFor(f, ls)
    BY <1>9 DEF WaitsFor
  <2>2. Uses(f)
    BY <1>6 DEF Uses
  <2> QED
    BY <1>6, <1>8, <2>1, <2>2 DEF Kept
<1>11. Frame(p, f)
  <2>1. Frame(q, f)
    BY <1>6, <1>8 DEF Frame
  <2> QED
    BY <1>1, <2>1, FrameTransitive
<1>12. ASSUME NEW x \in Nat \X Nat PROVE Places(f, x, 0) = Places(q, x, N)
  <2>1. \A o \in Int \X Nat : ~(o[2] \in DOMAIN Waiting(f)) /\ ~(o[2] \in DOMAIN Waiting(q) /\ o[2] > N)
    BY <1>3, <1>9
  <2>2. \A o \in Int \X Nat : o \in Places(f, x, 0) <=> o \in Places(q, x, N)
    BY <1>6, <1>7, <2>1 DEF Places, AlikeOpen
  <2>3. Places(f, x, 0) \subseteq Int \X Nat /\ Places(q, x, N) \subseteq Int \X Nat
    BY DEF Places
  <2> QED
    BY <2>2, <2>3
<1>13. Accounts(f, R, 0)
  BY <1>1, <1>12 DEF Accounts
<1> QED
  BY <1>6, <1>10, <1>11, <1>13

-----------------------------------------------------------------------------
(* One more line: its results and its cost *)

(* What a line more says. m is l with the line e, its n-th. *)
Grown(l, e, m, n) == l \in Seq(ClaudeLines) /\ e \in ClaudeLines /\ m = Append(l, e) /\ n = Len(l) + 1

(* What follows from it of the lines. *)
Grows(l, e, m, n) ==
           /\ l \in Seq(ClaudeLines) /\ m \in Seq(ClaudeLines) /\ e \in ClaudeLines
           /\ n \in Nat /\ n > 0 /\ n \notin DOMAIN l /\ DOMAIN m = DOMAIN l \cup {n} /\ m[n] = e
           /\ \A i \in DOMAIN l : m[i] = l[i] /\ i \in Nat /\ i < n
           /\ DOMAIN l = 1 .. n - 1 /\ DOMAIN m = 1 .. n /\ Len(l) = n - 1 /\ Len(m) = n

(* One more line leaves the earlier ones as they were. *)
LEMMA GrownIs == \A l, e, m, n : Grown(l, e, m, n) => Grows(l, e, m, n)
BY DEF Grown, Grows

(* The new line is one of its type. *)
LEMMA OfGrows ==
    ASSUME NEW l, NEW e, NEW m, NEW n, Grown(l, e, m, n), NEW type
    PROVE  Of(m, type) = Of(l, type) \cup (IF e.type = type THEN {n} ELSE {})
<1>1. Grows(l, e, m, n)
  BY GrownIs, Zenon
<1>2.  DOMAIN m = DOMAIN l \cup {n} /\ m[n] = e
           /\ \A i \in DOMAIN l : m[i] = l[i] /\ i \in Nat /\ i < n
  BY <1>1, Zenon DEF Grows
<1>3. n \in Nat
  BY <1>1, Zenon DEF Grows
<1>4. \A i \in DOMAIN m : i \in Of(m, type) <=> (IF i = n THEN e.type = type ELSE i \in Of(l, type))
  BY <1>2, <1>3 DEF Of
<1> QED
  BY <1>2, <1>4 DEF Of

(* The results of the new line are new. *)
LEMMA ResultsGrow ==
    ASSUME NEW l, NEW e, NEW m, NEW n, Grown(l, e, m, n)
    PROVE  /\ ResultsRead(m) = ResultsRead(l) \cup (IF e.type = "user" THEN OfLine(n, Len(e.results)) ELSE {})
           /\ \A r \in ResultsRead(l) : UseOf(m, r) = UseOf(l, r)
           /\ \A k : <<n, k>> \notin ResultsRead(l)
<1>0. Grows(l, e, m, n)
  BY GrownIs, Zenon
<1>1. \A i \in Of(l, "user") : i \in DOMAIN l /\ m[i] = l[i] /\ i # n
  BY <1>0 DEF Of, Grows
<1>2. Of(m, "user") = Of(l, "user") \cup (IF e.type = "user" THEN {n} ELSE {}) /\ m[n] = e
  BY OfGrows, <1>0 DEF Grows
<1>3. \A r \in ResultsRead(l) : \E i \in Of(l, "user") : \E k \in DOMAIN l[i].results : r = <<i, k>>
  BY DEF ResultsRead
<1>4. e.type = "user" => {<<n, k>> : k \in DOMAIN e.results} = OfLine(n, Len(e.results))
  <2> SUFFICES ASSUME e.type = "user" PROVE {<<n, k>> : k \in DOMAIN e.results} = OfLine(n, Len(e.results))
    OBVIOUS
  <2>1. e \in ClaudeLine
    <3>1. e \in ClaudeLines /\ Unreadable.type # "user"
      BY <1>0 DEF Grows, Unreadable
    <3> QED
      BY <3>1, LineTypes
  <2>2. DOMAIN e.results = 1 .. Len(e.results)
    BY <2>1, LineFields
  <2> QED
    BY <2>2 DEF OfLine
<1> DEFINE At(s, i) == {<<i, k>> : k \in DOMAIN s[i].results}
<1>5. ResultsRead(m) = UNION {At(m, i) : i \in Of(m, "user")} /\ ResultsRead(l) = UNION {At(l, i) : i \in Of(l, "user")}
  BY DEF ResultsRead
<1>6. \A i \in Of(l, "user") : At(m, i) = At(l, i)
  BY <1>1
<1>7. e.type = "user" => At(m, n) = OfLine(n, Len(e.results))
  BY <1>2, <1>4
<1> HIDE DEF At
<1>8. ResultsRead(m) = ResultsRead(l) \cup (IF e.type = "user" THEN OfLine(n, Len(e.results)) ELSE {})
  BY <1>2, <1>5, <1>6, <1>7
<1>9. \A r \in ResultsRead(l) : UseOf(m, r) = UseOf(l, r)
  BY <1>1, <1>3 DEF UseOf
<1>10. \A k : <<n, k>> \notin ResultsRead(l)
  BY <1>1, <1>3
<1> QED
  BY <1>8, <1>9, <1>10

(* A line to come disturbs no turn already read. *)
LEMMA KeptGrows ==
    ASSUME NEW l, NEW e, NEW m, NEW n, Grown(l, e, m, n), NEW p, Kept(p, l)
    PROVE  Kept(p, m)
<1>0. Grows(l, e, m, n)
  BY GrownIs, Zenon
<1>1. \A r \in ResultsRead(l) : r \in ResultsRead(m) /\ UseOf(m, r) = UseOf(l, r)
  BY ResultsGrow
<1>2. Marked(p, m)
  BY <1>1 DEF Kept, Marked
<1>3. WaitsFor(p, m)
  BY <1>1 DEF Kept, WaitsFor
<1> QED
  BY <1>2, <1>3 DEF Kept

(* The line e after the lines l is the first of its message. *)
Charged(l, e) == e.type = "assistant" /\ (e.id = "" \/ \A i \in Of(l, "assistant") : l[i].id # e.id)

(* The new line is billed when it is the first of its message. *)
LEMMA BilledGrows ==
    ASSUME NEW l, NEW e, NEW m, NEW n, Grown(l, e, m, n)
    PROVE  Billed(m) = Billed(l) \cup (IF Charged(l, e) THEN {n} ELSE {})
<1>0. Grows(l, e, m, n)
  BY GrownIs, Zenon
<1>1. \A i \in Of(l, "assistant") : i \in DOMAIN l /\ m[i] = l[i] /\ i \in Nat /\ i < n /\ i <= n
  BY <1>0 DEF Of, Grows
<1>2. Of(m, "assistant") = Of(l, "assistant") \cup (IF e.type = "assistant" THEN {n} ELSE {}) /\ m[n] = e /\ n \in Nat /\ n <= n
  BY OfGrows, <1>0 DEF Grows
<1>3. \A i \in Of(l, "assistant") : ~(n <= i)
  BY <1>1, <1>2
<1>4. \A i \in Of(l, "assistant") : i \in Billed(m) <=> i \in Billed(l)
  BY <1>1, <1>2 DEF Billed
<1>5. e.type = "assistant" => (n \in Billed(m) <=> (e.id = "" \/ \A i \in Of(l, "assistant") : l[i].id # e.id))
  BY <1>1, <1>2, <1>3 DEF Billed
<1>6. Billed(m) \subseteq Of(m, "assistant") /\ Billed(l) \subseteq Of(l, "assistant")
  BY DEF Billed
<1> QED
  BY <1>2, <1>4, <1>5, <1>6 DEF Charged

(* What the lines of a transcript cost. *)
Bills(ls) == [n \in DOMAIN ls |-> IF n \in Billed(ls) THEN Usage(ls[n].usage) ELSE NoTokens]

(* What is written for long is part of what is written. *)
LEMMA UsageType ==
    ASSUME NEW u \in Tokens PROVE Usage(u) \in Tokens /\ Usage(u).cacheWriteLong <= Usage(u).cacheWrite
<1>1. /\ u.cacheWriteLong \in Nat /\ u.cacheWrite \in Nat
  BY TokenFields DEF Tokens
<1> DEFINE x == IF u.cacheWriteLong < u.cacheWrite THEN u.cacheWriteLong ELSE u.cacheWrite
<1>2. x \in Nat /\ x <= u.cacheWrite
  BY <1>1
<1>3. Usage(u) = [u EXCEPT !.cacheWriteLong = x]
  BY DEF Usage
<1> HIDE DEF x
<1>4. Usage(u) \in Tokens /\ Usage(u).cacheWriteLong = x /\ Usage(u).cacheWrite = u.cacheWrite
  BY <1>2, <1>3, TokenFields DEF Tokens
<1> QED
  BY <1>2, <1>4

(* Each bill is a count whose long-lived part is no more than the whole. *)
LEMMA BillsType ==
    ASSUME NEW ls \in Seq(ClaudeLines)
    PROVE  /\ Bills(ls) \in Seq(Tokens) /\ Len(Bills(ls)) = Len(ls)
           /\ \A i \in 1 .. Len(Bills(ls)) : Bills(ls)[i].cacheWriteLong <= Bills(ls)[i].cacheWrite
<1>1. \A n \in DOMAIN ls : ls[n] \in ClaudeLines
  OBVIOUS
<1>2. ASSUME NEW n \in DOMAIN ls
      PROVE  Bills(ls)[n] \in Tokens /\ Bills(ls)[n].cacheWriteLong <= Bills(ls)[n].cacheWrite
  <2>1. CASE n \in Billed(ls)
    <3>1. ls[n].type = "assistant"
      BY <2>1 DEF Billed, Of
    <3>2. ls[n] \in ClaudeLine
      BY <1>1, <3>1, LineTypes DEF Unreadable
    <3>3. ls[n].usage \in Tokens
      BY <3>2, LineFields
    <3>4. Bills(ls)[n] = Usage(ls[n].usage)
      BY <2>1 DEF Bills
    <3> QED
      BY <3>3, <3>4, UsageType
  <2>2. CASE n \notin Billed(ls)
    <3>1. Bills(ls)[n] = NoTokens
      BY <2>2 DEF Bills
    <3>2. NoTokens.cacheWriteLong <= NoTokens.cacheWrite
      BY DEF NoTokens
    <3> QED
      BY <3>1, <3>2, NoTokensType
  <2> QED
    BY <2>1, <2>2
<1>3. DOMAIN Bills(ls) = 1 .. Len(ls) /\ DOMAIN ls = 1 .. Len(ls) /\ Len(ls) \in Nat /\ Bills(ls) = [n \in 1 .. Len(ls) |-> Bills(ls)[n]]
  BY DEF Bills
<1>4. Bills(ls) \in Seq(Tokens) /\ Len(Bills(ls)) = Len(ls)
  BY <1>2, <1>3
<1> QED
  BY <1>2, <1>3, <1>4

(* What the line e costs after the lines l. *)
Cost(l, e) ==
    IF Charged(l, e) THEN Usage(e.usage) ELSE NoTokens

(* The new line adds its cost. *)
LEMMA BillsGrow ==
    ASSUME NEW l, NEW e, NEW m, NEW n, Grown(l, e, m, n)
    PROVE  SumTokens(Bills(m)) = AddTokens(SumTokens(Bills(l)), Cost(l, e)) /\ Cost(l, e) \in Tokens
<1>0. Grows(l, e, m, n)
  BY GrownIs, Zenon
<1>1. /\ l \in Seq(ClaudeLines) /\ m \in Seq(ClaudeLines)
      /\ n \in Nat /\ n \notin DOMAIN l /\ DOMAIN m = DOMAIN l \cup {n} /\ m[n] = e
      /\ \A i \in DOMAIN l : m[i] = l[i] /\ DOMAIN l = 1 .. n - 1 /\ DOMAIN m = 1 .. n /\ Len(l) = n - 1 /\ Len(m) = n
  BY <1>0 DEF Grows
<1>b. Billed(m) = Billed(l) \cup (IF Charged(l, e) THEN {n} ELSE {})
  BY BilledGrows, Zenon
<1>2. \A i \in DOMAIN l : i \in Billed(m) <=> i \in Billed(l)
  BY <1>1, <1>b
<1>3. n \in Billed(m) <=> Charged(l, e)
  <2>1. n \notin Billed(l)
    BY <1>1 DEF Billed, Of
  <2> QED
    BY <2>1, <1>b
<1>4. Bills(l) \in Seq(Tokens) /\ Len(Bills(l)) = n - 1 /\ Bills(m) \in Seq(Tokens) /\ Len(Bills(m)) = n
  BY <1>1, BillsType, <1>0 DEF Grows
<1>5. \A i \in 1 .. n - 1 : Bills(m)[i] = Bills(l)[i]
  <2>1. DOMAIN l = 1 .. n - 1 /\ \A i \in DOMAIN l : i \in DOMAIN m /\ m[i] = l[i]
    BY <1>0 DEF Grows
  <2> QED
    BY <1>2, <2>1 DEF Bills
<1>6. Bills(m)[n] = Cost(l, e)
  BY <1>1, <1>3 DEF Bills, Cost
<1>7. Cost(l, e) \in Tokens
  <2>1. n \in 1 .. Len(Bills(m))
    BY <1>1, <1>4, <1>0 DEF Grows
  <2> QED
    BY <1>4, <1>6, <2>1
<1>8. Bills(m) = Append(Bills(l), Cost(l, e))
  <2> DEFINE s == Bills(l)
             u == Bills(m)
             x == Cost(l, e)
  <2> HIDE DEF s, u, x
  <2>1. Append(s, x) \in Seq(Tokens) /\ Len(Append(s, x)) = n /\ Append(s, x)[n] = x /\ \A i \in 1 .. n - 1 : Append(s, x)[i] = s[i]
    BY <1>1, <1>4, <1>7 DEF s, x, u
  <2>2. \A i \in 1 .. n : i = n \/ i \in 1 .. n - 1
    BY <1>1
  <2>3. \A i \in 1 .. n : u[i] = Append(s, x)[i]
    BY <1>5, <1>6, <2>1, <2>2 DEF s, u, x
  <2>4. \A z \in Seq(Tokens) : Len(z) = n => z = [i \in 1 .. n |-> z[i]]
    OBVIOUS
  <2>5. u = [i \in 1 .. n |-> u[i]] /\ Append(s, x) = [i \in 1 .. n |-> Append(s, x)[i]]
    BY <1>4, <2>1, <2>4 DEF u
  <2> QED
    BY <2>3, <2>5 DEF s, u, x
<1> QED
  BY <1>4, <1>7, <1>8, SumTokensAppend

-----------------------------------------------------------------------------
(* One more line: its notice and its title; turns begin and end *)

(* The line e says what became of the task u. *)
Tells(e, u) ==
    e.type # "unreadable" /\ IsNotice(NoticeIn(e)) /\ u # "" /\ Notices[Head(NoticeIn(e))].use = u

(* The last notice of a task is the new line, when it tells of the task. *)
LEMMA NoticesGrow ==
    ASSUME NEW l, NEW e, NEW m, NEW n, Grown(l, e, m, n), NEW u
    PROVE  /\ NoticesOf(m, u) = NoticesOf(l, u) \cup (IF Tells(e, u) THEN {n} ELSE {})
           /\ NoticesOf(l, u) \subseteq 1 .. n - 1
           /\ Tells(e, u) => LastNotice(m, u) = Notices[Head(NoticeIn(e))].status
           /\ ~Tells(e, u) /\ NoticesOf(l, u) # {} => LastNotice(m, u) = LastNotice(l, u)
<1>0. Grows(l, e, m, n)
  BY GrownIs, Zenon
<1>1. DOMAIN m = DOMAIN l \cup {n} /\ m[n] = e /\ n \notin DOMAIN l /\ \A i \in DOMAIN l : m[i] = l[i]
  BY <1>0, Zenon DEF Grows
<1>2. DOMAIN l = 1 .. n - 1 /\ n \in Nat /\ n > 0
  BY <1>0, Zenon DEF Grows
<1>3. \A i \in DOMAIN m : i \in NoticesOf(m, u) <=> Tells(m[i], u)
  BY DEF NoticesOf, Tells, Of
<1>4. \A i \in DOMAIN l : i \in NoticesOf(l, u) <=> Tells(l[i], u)
  BY DEF NoticesOf, Tells, Of
<1>5. NoticesOf(m, u) \subseteq DOMAIN m /\ NoticesOf(l, u) \subseteq DOMAIN l
  BY DEF NoticesOf
<1>6. NoticesOf(m, u) = NoticesOf(l, u) \cup (IF Tells(e, u) THEN {n} ELSE {})
  BY <1>1, <1>3, <1>4, <1>5
<1>7. NoticesOf(l, u) \subseteq 1 .. n - 1
  BY <1>2, <1>5
<1> DEFINE S == NoticesOf(m, u)
<1>8. S \in SUBSET (1 .. n)
  <2>1. \A i \in 1 .. n - 1 : i \in 1 .. n
    BY <1>2
  <2>2. n \in 1 .. n
    BY <1>2
  <2> QED
    BY <1>6, <1>7, <2>1, <2>2
<1>9. ASSUME Tells(e, u) PROVE Max(S) = n
  <2>1. n \in S
    BY <1>6, <1>9
  <2>2. \A y \in S : n >= y
    BY <1>2, <1>8
  <2> HIDE DEF S
  <2> QED
    BY <1>2, <1>8, <2>1, <2>2, MaxIs
<1>10. Tells(e, u) => LastNotice(m, u) = Notices[Head(NoticeIn(e))].status
  BY <1>1, <1>9 DEF LastNotice
<1>11. ASSUME ~Tells(e, u), NoticesOf(l, u) # {} PROVE LastNotice(m, u) = LastNotice(l, u)
  <2>1. NoticesOf(m, u) = NoticesOf(l, u)
    BY <1>6, <1>11
  <2>2. Max(NoticesOf(l, u)) \in DOMAIN l
    <3>1. n - 1 \in Nat /\ NoticesOf(l, u) \in SUBSET (1 .. n - 1)
      BY <1>2, <1>7
    <3>2. Max(NoticesOf(l, u)) \in NoticesOf(l, u)
      BY <1>11, <3>1, GreatestOf
    <3> QED
      BY <1>5, <3>2
  <2> QED
    BY <1>1, <2>1, <2>2 DEF LastNotice
<1> QED
  BY <1>6, <1>7, <1>10, <1>11

(* The last title is the new line, when it has one. *)
LEMMA TitlesGrow ==
    ASSUME NEW l, NEW e, NEW m, NEW n, Grown(l, e, m, n), NEW type
    PROVE  LastTitle(m, type) = IF e.type = type /\ e.title # "" THEN e.title ELSE LastTitle(l, type)
<1>0. Grows(l, e, m, n)
  BY GrownIs, Zenon
<1>1. DOMAIN m = DOMAIN l \cup {n} /\ m[n] = e /\ n \notin DOMAIN l /\ \A i \in DOMAIN l : m[i] = l[i]
  BY <1>0, Zenon DEF Grows
<1>2. DOMAIN l = 1 .. n - 1 /\ n \in Nat /\ n > 0
  BY <1>0, Zenon DEF Grows
<1> DEFINE Titled(s) == {i \in Of(s, type) : s[i].title # ""}
<1>3. \A s : LastTitle(s, type) = IF Titled(s) = {} THEN "" ELSE s[Max(Titled(s))].title
  BY DEF LastTitle
<1>4. Titled(m) = Titled(l) \cup (IF e.type = type /\ e.title # "" THEN {n} ELSE {})
  <2>1. \A i \in DOMAIN m : i \in Titled(m) <=> m[i].type = type /\ m[i].title # ""
    BY DEF Of
  <2>2. \A i \in DOMAIN l : i \in Titled(l) <=> l[i].type = type /\ l[i].title # ""
    BY DEF Of
  <2>3. Titled(m) \subseteq DOMAIN m /\ Titled(l) \subseteq DOMAIN l
    BY DEF Of
  <2> HIDE DEF Titled
  <2>4. \A i \in DOMAIN l : i \in Titled(m) <=> i \in Titled(l)
    BY <1>1, <2>1, <2>2
  <2>5. n \in Titled(m) <=> e.type = type /\ e.title # ""
    BY <1>1, <2>1
  <2> QED
    BY <1>1, <2>3, <2>4, <2>5
<1>5. Titled(l) \subseteq DOMAIN l
  BY DEF Of
<1> HIDE DEF Titled
<1>6. CASE e.type = type /\ e.title # ""
  <2>1. \A i \in 1 .. n - 1 : i \in 1 .. n /\ n >= i
    BY <1>2
  <2>2. n \in 1 .. n /\ n >= n
    BY <1>2
  <2>3. Titled(m) \in SUBSET (1 .. n) /\ n \in Titled(m) /\ \A y \in Titled(m) : n >= y
    BY <1>2, <1>4, <1>5, <1>6, <2>1, <2>2
  <2>4. Max(Titled(m)) = n
    BY <1>2, <2>3, MaxIs
  <2> QED
    BY <1>1, <1>3, <1>6, <2>3, <2>4
<1>7. CASE ~(e.type = type /\ e.title # "")
  <2>1. Titled(m) = Titled(l)
    BY <1>4, <1>7
  <2>2. Titled(l) # {} => Max(Titled(l)) \in DOMAIN l
    <3>1. n - 1 \in Nat /\ Titled(l) \in SUBSET (1 .. n - 1)
      BY <1>2, <1>5
    <3> SUFFICES ASSUME Titled(l) # {} PROVE Max(Titled(l)) \in DOMAIN l
      OBVIOUS
    <3>2. Max(Titled(l)) \in Titled(l)
      BY <3>1, GreatestOf
    <3> QED
      BY <1>5, <3>2
  <2> QED
    BY <1>1, <1>3, <1>7, <2>1, <2>2
<1> QED
  BY <1>6, <1>7

(* q is p but for what is said of the session as a whole, its window no shorter. *)
Aside(p, q) ==
    /\ p \in ClaudeType /\ q \in ClaudeType /\ q.turns = p.turns /\ q.current = p.current /\ q.errors = p.errors
    /\ q.window.ended >= p.window.ended

(* A change beside the turns leaves them kept. *)
LEMMA AsideKeeps ==
    ASSUME NEW p, NEW q, NEW ls, NEW R, Aside(p, q), Kept(p, ls), Accounts(p, R, 0)
    PROVE  Kept(q, ls) /\ Accounts(q, R, 0) /\ Spent(q) = Spent(p)
<1>1. /\ OpenTurns(q) = OpenTurns(p) /\ Waiting(q) = Waiting(p) /\ q.errors = p.errors
      /\ q \in ClaudeType /\ q.current = p.current
  BY DEF Aside, OpenTurns, Waiting
<1>2. Marked(q, ls)
  BY <1>1 DEF Kept, Marked
<1>3. WaitsFor(q, ls)
  BY <1>1 DEF Kept, WaitsFor
<1>4. Uses(q)
  BY <1>1 DEF Kept, Uses
<1>5. Numbered(q)
  <2>1. p \in ClaudeType /\ q \in ClaudeType /\ q.window.ended >= p.window.ended
    BY DEF Aside
  <2>2. p.window.ended \in Nat /\ q.window.ended \in Nat /\ OpenTurns(p) \in Seq(TurnType)
    BY <2>1, ClaudeFields
  <2> SUFFICES ASSUME NEW t \in DOMAIN OpenTurns(p)
               PROVE  /\ OpenTurns(p)[t].index = t /\ OpenTurns(p)[t].ended <= q.window.ended
                      /\ OpenTurns(p)[t].tokens = TokensOf(OpenTurns(p)[t].invocations)
    BY <1>1 DEF Numbered
  <2>3. /\ OpenTurns(p)[t].index = t /\ OpenTurns(p)[t].ended <= p.window.ended
        /\ OpenTurns(p)[t].tokens = TokensOf(OpenTurns(p)[t].invocations)
    BY DEF Kept, Numbered
  <2>4. OpenTurns(p)[t].ended \in Nat
    <3>1. OpenTurns(p)[t] \in TurnType
      BY <2>2
    <3> QED
      BY <3>1, TurnFields
  <2> DEFINE a == OpenTurns(p)[t].ended
             b == p.window.ended
             c == q.window.ended
  <2>5. a \in Nat /\ b \in Nat /\ c \in Nat /\ a <= b /\ c >= b
    BY <2>1, <2>2, <2>3, <2>4
  <2>6. a <= c
    <3> HIDE DEF a, b, c
    <3> QED
      BY <2>5
  <2> QED
    BY <2>3, <2>6
<1>6. \A x : Places(q, x, 0) = Places(p, x, 0)
  BY <1>1 DEF Places
<1>7. Accounts(q, R, 0)
  BY <1>6 DEF Accounts
<1>8. Spent(q) = Spent(p)
  BY <1>1 DEF Spent
<1> QED
  BY <1>1, <1>2, <1>3, <1>4, <1>5, <1>7, <1>8 DEF Kept

(* Ending the open turn, if there is one, loses no result. *)
LEMMA FlushKeeps ==
    ASSUME NEW p, NEW ls \in Seq(ClaudeLines), NEW R, Kept(p, ls), Accounts(p, R, 0), NEW f, f = ClaudeFlush(p)
    PROVE  Kept(f, ls) /\ Accounts(f, R, 0) /\ Frame(p, f) /\ f.current = None
<1>1. CASE p.current = None
  BY <1>1 DEF ClaudeFlush, Frame
<1>2. CASE p.current # None
  <2>1. Resolvable(p, ls, R)
    BY <1>2 DEF Resolvable
  <2>2. f = ClaudeFinish(p)
    BY <1>2 DEF ClaudeFlush
  <2> QED
    BY <2>1, <2>2, FinishKeeps
<1> QED
  BY <1>1, <1>2

(* A turn begins. *)
Begun(p, user, when) == [p EXCEPT !.current = ClaudeTurnBuilder(Len(p.turns) + 1, user, when)]

(* A turn begins empty. *)
LEMMA FreshBuilder ==
    ASSUME NEW n \in Nat, NEW user \in Seq(STRING), NEW when \in Nat
    PROVE  LET b == ClaudeTurnBuilder(n, user, when)
           IN /\ b \in BuilderType /\ b.pending = <<>> /\ b.byUse = <<>>
              /\ b.turn.index = n /\ b.turn.ended = when /\ b.turn.tokens = NoTokens
              /\ b.turn.invocations = <<>> /\ b.turn.calls = <<>>
<1> DEFINE a == Turn(n, when)
           t == [a EXCEPT !.user = user]
           b == ClaudeTurnBuilder(n, user, when)
<1>a. a = [index |-> n, project |-> "", user |-> <<>>, final |-> <<>>, started |-> when, ended |-> when,
           invocations |-> <<>>, calls |-> <<>>, status |-> "unknown", tokens |-> NoTokens, components |-> {}]
  BY DEF Turn
<1>b. b = [turn |-> t, byUse |-> <<>>, pending |-> <<>>]
  BY DEF ClaudeTurnBuilder
<1> HIDE DEF b
<1>1. a \in TurnType
  <2>1. <<>> \in Seq(STRING) /\ <<>> \in Seq(InvocationType) /\ <<>> \in Seq(CallType) /\ {} \in Components
    BY DEF Components
  <2> HIDE DEF a
  <2> QED
    BY <1>a, <2>1, NoTokensType DEF TurnType
<1>c. /\ a.index = n /\ a.ended = when /\ a.tokens = NoTokens /\ a.invocations = <<>> /\ a.calls = <<>>
  <2> HIDE DEF a
  <2>1. a.index = n /\ a.ended = when
    BY <1>a, Zenon
  <2>2. a.tokens = NoTokens
    BY <1>a, Zenon
  <2>3. a.invocations = <<>> /\ a.calls = <<>>
    BY <1>a, Zenon
  <2> QED
    BY <2>1, <2>2, <2>3
<1> HIDE DEF a
<1>2. t \in TurnType
  BY <1>1 DEF TurnType
<1>4. /\ t.index = n /\ t.ended = when /\ t.tokens = NoTokens /\ t.invocations = <<>> /\ t.calls = <<>>
  BY <1>1, <1>c DEF TurnType
<1> HIDE DEF t
<1>5. b \in BuilderType
  <2>1. <<>> \in Partial(STRING, Nat) /\ <<>> \in Seq(ResultType)
    BY NoMap
  <2> QED
    BY <1>2, <1>b, <2>1 DEF BuilderType
<1> QED
  BY <1>b, <1>4, <1>5 DEF b

(* A turn that begins is kept. *)
LEMMA BegunKeeps ==
    ASSUME NEW p, NEW ls, NEW R, Kept(p, ls), Accounts(p, R, 0), p.current = None,
           NEW user \in Seq(STRING), NEW when \in Nat, when <= p.window.ended,
           NEW q, q = Begun(p, user, when)
    PROVE  Kept(q, ls) /\ Accounts(q, R, 0) /\ Frame(p, q) /\ q.current # None
<1> DEFINE n == Len(p.turns)
           b == ClaudeTurnBuilder(n + 1, user, when)
<1>1. p \in ClaudeType /\ p.turns \in Seq(TurnType) /\ n \in Nat /\ OpenTurns(p) = p.turns /\ Waiting(p) = <<>>
  <2>1. p \in ClaudeType
    BY DEF Kept
  <2>2. p.turns \in Seq(TurnType)
    BY <2>1, ClaudeFields
  <2> QED
    BY <2>1, <2>2 DEF OpenTurns, Waiting
<1>2. /\ b \in BuilderType /\ b.pending = <<>> /\ b.byUse = <<>>
      /\ b.turn.index = n + 1 /\ b.turn.ended = when /\ b.turn.tokens = NoTokens
      /\ b.turn.invocations = <<>> /\ b.turn.calls = <<>>
  <2>1. n + 1 \in Nat
    BY <1>1
  <2> QED
    BY <2>1, FreshBuilder
<1>3. q = [p EXCEPT !.current = b]
  BY DEF Begun
<1> HIDE DEF b
<1>4. /\ q \in ClaudeType /\ q.current = b /\ q.turns = p.turns /\ q.errors = p.errors /\ q.window = p.window
      /\ q.seenMsg = p.seenMsg /\ q.completions = p.completions /\ q.isSubagent = p.isSubagent
      /\ q.aiTitle = p.aiTitle /\ q.customTitle = p.customTitle
  <2>1. q \in ClaudeType
    BY <1>1, <1>2, <1>3 DEF ClaudeType
  <2> QED
    BY <1>1, <1>3, <2>1, ClaudeFields
<1>5. q.current # None
  BY <1>2, <1>4, OpenIsBuilder
<1>6. /\ DOMAIN OpenTurns(q) = 1 .. n + 1 /\ DOMAIN OpenTurns(p) = 1 .. n
      /\ OpenTurns(q)[n + 1] = b.turn /\ \A t \in 1 .. n : OpenTurns(q)[t] = OpenTurns(p)[t]
      /\ Waiting(q) = <<>>
  BY <1>1, <1>2, <1>4, <1>5, OpenTurnsAre
<1>7. DOMAIN b.turn.calls = {} /\ DOMAIN Waiting(q) = {} /\ DOMAIN Waiting(p) = {} /\ DOMAIN b.byUse = {}
  BY <1>1, <1>2, <1>6
<1>8. \A t \in 1 .. n + 1 : t = n + 1 \/ t \in 1 .. n
  BY <1>1, UpToLast
<1>9. Marked(q, ls)
  <2> SUFFICES ASSUME NEW t \in DOMAIN OpenTurns(q), NEW k \in DOMAIN OpenTurns(q)[t].calls
               PROVE  LET call == OpenTurns(q)[t].calls[k]
                      IN \/ call.raw = <<>> /\ call.status = "pending"
                         \/ /\ call.raw \in ResultsRead(ls) /\ call.status # "pending"
                            /\ UseOf(ls, call.raw) \in {"", call.use}
    BY Zenon DEF Marked
  <2>1. t \in 1 .. n /\ OpenTurns(q)[t] = OpenTurns(p)[t]
    BY <1>6, <1>7, <1>8
  <2>2. t \in DOMAIN OpenTurns(p) /\ k \in DOMAIN OpenTurns(p)[t].calls
    BY <1>6, <2>1
  <2> QED
    BY <2>1, <2>2 DEF Kept, Marked
<1>10. WaitsFor(q, ls) /\ Uses(q)
  BY <1>4, <1>7 DEF WaitsFor, Uses
<1>11. Numbered(q)
  <2>1. TokensOf(<<>>) = NoTokens
    <3>1. [i \in DOMAIN <<>> |-> <<>>[i].tokens] = <<>>
      OBVIOUS
    <3> QED
      BY <3>1, SumTokensEmpty DEF TokensOf
  <2> SUFFICES ASSUME NEW t \in DOMAIN OpenTurns(q)
               PROVE  /\ OpenTurns(q)[t].index = t /\ OpenTurns(q)[t].ended <= q.window.ended
                      /\ OpenTurns(q)[t].tokens = TokensOf(OpenTurns(q)[t].invocations)
    BY Zenon DEF Numbered
  <2>2. CASE t = n + 1
    BY <1>2, <1>4, <1>6, <2>1, <2>2
  <2>3. CASE t \in 1 .. n
    BY <1>4, <1>6, <2>3 DEF Kept, Numbered
  <2> QED
    BY <1>6, <1>8, <2>2, <2>3
<1>12. ASSUME NEW x PROVE Places(q, x, 0) = Places(p, x, 0)
  <2>1. ASSUME NEW o \in Int \X Nat PROVE o \in Places(q, x, 0) <=> o \in Places(p, x, 0)
    <3>1. (o[1] \in DOMAIN OpenTurns(q) /\ o[2] \in DOMAIN OpenTurns(q)[o[1]].calls
             /\ OpenTurns(q)[o[1]].calls[o[2]].raw = x)
          <=> (o[1] \in DOMAIN OpenTurns(p) /\ o[2] \in DOMAIN OpenTurns(p)[o[1]].calls
                 /\ OpenTurns(p)[o[1]].calls[o[2]].raw = x)
      <4>1. CASE o[1] = n + 1
        <5>1. n + 1 \notin 1 .. n
          BY <1>1
        <5> QED
          BY <1>6, <1>7, <4>1, <5>1
      <4>2. CASE o[1] # n + 1
        <5>1. o[1] \in 1 .. n + 1 <=> o[1] \in 1 .. n
          BY <1>1, <4>2
        <5> QED
          BY <1>6, <5>1
      <4> QED
        BY <4>1, <4>2
    <3> QED
      BY <1>4, <1>7, <3>1 DEF Places
  <2>2. Places(q, x, 0) \subseteq Int \X Nat /\ Places(p, x, 0) \subseteq Int \X Nat
    BY DEF Places
  <2> QED
    BY <2>1, <2>2
<1>13. Accounts(q, R, 0)
  BY <1>12 DEF Accounts
<1>14. Frame(p, q)
  <2>1. Spent(p) \in Seq(Tokens) /\ Len(Spent(p)) = n
    BY <1>1, SpentType
  <2>2. Spent(q) \in Seq(Tokens) /\ Len(Spent(q)) = n + 1
    <3>1. Len(OpenTurns(q)) = n + 1
      <4>1. OpenTurns(q) \in Seq(TurnType)
        BY <1>4, ClaudeFields
      <4> QED
        BY <1>1, <1>6, <4>1
    <3> QED
      BY <1>4, <3>1, SpentType
  <2>3. Spent(q)[n + 1] = NoTokens /\ \A t \in 1 .. n : Spent(q)[t] = Spent(p)[t]
    <3>1. n + 1 \in 1 .. n + 1 /\ \A t \in 1 .. n : t \in 1 .. n + 1
      BY <1>1
    <3> QED
      BY <1>2, <1>6, <3>1 DEF Spent
  <2> DEFINE s == Spent(p)
             u == Spent(q)
  <2>4. u = Append(s, NoTokens)
    <3> HIDE DEF s, u, n
    <3>1. /\ Append(s, NoTokens) \in Seq(Tokens) /\ Len(Append(s, NoTokens)) = n + 1
          /\ Append(s, NoTokens)[n + 1] = NoTokens /\ \A i \in 1 .. n : Append(s, NoTokens)[i] = s[i]
      BY <2>1, NoTokensType DEF s
    <3>2. \A i \in 1 .. n + 1 : u[i] = Append(s, NoTokens)[i]
      BY <1>8, <2>3, <3>1 DEF s, u
    <3>3. \A z \in Seq(Tokens) : z = [i \in 1 .. Len(z) |-> z[i]]
      OBVIOUS
    <3>4. u = [i \in 1 .. n + 1 |-> u[i]] /\ Append(s, NoTokens) = [i \in 1 .. n + 1 |-> Append(s, NoTokens)[i]]
      BY <2>2, <3>1, <3>3 DEF u
    <3> QED
      BY <3>2, <3>4
  <2>5. SumTokens(Spent(q)) = SumTokens(Spent(p))
    <3>1. SumTokens(u) = AddTokens(SumTokens(s), NoTokens)
      BY <2>1, <2>4, NoTokensType, SumTokensAppend
    <3>2. SumTokens(s) \in Tokens
      BY <2>1, SumTokensType
    <3> QED
      BY <3>1, <3>2, AddNoTokens
  <2> QED
    BY <1>4, <2>5 DEF Frame
<1> QED
  BY <1>4, <1>5, <1>9, <1>10, <1>11, <1>13, <1>14 DEF Kept

-----------------------------------------------------------------------------
(* The results of a user line *)

(* The open turn lasts until when. *)
Lasted(p, when) == [p EXCEPT !.current.turn.ended = LaterTime(@, when)]

(* A later end of the open turn is within the session. *)
LEMMA LastedKeeps ==
    ASSUME NEW p, NEW ls, NEW R, Kept(p, ls), Accounts(p, R, 0), p.current # None,
           NEW when \in Nat, when <= p.window.ended, NEW q, q = Lasted(p, when)
    PROVE  Kept(q, ls) /\ Accounts(q, R, 0) /\ Frame(p, q) /\ q.current # None
<1> DEFINE n == Len(p.turns)
           b == p.current
           t == b.turn
           x == LaterTime(t.ended, when)
           u == [t EXCEPT !.ended = x]
           a == [b EXCEPT !.turn = u]
<1>1. /\ p \in ClaudeType /\ p.turns \in Seq(TurnType) /\ n \in Nat /\ b \in BuilderType /\ t \in TurnType
      /\ t.ended \in Nat
  <2>1. p \in ClaudeType
    BY DEF Kept
  <2>2. p.turns \in Seq(TurnType) /\ b \in BuilderType /\ t \in TurnType
    BY <2>1, ClaudeFields
  <2>3. t.ended \in Nat
    BY <2>2, TurnFields
  <2> QED
    BY <2>1, <2>2, <2>3
<1>2. /\ DOMAIN OpenTurns(p) = 1 .. n + 1
      /\ OpenTurns(p)[n + 1] = t /\ \A i \in 1 .. n : OpenTurns(p)[i] = p.turns[i]
      /\ Waiting(p) = b.pending
  BY <1>1, OpenTurnsAre
<1>3. x \in Nat /\ x \in {t.ended, when}
  BY <1>1, LaterTimeMax
<1>4. q = [p EXCEPT !.current = a]
  BY DEF Lasted
<1> HIDE DEF t, b
<1>5. /\ u \in TurnType /\ u.index = t.index /\ u.ended = x /\ u.tokens = t.tokens
      /\ u.invocations = t.invocations /\ u.calls = t.calls
  <2> HIDE DEF x
  <2> QED
    BY <1>1, <1>3 DEF TurnType
<1> HIDE DEF x, u
<1>6. a \in BuilderType /\ a.turn = u /\ a.pending = b.pending /\ a.byUse = b.byUse
  BY <1>1, <1>5 DEF BuilderType
<1> HIDE DEF a
<1>7. /\ q \in ClaudeType /\ q.current = a /\ q.turns = p.turns /\ q.errors = p.errors /\ q.window = p.window
      /\ q.seenMsg = p.seenMsg /\ q.completions = p.completions /\ q.isSubagent = p.isSubagent
      /\ q.aiTitle = p.aiTitle /\ q.customTitle = p.customTitle
  <2>1. q \in ClaudeType
    BY <1>1, <1>4, <1>6 DEF ClaudeType
  <2> QED
    BY <1>1, <1>4, <2>1, ClaudeFields
<1>8. q.current # None
  BY <1>6, <1>7, OpenIsBuilder
<1>9. /\ DOMAIN OpenTurns(q) = 1 .. n + 1
      /\ OpenTurns(q)[n + 1] = u /\ \A i \in 1 .. n : OpenTurns(q)[i] = OpenTurns(p)[i]
      /\ Waiting(q) = Waiting(p)
  BY <1>2, <1>6, <1>7, <1>8, OpenTurnsAre
<1>10. \A i \in 1 .. n + 1 : i = n + 1 \/ i \in 1 .. n
  BY <1>1, UpToLast
<1>11. \A i \in 1 .. n + 1 :
          /\ OpenTurns(q)[i].calls = OpenTurns(p)[i].calls /\ OpenTurns(q)[i].index = OpenTurns(p)[i].index
          /\ OpenTurns(q)[i].tokens = OpenTurns(p)[i].tokens
          /\ OpenTurns(q)[i].invocations = OpenTurns(p)[i].invocations
          /\ OpenTurns(q)[i].ended \in {OpenTurns(p)[i].ended, when}
  <2> TAKE i \in 1 .. n + 1
  <2>1. CASE i = n + 1
    BY <1>2, <1>3, <1>5, <1>9, <2>1
  <2>2. CASE i \in 1 .. n
    BY <1>9, <2>2
  <2> QED
    BY <1>10, <2>1, <2>2
<1>12. Marked(q, ls)
  <2>1. Marked(p, ls)
    BY DEF Kept
  <2> SUFFICES ASSUME NEW i \in 1 .. n + 1, NEW k \in DOMAIN OpenTurns(q)[i].calls
               PROVE  LET call == OpenTurns(q)[i].calls[k]
                      IN \/ call.raw = <<>> /\ call.status = "pending"
                         \/ /\ call.raw \in ResultsRead(ls) /\ call.status # "pending"
                            /\ UseOf(ls, call.raw) \in {"", call.use}
    BY <1>9, Zenon DEF Marked
  <2>2. OpenTurns(q)[i].calls = OpenTurns(p)[i].calls
    BY <1>11
  <2> QED
    BY <1>2, <2>1, <2>2, ZenonT(60) DEF Marked
<1>13. WaitsFor(q, ls)
  BY <1>9 DEF Kept, WaitsFor
<1>14. Uses(q)
  <2>1. p.current # None /\ q.current.byUse = p.current.byUse /\ q.current.turn.calls = p.current.turn.calls
    BY <1>5, <1>6, <1>7 DEF b, t
  <2> QED
    BY <2>1 DEF Kept, Uses
<1>15. Numbered(q)
  BY <1>2, <1>7, <1>9, <1>11 DEF Kept, Numbered
<1>16. \A y : Places(q, y, 0) = Places(p, y, 0)
  <2> SUFFICES ASSUME NEW y PROVE Places(q, y, 0) = Places(p, y, 0)
    OBVIOUS
  <2>1. \A o \in Int \X Nat : o \in Places(q, y, 0) <=> o \in Places(p, y, 0)
    BY <1>2, <1>7, <1>9, <1>11 DEF Places
  <2>2. Places(q, y, 0) \subseteq Int \X Nat /\ Places(p, y, 0) \subseteq Int \X Nat
    BY DEF Places
  <2> QED
    BY <2>1, <2>2
<1>17. Accounts(q, R, 0)
  BY <1>16 DEF Accounts
<1>18. Spent(q) = Spent(p)
  BY <1>2, <1>9, <1>11 DEF Spent
<1>19. Frame(p, q)
  BY <1>7, <1>18 DEF Frame
<1> QED
  BY <1>7, <1>8, <1>12, <1>13, <1>14, <1>15, <1>17, <1>19 DEF Kept

(* The same turns are marked alike. *)
LEMMA SameTurnsMarked ==
    ASSUME NEW p, NEW q, NEW ls, OpenTurns(q) = OpenTurns(p), Marked(p, ls) PROVE Marked(q, ls)
BY DEF Marked

(* No turn is open: every result of the line is reported. *)
AllReported(p, n, results) == [p EXCEPT !.errors = @ \o [k \in DOMAIN results |-> Append(<<n>>, k)]]

(* Without a turn every result of a line is a parse error. *)
LEMMA AllReportedKeeps ==
    ASSUME NEW p, NEW ls, NEW R, Kept(p, ls), Accounts(p, R, 0), NEW n \in Nat, \A k \in Nat : <<n, k>> \notin R,
           NEW S, NEW results \in Seq(S), NEW q, q = AllReported(p, n, results)
    PROVE  Kept(q, ls) /\ Accounts(q, R \cup OfLine(n, Len(results)), 0) /\ Frame(p, q)
<1> DEFINE more == [k \in DOMAIN results |-> Append(<<n>>, k)]
           L == Len(results)
           E == Len(p.errors)
<1>1. /\ p \in ClaudeType /\ p.errors \in Seq(Seq(Nat)) /\ L \in Nat /\ DOMAIN results = 1 .. L /\ E \in Nat
      /\ OpenTurns(p) \in Seq(TurnType)
  <2>1. p \in ClaudeType
    BY DEF Kept
  <2> QED
    BY <2>1, ClaudeFields
<1>2. \A k \in 1 .. L : more[k] = <<n, k>> /\ more[k] \in Seq(Nat)
  <2>1. \A k \in 1 .. L : k \in Nat
    BY <1>1
  <2> QED
    BY <1>1, <2>1, PairIsAppended
<1>3. more \in Seq(Seq(Nat)) /\ Len(more) = L
  <2>1. DOMAIN more = 1 .. L /\ more = [k \in 1 .. L |-> more[k]]
    BY <1>1
  <2>2. more \in [1 .. L -> Seq(Nat)]
    BY <1>2, <2>1
  <2> DEFINE T == Seq(Nat)
  <2> HIDE DEF more, L, T
  <2>3. more \in [1 .. L -> T]
    BY <2>2 DEF T
  <2>4. more \in Seq(T) /\ Len(more) = L
    BY <1>1, <2>3
  <2> QED
    BY <2>4 DEF T
<1>4. q = [p EXCEPT !.errors = @ \o more]
  BY DEF AllReported
<1> HIDE DEF more, L
<1>5. /\ q \in ClaudeType /\ q.current = p.current /\ q.turns = p.turns /\ q.errors = p.errors \o more
      /\ q.window = p.window /\ q.seenMsg = p.seenMsg /\ q.completions = p.completions
      /\ q.isSubagent = p.isSubagent /\ q.aiTitle = p.aiTitle /\ q.customTitle = p.customTitle
  <2>1. p.errors \o more \in Seq(Seq(Nat))
    BY <1>1, <1>3
  <2>2. q \in ClaudeType
    BY <1>1, <1>4, <2>1 DEF ClaudeType
  <2> QED
    BY <1>1, <1>4, <2>2, ClaudeFields
<1>6. Kept(q, ls) /\ Frame(p, q) /\ OpenTurns(q) = OpenTurns(p) /\ Waiting(q) = Waiting(p)
  <2>2. OpenTurns(q) = OpenTurns(p) /\ Waiting(q) = Waiting(p)
    BY <1>5 DEF OpenTurns, Waiting
  <2>3. Marked(q, ls)
    <3>1. Marked(p, ls)
      BY DEF Kept
    <3> QED
      BY <2>2, <3>1, SameTurnsMarked
  <2>4. WaitsFor(q, ls)
    BY <2>2 DEF Kept, WaitsFor
  <2>5. Uses(q)
    BY <1>5 DEF Kept, Uses
  <2>6. Numbered(q)
    BY <1>5, <2>2 DEF Kept, Numbered
  <2>7. Frame(p, q)
    BY <1>5, <2>2 DEF Frame, Spent
  <2> QED
    BY <1>5, <2>2, <2>3, <2>4, <2>5, <2>6, <2>7 DEF Kept
<1>7. /\ DOMAIN p.errors = 1 .. E /\ DOMAIN q.errors = 1 .. E + L
      /\ \A i \in 1 .. E : q.errors[i] = p.errors[i]
      /\ \A i \in 1 .. E + L : i \notin 1 .. E => q.errors[i] = more[i - E] /\ i - E \in 1 .. L
  <2>1. DOMAIN p.errors = 1 .. E /\ p.errors \in Seq(Seq(Nat)) /\ E = Len(p.errors)
    BY <1>1
  <2> DEFINE T == Seq(Nat)
             s == p.errors
  <2>2. s \in Seq(T) /\ more \in Seq(T) /\ E = Len(s) /\ L = Len(more) /\ E \in Nat /\ L \in Nat
    BY <1>1, <1>3
  <2> HIDE DEF T, s, E
  <2>3. /\ DOMAIN (s \o more) = 1 .. E + L
        /\ \A i \in 1 .. E : (s \o more)[i] = s[i]
        /\ \A i \in 1 .. E + L : i \notin 1 .. E => (s \o more)[i] = more[i - E] /\ i - E \in 1 .. L
    BY <2>2
  <2> QED
    BY <1>5, <2>1, <2>3 DEF s
<1> HIDE DEF E
<1>8. ASSUME NEW x \in Nat \X Nat, NEW o \in Int \X Nat
      PROVE  o \in Places(q, x, 0) <=>
                o \in Places(p, x, 0) \/ (o[1] = 0 /\ o[2] \in 1 .. E + L /\ o[2] \notin 1 .. E /\ x = <<n, o[2] - E>>)
  <2>1. (o[2] \in DOMAIN q.errors /\ q.errors[o[2]] = x)
        <=> ((o[2] \in DOMAIN p.errors /\ p.errors[o[2]] = x)
              \/ (o[2] \in 1 .. E + L /\ o[2] \notin 1 .. E /\ x = <<n, o[2] - E>>))
    <3>1. CASE o[2] \in 1 .. E
      <4>1. o[2] \in 1 .. E + L
        BY <1>1, <3>1
      <4> QED
        BY <1>7, <3>1, <4>1
    <3>2. CASE o[2] \notin 1 .. E /\ o[2] \in 1 .. E + L
      <4>1. q.errors[o[2]] = <<n, o[2] - E>>
        BY <1>2, <1>7, <3>2
      <4> QED
        BY <1>7, <3>2, <4>1
    <3>3. CASE o[2] \notin 1 .. E + L /\ o[2] \notin 1 .. E
      BY <1>7, <3>3
    <3> QED
      BY <3>1, <3>2, <3>3
  <2> QED
    BY <1>6, <2>1 DEF Places
<1>9. ASSUME NEW x \in Nat \X Nat
      PROVE  IF x \in R \cup OfLine(n, L) THEN \E o : Places(q, x, 0) = {o} ELSE Places(q, x, 0) = {}
  <2>1. Places(q, x, 0) \subseteq Int \X Nat /\ Places(p, x, 0) \subseteq Int \X Nat
    BY DEF Places
  <2>2. CASE x \in OfLine(n, L)
    <3>1. PICK k \in 1 .. L : x = <<n, k>>
      BY <2>2 DEF OfLine
    <3>2. k \in Nat /\ x \notin R
      BY <1>1, <3>1
    <3>3. Places(p, x, 0) = {}
      BY <3>2, Zenon DEF Accounts
    <3> DEFINE w == <<0, E + k>>
    <3>4. w \in Int \X Nat /\ E + k \in 1 .. E + L /\ E + k \notin 1 .. E /\ (E + k) - E = k
      BY <1>1, <3>1, <3>2
    <3>5. w \in Places(q, x, 0)
      BY <1>8, <3>1, <3>4
    <3>6. ASSUME NEW o \in Places(q, x, 0) PROVE o = w
      <4>1. o \in Int \X Nat /\ o[1] = 0 /\ o[2] \in Nat /\ x = <<n, o[2] - E>>
        BY <1>8, <2>1, <3>3
      <4>2. o[2] - E = k
        BY <3>1, <4>1
      <4>3. o[2] = E + k
        <5> DEFINE y == o[2]
        <5>1. y \in Nat /\ k \in Nat /\ E \in Nat /\ y - E = k
          BY <1>1, <3>2, <4>1, <4>2
        <5> HIDE DEF y
        <5>2. y = E + k
          BY <5>1
        <5> QED
          BY <5>2 DEF y
      <4> QED
        BY <4>1, <4>3
    <3>7. Places(q, x, 0) = {w}
      BY <3>5, <3>6
    <3> HIDE DEF w
    <3> QED
      BY <2>2, <3>7
  <2>3. CASE x \notin OfLine(n, L)
    <3>1. ASSUME NEW o \in Int \X Nat PROVE o \in Places(q, x, 0) <=> o \in Places(p, x, 0)
      <4>1. ~(o[2] \in 1 .. E + L /\ o[2] \notin 1 .. E /\ x = <<n, o[2] - E>>)
        <5>1. (o[2] \in 1 .. E + L /\ o[2] \notin 1 .. E) => o[2] - E \in 1 .. L
          BY <1>7
        <5> QED
          BY <2>3, <5>1 DEF OfLine
      <4> QED
        BY <1>8, <4>1
    <3>2. Places(q, x, 0) = Places(p, x, 0)
      BY <2>1, <3>1
    <3>3. IF x \in R THEN \E o : Places(p, x, 0) = {o} ELSE Places(p, x, 0) = {}
      BY Zenon DEF Accounts
    <3> QED
      BY <2>3, <3>2, <3>3
  <2> QED
    BY <2>2, <2>3
<1>10. Accounts(q, R \cup OfLine(n, L), 0)
  BY <1>9, Zenon DEF Accounts
<1> QED
  BY <1>6, <1>10 DEF L

(* The results of a user's line. *)
LEMMA AttachResultsKeeps ==
    ASSUME NEW p, NEW ls, NEW R, Kept(p, ls), Accounts(p, R, 0), NEW e \in ClaudeLine, e.type = "user",
           NEW n \in Nat, n \in DOMAIN ls, ls[n] = e, \A k \in Nat : <<n, k>> \notin R, e.when <= p.window.ended,
           NEW q, q = AttachResults(p, e, <<n>>)
    PROVE  Kept(q, ls) /\ Accounts(q, R \cup OfLine(n, Len(e.results)), 0) /\ Frame(p, q)
<1>1. e.results \in Seq([use : STRING, output : STRING, error : BOOLEAN]) /\ e.when \in Nat
  BY LineFields
<1>2. CASE e.results = <<>>
  <2>1. q = p
    BY <1>2 DEF AttachResults
  <2>2. R \cup OfLine(n, Len(e.results)) = R
    BY <1>2 DEF OfLine
  <2> QED
    BY <2>1, <2>2 DEF Frame
<1>3. CASE e.results # <<>> /\ p.current = None
  <2>1. q = AllReported(p, n, e.results)
    BY <1>3 DEF AttachResults, AllReported
  <2> QED
    BY <1>1, <2>1, AllReportedKeeps
<1>4. CASE e.results # <<>> /\ p.current # None
  <2> DEFINE s == Lasted(p, e.when)
  <2>1. q = AttachAll(s, e, <<n>>)
    BY <1>4 DEF AttachResults, Lasted
  <2>2. Kept(s, ls) /\ Accounts(s, R, 0) /\ Frame(p, s) /\ s.current # None
    BY <1>1, <1>4, LastedKeeps
  <2> HIDE DEF s
  <2>3. Attachable(s, ls, R, n, e)
    BY <2>2 DEF Attachable
  <2>4. Attached(s, q, ls, R, n, Len(e.results))
    BY <2>1, <2>3, AttachAllIs
  <2>5. Frame(p, q)
    BY <2>2, <2>4, FrameTransitive DEF Attached
  <2> QED
    BY <2>4, <2>5 DEF Attached
<1> QED
  BY <1>2, <1>3, <1>4

-----------------------------------------------------------------------------
(* The calls of an assistant line *)

(* The invocation at lasted until when. *)
LastedAt(inv, at, when) == [inv EXCEPT ![at].ended = LaterTime(@, when)]

(* A message that goes on costs no more. *)
LEMMA InvocationLasted ==
    ASSUME NEW inv \in Seq(InvocationType), NEW at, NEW when \in Nat,
           NEW v, v = LastedAt(inv, at, when)
    PROVE  v \in Seq(InvocationType) /\ TokensOf(v) = TokensOf(inv)
<1> DEFINE x == [inv[at] EXCEPT !.ended = LaterTime(inv[at].ended, when)]
<1>1. v = [i \in DOMAIN inv |-> IF i = at THEN x ELSE inv[i]]
  BY DEF LastedAt
<1>2. at \in DOMAIN inv => x \in InvocationType /\ x.tokens = inv[at].tokens
  <2> SUFFICES ASSUME at \in DOMAIN inv PROVE x \in InvocationType /\ x.tokens = inv[at].tokens
    OBVIOUS
  <2>1. inv[at] \in InvocationType
    OBVIOUS
  <2>2. LaterTime(inv[at].ended, when) \in Nat
    <3>1. inv[at].ended \in Nat
      BY <2>1 DEF InvocationType
    <3> QED
      BY <3>1, LaterTimeMax
  <2> QED
    BY <2>1, <2>2 DEF InvocationType
<1> HIDE DEF x
<1>3. DOMAIN v = DOMAIN inv /\ \A i \in DOMAIN inv : v[i] \in InvocationType /\ v[i].tokens = inv[i].tokens
  <2>1. \A i \in DOMAIN inv : inv[i] \in InvocationType
    OBVIOUS
  <2> QED
    BY <1>1, <1>2, <2>1
<1>4. v \in Seq(InvocationType)
  <2>1. DOMAIN inv = 1 .. Len(inv) /\ Len(inv) \in Nat
    OBVIOUS
  <2>2. v = [i \in 1 .. Len(inv) |-> v[i]]
    BY <1>1, <2>1
  <2>3. v \in [1 .. Len(inv) -> InvocationType]
    BY <1>3, <2>1, <2>2
  <2> QED
    BY <2>1, <2>3
<1>5. TokensOf(v) = TokensOf(inv)
  BY <1>3 DEF TokensOf
<1> QED
  BY <1>4, <1>5

(* A list that gets a member more adds up to more. *)
LEMMA TokensOfAppend ==
    ASSUME NEW S, \A x \in S : x.tokens \in Tokens, NEW s \in Seq(S), NEW y \in S
    PROVE  TokensOf(Append(s, y)) = AddTokens(TokensOf(s), y.tokens) /\ TokensOf(s) \in Tokens
<1> DEFINE n == Len(s)
           g == [i \in DOMAIN s |-> s[i].tokens]
           h == [i \in DOMAIN Append(s, y) |-> Append(s, y)[i].tokens]
<1>1. /\ n \in Nat /\ DOMAIN s = 1 .. n /\ DOMAIN Append(s, y) = 1 .. n + 1 /\ Append(s, y)[n + 1] = y
      /\ \A i \in 1 .. n : Append(s, y)[i] = s[i]
  OBVIOUS
<1>2. \A i \in 1 .. n : s[i].tokens \in Tokens
  OBVIOUS
<1>3. g \in Seq(Tokens) /\ Len(g) = n
  <2>1. g \in [1 .. n -> Tokens]
    BY <1>1, <1>2
  <2> HIDE DEF g, n
  <2> QED
    BY <1>1, <2>1
<1>4. h = [i \in 1 .. n + 1 |-> IF i = n + 1 THEN y.tokens ELSE g[i]]
  <2>1. \A i \in 1 .. n + 1 : i = n + 1 \/ i \in 1 .. n
    BY <1>1, UpToLast
  <2>2. n + 1 \notin 1 .. n
    BY <1>1
  <2> QED
    BY <1>1, <2>1, <2>2
<1>5. h = Append(g, y.tokens)
  <2>0. y.tokens \in Tokens
    OBVIOUS
  <2> DEFINE z == y.tokens
  <2> HIDE DEF g, h, n, z
  <2>1. Append(g, z) = [i \in 1 .. n + 1 |-> IF i = n + 1 THEN z ELSE g[i]]
    BY <1>3, <2>0 DEF z
  <2> QED
    BY <1>4, <2>1 DEF z
<1>6. SumTokens(h) = AddTokens(SumTokens(g), y.tokens)
  BY <1>3, <1>5, SumTokensAppend
<1>7. SumTokens(g) \in Tokens
  BY <1>3, SumTokensType
<1> QED
  BY <1>6, <1>7 DEF TokensOf

(* The calls of an assistant's line. *)
NewCalls(e, at) ==
    [k \in DOMAIN e.uses |->
        [name |-> e.uses[k].name, use |-> e.uses[k].use, input |-> e.uses[k].input,
         invocation |-> at, output |-> "", status |-> "pending",
         started |-> e.when, ended |-> 0, raw |-> <<>>]]

(* The calls of an assistant line are pending. *)
LEMMA NewCallsAre ==
    ASSUME NEW e \in ClaudeLine, NEW at \in Nat
    PROVE  /\ NewCalls(e, at) \in Seq(CallType)
           /\ \A k \in DOMAIN NewCalls(e, at) :
                 NewCalls(e, at)[k].raw = <<>> /\ NewCalls(e, at)[k].status = "pending"
<1>1. e.uses \in Seq([name : Seq(STRING), use : STRING, input : Seq(STRING)]) /\ e.when \in Nat
  BY LineFields
<1> DEFINE c == NewCalls(e, at)
           N == Len(e.uses)
<1>2. DOMAIN c = 1 .. N /\ N \in Nat /\ DOMAIN e.uses = 1 .. N
  BY <1>1 DEF NewCalls
<1>3. ASSUME NEW k \in DOMAIN c PROVE c[k] \in CallType /\ c[k].raw = <<>> /\ c[k].status = "pending"
  <2> DEFINE x == e.uses[k]
  <2>1. x \in [name : Seq(STRING), use : STRING, input : Seq(STRING)]
    BY <1>1, <1>2, DomainOfSeq
  <2>2. x.name \in Seq(STRING) /\ x.use \in STRING /\ x.input \in Seq(STRING)
    BY <2>1
  <2>3. k \in DOMAIN e.uses
    BY <1>2
  <2>4. c[k] = [name |-> x.name, use |-> x.use, input |-> x.input,
                invocation |-> at, output |-> "", status |-> "pending",
                started |-> e.when, ended |-> 0, raw |-> <<>>]
    BY <2>3, Zenon DEF NewCalls
  <2> DEFINE y == c[k]
             w == e.when
  <2> HIDE DEF x, y, w
  <2>5. y = [name |-> x.name, use |-> x.use, input |-> x.input,
             invocation |-> at, output |-> "", status |-> "pending",
             started |-> w, ended |-> 0, raw |-> <<>>]
    BY <2>4, Zenon DEF y, w
  <2>6. y.raw = <<>> /\ y.status = "pending"
    BY <2>5, Zenon
  <2>7. y \in CallType
    <3>1. <<>> \in Seq(Nat) /\ w \in Nat /\ 0 \in Nat
      BY <1>1 DEF w
    <3> QED
      BY <2>2, <2>5, <3>1 DEF CallType
  <2> QED
    BY <2>6, <2>7 DEF y
<1>4. c = [k \in 1 .. N |-> c[k]]
  BY <1>2 DEF NewCalls
<1> HIDE DEF c, N
<1>5. c \in [1 .. N -> CallType]
  BY <1>2, <1>3, <1>4
<1>6. c \in Seq(CallType)
  BY <1>2, <1>5
<1> QED
  BY <1>3, <1>6 DEF c

(* q is p with the calls more at the end of the open turn. *)
MoreCalls(p, q, m, more) ==
    /\ m \in Nat \ {0} /\ DOMAIN OpenTurns(p) = 1 .. m /\ DOMAIN OpenTurns(q) = 1 .. m
    /\ \A t \in 1 .. m : t # m => OpenTurns(q)[t] = OpenTurns(p)[t]
    /\ OpenTurns(p)[m].calls \in Seq(CallType) /\ more \in Seq(CallType)
    /\ \A k \in DOMAIN more : more[k].raw = <<>> /\ more[k].status = "pending"
    /\ OpenTurns(q)[m].calls = OpenTurns(p)[m].calls \o more
    /\ Waiting(q) = Waiting(p) /\ q.errors = p.errors

(* Every call of p is a call of q, and the others of q are new and pending. *)
CallsThere(p, q, m) ==
    \A t \in 1 .. m :
        /\ \A k \in DOMAIN OpenTurns(p)[t].calls :
              k \in DOMAIN OpenTurns(q)[t].calls /\ OpenTurns(q)[t].calls[k] = OpenTurns(p)[t].calls[k]
        /\ \A k \in DOMAIN OpenTurns(q)[t].calls :
              \/ k \in DOMAIN OpenTurns(p)[t].calls
              \/ OpenTurns(q)[t].calls[k].raw = <<>> /\ OpenTurns(q)[t].calls[k].status = "pending"

(* Appended calls leave the earlier ones. *)
LEMMA MoreCallsThere ==
    ASSUME NEW p, NEW q, NEW m, NEW more, MoreCalls(p, q, m, more)
    PROVE  CallsThere(p, q, m)
<1> SUFFICES ASSUME NEW t \in 1 .. m
             PROVE  /\ \A k \in DOMAIN OpenTurns(p)[t].calls :
                          k \in DOMAIN OpenTurns(q)[t].calls /\ OpenTurns(q)[t].calls[k] = OpenTurns(p)[t].calls[k]
                    /\ \A k \in DOMAIN OpenTurns(q)[t].calls :
                          \/ k \in DOMAIN OpenTurns(p)[t].calls
                          \/ OpenTurns(q)[t].calls[k].raw = <<>> /\ OpenTurns(q)[t].calls[k].status = "pending"
  BY Zenon DEF CallsThere
<1>1. CASE t # m
  <2>1. OpenTurns(q)[t] = OpenTurns(p)[t]
    BY <1>1 DEF MoreCalls
  <2> QED
    BY <2>1
<1>2. CASE t = m
  <2> DEFINE a == OpenTurns(p)[m].calls
             c == OpenTurns(q)[m].calls
  <2>1. a \in Seq(CallType) /\ more \in Seq(CallType) /\ c = a \o more
    BY DEF MoreCalls
  <2>2. \A k \in DOMAIN more : more[k].raw = <<>> /\ more[k].status = "pending"
    BY DEF MoreCalls
  <2> HIDE DEF a, c
  <2>3. /\ \A k \in DOMAIN a : k \in DOMAIN c /\ c[k] = a[k]
        /\ \A k \in DOMAIN c : k \in DOMAIN a \/ (k - Len(a) \in DOMAIN more /\ c[k] = more[k - Len(a)])
    BY <2>1
  <2>4. \A k \in DOMAIN c : k \in DOMAIN a \/ (c[k].raw = <<>> /\ c[k].status = "pending")
    BY <2>2, <2>3
  <2> QED
    BY <1>2, <2>3, <2>4 DEF a, c
<1> QED
  BY <1>1, <1>2

(* A result is not the missing one. *)
LEMMA PairNotEmpty == \A x \in Nat \X Nat : x # <<>>
OBVIOUS

(* Pending calls are the place of no result. *)
LEMMA MoreCallsKeep ==
    ASSUME NEW p, NEW q, NEW m, NEW more, MoreCalls(p, q, m, more), NEW ls, NEW R, Marked(p, ls), Accounts(p, R, 0)
    PROVE  Marked(q, ls) /\ Accounts(q, R, 0)
<1>0. CallsThere(p, q, m)
  BY MoreCallsThere
<1>1. DOMAIN OpenTurns(p) = 1 .. m /\ DOMAIN OpenTurns(q) = 1 .. m /\ Waiting(q) = Waiting(p) /\ q.errors = p.errors
  BY DEF MoreCalls
<1>2. Marked(q, ls)
  <2> SUFFICES ASSUME NEW t \in DOMAIN OpenTurns(q), NEW k \in DOMAIN OpenTurns(q)[t].calls
               PROVE  LET call == OpenTurns(q)[t].calls[k]
                      IN \/ call.raw = <<>> /\ call.status = "pending"
                         \/ /\ call.raw \in ResultsRead(ls) /\ call.status # "pending"
                            /\ UseOf(ls, call.raw) \in {"", call.use}
    BY Zenon DEF Marked
  <2>1. t \in 1 .. m
    BY <1>1
  <2>2. CASE k \in DOMAIN OpenTurns(p)[t].calls
    <3>1. OpenTurns(q)[t].calls[k] = OpenTurns(p)[t].calls[k]
      BY <1>0, <2>1, <2>2, Zenon DEF CallsThere
    <3>2. LET call == OpenTurns(p)[t].calls[k]
          IN \/ call.raw = <<>> /\ call.status = "pending"
             \/ /\ call.raw \in ResultsRead(ls) /\ call.status # "pending"
                /\ UseOf(ls, call.raw) \in {"", call.use}
      BY <1>1, <2>1, <2>2, Zenon DEF Marked
    <3> QED
      BY <3>1, <3>2
  <2>3. CASE k \notin DOMAIN OpenTurns(p)[t].calls
    BY <1>0, <2>1, <2>3, Zenon DEF CallsThere
  <2> QED
    BY <2>2, <2>3
<1>3. ASSUME NEW x \in Nat \X Nat PROVE Places(q, x, 0) = Places(p, x, 0)
  <2>1. x # <<>>
    BY PairNotEmpty
  <2>2. ASSUME NEW o \in Int \X Nat PROVE o \in Places(q, x, 0) <=> o \in Places(p, x, 0)
    <3>1. (o[1] \in DOMAIN OpenTurns(q) /\ o[2] \in DOMAIN OpenTurns(q)[o[1]].calls
             /\ OpenTurns(q)[o[1]].calls[o[2]].raw = x)
          <=> (o[1] \in DOMAIN OpenTurns(p) /\ o[2] \in DOMAIN OpenTurns(p)[o[1]].calls
                 /\ OpenTurns(p)[o[1]].calls[o[2]].raw = x)
      BY <1>0, <1>1, <2>1 DEF CallsThere
    <3> QED
      BY <1>1, <3>1 DEF Places
  <2>3. Places(q, x, 0) \subseteq Int \X Nat /\ Places(p, x, 0) \subseteq Int \X Nat
    BY DEF Places
  <2> QED
    BY <2>2, <2>3
<1>4. Accounts(q, R, 0)
  BY <1>3 DEF Accounts
<1> QED
  BY <1>2, <1>4

(* The use ids of the calls lead to the last call of that id. *)
NewUses(calls, n) ==
    [u \in {calls[k].use : k \in DOMAIN calls} \ {""} |-> n + Max({k \in DOMAIN calls : calls[k].use = u})]

(* The use ids of a line lead to its calls. *)
LEMMA NewUsesAre ==
    ASSUME NEW calls \in Seq(CallType), NEW more \in Seq(CallType)
    PROVE  /\ NewUses(more, Len(calls)) \in Partial(STRING, Nat)
           /\ \A u \in DOMAIN NewUses(more, Len(calls)) :
                 LET i == NewUses(more, Len(calls))[u]
                 IN i \in DOMAIN (calls \o more) /\ (calls \o more)[i].use = u
<1> DEFINE n == Len(calls)
           f == NewUses(more, n)
           used == {more[k].use : k \in DOMAIN more} \ {""}
           S(u) == {k \in DOMAIN more : more[k].use = u}
<1>1. n \in Nat /\ Len(more) \in Nat /\ DOMAIN more = 1 .. Len(more) /\ \A k \in DOMAIN more : more[k] \in CallType
  OBVIOUS
<1>2. DOMAIN f = used /\ \A u \in used : f[u] = n + Max(S(u))
  BY DEF NewUses
<1>3. used \subseteq STRING
  <2>1. \A k \in DOMAIN more : more[k].use \in STRING
    BY <1>1 DEF CallType
  <2> QED
    BY <2>1
<1>4. ASSUME NEW u \in used PROVE f[u] \in Nat /\ f[u] \in DOMAIN (calls \o more) /\ (calls \o more)[f[u]].use = u
  <2>1. S(u) # {} /\ S(u) \in SUBSET (1 .. Len(more))
    BY <1>1
  <2> DEFINE k == Max(S(u))
  <2>2. k \in S(u)
    <3> HIDE DEF S
    <3> QED
      BY <1>1, <2>1, GreatestOf
  <2>3. k \in DOMAIN more /\ more[k].use = u /\ f[u] = n + k
    BY <1>2, <2>2
  <2> HIDE DEF k, f, S, used
  <2>4. k \in 1 .. Len(more)
    BY <1>1, <2>3
  <2>5. n + k \in DOMAIN (calls \o more) /\ (calls \o more)[n + k] = more[k] /\ n + k \in Nat
    BY <1>1, <2>4
  <2> QED
    BY <2>3, <2>5
<1> HIDE DEF S
<1>5. f \in [used -> Nat]
  <2>1. f = [u \in used |-> f[u]]
    BY DEF NewUses
  <2> HIDE DEF f, used
  <2> QED
    BY <1>4, <2>1
<1>6. f \in Partial(STRING, Nat)
  <2> HIDE DEF f, used
  <2> QED
    BY <1>3, <1>5 DEF Partial
<1> HIDE DEF f, used
<1>7. \A u \in DOMAIN f : f[u] \in DOMAIN (calls \o more) /\ (calls \o more)[f[u]].use = u
  BY <1>2, <1>4
<1> QED
  BY <1>6, <1>7 DEF f

-----------------------------------------------------------------------------
(* An assistant line is recorded *)

(* The open turn, and the messages seen, after the assistant's line e. *)
Dup(p, e) == e.id \in DOMAIN p.seenMsg
(* The message goes on in the turn it began in. *)
Continues(p, e) == Dup(p, e) /\ p.seenMsg[e.id].turn = p.current.turn.index
(* The invocation of the message. *)
InvocationAt(p, e) ==
    IF Continues(p, e) THEN p.seenMsg[e.id].invocation ELSE Len(p.current.turn.invocations) + 1
(* What the line adds to the cost. *)
NewTokens(p, e) == IF Dup(p, e) THEN NoTokens ELSE Usage(e.usage)
(* The invocations after it. *)
NewInvocations(p, e) ==
    IF Continues(p, e)
    THEN LastedAt(p.current.turn.invocations, InvocationAt(p, e), e.when)
    ELSE Append(p.current.turn.invocations,
                [tokens |-> NewTokens(p, e), ended |-> e.when, status |-> ClaudeInvocationStatus(e.stop)])
(* The open turn after it. *)
NewTurn(p, e) ==
    [p.current.turn EXCEPT !.ended = LaterTime(@, e.when), !.final = IF e.text = <<>> THEN @ ELSE e.text,
                           !.invocations = NewInvocations(p, e), !.tokens = AddTokens(@, NewTokens(p, e)),
                           !.calls = @ \o NewCalls(e, InvocationAt(p, e))]
(* The calls by use id after it. *)
NewByUse(p, e) ==
    Over(NewUses(NewCalls(e, InvocationAt(p, e)), Len(p.current.turn.calls)), p.current.byUse)
(* The messages seen after it. *)
NewSeen(p, e) ==
    IF e.id = "" \/ Continues(p, e) THEN p.seenMsg
    ELSE Over([x \in {e.id} |-> [turn |-> p.current.turn.index, invocation |-> InvocationAt(p, e)]], p.seenMsg)

(* RecordAssistantMessage by these parts. *)
LEMMA RecordedIs ==
    ASSUME NEW p, NEW e
    PROVE  RecordAssistantMessage(p, e) =
              [p EXCEPT !.current = [p.current EXCEPT !.turn = NewTurn(p, e), !.byUse = NewByUse(p, e)],
                        !.seenMsg = NewSeen(p, e)]
BY Zenon DEF RecordAssistantMessage, NewTurn, NewByUse, NewSeen, Dup, Continues, InvocationAt, NewTokens,
             NewInvocations, LastedAt, NewCalls, NewUses

(* What a merged map says one of the two says. *)
LEMMA OverEither ==
    \A a, b : \A x \in DOMAIN Over(a, b) :
       (x \in DOMAIN a /\ Over(a, b)[x] = a[x]) \/ (x \in DOMAIN b /\ Over(a, b)[x] = b[x])
BY DEF Over

(* An answer has a cost. *)
LEMMA InvocationsTokens == \A x \in InvocationType : x.tokens \in Tokens
BY DEF InvocationType

(* The records of the messages seen. *)
LEMMA SeenType ==
    ASSUME NEW p \in ClaudeType, p.current # None, NEW e \in ClaudeLine
    PROVE  /\ InvocationAt(p, e) \in Nat /\ NewSeen(p, e) \in Partial(STRING, [turn : Nat, invocation : Nat])
           /\ DOMAIN NewSeen(p, e) = DOMAIN p.seenMsg \cup ({e.id} \ {""})
<1>1. p.seenMsg \in Partial(STRING, [turn : Nat, invocation : Nat]) /\ p.current.turn \in TurnType
  BY ClaudeFields DEF ClaudeType
<1>2. p.current.turn.index \in Nat /\ p.current.turn.invocations \in Seq(InvocationType)
  BY <1>1, TurnFields
<1>3. e.id \in STRING
  BY LineFields
<1>4. \A x \in DOMAIN p.seenMsg : p.seenMsg[x] \in [turn : Nat, invocation : Nat]
  BY <1>1 DEF Partial
<1>5. InvocationAt(p, e) \in Nat
  BY <1>2, <1>4 DEF InvocationAt, Continues, Dup
<1>6. CASE e.id = "" \/ Continues(p, e)
  BY <1>1, <1>5, <1>6 DEF NewSeen, Continues, Dup
<1>7. CASE ~(e.id = "" \/ Continues(p, e))
  <2> DEFINE r == [turn |-> p.current.turn.index, invocation |-> InvocationAt(p, e)]
             one == [x \in {e.id} |-> r]
  <2>1. r \in [turn : Nat, invocation : Nat]
    BY <1>2, <1>5
  <2>2. NewSeen(p, e) = Over(one, p.seenMsg)
    BY <1>7 DEF NewSeen
  <2> HIDE DEF r
  <2>3. one \in Partial(STRING, [turn : Nat, invocation : Nat]) /\ DOMAIN one = {e.id}
    <3>1. one \in [{e.id} -> [turn : Nat, invocation : Nat]]
      BY <2>1
    <3>2. {e.id} \in SUBSET STRING
      BY <1>3
    <3> HIDE DEF one
    <3> QED
      BY <3>1, <3>2 DEF Partial
  <2> HIDE DEF one
  <2>4. Over(one, p.seenMsg) \in Partial(STRING, [turn : Nat, invocation : Nat])
    BY <1>1, <2>3, OverPartial
  <2>5. DOMAIN Over(one, p.seenMsg) = DOMAIN one \cup DOMAIN p.seenMsg
    BY OverDomain, Zenon
  <2> QED
    BY <1>5, <1>7, <2>2, <2>3, <2>4, <2>5
<1> QED
  BY <1>6, <1>7

(* The turn costs what its answers cost, the new line included. *)
LEMMA NewTurnIs ==
    ASSUME NEW p \in ClaudeType, p.current # None, NEW e \in ClaudeLine,
           p.current.turn.tokens = TokensOf(p.current.turn.invocations),
           NEW u, u = NewTurn(p, e)
    PROVE  /\ u \in TurnType /\ u.index = p.current.turn.index
           /\ u.ended \in {p.current.turn.ended, e.when}
           /\ u.tokens = AddTokens(p.current.turn.tokens, NewTokens(p, e))
           /\ u.tokens = TokensOf(u.invocations) /\ NewTokens(p, e) \in Tokens
           /\ u.calls = p.current.turn.calls \o NewCalls(e, InvocationAt(p, e))
<1> DEFINE t == p.current.turn
           at == InvocationAt(p, e)
           inv == NewInvocations(p, e)
           tok == NewTokens(p, e)
           more == NewCalls(e, at)
           ended == LaterTime(t.ended, e.when)
           final == IF e.text = <<>> THEN t.final ELSE e.text
           all == t.calls \o more
           sum == AddTokens(t.tokens, tok)
<1>1. t \in TurnType /\ at \in Nat
  BY ClaudeFields, SeenType
<1>2. /\ t.ended \in Nat /\ t.tokens \in Tokens /\ t.invocations \in Seq(InvocationType) /\ t.calls \in Seq(CallType)
      /\ t.final \in Seq(STRING)
  BY <1>1, TurnFields DEF TurnType
<1>3. e.when \in Nat /\ e.usage \in Tokens /\ e.text \in Seq(STRING)
  BY LineFields
<1>4. tok \in Tokens
  BY <1>3, UsageType, NoTokensType DEF NewTokens
<1>5. sum \in Tokens /\ ended \in Nat /\ ended \in {t.ended, e.when} /\ final \in Seq(STRING)
  BY <1>2, <1>3, <1>4, AddTokensType, LaterTimeMax
<1>6. more \in Seq(CallType)
  BY <1>1, NewCallsAre
<1>7. all \in Seq(CallType)
  BY <1>2, <1>6
<1>8. inv \in Seq(InvocationType) /\ TokensOf(inv) = sum
  <2>1. CASE Continues(p, e)
    <3>1. tok = NoTokens
      BY <2>1 DEF NewTokens, Continues
    <3>2. inv = LastedAt(t.invocations, at, e.when)
      BY <2>1 DEF NewInvocations
    <3>3. inv \in Seq(InvocationType) /\ TokensOf(inv) = TokensOf(t.invocations)
      BY <1>2, <1>3, <3>2, InvocationLasted
    <3>4. sum = t.tokens
      BY <1>2, <3>1, AddNoTokens
    <3> QED
      BY <3>3, <3>4
  <2>2. CASE ~Continues(p, e)
    <3> DEFINE y == [tokens |-> tok, ended |-> e.when, status |-> ClaudeInvocationStatus(e.stop)]
    <3>1. inv = Append(t.invocations, y)
      BY <2>2 DEF NewInvocations
    <3>2. ClaudeInvocationStatus(e.stop) \in {"success", "interrupted", "unknown"}
      BY DEF ClaudeInvocationStatus
    <3>3. y \in InvocationType /\ y.tokens = tok
      <4> HIDE DEF tok
      <4> QED
        BY <1>3, <1>4, <3>2 DEF InvocationType
    <3> HIDE DEF y, tok, inv
    <3>4. inv \in Seq(InvocationType)
      BY <1>2, <3>1, <3>3
    <3>5. TokensOf(inv) = AddTokens(TokensOf(t.invocations), tok)
      BY <1>2, <3>1, <3>3, InvocationsTokens, TokensOfAppend
    <3> QED
      BY <3>4, <3>5 DEF tok
  <2> QED
    BY <2>1, <2>2
<1> HIDE DEF at, inv, tok, more, ended, final, all, sum, t
<1>9. u = [t EXCEPT !.ended = ended, !.final = final, !.invocations = inv, !.tokens = sum, !.calls = all]
  BY DEF NewTurn, t, inv, tok, more, ended, final, all, sum, at
<1>10. u \in TurnType /\ u.index = t.index /\ u.ended = ended /\ u.tokens = sum /\ u.invocations = inv /\ u.calls = all
  BY <1>1, <1>5, <1>7, <1>8, <1>9, ZenonT(60) DEF TurnType
<1> QED
  BY <1>4, <1>5, <1>8, <1>10 DEF t, sum, tok, all, more, at

(* Where the open turn has grown, so has the sum. *)
LEMMA SpentGrows ==
    ASSUME NEW p \in ClaudeType, NEW q \in ClaudeType, p.current # None, q.current # None, q.turns = p.turns,
           NEW x \in Tokens, q.current.turn.tokens = AddTokens(p.current.turn.tokens, x)
    PROVE  SumTokens(Spent(q)) = AddTokens(SumTokens(Spent(p)), x)
<1> DEFINE S(r) == TokensOf(r.turns)
<1>1. /\ p.turns \in Seq(TurnType) /\ p.current.turn \in TurnType /\ q.current.turn \in TurnType
      /\ OpenTurns(p) = Append(p.turns, p.current.turn) /\ OpenTurns(q) = Append(p.turns, q.current.turn)
  BY ClaudeFields DEF OpenTurns
<1>2. \A t \in TurnType : t.tokens \in Tokens
  BY TurnFields
<1>3. TokensOf(OpenTurns(p)) = AddTokens(TokensOf(p.turns), p.current.turn.tokens) /\ TokensOf(p.turns) \in Tokens
  BY <1>1, <1>2, TokensOfAppend
<1>4. TokensOf(OpenTurns(q)) = AddTokens(TokensOf(p.turns), q.current.turn.tokens)
  BY <1>1, <1>2, TokensOfAppend
<1>5. TokensOf(OpenTurns(p)) = SumTokens(Spent(p)) /\ TokensOf(OpenTurns(q)) = SumTokens(Spent(q))
  BY SpentType
<1>6. p.current.turn.tokens \in Tokens
  BY <1>1, <1>2
<1>7. AddTokens(TokensOf(p.turns), AddTokens(p.current.turn.tokens, x)) = AddTokens(AddTokens(TokensOf(p.turns), p.current.turn.tokens), x)
  BY <1>3, <1>6, AddTokensAssociates
<1> QED
  BY <1>3, <1>4, <1>5, <1>7

(* An assistant's line is recorded. *)
LEMMA RecordedKeeps ==
    ASSUME NEW p, NEW ls, NEW R, Kept(p, ls), Accounts(p, R, 0), p.current # None, NEW e \in ClaudeLine,
           e.when <= p.window.ended, NEW q, q = RecordAssistantMessage(p, e)
    PROVE  /\ Kept(q, ls) /\ Accounts(q, R, 0)
           /\ SumTokens(Spent(q)) = AddTokens(SumTokens(Spent(p)), NewTokens(p, e))
           /\ DOMAIN q.seenMsg = DOMAIN p.seenMsg \cup ({e.id} \ {""})
           /\ q.window = p.window /\ q.completions = p.completions /\ q.isSubagent = p.isSubagent
           /\ q.aiTitle = p.aiTitle /\ q.customTitle = p.customTitle
<1> DEFINE n == Len(p.turns)
           b == p.current
           u == NewTurn(p, e)
           more == NewCalls(e, InvocationAt(p, e))
           by == NewByUse(p, e)
           seen == NewSeen(p, e)
           a == [b EXCEPT !.turn = u, !.byUse = by]
<1>1. p \in ClaudeType /\ b \in BuilderType /\ b.turn \in TurnType /\ b.turn.calls \in Seq(CallType) /\ n \in Nat
      /\ b.byUse \in Partial(STRING, Nat) /\ e.when \in Nat
  <2>1. p \in ClaudeType
    BY DEF Kept
  <2>2. b \in BuilderType /\ b.turn \in TurnType /\ p.turns \in Seq(TurnType) /\ b.byUse \in Partial(STRING, Nat)
    BY <2>1, ClaudeFields
  <2>3. b.turn.calls \in Seq(CallType)
    BY <2>2, TurnFields
  <2> QED
    BY <2>1, <2>2, <2>3, LineFields
<1>2. /\ DOMAIN OpenTurns(p) = 1 .. n + 1
      /\ OpenTurns(p)[n + 1] = b.turn /\ \A t \in 1 .. n : OpenTurns(p)[t] = p.turns[t]
      /\ Waiting(p) = b.pending
  BY <1>1, OpenTurnsAre
<1>3. n + 1 \in DOMAIN OpenTurns(p) /\ n + 1 \in Nat \ {0}
  BY <1>1, <1>2
<1>4. b.turn.tokens = TokensOf(b.turn.invocations) /\ b.turn.index = n + 1 /\ b.turn.ended <= p.window.ended
  BY <1>2, <1>3 DEF Kept, Numbered
<1>5. /\ u \in TurnType /\ u.index = b.turn.index
      /\ u.ended \in {b.turn.ended, e.when}
      /\ u.tokens = AddTokens(b.turn.tokens, NewTokens(p, e))
      /\ u.tokens = TokensOf(u.invocations) /\ NewTokens(p, e) \in Tokens
      /\ u.calls = b.turn.calls \o more
  BY <1>1, <1>4, NewTurnIs
<1>6. /\ InvocationAt(p, e) \in Nat /\ seen \in Partial(STRING, [turn : Nat, invocation : Nat])
      /\ DOMAIN seen = DOMAIN p.seenMsg \cup ({e.id} \ {""})
  BY <1>1, SeenType
<1>7. more \in Seq(CallType) /\ \A k \in DOMAIN more : more[k].raw = <<>> /\ more[k].status = "pending"
  BY <1>6, NewCallsAre
<1> HIDE DEF u, more, by, seen
<1>8. by \in Partial(STRING, Nat) /\ \A x \in DOMAIN by : by[x] \in DOMAIN u.calls /\ u.calls[by[x]].use = x
  <2> DEFINE g == NewUses(more, Len(b.turn.calls))
  <2>1. /\ g \in Partial(STRING, Nat)
        /\ \A x \in DOMAIN g : g[x] \in DOMAIN u.calls /\ u.calls[g[x]].use = x
    <3> DEFINE c == b.turn.calls
    <3>1. c \in Seq(CallType) /\ more \in Seq(CallType) /\ u.calls = c \o more
      BY <1>1, <1>5, <1>7
    <3> HIDE DEF c
    <3>2. /\ NewUses(more, Len(c)) \in Partial(STRING, Nat)
          /\ \A x \in DOMAIN NewUses(more, Len(c)) :
                LET k == NewUses(more, Len(c))[x]
                IN k \in DOMAIN (c \o more) /\ (c \o more)[k].use = x
      BY <3>1, NewUsesAre
    <3>3. g = NewUses(more, Len(c))
      BY DEF c
    <3> HIDE DEF g
    <3> QED
      BY <3>1, <3>2, <3>3
  <2>2. by = Over(g, b.byUse)
    BY DEF by, NewByUse, more
  <2> HIDE DEF g
  <2>3. by \in Partial(STRING, Nat)
    BY <1>1, <2>1, <2>2, OverPartial
  <2>4. \A x \in DOMAIN b.byUse : b.byUse[x] \in DOMAIN b.turn.calls /\ b.turn.calls[b.byUse[x]].use = x
    BY DEF Kept, Uses
  <2>5. \A k \in DOMAIN b.turn.calls : k \in DOMAIN u.calls /\ u.calls[k] = b.turn.calls[k]
    <3> DEFINE c == b.turn.calls
               d == u.calls
    <3>1. c \in Seq(CallType) /\ more \in Seq(CallType) /\ d = c \o more
      BY <1>1, <1>5, <1>7
    <3> HIDE DEF c, d
    <3>2. \A k \in DOMAIN c : k \in DOMAIN d /\ d[k] = c[k]
      BY <3>1
    <3> QED
      BY <3>2 DEF c, d
  <2>6. \A x \in DOMAIN by : (x \in DOMAIN g /\ by[x] = g[x]) \/ (x \in DOMAIN b.byUse /\ by[x] = b.byUse[x])
    BY <2>2, OverEither
  <2> QED
    BY <2>1, <2>3, <2>4, <2>5, <2>6
<1>9. q = [p EXCEPT !.current = a, !.seenMsg = seen]
  BY RecordedIs DEF u, by, seen
<1>10. a \in BuilderType /\ a.turn = u /\ a.pending = b.pending /\ a.byUse = by
  <2> HIDE DEF b
  <2> QED
    BY <1>1, <1>5, <1>8 DEF BuilderType
<1> HIDE DEF a
<1>11. /\ q \in ClaudeType /\ q.current = a /\ q.turns = p.turns /\ q.errors = p.errors /\ q.window = p.window
       /\ q.seenMsg = seen /\ q.completions = p.completions /\ q.isSubagent = p.isSubagent
       /\ q.aiTitle = p.aiTitle /\ q.customTitle = p.customTitle
  <2>1. q \in ClaudeType
    BY <1>1, <1>6, <1>9, <1>10 DEF ClaudeType
  <2> QED
    BY <1>1, <1>9, <2>1, ClaudeFields
<1>12. q.current # None
  BY <1>10, <1>11, OpenIsBuilder
<1>13. /\ DOMAIN OpenTurns(q) = 1 .. n + 1
       /\ OpenTurns(q)[n + 1] = u /\ \A t \in 1 .. n : OpenTurns(q)[t] = OpenTurns(p)[t]
       /\ Waiting(q) = Waiting(p)
  BY <1>2, <1>10, <1>11, <1>12, OpenTurnsAre
<1>14. \A t \in 1 .. n + 1 : t = n + 1 \/ t \in 1 .. n
  BY <1>1, UpToLast
<1>15. MoreCalls(p, q, n + 1, more)
  <2>1. \A t \in 1 .. n + 1 : t # n + 1 => OpenTurns(q)[t] = OpenTurns(p)[t]
    BY <1>13, <1>14
  <2> HIDE DEF n, b
  <2> QED
    BY <1>1, <1>2, <1>3, <1>5, <1>7, <1>11, <1>13, <2>1 DEF MoreCalls
<1>16. Marked(p, ls) /\ WaitsFor(p, ls)
  BY DEF Kept
<1>17. Marked(q, ls) /\ Accounts(q, R, 0)
  BY <1>15, <1>16, MoreCallsKeep
<1>18. WaitsFor(q, ls)
  BY <1>13, <1>16 DEF WaitsFor
<1>19. Uses(q)
  BY <1>8, <1>10, <1>11 DEF Uses
<1>20. Numbered(q)
  <2> SUFFICES ASSUME NEW t \in DOMAIN OpenTurns(q)
               PROVE  /\ OpenTurns(q)[t].index = t /\ OpenTurns(q)[t].ended <= q.window.ended
                      /\ OpenTurns(q)[t].tokens = TokensOf(OpenTurns(q)[t].invocations)
    BY Zenon DEF Numbered
  <2>1. CASE t = n + 1
    BY <1>4, <1>5, <1>11, <1>13, <2>1
  <2>2. CASE t \in 1 .. n
    <3>1. t \in DOMAIN OpenTurns(p) /\ OpenTurns(q)[t] = OpenTurns(p)[t]
      BY <1>2, <1>13, <2>2
    <3> QED
      BY <1>11, <3>1 DEF Kept, Numbered
  <2> QED
    BY <1>13, <1>14, <2>1, <2>2
<1>21. SumTokens(Spent(q)) = AddTokens(SumTokens(Spent(p)), NewTokens(p, e))
  <2>1. q.current.turn.tokens = AddTokens(p.current.turn.tokens, NewTokens(p, e)) /\ NewTokens(p, e) \in Tokens
    BY <1>5, <1>10, <1>11
  <2> QED
    BY <1>1, <1>11, <1>12, <2>1, SpentGrows
<1> QED
  BY <1>6, <1>11, <1>17, <1>18, <1>19, <1>20, <1>21 DEF Kept

-----------------------------------------------------------------------------
(* What the parser knows beside the turns *)

(* The parser knows the last notice of each task. *)
Told(p, ls) ==
    /\ \A u \in STRING : u \in DOMAIN p.completions <=> NoticesOf(ls, u) # {}
    /\ \A u \in DOMAIN p.completions : p.completions[u].status = LastNotice(ls, u)
(* The ids of the messages read. *)
Ids(ls) == {ls[i].id : i \in Of(ls, "assistant")}
(* They are the ones the parser has seen. *)
SeenIn(p, ls) == DOMAIN p.seenMsg = Ids(ls) \ {""}
(* The parser knows the last titles. *)
Titled(p, ls) == p.aiTitle = LastTitle(ls, "ai-title") /\ p.customTitle = LastTitle(ls, "custom-title")
(* The turns cost what the messages were billed for. *)
Billing(p, ls) == SumTokens(Spent(p)) = SumTokens(Bills(ls))

(* The id of the new line is read. *)
LEMMA IdsGrow ==
    ASSUME NEW l, NEW e, NEW m, NEW n, Grown(l, e, m, n)
    PROVE  Ids(m) = Ids(l) \cup (IF e.type = "assistant" THEN {e.id} ELSE {})
<1>0. Grows(l, e, m, n)
  BY GrownIs, Zenon
<1>1. m[n] = e /\ \A i \in Of(l, "assistant") : m[i] = l[i]
  BY <1>0 DEF Grows, Of
<1>2. Of(m, "assistant") = Of(l, "assistant") \cup (IF e.type = "assistant" THEN {n} ELSE {})
  BY <1>0, OfGrows DEF Grows
<1> QED
  BY <1>1, <1>2 DEF Ids

(* It is seen. *)
LEMMA SeenGrows ==
    ASSUME NEW l, NEW e, NEW m, NEW n, Grown(l, e, m, n), NEW p, SeenIn(p, l), NEW q,
           DOMAIN q.seenMsg = DOMAIN p.seenMsg \cup (IF e.type = "assistant" THEN {e.id} \ {""} ELSE {})
    PROVE  SeenIn(q, m)
<1>1. Ids(m) = Ids(l) \cup (IF e.type = "assistant" THEN {e.id} ELSE {})
  BY IdsGrow, Zenon
<1> QED
  BY <1>1 DEF SeenIn

(* The cost of the new line is billed. *)
LEMMA BillingGrows ==
    ASSUME NEW l, NEW e, NEW m, NEW n, Grown(l, e, m, n), NEW p \in ClaudeType, Billing(p, l), NEW q, NEW x,
           SumTokens(Spent(q)) = AddTokens(SumTokens(Spent(p)), Cost(l, e))
    PROVE  Billing(q, m)
BY BillsGrow DEF Billing

(* A line that is not charged costs nothing. *)
LEMMA NothingCost ==
    ASSUME NEW p \in ClaudeType, NEW l, NEW e, ~Charged(l, e)
    PROVE  AddTokens(SumTokens(Spent(p)), Cost(l, e)) = SumTokens(Spent(p))
<1>1. Spent(p) \in Seq(Tokens)
  BY SpentType
<1>2. SumTokens(Spent(p)) \in Tokens
  BY <1>1, SumTokensType
<1> QED
  BY <1>2, AddNoTokens DEF Cost

(* The line is seen: its session, its time. *)
Noted(p, e) ==
    [p EXCEPT !.external = IF @ = "" THEN e.session ELSE @, !.window = UpdateSessionTimes(@, e.when)]

(* The session lasts at least as long as it did, and until the line. *)
LEMMA WindowIs ==
    ASSUME NEW w \in [started : Nat, ended : Nat], NEW when \in Nat
    PROVE  LET x == UpdateSessionTimes(w, when)
           IN x \in [started : Nat, ended : Nat] /\ x.ended >= w.ended /\ x.ended >= when
<1>1. w.started \in Nat /\ w.ended \in Nat
  OBVIOUS
<1>2. CASE when = 0
  BY <1>1, <1>2 DEF UpdateSessionTimes
<1>3. CASE when # 0
  <2> DEFINE s == IF w.started = 0 \/ when < w.started THEN when ELSE w.started
             d == IF when > w.ended THEN when ELSE w.ended
  <2>1. s \in Nat /\ d \in Nat /\ d >= w.ended /\ d >= when
    BY <1>1
  <2>2. UpdateSessionTimes(w, when) = [started |-> s, ended |-> d]
    BY <1>3 DEF UpdateSessionTimes
  <2> HIDE DEF s, d
  <2> QED
    BY <2>1, <2>2
<1> QED
  BY <1>2, <1>3

(* The session and the time of a line are beside the turns. *)
LEMMA NotedIs ==
    ASSUME NEW p \in ClaudeType, NEW e \in ClaudeLine, NEW q, q = Noted(p, e)
    PROVE  /\ Aside(p, q) /\ q.window.ended >= e.when /\ q.seenMsg = p.seenMsg
           /\ q.completions = p.completions /\ q.isSubagent = p.isSubagent
           /\ q.aiTitle = p.aiTitle /\ q.customTitle = p.customTitle
<1> DEFINE x == IF p.external = "" THEN e.session ELSE p.external
           w == UpdateSessionTimes(p.window, e.when)
<1>1. p.window \in [started : Nat, ended : Nat] /\ p.external \in STRING \cup {""} /\ e.session \in STRING /\ e.when \in Nat
  BY LineFields, ClaudeFields DEF ClaudeType
<1>2. x \in STRING \cup {""}
  BY <1>1
<1>3. w \in [started : Nat, ended : Nat] /\ w.ended >= p.window.ended /\ w.ended >= e.when
  BY <1>1, WindowIs
<1>4. q = [p EXCEPT !.external = x, !.window = w]
  BY DEF Noted
<1> HIDE DEF x, w
<1>5. q \in ClaudeType
  BY <1>2, <1>3, <1>4 DEF ClaudeType
<1>6. /\ q.window = w /\ q.turns = p.turns /\ q.current = p.current /\ q.errors = p.errors /\ q.seenMsg = p.seenMsg
      /\ q.completions = p.completions /\ q.isSubagent = p.isSubagent
      /\ q.aiTitle = p.aiTitle /\ q.customTitle = p.customTitle
  BY <1>4, ClaudeFields
<1> QED
  BY <1>3, <1>5, <1>6 DEF Aside

(* A notice has a use id and a status. *)
LEMMA NoticesTyped ==
    ASSUME NEW e \in ClaudeLine, IsNotice(NoticeIn(e))
    PROVE  Notices[Head(NoticeIn(e))] \in [use : STRING, status : STRING]
BY ClaudeAssumption DEF ClaudeAssumption, IsNotice

(* What the line says of a background task is noted. *)
LEMMA ToldIs ==
    ASSUME NEW p \in ClaudeType, NEW e \in ClaudeLine, NEW raw \in Seq(Nat),
           NEW l, NEW m, NEW n, Grown(l, e, m, n), Told(p, l),
           NEW q, q = ParseTaskNotification(p, e, raw)
    PROVE  /\ Aside(p, q) /\ Told(q, m) /\ q.window = p.window /\ q.seenMsg = p.seenMsg
           /\ q.isSubagent = p.isSubagent /\ q.aiTitle = p.aiTitle /\ q.customTitle = p.customTitle
<1> DEFINE text == NoticeIn(e)
           notice == Notices[Head(text)]
           r == [status |-> notice.status, when |-> e.when, raw |-> raw]
           one == [u \in {notice.use} |-> r]
           c == Over(one, p.completions)
<1>1. /\ p.completions \in Partial(STRING, [status : STRING, when : Nat, raw : Seq(Nat)])
      /\ p.window.ended \in Nat
  BY ClaudeFields DEF ClaudeType
<1>2. q = IF ~IsNotice(text) \/ notice.use = "" THEN p ELSE [p EXCEPT !.completions = c]
  BY DEF ParseTaskNotification, NoticeIn
<1>3. ASSUME NEW u
      PROVE  /\ NoticesOf(m, u) = NoticesOf(l, u) \cup (IF Tells(e, u) THEN {n} ELSE {})
             /\ Tells(e, u) => LastNotice(m, u) = notice.status
             /\ ~Tells(e, u) /\ NoticesOf(l, u) # {} => LastNotice(m, u) = LastNotice(l, u)
  BY NoticesGrow
<1>4. \A u : Tells(e, u) <=> IsNotice(text) /\ u # "" /\ notice.use = u
  <2>1. e.type # "unreadable"
    BY LineFields
  <2> QED
    BY <2>1 DEF Tells
<1>5. CASE ~IsNotice(text) \/ notice.use = ""
  <2>1. q = p
    BY <1>2, <1>5
  <2>2. \A u : ~Tells(e, u)
    BY <1>4, <1>5
  <2>3. \A u : NoticesOf(m, u) = NoticesOf(l, u) /\ (NoticesOf(l, u) # {} => LastNotice(m, u) = LastNotice(l, u))
    BY <1>3, <2>2
  <2>4. \A u \in DOMAIN p.completions : u \in STRING
    BY <1>1 DEF Partial
  <2>5. Told(p, m)
    BY <2>3, <2>4 DEF Told
  <2> QED
    BY <1>1, <2>1, <2>5 DEF Aside
<1>6. CASE IsNotice(text) /\ notice.use # ""
  <2>1. notice.use \in STRING /\ notice.status \in STRING /\ e.when \in Nat
    <3>1. notice \in [use : STRING, status : STRING]
      BY <1>6, NoticesTyped
    <3> QED
      BY <3>1, LineFields
  <2> HIDE DEF text
  <2>2. one \in Partial(STRING, [status : STRING, when : Nat, raw : Seq(Nat)])
    <3>1. one \in [{notice.use} -> [status : STRING, when : Nat, raw : Seq(Nat)]]
      BY <2>1
    <3>2. {notice.use} \in SUBSET STRING
      BY <2>1
    <3> HIDE DEF one
    <3> QED
      BY <3>1, <3>2 DEF Partial
  <2>3. DOMAIN one = {notice.use} /\ one[notice.use].status = notice.status
    OBVIOUS
  <2> HIDE DEF one, notice
  <2>4. c \in Partial(STRING, [status : STRING, when : Nat, raw : Seq(Nat)])
    BY <1>1, <2>2, OverPartial
  <2>5. DOMAIN c = {notice.use} \cup DOMAIN p.completions
    BY <2>3, OverDomain
  <2>6. c[notice.use].status = notice.status
    BY <2>3, OverFirst
  <2>7. \A u \in DOMAIN p.completions : u # notice.use => c[u] = p.completions[u]
    BY <2>3, OverSecond
  <2> HIDE DEF c
  <2>8. q = [p EXCEPT !.completions = c]
    BY <1>2, <1>6
  <2>9. q \in ClaudeType
    BY <2>4, <2>8 DEF ClaudeType
  <2>10. /\ q.window = p.window /\ q.turns = p.turns /\ q.current = p.current /\ q.errors = p.errors
         /\ q.seenMsg = p.seenMsg /\ q.completions = c /\ q.isSubagent = p.isSubagent
         /\ q.aiTitle = p.aiTitle /\ q.customTitle = p.customTitle
    BY <2>8, ClaudeFields
  <2>11. \A u : Tells(e, u) <=> u = notice.use
    BY <1>4, <1>6
  <2>12. ASSUME NEW u \in STRING PROVE u \in DOMAIN c <=> NoticesOf(m, u) # {}
    <3>1. CASE u = notice.use
      BY <1>3, <2>5, <2>11, <3>1
    <3>2. CASE u # notice.use
      BY <1>3, <2>5, <2>11, <3>2 DEF Told
    <3> QED
      BY <3>1, <3>2
  <2>13. ASSUME NEW u \in DOMAIN c PROVE c[u].status = LastNotice(m, u)
    <3>1. CASE u = notice.use
      BY <1>3, <2>6, <2>11, <3>1
    <3>2. CASE u # notice.use
      <4>1. u \in DOMAIN p.completions /\ c[u] = p.completions[u] /\ u \in STRING
        BY <1>1, <2>5, <2>7, <3>2 DEF Partial
      <4>2. NoticesOf(l, u) # {} /\ p.completions[u].status = LastNotice(l, u)
        BY <4>1 DEF Told
      <4>3. ~Tells(e, u)
        BY <2>11, <3>2
      <4>4. LastNotice(m, u) = LastNotice(l, u)
        BY <1>3, <4>2, <4>3
      <4> QED
        BY <4>1, <4>2, <4>4
    <3> QED
      BY <3>1, <3>2
  <2>14. Told(q, m)
    BY <2>10, <2>12, <2>13 DEF Told
  <2> QED
    BY <1>1, <2>9, <2>10, <2>14 DEF Aside
<1> QED
  BY <1>5, <1>6

-----------------------------------------------------------------------------
(* One line read *)

(* The inductive invariant: the state p of the parser accounts for the lines ls. *)
Standing(p, ls) ==
    /\ ls \in Seq(ClaudeLines) /\ Kept(p, ls) /\ Accounts(p, ResultsRead(ls), 0)
    /\ Billing(p, ls) /\ SeenIn(p, ls) /\ Told(p, ls) /\ Titled(p, ls)

(* q is p with the time and the notice of the line e, the next after l; the rest of the line is to be read. *)
Ready(p, q, l, m, e) ==
    /\ Kept(q, m) /\ Accounts(q, ResultsRead(l), 0) /\ SumTokens(Spent(q)) = SumTokens(Spent(p)) /\ Told(q, m)
    /\ q.seenMsg = p.seenMsg /\ q.aiTitle = p.aiTitle /\ q.customTitle = p.customTitle
    /\ e.when <= q.window.ended

(* The time and the notice of the new line are taken. *)
LEMMA Readied ==
    ASSUME NEW p, NEW l, NEW m, NEW n, NEW e \in ClaudeLine, Grown(l, e, m, n), Standing(p, l),
           NEW q, q = ParseTaskNotification(Noted(p, e), e, <<n>>)
    PROVE  Ready(p, q, l, m, e)
<1> DEFINE s == Noted(p, e)
           R == ResultsRead(l)
<1>1. p \in ClaudeType /\ Kept(p, l) /\ Accounts(p, R, 0) /\ Told(p, l)
  BY DEF Standing, Kept
<1>2. /\ Aside(p, s) /\ s.window.ended >= e.when /\ s.seenMsg = p.seenMsg
      /\ s.completions = p.completions /\ s.isSubagent = p.isSubagent
      /\ s.aiTitle = p.aiTitle /\ s.customTitle = p.customTitle
  BY <1>1, NotedIs
<1> HIDE DEF s, R
<1>3. Kept(p, m)
  BY <1>1, KeptGrows
<1>4. Kept(s, m) /\ Accounts(s, R, 0) /\ Spent(s) = Spent(p)
  BY <1>1, <1>2, <1>3, AsideKeeps
<1>5. s \in ClaudeType /\ Told(s, l)
  BY <1>1, <1>2 DEF Aside, Told
<1>6. <<n>> \in Seq(Nat)
  <2>1. Grows(l, e, m, n)
    BY GrownIs, Zenon
  <2>2. n \in Nat
    BY <2>1, Zenon DEF Grows
  <2> QED
    BY <2>2
<1>7. /\ Aside(s, q) /\ Told(q, m) /\ q.window = s.window /\ q.seenMsg = s.seenMsg
      /\ q.isSubagent = s.isSubagent /\ q.aiTitle = s.aiTitle /\ q.customTitle = s.customTitle
  <2> DEFINE raw == <<n>>
  <2>1. q = ParseTaskNotification(s, e, raw) /\ raw \in Seq(Nat)
    BY <1>6 DEF s
  <2> HIDE DEF raw
  <2> QED
    BY <1>5, <2>1, ToldIs
<1>8. Kept(q, m) /\ Accounts(q, R, 0) /\ Spent(q) = Spent(s)
  BY <1>4, <1>7, AsideKeeps
<1>9. e.when <= q.window.ended
  <2>1. s.window.ended \in Nat /\ e.when \in Nat
    BY <1>5, ClaudeFields, LineFields
  <2> QED
    BY <1>2, <1>7, <2>1
<1> QED
  BY <1>2, <1>4, <1>7, <1>8, <1>9 DEF Ready, R

(* The results and the prompt of a user line are taken: nothing is lost. *)
LEMMA UserRead ==
    ASSUME NEW p, NEW l, NEW m, NEW n, NEW e \in ClaudeLine, e.type = "user", Grown(l, e, m, n),
           Kept(p, m), Accounts(p, ResultsRead(l), 0), e.when <= p.window.ended,
           NEW q, q = ReadUser(p, e, <<n>>)
    PROVE  Kept(q, m) /\ Accounts(q, ResultsRead(m), 0) /\ Frame(p, q)
<1> DEFINE a == AttachResults(p, e, <<n>>)
           f == ClaudeFlush(a)
           prompt == IF IsNotice(e.text) THEN <<>> ELSE e.text
           R == ResultsRead(m)
<1>1. /\ n \in Nat /\ n \in DOMAIN m /\ m[n] = e /\ m \in Seq(ClaudeLines)
  <2>1. Grows(l, e, m, n)
    BY GrownIs, Zenon
  <2>2. n \in Nat /\ m[n] = e /\ m \in Seq(ClaudeLines) /\ DOMAIN m = DOMAIN l \cup {n}
    BY <2>1, Zenon DEF Grows
  <2> QED
    BY <2>2
<1>2. R = ResultsRead(l) \cup OfLine(n, Len(e.results)) /\ \A k : <<n, k>> \notin ResultsRead(l)
  BY ResultsGrow
<1>3. Kept(a, m) /\ Accounts(a, R, 0) /\ Frame(p, a)
  <2> DEFINE Q == ResultsRead(l)
  <2>1. Accounts(p, Q, 0) /\ \A k \in Nat : <<n, k>> \notin Q
    BY <1>2
  <2> HIDE DEF Q, R
  <2>2. Kept(a, m) /\ Accounts(a, Q \cup OfLine(n, Len(e.results)), 0) /\ Frame(p, a)
    BY <1>1, <2>1, AttachResultsKeeps
  <2> QED
    BY <1>2, <2>2 DEF Q
<1> HIDE DEF a, R
<1>4. e.text \in Seq(STRING) /\ e.when \in Nat /\ prompt \in Seq(STRING)
  <2>1. <<>> \in Seq(STRING)
    OBVIOUS
  <2> QED
    BY <2>1, LineFields
<1> HIDE DEF prompt
<1>5. q = IF ~IsNotice(e.text) /\ (e.text = <<>> \/ e.meta \/ ClaudeInjected(e.text)) THEN a
          ELSE Begun(f, prompt, e.when)
  BY DEF ReadUser, a, prompt, Begun
<1>6. CASE q = a
  BY <1>3, <1>6 DEF R
<1>7. CASE q = Begun(f, prompt, e.when)
  <2>1. Kept(f, m) /\ Accounts(f, R, 0) /\ Frame(a, f) /\ f.current = None
    BY <1>1, <1>3, FlushKeeps
  <2> HIDE DEF f
  <2>2. e.when <= f.window.ended
    BY <1>3, <2>1 DEF Frame
  <2>3. Kept(q, m) /\ Accounts(q, R, 0) /\ Frame(f, q)
    BY <1>4, <1>7, <2>1, <2>2, BegunKeeps
  <2>4. Frame(p, q)
    <3>1. Frame(p, f)
      BY <1>3, <2>1, FrameTransitive
    <3> QED
      BY <2>3, <3>1, FrameTransitive
  <2> QED
    BY <2>3, <2>4 DEF R
<1> QED
  BY <1>5, <1>6, <1>7

(* The answer e may be recorded in the open turn of p. *)
Recordable(p, ls, R, e) ==
    Kept(p, ls) /\ Accounts(p, R, 0) /\ p.current # None /\ e \in ClaudeLine /\ e.when <= p.window.ended
(* It is, and its cost once. *)
Recorded(p, q, ls, R, e) ==
    /\ Kept(q, ls) /\ Accounts(q, R, 0)
    /\ SumTokens(Spent(q)) = AddTokens(SumTokens(Spent(p)), NewTokens(p, e))
    /\ DOMAIN q.seenMsg = DOMAIN p.seenMsg \cup ({e.id} \ {""})
    /\ q.window = p.window /\ q.completions = p.completions /\ q.isSubagent = p.isSubagent
    /\ q.aiTitle = p.aiTitle /\ q.customTitle = p.customTitle

(* RecordAssistantMessage records it. *)
LEMMA RecordableRecorded ==
    ASSUME NEW p, NEW ls, NEW R, NEW e, Recordable(p, ls, R, e)
    PROVE  Recorded(p, RecordAssistantMessage(p, e), ls, R, e)
<1> DEFINE q == RecordAssistantMessage(p, e)
<1>1. Kept(p, ls) /\ Accounts(p, R, 0) /\ p.current # None /\ e \in ClaudeLine /\ e.when <= p.window.ended
  BY DEF Recordable
<1>2. /\ Kept(q, ls) /\ Accounts(q, R, 0)
      /\ SumTokens(Spent(q)) = AddTokens(SumTokens(Spent(p)), NewTokens(p, e))
      /\ DOMAIN q.seenMsg = DOMAIN p.seenMsg \cup ({e.id} \ {""})
      /\ q.window = p.window /\ q.completions = p.completions /\ q.isSubagent = p.isSubagent
      /\ q.aiTitle = p.aiTitle /\ q.customTitle = p.customTitle
  BY <1>1, RecordedKeeps, ZenonT(60)
<1> QED
  BY <1>2, Zenon DEF Recorded

(* The same before the turn is known to be open. *)
Before(p, ls, R, e) == Kept(p, ls) /\ Accounts(p, R, 0) /\ e \in ClaudeLine /\ e.when <= p.window.ended

(* ReadAssistant opens a turn for it when there is none. *)
LEMMA BeforeRecorded ==
    ASSUME NEW p, NEW ls, NEW R, NEW e, Before(p, ls, R, e), NEW q, q = ReadAssistant(p, e)
    PROVE  Recorded(p, q, ls, R, e)
<1> DEFINE s == IF p.current # None THEN p ELSE Begun(p, <<>>, e.when)
<1>0. Kept(p, ls) /\ Accounts(p, R, 0) /\ e \in ClaudeLine /\ e.when <= p.window.ended
  BY DEF Before
<1>1. Kept(s, ls) /\ Accounts(s, R, 0) /\ Frame(p, s) /\ s.current # None
  <2>1. CASE p.current # None
    BY <1>0, <2>1 DEF Frame
  <2>2. CASE p.current = None
    <3>1. <<>> \in Seq(STRING) /\ e.when \in Nat
      BY <1>0, LineFields
    <3>2. s = Begun(p, <<>>, e.when)
      BY <2>2
    <3> HIDE DEF s
    <3> QED
      BY <1>0, <2>2, <3>1, <3>2, BegunKeeps
  <2> QED
    BY <2>1, <2>2
<1>2. q = RecordAssistantMessage(s, e)
  BY DEF ReadAssistant, Begun
<1> HIDE DEF s
<1>3. /\ s.seenMsg = p.seenMsg /\ e.when <= s.window.ended /\ SumTokens(Spent(s)) = SumTokens(Spent(p))
      /\ s.completions = p.completions /\ s.aiTitle = p.aiTitle /\ s.customTitle = p.customTitle
      /\ s.window = p.window /\ s.isSubagent = p.isSubagent
  BY <1>0, <1>1 DEF Frame
<1>4. Recorded(s, q, ls, R, e)
  <2>1. Recordable(s, ls, R, e)
    BY <1>0, <1>1, <1>3 DEF Recordable
  <2> QED
    BY <1>2, <2>1, RecordableRecorded
<1>5. NewTokens(s, e) = NewTokens(p, e)
  BY <1>3 DEF NewTokens, Dup
<1> QED
  BY <1>3, <1>4, <1>5 DEF Recorded

(* A line that is no title leaves the last titles. *)
LEMMA TitlesSame ==
    ASSUME NEW l, NEW e, NEW m, NEW n, Grown(l, e, m, n), e.type \notin {"ai-title", "custom-title"}
    PROVE  /\ LastTitle(m, "ai-title") = LastTitle(l, "ai-title")
           /\ LastTitle(m, "custom-title") = LastTitle(l, "custom-title")
<1>1. \A type : LastTitle(m, type) = IF e.type = type /\ e.title # "" THEN e.title ELSE LastTitle(l, type)
  BY TitlesGrow, Zenon
<1>2. e.type # "ai-title" /\ e.type # "custom-title"
  OBVIOUS
<1>3. LastTitle(m, "ai-title") = LastTitle(l, "ai-title")
  BY <1>1, <1>2, Zenon
<1>4. LastTitle(m, "custom-title") = LastTitle(l, "custom-title")
  BY <1>1, <1>2, Zenon
<1> QED
  BY <1>3, <1>4

(* A line that is no JSON is reported. *)
LEMMA UnreadableStands ==
    ASSUME NEW p, NEW l, NEW m, NEW n, Grown(l, Unreadable, m, n), Standing(p, l), NEW q, q = Reported(p, <<n>>)
    PROVE  Standing(q, m)
<1> DEFINE e == Unreadable
           R == ResultsRead(m)
<1>1. Grows(l, e, m, n)
  BY GrownIs, Zenon
<1>2. <<n>> \in Seq(Nat) /\ m \in Seq(ClaudeLines)
  <2>1. n \in Nat /\ m \in Seq(ClaudeLines)
    BY <1>1, Zenon DEF Grows
  <2> QED
    BY <2>1
<1>3. e.type = "unreadable"
  BY DEF Unreadable
<1>4. ResultsRead(m) = ResultsRead(l)
  BY <1>3, ResultsGrow
<1>5. Kept(p, m) /\ Accounts(p, R, 0)
  BY <1>4, KeptGrows DEF Standing
<1>6. /\ Kept(q, m) /\ Frame(p, q)
      /\ \A j \in Nat : \A x \in Nat \X Nat :
            Places(q, x, j) = Places(p, x, j) \cup (IF x = <<n>> THEN {<<0, Len(p.errors) + 1>>} ELSE {})
  <2> DEFINE raw == <<n>>
  <2>1. raw \in Seq(Nat) /\ q = Reported(p, raw)
    BY <1>2
  <2> HIDE DEF raw
  <2>a. Kept(p, m)
    BY <1>5
  <2>b. LET r == Reported(p, raw)
        IN /\ Kept(r, m) /\ Frame(p, r) /\ r.current = p.current /\ r.turns = p.turns
           /\ \A j \in Nat : \A x \in Nat \X Nat :
                 Places(r, x, j) = Places(p, x, j) \cup (IF x = raw THEN {<<0, Len(p.errors) + 1>>} ELSE {})
    BY <2>1, <2>a, ReportedKeeps
  <2>2. /\ Kept(q, m) /\ Frame(p, q)
        /\ \A j \in Nat : \A x \in Nat \X Nat :
              Places(q, x, j) = Places(p, x, j) \cup (IF x = raw THEN {<<0, Len(p.errors) + 1>>} ELSE {})
    BY <2>1, <2>b
  <2> QED
    BY <2>2 DEF raw
<1>7. \A x \in Nat \X Nat : x # <<n>>
  <2>1. Len(<<n>>) = 1 /\ \A x \in Nat \X Nat : Len(x) = 2
    OBVIOUS
  <2> QED
    BY <2>1
<1>8. \A x \in Nat \X Nat : Places(q, x, 0) = Places(p, x, 0)
  <2>1. 0 \in Nat
    OBVIOUS
  <2>2. \A x \in Nat \X Nat :
           Places(q, x, 0) = Places(p, x, 0) \cup (IF x = <<n>> THEN {<<0, Len(p.errors) + 1>>} ELSE {})
    BY <1>6, <2>1
  <2>3. ASSUME NEW x \in Nat \X Nat PROVE Places(q, x, 0) = Places(p, x, 0)
    <3>1. x # <<n>>
      BY <1>7
    <3>2. Places(q, x, 0) = Places(p, x, 0) \cup (IF x = <<n>> THEN {<<0, Len(p.errors) + 1>>} ELSE {})
      BY <2>2
    <3> QED
      BY <3>1, <3>2, Zenon
  <2> QED
    BY <2>3
<1>9. Accounts(q, R, 0)
  BY <1>5, <1>8 DEF Accounts
<1>10. p \in ClaudeType
  BY <1>5 DEF Kept
<1>11. Billing(q, m)
  <2>1. ~Charged(l, e)
    BY <1>3 DEF Charged
  <2>2. SumTokens(Spent(q)) = AddTokens(SumTokens(Spent(p)), Cost(l, e))
    BY <1>6, <1>10, <2>1, NothingCost DEF Frame
  <2> QED
    BY <1>10, <2>2, BillingGrows DEF Standing
<1>12. SeenIn(q, m)
  <2>1. DOMAIN q.seenMsg = DOMAIN p.seenMsg \cup (IF e.type = "assistant" THEN {e.id} \ {""} ELSE {})
    BY <1>3, <1>6 DEF Frame
  <2> QED
    BY <2>1, SeenGrows DEF Standing
<1>13. Titled(q, m)
  <2>1. LastTitle(m, "ai-title") = LastTitle(l, "ai-title") /\ LastTitle(m, "custom-title") = LastTitle(l, "custom-title")
    BY <1>3, TitlesSame
  <2> QED
    BY <1>6, <2>1 DEF Standing, Titled, Frame
<1>14. Told(q, m)
  <2>1. \A u : ~Tells(e, u)
    BY <1>3 DEF Tells
  <2>2. ASSUME NEW u
        PROVE  NoticesOf(m, u) = NoticesOf(l, u) /\ (NoticesOf(l, u) # {} => LastNotice(m, u) = LastNotice(l, u))
    <3>1. /\ NoticesOf(m, u) = NoticesOf(l, u) \cup (IF Tells(e, u) THEN {n} ELSE {})
          /\ ~Tells(e, u) /\ NoticesOf(l, u) # {} => LastNotice(m, u) = LastNotice(l, u)
      BY NoticesGrow
    <3> QED
      BY <2>1, <3>1
  <2>3. Told(p, l) /\ q.completions = p.completions /\ \A u \in DOMAIN p.completions : u \in STRING
    BY <1>6, <1>10, ZenonT(60) DEF Standing, Frame, ClaudeType, Partial
  <2> QED
    BY <2>2, <2>3 DEF Told
<1> QED
  BY <1>2, <1>6, <1>9, <1>11, <1>12, <1>13, <1>14 DEF Standing

(* What is left to be seen of q, once the line e is read: its cost, its message, its title. *)
LEMMA StandsAgain ==
    ASSUME NEW p, NEW l, NEW m, NEW n, NEW e, Grown(l, e, m, n), Standing(p, l), NEW q,
           Kept(q, m), Accounts(q, ResultsRead(m), 0), Told(q, m),
           SumTokens(Spent(q)) = AddTokens(SumTokens(Spent(p)), Cost(l, e)),
           DOMAIN q.seenMsg = DOMAIN p.seenMsg \cup (IF e.type = "assistant" THEN {e.id} \ {""} ELSE {}),
           q.aiTitle = IF e.type = "ai-title" /\ e.title # "" THEN e.title ELSE p.aiTitle,
           q.customTitle = IF e.type = "custom-title" /\ e.title # "" THEN e.title ELSE p.customTitle
    PROVE  Standing(q, m)
<1>1. m \in Seq(ClaudeLines)
  <2>1. Grows(l, e, m, n)
    BY GrownIs, Zenon
  <2> QED
    BY <2>1, Zenon DEF Grows
<1>2. SeenIn(q, m)
  BY SeenGrows DEF Standing
<1>3. Billing(q, m)
  <2>1. p \in ClaudeType /\ Billing(p, l)
    BY DEF Standing, Kept
  <2> QED
    BY <2>1, BillingGrows
<1>4. Titled(q, m)
  <2>1. LastTitle(m, "ai-title") = IF e.type = "ai-title" /\ e.title # "" THEN e.title ELSE LastTitle(l, "ai-title")
    BY TitlesGrow, ZenonT(60)
  <2>2. LastTitle(m, "custom-title") = IF e.type = "custom-title" /\ e.title # "" THEN e.title ELSE LastTitle(l, "custom-title")
    BY TitlesGrow, ZenonT(60)
  <2>3. Titled(p, l)
    BY DEF Standing
  <2> QED
    BY <2>1, <2>2, <2>3 DEF Titled
<1> QED
  BY <1>1, <1>2, <1>3, <1>4 DEF Standing

(* A title is beside the turns. *)
LEMMA TitleSet ==
    ASSUME NEW p \in ClaudeType, NEW title \in STRING, NEW q,
           q = [p EXCEPT !.aiTitle = title] \/ q = [p EXCEPT !.customTitle = title]
    PROVE  Aside(p, q) /\ q.seenMsg = p.seenMsg /\ q.completions = p.completions
<1>1. p.window.ended \in Nat
  BY ClaudeFields
<1>2. q \in ClaudeType
  BY ZenonT(60) DEF ClaudeType
<1>3. q.turns = p.turns /\ q.current = p.current /\ q.errors = p.errors /\ q.window = p.window
      /\ q.seenMsg = p.seenMsg /\ q.completions = p.completions
  BY ClaudeFields
<1> QED
  BY <1>1, <1>2, <1>3 DEF Aside

(* The parser accounts for the transcript after a line that is JSON. *)
LEMMA ReadableStands ==
    ASSUME NEW p, NEW l, NEW m, NEW n, NEW e \in ClaudeLine, Grown(l, e, m, n), Standing(p, l),
           NEW q, q = ReadClaude(p, e, <<n>>)
    PROVE  Standing(q, m)
<1> DEFINE s == ParseTaskNotification(Noted(p, e), e, <<n>>)
<1>1. /\ Kept(s, m) /\ Accounts(s, ResultsRead(l), 0) /\ SumTokens(Spent(s)) = SumTokens(Spent(p)) /\ Told(s, m)
      /\ s.seenMsg = p.seenMsg /\ s.aiTitle = p.aiTitle /\ s.customTitle = p.customTitle
      /\ e.when <= s.window.ended
  <2>1. Ready(p, s, l, m, e)
    BY Readied
  <2> HIDE DEF s
  <2> QED
    BY <2>1 DEF Ready
<1>2. q = CASE e.type = "user" -> ReadUser(s, e, <<n>>)
            [] e.type = "assistant" -> ReadAssistant(s, e)
            [] e.type = "ai-title" /\ e.title # "" -> [s EXCEPT !.aiTitle = e.title]
            [] e.type = "custom-title" /\ e.title # "" -> [s EXCEPT !.customTitle = e.title]
            [] OTHER -> s
  <2>1. e # Unreadable
    BY LineFields
  <2> QED
    BY <2>1 DEF ReadClaude, Noted
<1> HIDE DEF s
<1>3. p \in ClaudeType /\ s \in ClaudeType /\ e.title \in STRING
  BY <1>1, LineFields DEF Standing, Kept
<1>4. e.type # "user" => ResultsRead(m) = ResultsRead(l)
  BY ResultsGrow
<1>5. e.type # "assistant" => SumTokens(Spent(s)) = AddTokens(SumTokens(Spent(p)), Cost(l, e))
  <2> SUFFICES ASSUME e.type # "assistant" PROVE SumTokens(Spent(s)) = AddTokens(SumTokens(Spent(p)), Cost(l, e))
    OBVIOUS
  <2>1. ~Charged(l, e)
    BY DEF Charged
  <2>2. AddTokens(SumTokens(Spent(p)), Cost(l, e)) = SumTokens(Spent(p))
    BY <1>3, <2>1, NothingCost
  <2> QED
    BY <1>1, <2>2
<1>6. CASE e.type = "user"
  <2>1. q = ReadUser(s, e, <<n>>)
    BY <1>2, <1>6
  <2>2. Kept(q, m) /\ Accounts(q, ResultsRead(m), 0) /\ Frame(s, q)
    BY <1>1, <1>6, <2>1, UserRead
  <2>3. /\ SumTokens(Spent(q)) = AddTokens(SumTokens(Spent(p)), Cost(l, e))
        /\ DOMAIN q.seenMsg = DOMAIN p.seenMsg \cup (IF e.type = "assistant" THEN {e.id} \ {""} ELSE {})
        /\ q.aiTitle = (IF e.type = "ai-title" /\ e.title # "" THEN e.title ELSE p.aiTitle)
        /\ q.customTitle = (IF e.type = "custom-title" /\ e.title # "" THEN e.title ELSE p.customTitle)
        /\ q.completions = s.completions
    BY <1>1, <1>5, <1>6, <2>2 DEF Frame
  <2>4. Told(q, m)
    BY <1>1, <2>3 DEF Told
  <2> QED
    BY <2>2, <2>3, <2>4, StandsAgain
<1>7. CASE e.type = "assistant"
  <2>1. q = ReadAssistant(s, e)
    BY <1>2, <1>7
  <2> DEFINE R == ResultsRead(m)
  <2>2. Accounts(s, R, 0)
    BY <1>1, <1>4, <1>7
  <2> HIDE DEF R
  <2>3. /\ Kept(q, m) /\ Accounts(q, R, 0)
        /\ SumTokens(Spent(q)) = AddTokens(SumTokens(Spent(s)), NewTokens(s, e))
        /\ DOMAIN q.seenMsg = DOMAIN s.seenMsg \cup ({e.id} \ {""})
        /\ q.completions = s.completions /\ q.aiTitle = s.aiTitle /\ q.customTitle = s.customTitle
    <3>1. Kept(s, m) /\ e.when <= s.window.ended
      BY <1>1
    <3>2. Before(s, m, R, e)
      BY <2>2, <3>1 DEF Before
    <3>3. Recorded(s, q, m, R, e)
      BY <2>1, <3>2, BeforeRecorded
    <3> QED
      BY <3>3, Zenon DEF Recorded
  <2>4. NewTokens(s, e) = Cost(l, e)
    <3>1. DOMAIN s.seenMsg = Ids(l) \ {""}
      BY <1>1 DEF Standing, SeenIn
    <3>2. e.id \in DOMAIN s.seenMsg <=> ~Charged(l, e)
      BY <1>7, <3>1 DEF Ids, Charged
    <3> QED
      BY <3>2 DEF NewTokens, Dup, Cost
  <2>5. Told(q, m)
    BY <1>1, <2>3 DEF Told
  <2>6. /\ SumTokens(Spent(q)) = AddTokens(SumTokens(Spent(p)), Cost(l, e))
        /\ DOMAIN q.seenMsg = DOMAIN p.seenMsg \cup (IF e.type = "assistant" THEN {e.id} \ {""} ELSE {})
        /\ q.aiTitle = (IF e.type = "ai-title" /\ e.title # "" THEN e.title ELSE p.aiTitle)
        /\ q.customTitle = (IF e.type = "custom-title" /\ e.title # "" THEN e.title ELSE p.customTitle)
    BY <1>1, <1>7, <2>3, <2>4
  <2> QED
    BY <2>3, <2>5, <2>6, StandsAgain DEF R
<1>8. CASE e.type # "user" /\ e.type # "assistant"
  <2>1. Aside(s, q) /\ q.seenMsg = s.seenMsg /\ q.completions = s.completions
    <3>1. CASE e.type = "ai-title" /\ e.title # ""
      <4>1. q = [s EXCEPT !.aiTitle = e.title]
        BY <1>2, <1>8, <3>1
      <4> QED
        BY <1>3, <4>1, TitleSet
    <3>2. CASE e.type = "custom-title" /\ e.title # ""
      <4>1. q = [s EXCEPT !.customTitle = e.title]
        BY <1>2, <1>8, <3>2
      <4> QED
        BY <1>3, <4>1, TitleSet
    <3>3. CASE ~(e.type = "ai-title" /\ e.title # "") /\ ~(e.type = "custom-title" /\ e.title # "")
      <4>1. q = s
        BY <1>2, <1>8, <3>3
      <4>2. s.window.ended \in Nat
        BY <1>3, ClaudeFields
      <4> QED
        BY <1>3, <4>1, <4>2 DEF Aside
    <3> QED
      BY <3>1, <3>2, <3>3
  <2>2. /\ q.aiTitle = (IF e.type = "ai-title" /\ e.title # "" THEN e.title ELSE p.aiTitle)
        /\ q.customTitle = (IF e.type = "custom-title" /\ e.title # "" THEN e.title ELSE p.customTitle)
    <3>1. s.aiTitle = p.aiTitle /\ s.customTitle = p.customTitle /\ DOMAIN s = DOMAIN p
      BY <1>1, <1>3, ClaudeFields
    <3>2. "aiTitle" \in DOMAIN s /\ "customTitle" \in DOMAIN s
      BY <1>3, ClaudeFields
    <3> QED
      BY <1>2, <1>8, <3>1, <3>2
  <2> DEFINE R == ResultsRead(m)
  <2>3. Accounts(s, R, 0)
    BY <1>1, <1>4, <1>8
  <2> HIDE DEF R
  <2>4. Kept(q, m) /\ Accounts(q, R, 0) /\ Spent(q) = Spent(s)
    BY <1>1, <2>1, <2>3, AsideKeeps
  <2>5. Told(q, m)
    BY <1>1, <2>1 DEF Told
  <2>6. /\ SumTokens(Spent(q)) = AddTokens(SumTokens(Spent(p)), Cost(l, e))
        /\ DOMAIN q.seenMsg = DOMAIN p.seenMsg \cup (IF e.type = "assistant" THEN {e.id} \ {""} ELSE {})
    BY <1>1, <1>5, <1>8, <2>1, <2>4
  <2> QED
    BY <2>2, <2>4, <2>5, <2>6, StandsAgain DEF R
<1> QED
  BY <1>6, <1>7, <1>8

(* Whatever the line is. *)
LEMMA LineStands ==
    ASSUME NEW p, NEW l, NEW m, NEW n, NEW e, Grown(l, e, m, n), Standing(p, l),
           NEW q, q = ReadClaude(p, e, <<n>>)
    PROVE  Standing(q, m)
<1>1. e \in ClaudeLines
  BY DEF Grown
<1>2. CASE e = Unreadable
  <2>1. q = Reported(p, <<n>>) /\ Grown(l, Unreadable, m, n)
    BY <1>2 DEF ReadClaude, Reported
  <2> QED
    BY <2>1, UnreadableStands
<1>3. CASE e # Unreadable
  <2>1. e \in ClaudeLine
    BY <1>1, <1>3, LineTypes
  <2> QED
    BY <2>1, ReadableStands
<1> QED
  BY <1>2, <1>3

(* Before the first line there is nothing to account for. *)
LEMMA NothingStands == ASSUME NEW b \in BOOLEAN PROVE Standing(NewClaude(b), <<>>)
<1> DEFINE p == NewClaude(b)
           nothing == <<>>
<1>1. p = [external |-> "", window |-> NoWindow, turns |-> nothing, current |-> None, errors |-> nothing,
           seenMsg |-> nothing, completions |-> nothing, aiTitle |-> "", customTitle |-> "", isSubagent |-> b]
  BY DEF NewClaude
<1>2. /\ p.window = NoWindow /\ p.turns = nothing /\ p.current = None /\ p.errors = nothing /\ p.seenMsg = nothing
      /\ p.completions = nothing /\ p.aiTitle = "" /\ p.customTitle = ""
  <2> HIDE DEF p, nothing
  <2> QED
    BY <1>1, Zenon
<1>3. p \in ClaudeType
  <2>1. /\ nothing \in Partial(STRING, [turn : Nat, invocation : Nat])
        /\ nothing \in Partial(STRING, [status : STRING, when : Nat, raw : Seq(Nat)])
    BY NoMap
  <2>2. nothing \in Seq(TurnType) /\ nothing \in Seq(Seq(Nat)) /\ NoWindow \in [started : Nat, ended : Nat]
    BY DEF NoWindow
  <2> HIDE DEF nothing, p
  <2> QED
    BY <1>1, <2>1, <2>2 DEF ClaudeType
<1> HIDE DEF p
<1>4. OpenTurns(p) = <<>> /\ Waiting(p) = <<>> /\ DOMAIN p.errors = {} /\ DOMAIN p.seenMsg = {} /\ DOMAIN p.completions = {}
  <2>1. OpenTurns(p) = p.turns /\ Waiting(p) = <<>>
    BY <1>2 DEF OpenTurns, Waiting
  <2>2. DOMAIN nothing = {}
    OBVIOUS
  <2> HIDE DEF nothing
  <2>3. DOMAIN p.errors = {} /\ DOMAIN p.seenMsg = {} /\ DOMAIN p.completions = {} /\ OpenTurns(p) = nothing
    BY <1>2, <2>1, <2>2
  <2> QED
    BY <2>1, <2>3 DEF nothing
<1>5. Kept(p, <<>>)
  <2>1. Marked(p, <<>>) /\ WaitsFor(p, <<>>) /\ Numbered(p)
    BY <1>4 DEF Marked, WaitsFor, Numbered
  <2>2. Uses(p)
    BY <1>2 DEF Uses
  <2> QED
    BY <1>3, <2>1, <2>2 DEF Kept
<1>6. \A type : Of(<<>>, type) = {}
  BY DEF Of
<1>7. ResultsRead(<<>>) = {} /\ Ids(<<>>) = {}
  BY <1>6 DEF ResultsRead, Ids
<1>8. Accounts(p, {}, 0)
  <2>1. \A x : Places(p, x, 0) = {}
    BY <1>4 DEF Places
  <2> QED
    BY <2>1 DEF Accounts
<1>9. Billing(p, <<>>)
  <2>1. Spent(p) = <<>> /\ Bills(<<>>) = <<>>
    BY <1>4 DEF Spent, Bills
  <2> QED
    BY <2>1 DEF Billing
<1>10. Told(p, <<>>)
  <2>1. \A u : NoticesOf(<<>>, u) = {}
    BY DEF NoticesOf
  <2> QED
    BY <1>4, <2>1 DEF Told
<1>11. Titled(p, <<>>)
  BY <1>2, <1>6 DEF Titled, LastTitle
<1>12. SeenIn(p, <<>>)
  BY <1>4, <1>7 DEF SeenIn
<1>13. <<>> \in Seq(ClaudeLines)
  OBVIOUS
<1> QED
  BY <1>5, <1>7, <1>8, <1>9, <1>10, <1>11, <1>12, <1>13 DEF Standing, p

-----------------------------------------------------------------------------
(* The end of the transcript *)

(* f is the transcript's last word: no turn is open. *)
Closed(p, f, ls) ==
    /\ Kept(f, ls) /\ Accounts(f, ResultsRead(ls), 0) /\ Frame(p, f) /\ f.current = None
    /\ ls \in Seq(ClaudeLines) /\ Told(f, ls)

(* Flushing the last turn loses nothing. *)
LEMMA ClosedIs ==
    ASSUME NEW p, NEW ls, Standing(p, ls)
    PROVE  Closed(p, ClaudeFlush(p), ls)
<1> DEFINE f == ClaudeFlush(p)
           R == ResultsRead(ls)
<1>1. ls \in Seq(ClaudeLines) /\ Kept(p, ls) /\ Accounts(p, R, 0) /\ Told(p, ls)
  BY DEF Standing
<1> HIDE DEF R
<1>2. Kept(f, ls) /\ Accounts(f, R, 0) /\ Frame(p, f) /\ f.current = None
  BY <1>1, FlushKeeps
<1> HIDE DEF f
<1>3. Told(f, ls)
  BY <1>1, <1>2 DEF Told, Frame
<1> QED
  BY <1>1, <1>2, <1>3 DEF Closed, R, f

(* The turns of a transcript that is read, typed. *)
LEMMA ClosedTurns ==
    ASSUME NEW p, NEW f, NEW ls, Closed(p, f, ls)
    PROVE  /\ f \in ClaudeType /\ OpenTurns(f) = f.turns /\ Waiting(f) = <<>>
           /\ f.turns \in Seq(TurnType) /\ f.errors \in Seq(Seq(Nat))
           /\ \A t \in DOMAIN f.turns : /\ t \in Nat /\ t > 0 /\ f.turns[t] \in TurnType /\ f.turns[t].calls \in Seq(CallType)
                                        /\ \A i \in DOMAIN f.turns[t].calls : i \in Nat /\ f.turns[t].calls[i] \in CallType
<1>1. f \in ClaudeType /\ f.current = None
  BY DEF Closed, Kept
<1>2. OpenTurns(f) = f.turns /\ Waiting(f) = <<>> /\ f.turns \in Seq(TurnType) /\ f.errors \in Seq(Seq(Nat))
  BY <1>1, ClaudeFields DEF OpenTurns, Waiting
<1>3. ASSUME NEW t \in DOMAIN f.turns
      PROVE  /\ t \in Nat /\ t > 0 /\ f.turns[t] \in TurnType /\ f.turns[t].calls \in Seq(CallType)
             /\ \A i \in DOMAIN f.turns[t].calls : i \in Nat /\ f.turns[t].calls[i] \in CallType
  <2>1. t \in Nat /\ t > 0 /\ f.turns[t] \in TurnType
    BY <1>2
  <2>2. f.turns[t].calls \in Seq(CallType)
    BY <2>1, TurnFields
  <2>3. \A i \in DOMAIN f.turns[t].calls : i \in Nat /\ f.turns[t].calls[i] \in CallType
    BY <2>2, DomainOfSeq
  <2> QED
    BY <2>1, <2>2, <2>3
<1> QED
  BY <1>1, <1>2, <1>3

(* Each result of the transcript is with one call, or is one error. *)
LEMMA ClosedResults ==
    ASSUME NEW p, NEW f, NEW ls, Closed(p, f, ls) PROVE ResultsKept(ls, f.turns, f.errors)
<1> DEFINE T == f.turns
           E == f.errors
           calls(r) == {c \in CallsOf(T) : T[c[1]].calls[c[2]].raw = r}
           reports(r) == {i \in DOMAIN E : E[i] = r}
<1>1. /\ OpenTurns(f) = T /\ Waiting(f) = <<>> /\ T \in Seq(TurnType) /\ E \in Seq(Seq(Nat))
      /\ \A t \in DOMAIN T : t \in Nat /\ t > 0 /\ \A i \in DOMAIN T[t].calls : i \in Nat /\ T[t].calls[i] \in CallType
  BY ClosedTurns
<1>2. Marked(f, ls) /\ Accounts(f, ResultsRead(ls), 0) /\ ls \in Seq(ClaudeLines)
  BY DEF Closed, Kept
<1>3. ResultsRead(ls) \subseteq Nat \X Nat
  BY <1>2, ResultsReadPairs
<1>4. \A c : c \in CallsOf(T) <=> \E t \in DOMAIN T : \E i \in DOMAIN T[t].calls : c = <<t, i>>
  BY DEF CallsOf
<1>5. ASSUME NEW c \in CallsOf(T)
      PROVE  /\ c[1] \in DOMAIN T /\ c[2] \in DOMAIN T[c[1]].calls /\ c = <<c[1], c[2]>> /\ c \in Int \X Nat
             /\ LET call == T[c[1]].calls[c[2]]
                IN \/ call.raw = <<>> /\ call.status = "pending"
                   \/ /\ call.raw \in ResultsRead(ls) /\ call.status # "pending"
                      /\ UseOf(ls, call.raw) \in {"", call.use}
  <2>1. PICK t \in DOMAIN T : \E i \in DOMAIN T[t].calls : c = <<t, i>>
    BY <1>4
  <2>2. PICK i \in DOMAIN T[t].calls : c = <<t, i>>
    BY <2>1
  <2>3. t \in Nat /\ i \in Nat
    BY <1>1
  <2>4. c[1] = t /\ c[2] = i /\ c \in Int \X Nat
    BY <2>2, <2>3
  <2>5. LET call == T[t].calls[i]
        IN \/ call.raw = <<>> /\ call.status = "pending"
           \/ /\ call.raw \in ResultsRead(ls) /\ call.status # "pending"
              /\ UseOf(ls, call.raw) \in {"", call.use}
    BY <1>1, <1>2 DEF Marked
  <2> HIDE DEF T
  <2> QED
    BY <2>2, <2>4, <2>5
<1>6. \A i \in DOMAIN E : i \in Nat
  BY <1>1
<1>7. ASSUME NEW r \in ResultsRead(ls) PROVE Cardinality(calls(r)) + Cardinality(reports(r)) = 1
  <2>1. r \in Nat \X Nat
    BY <1>3
  <2>2. PICK o : Places(f, r, 0) = {o}
    BY <1>2, <2>1, Zenon DEF Accounts
  <2>3. ASSUME NEW c \in Int \X Nat
        PROVE  c \in Places(f, r, 0) <=>
                  \/ c[1] \in DOMAIN T /\ c[2] \in DOMAIN T[c[1]].calls /\ T[c[1]].calls[c[2]].raw = r
                  \/ c[1] = 0 /\ c[2] \in DOMAIN E /\ E[c[2]] = r
    BY <1>1 DEF Places
  <2>4. \A c \in calls(r) : c = o
    <3> SUFFICES ASSUME NEW c \in CallsOf(T), T[c[1]].calls[c[2]].raw = r PROVE c = o
      OBVIOUS
    <3>1. c \in Places(f, r, 0)
      BY <1>5, <2>3
    <3> QED
      BY <2>2, <3>1
  <2>5. \A i \in reports(r) : <<0, i>> = o
    <3> SUFFICES ASSUME NEW i \in DOMAIN E, E[i] = r PROVE <<0, i>> = o
      OBVIOUS
    <3>1. <<0, i>> \in Int \X Nat
      BY <1>6
    <3>2. <<0, i>> \in Places(f, r, 0)
      BY <2>3, <3>1
    <3> QED
      BY <2>2, <3>2
  <2>6. o \in Int \X Nat /\ o \in Places(f, r, 0)
    <3>1. Places(f, r, 0) \subseteq Int \X Nat
      BY DEF Places
    <3> QED
      BY <2>2, <3>1
  <2>7. Cardinality({}) = 0 /\ Cardinality({o}) = 1 /\ Cardinality({o[2]}) = 1
    BY FS_EmptySet, FS_Singleton
  <2>8. CASE o[1] \in DOMAIN T /\ o[2] \in DOMAIN T[o[1]].calls /\ T[o[1]].calls[o[2]].raw = r
    <3>1. o = <<o[1], o[2]>> /\ o[1] # 0
      BY <1>1, <2>6, <2>8
    <3>2. o \in calls(r)
      BY <1>4, <2>8, <3>1
    <3>3. calls(r) = {o}
      BY <2>4, <3>2
    <3>4. \A i \in reports(r) : o[1] = 0
      <4> HIDE DEF reports
      <4> QED
        BY <2>5
    <3>5. reports(r) = {}
      BY <3>1, <3>4
    <3> HIDE DEF calls, reports
    <3> QED
      BY <2>7, <3>3, <3>5
  <2>9. CASE o[1] = 0 /\ o[2] \in DOMAIN E /\ E[o[2]] = r
    <3>1. o[1] \notin DOMAIN T
      BY <1>1, <2>9
    <3>2. calls(r) = {}
      BY <1>5, <2>4, <3>1
    <3>3. \A i \in reports(r) : i = o[2]
      <4> HIDE DEF reports
      <4> QED
        BY <2>5
    <3>4. o[2] \in reports(r)
      BY <2>9
    <3>5. reports(r) = {o[2]}
      BY <3>3, <3>4
    <3> HIDE DEF calls, reports
    <3> QED
      BY <2>7, <3>2, <3>5
  <2> QED
    BY <2>3, <2>6, <2>8, <2>9
<1>8. ASSUME NEW r \in ResultsRead(ls), NEW c \in calls(r)
      PROVE  ls[r[1]].results[r[2]].use \in {"", T[c[1]].calls[c[2]].use}
  <2>1. c \in CallsOf(T) /\ T[c[1]].calls[c[2]].raw = r
    OBVIOUS
  <2>2. r # <<>>
    BY <1>3, PairNotEmpty
  <2>3. UseOf(ls, r) \in {"", T[c[1]].calls[c[2]].use}
    BY <1>5, <2>1, <2>2
  <2> QED
    BY <2>3 DEF UseOf
<1>9. ASSUME NEW c \in CallsOf(T)
      PROVE  T[c[1]].calls[c[2]].raw = <<>> <=> T[c[1]].calls[c[2]].status = "pending"
  <2>1. \A r \in ResultsRead(ls) : r # <<>>
    BY <1>3, PairNotEmpty
  <2> QED
    BY <1>5, <2>1
<1> QED
  BY <1>7, <1>8, <1>9 DEF ResultsKept

(* What a background task comes to. *)
LEMMA ReconciledIs ==
    ASSUME NEW call \in CallType, NEW completions, NEW stopped
    PROVE  LET c == Reconciled(call, completions, stopped)
           IN /\ c.use = call.use
              /\ c.status = IF call.use \in DOMAIN completions
                            THEN AsyncCompletionStatus(completions[call.use].status)
                            ELSE IF call.status = "success" /\ call.output \in DOMAIN Acks /\ Acks[call.output] # ""
                            THEN IF Acks[call.output] \in stopped THEN "interrupted" ELSE "active"
                            ELSE call.status
<1> DEFINE c == Reconciled(call, completions, stopped)
           comp == completions[call.use]
           status == AsyncCompletionStatus(comp.status)
           told == [call EXCEPT !.output = "notified", !.status = status, !.raw = comp.raw,
                                !.ended = IF status = "active" THEN call.ended ELSE comp.when]
           word == IF Acks[call.output] \in stopped THEN "interrupted" ELSE "active"
           launched == [call EXCEPT !.status = word]
<1>1. DOMAIN call = {"name", "use", "input", "invocation", "output", "status", "started", "ended", "raw"}
  BY DEF CallType
<1>2. c = IF call.use \in DOMAIN completions THEN told
          ELSE IF call.status = "success" /\ call.output \in DOMAIN Acks /\ Acks[call.output] # "" THEN launched
          ELSE call
  BY DEF Reconciled, IsAsyncLaunchAck
<1> HIDE DEF status, word
<1>3. told.use = call.use /\ told.status = status
  BY <1>1
<1>4. launched.use = call.use /\ launched.status = word
  BY <1>1
<1> HIDE DEF c, told, launched
<1>5. c.use = call.use
  BY <1>2, <1>3, <1>4
<1>6. c.status = IF call.use \in DOMAIN completions THEN status
                 ELSE IF call.status = "success" /\ call.output \in DOMAIN Acks /\ Acks[call.output] # ""
                 THEN word ELSE call.status
  BY <1>2, <1>3, <1>4
<1> QED
  BY <1>5, <1>6 DEF c, status, word

(* The tasks TaskStop stopped. *)
LEMMA StoppedAre ==
    ASSUME NEW T, NEW x
    PROVE  x \in StoppedTaskIDs(T) <=>
             \E d \in CallsOf(T) : LET stop == T[d[1]].calls[d[2]]
                                   IN /\ stop.name = <<"TaskStop">> /\ stop.status = "success"
                                      /\ stop.input # <<>> /\ Head(stop.input) = x
<1> DEFINE Stops(s) == /\ s.name = <<"TaskStop">> /\ s.status = "success"
                       /\ s.input # <<>> /\ Head(s.input) = x
<1>1. x \in StoppedTaskIDs(T) <=> \E i \in DOMAIN T : \E c \in Range(T[i].calls) : Stops(c)
  BY DEF StoppedTaskIDs
<1>2. \A s : \A c : c \in Range(s) <=> \E k \in DOMAIN s : c = s[k]
  BY DEF Range
<1>3. \A d : d \in CallsOf(T) <=> \E i \in DOMAIN T : \E k \in DOMAIN T[i].calls : d = <<i, k>>
  BY DEF CallsOf
<1> HIDE DEF Stops
<1>4. (\E i \in DOMAIN T : \E c \in Range(T[i].calls) : Stops(c))
        <=> \E i \in DOMAIN T : \E k \in DOMAIN T[i].calls : Stops(T[i].calls[k])
  BY <1>2
<1>5. ASSUME NEW d \in CallsOf(T), Stops(T[d[1]].calls[d[2]])
      PROVE  \E i \in DOMAIN T : \E k \in DOMAIN T[i].calls : Stops(T[i].calls[k])
  BY <1>3, <1>5
<1>6. ASSUME NEW i \in DOMAIN T, NEW k \in DOMAIN T[i].calls, Stops(T[i].calls[k])
      PROVE  \E d \in CallsOf(T) : Stops(T[d[1]].calls[d[2]])
  <2>1. <<i, k>> \in CallsOf(T) /\ <<i, k>>[1] = i /\ <<i, k>>[2] = k
    BY <1>3
  <2> QED
    BY <1>6, <2>1
<1>7. x \in StoppedTaskIDs(T) <=> \E d \in CallsOf(T) : Stops(T[d[1]].calls[d[2]])
  BY <1>1, <1>4, <1>5, <1>6
<1> QED
  BY <1>7 DEF Stops

(* after is before with its calls reconciled with the notices of the transcript. *)
After(f, A) ==
    /\ DOMAIN A = DOMAIN f.turns
    /\ \A t \in DOMAIN f.turns :
          /\ A[t].index = f.turns[t].index /\ A[t].ended = f.turns[t].ended
          /\ A[t].tokens = f.turns[t].tokens /\ A[t].invocations = f.turns[t].invocations
          /\ DOMAIN A[t].calls = DOMAIN f.turns[t].calls
          /\ \A i \in DOMAIN f.turns[t].calls :
                A[t].calls[i] = Reconciled(f.turns[t].calls[i], f.completions, StoppedTaskIDs(f.turns))

(* Reconciling touches calls and the status of turns only. *)
LEMMA AfterIs ==
    ASSUME NEW p, NEW f, NEW ls, Closed(p, f, ls)
    PROVE  After(f, ApplyAsyncCompletions(f.turns, f.completions))
<1> DEFINE A == ApplyAsyncCompletions(f.turns, f.completions)
           stopped == StoppedTaskIDs(f.turns)
           calls(t) == [i \in DOMAIN t.calls |-> Reconciled(t.calls[i], f.completions, stopped)]
           step(t) == [t EXCEPT !.calls = calls(t)]
           last(t) == [step(t) EXCEPT !.status = ResolveTurnStatus(step(t))]
<1>1. \A t \in DOMAIN f.turns : f.turns[t] \in TurnType
  BY ClosedTurns
<1>2. A = [i \in DOMAIN f.turns |-> last(f.turns[i])]
  BY DEF ApplyAsyncCompletions
<1>3. ASSUME NEW t \in TurnType
      PROVE  /\ last(t).index = t.index /\ last(t).ended = t.ended /\ last(t).tokens = t.tokens
             /\ last(t).invocations = t.invocations /\ last(t).calls = calls(t)
  <2>1. DOMAIN t = {"index", "project", "user", "final", "started", "ended", "invocations", "calls",
                    "status", "tokens", "components"}
    BY TurnFields
  <2> HIDE DEF calls
  <2>2. DOMAIN step(t) = DOMAIN t /\ step(t).index = t.index /\ step(t).ended = t.ended
        /\ step(t).tokens = t.tokens /\ step(t).invocations = t.invocations /\ step(t).calls = calls(t)
    BY <2>1
  <2> HIDE DEF step
  <2> QED
    BY <2>1, <2>2
<1>4. DOMAIN A = DOMAIN f.turns /\ \A t \in DOMAIN f.turns : A[t] = last(f.turns[t])
  <2> HIDE DEF last
  <2> QED
    BY <1>2
<1>5. \A t \in TurnType :
         /\ DOMAIN calls(t) = DOMAIN t.calls
         /\ \A i \in DOMAIN t.calls : calls(t)[i] = Reconciled(t.calls[i], f.completions, stopped)
  OBVIOUS
<1> HIDE DEF A, stopped, calls, last
<1>6. ASSUME NEW t \in DOMAIN f.turns
      PROVE  /\ A[t].index = f.turns[t].index /\ A[t].ended = f.turns[t].ended
             /\ A[t].tokens = f.turns[t].tokens /\ A[t].invocations = f.turns[t].invocations
             /\ DOMAIN A[t].calls = DOMAIN f.turns[t].calls
             /\ \A i \in DOMAIN f.turns[t].calls :
                   A[t].calls[i] = Reconciled(f.turns[t].calls[i], f.completions, stopped)
  <2>1. A[t] = last(f.turns[t]) /\ f.turns[t] \in TurnType
    BY <1>1, <1>4
  <2>2. /\ A[t].index = f.turns[t].index /\ A[t].ended = f.turns[t].ended /\ A[t].tokens = f.turns[t].tokens
        /\ A[t].invocations = f.turns[t].invocations /\ A[t].calls = calls(f.turns[t])
    BY <1>3, <2>1
  <2> QED
    BY <1>5, <2>1, <2>2
<1> QED
  BY <1>4, <1>6 DEF After, A, stopped

(* What TasksHonest says of one call. *)
Outcome(told, last, launched, halted, status, before) ==
    CASE told /\ last = "completed" -> status = "success"
      [] told /\ last = "failed" -> status = "failed"
      [] told /\ last = "killed" -> status = "interrupted"
      [] told /\ last \notin {"completed", "failed", "killed"} -> status = "active"
      [] ~told /\ launched -> status = IF halted THEN "interrupted" ELSE "active"
      [] OTHER -> status = before

(* The outcome ReconciledIs gives is the honest one. *)
LEMMA OutcomeIs ==
    ASSUME NEW told \in BOOLEAN, NEW last, NEW launched \in BOOLEAN, NEW halted \in BOOLEAN, NEW status, NEW before,
           status = IF told THEN AsyncCompletionStatus(last)
                    ELSE IF launched THEN IF halted THEN "interrupted" ELSE "active" ELSE before
    PROVE  Outcome(told, last, launched, halted, status, before)
<1>1. CASE told /\ last = "completed"
  BY <1>1 DEF Outcome, AsyncCompletionStatus
<1>2. CASE told /\ last = "failed"
  BY <1>2 DEF Outcome, AsyncCompletionStatus
<1>3. CASE told /\ last = "killed"
  BY <1>3 DEF Outcome, AsyncCompletionStatus
<1>4. CASE told /\ last \notin {"completed", "failed", "killed"}
  BY <1>4 DEF Outcome, AsyncCompletionStatus
<1>5. CASE ~told
  BY <1>5 DEF Outcome
<1> QED
  BY <1>1, <1>2, <1>3, <1>4, <1>5

(* Each background task has the outcome it was last said to have. *)
LEMMA ClosedTasks ==
    ASSUME NEW p, NEW f, NEW ls, Closed(p, f, ls), NEW A, After(f, A)
    PROVE  TasksHonest(ls, f.turns, A)
<1> DEFINE T == f.turns
           stopped == StoppedTaskIDs(T)
<1>1. Told(f, ls) /\ DOMAIN A = DOMAIN T
  BY DEF Closed, After
<1>2. \A t \in DOMAIN T : \A i \in DOMAIN T[t].calls :
         T[t].calls[i] \in CallType /\ A[t].calls[i] = Reconciled(T[t].calls[i], f.completions, stopped)
  BY ClosedTurns DEF After
<1>3. \A t \in DOMAIN T : DOMAIN A[t].calls = DOMAIN T[t].calls
  BY DEF After
<1>4. ASSUME NEW c \in CallsOf(A)
      PROVE  T[c[1]].calls[c[2]] \in CallType /\
             A[c[1]].calls[c[2]] = Reconciled(T[c[1]].calls[c[2]], f.completions, stopped)
  <2>1. PICK t \in DOMAIN A : \E i \in DOMAIN A[t].calls : c = <<t, i>>
    BY DEF CallsOf
  <2>2. PICK i \in DOMAIN A[t].calls : c = <<t, i>>
    BY <2>1
  <2>3. c[1] = t /\ c[2] = i
    BY <2>2
  <2> HIDE DEF T, stopped
  <2> QED
    BY <1>1, <1>2, <1>3, <2>3
<1>5. ASSUME NEW c \in CallsOf(A)
      PROVE  LET was == T[c[1]].calls[c[2]]
                 call == A[c[1]].calls[c[2]]
                 told == NoticesOf(ls, call.use) # {}
                 last == LastNotice(ls, call.use)
                 launched == was.status = "success" /\ was.output \in {o \in DOMAIN Acks : Acks[o] # ""}
                 halted == \E d \in CallsOf(T) :
                          LET stop == T[d[1]].calls[d[2]]
                          IN /\ stop.name = <<"TaskStop">> /\ stop.status = "success"
                             /\ stop.input # <<>> /\ Head(stop.input) = Acks[was.output]
             IN Outcome(told, last, launched, halted, call.status, was.status)
  <2> DEFINE was == T[c[1]].calls[c[2]]
             call == A[c[1]].calls[c[2]]
             told == NoticesOf(ls, call.use) # {}
             last == LastNotice(ls, call.use)
             launched == was.status = "success" /\ was.output \in {o \in DOMAIN Acks : Acks[o] # ""}
             halted == \E d \in CallsOf(T) :
                          LET stop == T[d[1]].calls[d[2]]
                          IN /\ stop.name = <<"TaskStop">> /\ stop.status = "success"
                             /\ stop.input # <<>> /\ Head(stop.input) = Acks[was.output]
  <2>1. was \in CallType /\ call = Reconciled(was, f.completions, stopped)
    BY <1>4
  <2>2. halted <=> Acks[was.output] \in stopped
    <3> DEFINE x == Acks[was.output]
    <3>1. halted <=> \E d \in CallsOf(T) :
                          LET stop == T[d[1]].calls[d[2]]
                          IN /\ stop.name = <<"TaskStop">> /\ stop.status = "success"
                             /\ stop.input # <<>> /\ Head(stop.input) = x
      OBVIOUS
    <3> HIDE DEF x, halted, was, call
    <3>2. x \in stopped <=> \E d \in CallsOf(T) :
                          LET stop == T[d[1]].calls[d[2]]
                          IN /\ stop.name = <<"TaskStop">> /\ stop.status = "success"
                             /\ stop.input # <<>> /\ Head(stop.input) = x
      BY StoppedAre
    <3> QED
      BY <3>1, <3>2 DEF x
  <2> HIDE DEF halted, was, call, T, stopped
  <2>3. /\ call.use = was.use
        /\ call.status = IF was.use \in DOMAIN f.completions
                            THEN AsyncCompletionStatus(f.completions[was.use].status)
                            ELSE IF was.status = "success" /\ was.output \in DOMAIN Acks /\ Acks[was.output] # ""
                            THEN IF Acks[was.output] \in stopped THEN "interrupted" ELSE "active"
                            ELSE was.status
    BY <2>1, ReconciledIs
  <2>4. was.use \in STRING
    BY <2>1 DEF CallType
  <2>5. told <=> was.use \in DOMAIN f.completions
    BY <1>1, <2>3, <2>4 DEF Told
  <2>6. told => f.completions[was.use].status = last
    BY <1>1, <2>3, <2>5 DEF Told
  <2>7. launched <=> was.status = "success" /\ was.output \in DOMAIN Acks /\ Acks[was.output] # ""
    OBVIOUS
  <2> HIDE DEF told, last, launched
  <2>8. told \in BOOLEAN /\ launched \in BOOLEAN /\ halted \in BOOLEAN
    BY DEF told, launched, halted
  <2>9. call.status = IF told THEN AsyncCompletionStatus(last)
                      ELSE IF launched THEN IF halted THEN "interrupted" ELSE "active" ELSE was.status
    BY <2>2, <2>3, <2>5, <2>6, <2>7
  <2>10. Outcome(told, last, launched, halted, call.status, was.status)
    BY <2>8, <2>9, OutcomeIs
  <2> QED
    BY <2>10 DEF told, last, launched, halted, was, call
<1> QED
  BY <1>5 DEF TasksHonest, Outcome

(* What ParseEvents returns, by its fields. *)
LEMMA SessionIs ==
    ASSUME NEW p
    PROVE  LET f == ClaudeFlush(p)
               s == ClaudeParsed(p)
               A == ApplyAsyncCompletions(f.turns, f.completions)
           IN /\ s.turns = A /\ s.tokens = TokensOf(A) /\ s.errors = f.errors /\ s.window = f.window
              /\ s.title = IF f.isSubagent THEN "" ELSE IF f.customTitle # "" THEN f.customTitle ELSE f.aiTitle
<1> DEFINE f == ClaudeFlush(p)
           A == ApplyAsyncCompletions(f.turns, f.completions)
           title == IF f.isSubagent THEN "" ELSE IF f.customTitle # "" THEN f.customTitle ELSE f.aiTitle
           base == [external |-> f.external, window |-> f.window, errors |-> f.errors, title |-> title]
           calls == FoldLeft(LAMBDA n, t : n + Len(t.calls), 0, A)
           status == IF A = <<>> THEN "unknown" ELSE "completed"
           sums == [turns |-> A, tokens |-> TokensOf(A), toolCalls |-> calls, status |-> status]
           s == ClaudeParsed(p)
<1>1. s = Over(base, sums)
  BY DEF ClaudeParsed, FinalizeSession
<1> HIDE DEF s, A, calls, status, title, f
<1>2. /\ DOMAIN base = {"external", "window", "errors", "title"}
      /\ DOMAIN sums = {"turns", "tokens", "toolCalls", "status"}
      /\ base.errors = f.errors /\ base.window = f.window /\ base.title = title
      /\ sums.turns = A /\ sums.tokens = TokensOf(A)
  OBVIOUS
<1> HIDE DEF base, sums
<1>3. s.errors = f.errors /\ s.window = f.window /\ s.title = title
  BY <1>1, <1>2, OverFirst
<1>4. s.turns = A /\ s.tokens = TokensOf(A)
  BY <1>1, <1>2, OverSecond
<1> QED
  BY <1>3, <1>4 DEF title, A, s, f

(* What ParseEvents returns accounts for the transcript, for any lines. *)
LEMMA StandsFaithful ==
    ASSUME NEW p, NEW ls, Standing(p, ls)
    PROVE  LET s == ClaudeParsed(p)
               f == ClaudeFlush(p)
           IN /\ ResultsKept(ls, f.turns, s.errors)
              /\ s.tokens = SumTokens(Bills(ls)) /\ s.tokens.cacheWriteLong <= s.tokens.cacheWrite
              /\ \A i \in DOMAIN s.turns :
                    /\ s.turns[i].index = i /\ s.turns[i].tokens = TokensOf(s.turns[i].invocations)
                    /\ s.turns[i].ended <= s.window.ended
              /\ TasksHonest(ls, f.turns, s.turns)
              /\ s.title = IF p.isSubagent THEN ""
                           ELSE IF LastTitle(ls, "custom-title") # "" THEN LastTitle(ls, "custom-title")
                           ELSE LastTitle(ls, "ai-title")
<1> DEFINE f == ClaudeFlush(p)
           s == ClaudeParsed(p)
           A == ApplyAsyncCompletions(f.turns, f.completions)
<1>1. /\ s.turns = A /\ s.tokens = TokensOf(A) /\ s.errors = f.errors /\ s.window = f.window
      /\ s.title = IF f.isSubagent THEN "" ELSE IF f.customTitle # "" THEN f.customTitle ELSE f.aiTitle
  BY SessionIs, Zenon
<1>2. Closed(p, f, ls)
  BY ClosedIs, Zenon
<1> HIDE DEF f, s
<1>3. After(f, A)
  BY <1>2, AfterIs
<1> HIDE DEF A
<1>4. /\ f \in ClaudeType /\ OpenTurns(f) = f.turns
  BY <1>2, ClosedTurns
<1>5. Kept(f, ls) /\ Frame(p, f)
  BY <1>2 DEF Closed
<1>6. ls \in Seq(ClaudeLines) /\ Billing(p, ls) /\ Titled(p, ls)
  BY DEF Standing
<1>7. ResultsKept(ls, f.turns, s.errors)
  <2>1. ResultsKept(ls, f.turns, f.errors)
    BY <1>2, ClosedResults
  <2> QED
    BY <1>1, <2>1
<1>8. TasksHonest(ls, f.turns, s.turns)
  <2>1. TasksHonest(ls, f.turns, A)
    BY <1>2, <1>3, ClosedTasks
  <2> QED
    BY <1>1, <2>1
<1>9. s.tokens = SumTokens(Bills(ls))
  <2>1. TokensOf(A) = TokensOf(f.turns)
    BY <1>3 DEF After, TokensOf
  <2>2. TokensOf(f.turns) = SumTokens(Spent(f))
    BY <1>4, SpentType
  <2>3. SumTokens(Spent(f)) = SumTokens(Spent(p))
    BY <1>5 DEF Frame
  <2> QED
    BY <1>1, <1>6, <2>1, <2>2, <2>3 DEF Billing
<1>10. s.tokens.cacheWriteLong <= s.tokens.cacheWrite
  <2> DEFINE b == Bills(ls)
  <2>1. b \in Seq(Tokens) /\ \A i \in 1 .. Len(b) : b[i].cacheWriteLong <= b[i].cacheWrite
    BY <1>6, BillsType
  <2> HIDE DEF b
  <2>2. SumTokens(b).cacheWriteLong <= SumTokens(b).cacheWrite
    BY <2>1, SumTokensBound
  <2> QED
    BY <1>9, <2>2 DEF b
<1>11. \A i \in DOMAIN s.turns :
          /\ s.turns[i].index = i /\ s.turns[i].tokens = TokensOf(s.turns[i].invocations)
          /\ s.turns[i].ended <= s.window.ended
  <2>1. Numbered(f)
    BY <1>5 DEF Kept
  <2>2. \A i \in DOMAIN f.turns :
           /\ f.turns[i].index = i /\ f.turns[i].ended <= f.window.ended
           /\ f.turns[i].tokens = TokensOf(f.turns[i].invocations)
    BY <1>4, <2>1 DEF Numbered
  <2>3. ASSUME NEW i \in DOMAIN A
        PROVE  /\ A[i].index = i /\ A[i].tokens = TokensOf(A[i].invocations) /\ A[i].ended <= f.window.ended
    BY <1>3, <2>2 DEF After
  <2> QED
    BY <1>1, <2>3
<1>12. s.title = IF p.isSubagent THEN ""
                 ELSE IF LastTitle(ls, "custom-title") # "" THEN LastTitle(ls, "custom-title")
                 ELSE LastTitle(ls, "ai-title")
  BY <1>1, <1>5, <1>6 DEF Frame, Titled
<1> QED
  BY <1>7, <1>8, <1>9, <1>10, <1>11, <1>12 DEF s, f

(* The same of the state of the model. *)
LEMMA StandingFaithful == Standing(claude, lines) => ClaudeFaithful
<1> SUFFICES ASSUME Standing(claude, lines) PROVE ClaudeFaithful
  OBVIOUS
<1> DEFINE s == ClaudeParsed(claude)
           f == ClaudeFlush(claude)
<1>1. /\ ResultsKept(lines, f.turns, s.errors)
      /\ s.tokens = SumTokens(Bills(lines)) /\ s.tokens.cacheWriteLong <= s.tokens.cacheWrite
      /\ \A i \in DOMAIN s.turns :
            /\ s.turns[i].index = i /\ s.turns[i].tokens = TokensOf(s.turns[i].invocations)
            /\ s.turns[i].ended <= s.window.ended
      /\ TasksHonest(lines, f.turns, s.turns)
      /\ s.title = IF claude.isSubagent THEN ""
                   ELSE IF LastTitle(lines, "custom-title") # "" THEN LastTitle(lines, "custom-title")
                   ELSE LastTitle(lines, "ai-title")
  BY StandsFaithful, Zenon
<1>2. Bills(lines) = [n \in DOMAIN lines |-> IF n \in Billed(lines) THEN Usage(lines[n].usage) ELSE NoTokens]
  BY DEF Bills
<1> HIDE DEF s, f
<1>3. ClaudeFaithful <=>
        /\ ResultsKept(lines, f.turns, s.errors)
        /\ s.tokens = SumTokens([n \in DOMAIN lines |-> IF n \in Billed(lines) THEN Usage(lines[n].usage)
                                                        ELSE NoTokens])
        /\ s.tokens.cacheWriteLong <= s.tokens.cacheWrite
        /\ \A i \in DOMAIN s.turns :
              /\ s.turns[i].index = i
              /\ s.turns[i].tokens = TokensOf(s.turns[i].invocations)
              /\ s.turns[i].ended <= s.window.ended
        /\ TasksHonest(lines, f.turns, s.turns)
        /\ s.title = IF claude.isSubagent THEN ""
                     ELSE IF LastTitle(lines, "custom-title") # "" THEN LastTitle(lines, "custom-title")
                     ELSE LastTitle(lines, "ai-title")
  BY Zenon DEF ClaudeFaithful, s, f
<1> QED
  BY <1>1, <1>2, <1>3, Zenon

(* However the lines of a transcript are interleaved, and however many they are, what
   parser/claudecode/parser.go returns accounts for all of it: each tool result completes
   one call of its use id or is one parse error, each message is billed once, background
   tasks have the outcome they were last said to have, the user's title wins and no turn
   ends after its session. *)
THEOREM ClaudeFaithfulAlways == ClaudeSpec => []ClaudeFaithful
<1>1. ClaudeInit => Standing(claude, lines)
  <2> SUFFICES ASSUME ClaudeInit PROVE Standing(claude, lines)
    OBVIOUS
  <2>1. lines = <<>>
    BY DEF ClaudeInit
  <2>2. PICK b \in BOOLEAN : claude = NewClaude(b)
    BY DEF ClaudeInit
  <2>3. Standing(NewClaude(b), <<>>)
    BY NothingStands
  <2> QED
    BY <2>1, <2>2, <2>3
<1>2. Standing(claude, lines) /\ [ReadClaudeLine]_claudeVars => Standing(claude, lines)'
  <2> SUFFICES ASSUME Standing(claude, lines), [ReadClaudeLine]_claudeVars PROVE Standing(claude', lines')
    BY DEF Standing, Kept, Marked, WaitsFor, Uses, Numbered, Accounts, Places, Billing, SeenIn, Told, Titled
  <2>1. CASE UNCHANGED claudeVars
    BY <2>1 DEF claudeVars
  <2>2. CASE ReadClaudeLine
    <3>1. PICK e \in ClaudeLines : lines' = Append(lines, e) /\ claude' = ReadClaude(claude, e, <<Len(lines) + 1>>)
      BY <2>2 DEF ReadClaudeLine
    <3> DEFINE n == Len(lines) + 1
               m == lines'
               q == claude'
    <3>2. Grown(lines, e, m, n)
      BY <3>1 DEF Standing, Grown
    <3>3. q = ReadClaude(claude, e, <<n>>)
      BY <3>1
    <3> HIDE DEF n, m, q
    <3>4. Standing(q, m)
      BY <3>2, <3>3, LineStands
    <3> QED
      BY <3>4 DEF q, m
  <2> QED
    BY <2>1, <2>2
<1> QED
  BY <1>1, <1>2, StandingFaithful, PTL DEF ClaudeSpec

============================================================================
