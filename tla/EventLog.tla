------------------------------ MODULE EventLog ------------------------------
(***************************************************************************)
(* The durable event log (internal/eventlog): an ordered bucket of events   *)
(* keyed by a caller-assigned id.  The log is a finite set of events with    *)
(* distinct ids; a cursor over the bucket is the order of the ids.  Only the *)
(* fields the store looks at are used: e.id and e.at.                        *)
(*                                                                           *)
(* Pure operators, no state: LiveBroker holds the log in a variable.         *)
(***************************************************************************)
EXTENDS Naturals, FiniteSets

LastIDOffByOne(log) ==
    IF log = {} THEN 0 - 1 ELSE (CHOOSE e \in log : \A f \in log : f.id <= e.id).id

(* cursor.Last and cursor.First: 0 stands for "the log is empty". *)
LastID(log) ==
    IF log = {} THEN 0 ELSE (CHOOSE e \in log : \A f \in log : f.id <= e.id).id

MinID(log) ==
    IF log = {} THEN 0 ELSE (CHOOSE e \in log : \A f \in log : e.id <= f.id).id

(* bucket.Put: an id that is already there is overwritten. *)
AppendWithID(log, e) == {f \in log : f.id # e.id} \cup {e}

(* One page of a replay: the first limit events of (after, until].  As in the *)
(* code, until = 0 leaves the range open; limit is the page size (positive).  *)
ReplayRange(log, after, until, limit) ==
    LET range == {e \in log : e.id > after /\ (until = 0 \/ e.id <= until)}
    IN  {e \in range : Cardinality({f \in range : f.id < e.id}) < limit}

(* The keepN newest events that exist are kept whatever their age. *)
AboveFloor(log, keepN, e) ==
    keepN > 0 /\ Cardinality({f \in log : f.id > e.id}) < keepN

(* An event the walk over the bucket does not stop at: below the floor and,   *)
(* when a cutoff is set (before > 0), older than it.                          *)
Expendable(log, before, keepN, e) ==
    /\ ~AboveFloor(log, keepN, e)
    /\ before > 0 => e.at < before

(* What Prune deletes: the walk ascends from the oldest event and stops at    *)
(* the first one to keep, so an event goes only if every older one goes too.  *)
Victims(log, before, keepN) ==
    {e \in log : \A f \in log : f.id <= e.id => Expendable(log, before, keepN, f)}

Prune(log, before, keepN) ==
    IF before = 0 /\ keepN = 0 THEN log ELSE log \ Victims(log, before, keepN)

=============================================================================
