----------------------------- MODULE StreamFeed -----------------------------
(***************************************************************************)
(* What GET /v1/stream promises a consumer, without any of its machinery.    *)
(* Events are numbered 1, 2, 3, ...; an attached consumer stands at a        *)
(* position and moves over the events after it one at a time, in order.  The *)
(* only other way forward is to be told to resync, once per connection.      *)
(***************************************************************************)
EXTENDS Naturals

CONSTANT Clients

VARIABLES
    head,   \* number of the newest event
    feed    \* per client: attached or not, its position, and told to resync

vars == <<head, feed>>

At(at, told) == [on |-> TRUE, at |-> at, told |-> told]

Detached == [on |-> FALSE, at |-> 0, told |-> FALSE]

Init ==
    /\ head = 0
    /\ feed = [c \in Clients |-> Detached]

Publish ==
    /\ head' = head + 1
    /\ UNCHANGED feed

Attach(c) ==
    /\ ~feed[c].on
    /\ \E at \in 0..head : feed' = [feed EXCEPT ![c] = At(at, FALSE)]
    /\ UNCHANGED head

Advance(c) ==
    /\ feed[c].on /\ feed[c].at < head
    /\ feed' = [feed EXCEPT ![c] = At(feed[c].at + 1, feed[c].told)]
    /\ UNCHANGED head

Resync(c) ==
    /\ feed[c].on /\ ~feed[c].told
    /\ \E at \in feed[c].at..head : feed' = [feed EXCEPT ![c] = At(at, TRUE)]
    /\ UNCHANGED head

Detach(c) ==
    /\ feed[c].on
    /\ feed' = [feed EXCEPT ![c] = Detached]
    /\ UNCHANGED head

(* The service stops or starts: nobody is attached, the numbering may change. *)
Restart ==
    /\ head' \in Nat
    /\ feed' = [c \in Clients |-> Detached]

Next ==
    \/ Publish
    \/ \E c \in Clients : Attach(c) \/ Advance(c) \/ Resync(c) \/ Detach(c)
    \/ Restart

Spec == Init /\ [][Next]_vars

(* Nobody attached stays behind the newest event for good: it moves, is told  *)
(* to resync, or is detached.                                                 *)
Behind(c) == feed[c].on /\ feed[c].at < head

Progress == \A c \in Clients : WF_vars(Behind(c) /\ (Advance(c) \/ Resync(c) \/ Detach(c)))

=============================================================================
