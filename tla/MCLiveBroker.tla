---------------------------- MODULE MCLiveBroker ----------------------------
(* Instances of LiveBroker for TLC. *)
EXTENDS LiveBroker

CONSTANTS c1, c2, k1

NoKeys == {}
OneKey == {k1}

(* A client that takes everything, or one that watches a single session. *)
WatchAll == [c \in Clients |-> {}]
WatchOne == [c \in Clients |-> {k1}]

=============================================================================
