---------------------------- MODULE MCLiveScenes ----------------------------
(* LiveBroker across crashes, shutdowns and restarts. One instance holds the   *)
(* constants of two questions: what the session table shows when nobody is      *)
(* connected, and what a client misses of three events that name no session.     *)
EXTENDS MCLiveBroker, SequencesExt

Unwatched ==
    /\ ~tailLost
    /\ \A c \in Clients : conn[c] = Closed /\ cursor[c] = 0 /\ last[c] = NoEvent /\ missed[c] = {}

Events == log \cup Range(persistCh) \cup (IF emitting = NoEvent THEN {} ELSE {emitting.ev})
Nameless ==
    /\ eventSeq <= 3 /\ gc \in {0, 2} /\ liveSessions = NoLive
    /\ snapshot # Nil => snapshot.entries = NoLive
    /\ \A e \in Events : e.key = NoKey /\ e.at = 1

OneQuestion == Unwatched' \/ Nameless'
=============================================================================
