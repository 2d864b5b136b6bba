------------------------------- MODULE HookSpool -------------------------------
(***************************************************************************)
(* The audit spool of hook payloads (httpapi/hook.go).  Request handlers      *)
(* reserve a body's bytes in a counter kept by compare-and-swap, hand it to    *)
(* one writer over a bounded channel, or drop it, and then emit the live event, *)
(* which a closed server refuses.  The writer rotates the daily file and gives the bytes back.      *)
(* Close takes lifecycleMu, closes the channel and waits until it is drained.  *)
(* A handler is its request's body; what matters of a body is its length.      *)
(***************************************************************************)
EXTENDS Naturals, Sequences, FiniteSets

CONSTANTS
    Hooks,       \* requests
    Length,      \* bytes of each body
    Budget,      \* spoolBudgetBytes
    SpoolBuffer, \* slots of spoolCh
    MaxBody,     \* maxHookIntakeBytes
    MaxDays      \* bound: days that pass

ASSUME HookSpoolAssumption ==
    /\ Length \in [Hooks -> Nat] /\ Budget \in Nat /\ MaxBody \in Nat
    /\ SpoolBuffer \in Nat \ {0} /\ MaxDays \in Nat

VARIABLES
    at,         \* per request, where its handler is
    loaded,     \* per request, the counter as it loaded it
    queued,     \* queuedSpoolBytes
    spoolCh,    \* bodies in the channel
    writing,    \* the bodies runSpoolWriter holds: none or one
    rotated,    \* whether the file is that of the day
    days,
    closing,    \* no, drain (flag set and channel closed), or done
    onDisk,     \* bodies written to the spool
    failed,     \* bodies whose write failed
    dropped,    \* bodies dropped
    emitted     \* requests whose live event was emitted

spoolVars == <<at, loaded, queued, spoolCh, writing, rotated, days, closing, onDisk, failed,
               dropped, emitted>>
fates == <<onDisk, failed, dropped>>

SpoolInit ==
    /\ at = [h \in Hooks |-> "read"] /\ loaded = [h \in Hooks |-> 0]
    /\ queued = 0 /\ spoolCh = <<>> /\ writing = {} /\ rotated = FALSE /\ days = 0
    /\ closing = "no" /\ onDisk = {} /\ failed = {} /\ dropped = {} /\ emitted = {}

ToPoint(h, to) == at' = [at EXCEPT ![h] = to]
Readers == {h \in Hooks : at[h] \in {"load", "swap", "send"}}
Accepted(h) == Length[h] > 0 /\ Length[h] <= MaxBody

-----------------------------------------------------------------------------
(* handleHooksIntake reads the body; enqueueSpool runs under lifecycleMu's read   *)
(* lock, from "load" to "emit".                                                   *)

ReadBody(h) ==
    /\ at[h] = "read" /\ ToPoint(h, IF Accepted(h) THEN "lock" ELSE "done")
    /\ UNCHANGED <<loaded, queued, spoolCh, writing, rotated, days, closing, fates, emitted>>

RLock(h) ==
    /\ at[h] = "lock" /\ closing \in {"no", "done"}
    /\ ToPoint(h, IF closing = "no" THEN "load" ELSE "emit")
    /\ UNCHANGED <<loaded, queued, spoolCh, writing, rotated, days, closing, fates, emitted>>

LoadQueued(h) ==
    /\ at[h] = "load"
    /\ loaded' = [loaded EXCEPT ![h] = queued]
    /\ IF queued + Length[h] > Budget
       THEN dropped' = dropped \cup {h} /\ ToPoint(h, "emit")
       ELSE UNCHANGED dropped /\ ToPoint(h, "swap")
    /\ UNCHANGED <<queued, spoolCh, writing, rotated, days, closing, onDisk, failed, emitted>>

\* a reservation that adds without comparing
AddBlindly(h) ==
    /\ at[h] = "swap" /\ queued' = queued + Length[h] /\ ToPoint(h, "send")
    /\ UNCHANGED <<loaded, spoolCh, writing, rotated, days, closing, fates, emitted>>

Reserve(h) ==
    /\ at[h] = "swap"
    /\ IF queued = loaded[h]
       THEN queued' = queued + Length[h] /\ ToPoint(h, "send")
       ELSE UNCHANGED queued /\ ToPoint(h, "load")
    /\ UNCHANGED <<loaded, spoolCh, writing, rotated, days, closing, fates, emitted>>

SendSpool(h) ==
    /\ at[h] = "send" /\ ToPoint(h, "emit")
    /\ IF Len(spoolCh) < SpoolBuffer
       THEN spoolCh' = Append(spoolCh, h) /\ UNCHANGED <<queued, dropped>>
       ELSE queued' = queued - Length[h] /\ dropped' = dropped \cup {h} /\ UNCHANGED spoolCh
    /\ UNCHANGED <<loaded, writing, rotated, days, closing, onDisk, failed, emitted>>

(* Emit runs under the read lock too and looks at the flag again.                 *)
EmitHook(h) ==
    /\ at[h] = "emit" /\ closing \in {"no", "done"} /\ ToPoint(h, "done")
    /\ emitted' = IF closing = "no" THEN emitted \cup {h} ELSE emitted
    /\ UNCHANGED <<loaded, queued, spoolCh, writing, rotated, days, closing, fates>>

-----------------------------------------------------------------------------
(* runSpoolWriter *)

TakeBody ==
    /\ writing = {} /\ spoolCh # <<>>
    /\ writing' = {Head(spoolCh)} /\ spoolCh' = Tail(spoolCh)
    /\ UNCHANGED <<at, loaded, queued, rotated, days, closing, fates, emitted>>

(* appendSpoolLine opens the file of the day first, which may fail as the write     *)
(* may; the bytes are given back either way.                                      *)
AppendSpoolLine(h) ==
    /\ writing = {h} /\ h \notin onDisk \cup failed
    /\ \/ rotated' = TRUE /\ onDisk' = onDisk \cup {h} /\ UNCHANGED failed
       \/ rotated' \in {rotated, TRUE} /\ failed' = failed \cup {h} /\ UNCHANGED onDisk
    /\ UNCHANGED <<at, loaded, queued, spoolCh, writing, days, closing, dropped, emitted>>

ReleaseBytes(h) ==
    /\ writing = {h} /\ h \in onDisk \cup failed
    /\ queued' = queued - Length[h] /\ writing' = {}
    /\ UNCHANGED <<at, loaded, spoolCh, rotated, days, closing, fates, emitted>>

NextDay ==
    /\ days < MaxDays /\ days' = days + 1 /\ rotated' = FALSE
    /\ UNCHANGED <<at, loaded, queued, spoolCh, writing, closing, fates, emitted>>

-----------------------------------------------------------------------------
(* Close *)

\* a shutdown that does not wait for handlers under the read lock
CloseAtOnce ==
    /\ closing = "no" /\ closing' = "drain"
    /\ UNCHANGED <<at, loaded, queued, spoolCh, writing, rotated, days, fates, emitted>>

(* The write lock: no handler is between its check and its send.                   *)
CloseSpool ==
    /\ closing = "no" /\ Readers = {} /\ closing' = "drain"
    /\ UNCHANGED <<at, loaded, queued, spoolCh, writing, rotated, days, fates, emitted>>

Drained ==
    /\ closing = "drain" /\ spoolCh = <<>> /\ writing = {} /\ closing' = "done"
    /\ UNCHANGED <<at, loaded, queued, spoolCh, writing, rotated, days, fates, emitted>>

SpoolNext ==
    \/ \E h \in Hooks :
          \/ ReadBody(h) \/ RLock(h) \/ LoadQueued(h) \/ Reserve(h) \/ SendSpool(h) \/ EmitHook(h)
          \/ AppendSpoolLine(h) \/ ReleaseBytes(h)
    \/ TakeBody \/ NextDay \/ CloseSpool \/ Drained

-----------------------------------------------------------------------------
(* Properties *)

InChannel == {spoolCh[i] : i \in 1 .. Len(spoolCh)}
Held == {h \in Hooks : at[h] = "send"} \cup InChannel \cup writing
BytesOf(bodies) == UNION {{h} \X (1 .. Length[h]) : h \in bodies}

(* Under any interleaving of handlers and writer the counter is the bytes of the   *)
(* bodies reserved, queued or being written, and never above the budget           *)
(* (enqueueSpool, runSpoolWriter).                                                *)
SpoolBudget ==
    /\ queued = Cardinality(BytesOf(Held))
    /\ queued <= Budget

(* Once Close has the lock nobody is about to send on the closed channel.  A body   *)
(* has at most one fate: written, failed or dropped.  While the server is open a    *)
(* handler that is done has emitted its event, whatever became of the body; when    *)
(* Close is done the counter is back to zero and every body whose event was emitted *)
(* has met its fate (Close, stopSpooler, handleHooksIntake, Emit).                  *)
SpoolSettles ==
    /\ closing \in {"drain", "done"} => Readers = {}
    /\ closing = "done" => queued = 0 /\ Held = {} /\ emitted \subseteq onDisk \cup failed \cup dropped
    /\ onDisk \cap failed = {} /\ dropped \cap (onDisk \cup failed) = {}
    /\ \A h \in emitted : Accepted(h)
    /\ closing = "no" => \A h \in Hooks : at[h] = "done" /\ Accepted(h) => h \in emitted

SpoolSpec == SpoolInit /\ [][SpoolNext]_spoolVars
=============================================================================
