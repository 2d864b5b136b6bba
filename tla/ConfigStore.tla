------------------------------ MODULE ConfigStore ------------------------------
(***************************************************************************)
(* config.json (config/write.go) and its Loader in the daemon                *)
(* (config/config.go).  Writers are `config set` / `unset` processes and the   *)
(* API's Set: each reads the file, changes one key and renames a new file into *)
(* place, with no lock over the two.  People edit the file in place.  The      *)
(* Loader reloads under its mutex, asked by a writer or by the watch, whose    *)
(* file events arm a debounce timer.  A file maps keys to values, Unset where   *)
(* absent, or is Broken (not JSON).                                            *)
(***************************************************************************)
EXTENDS Naturals

CONSTANTS
    Keys, Good, Bad, \* config keys; values that validate, and one that does not
    Unset, Broken, Nobody,
    Writers, Job,    \* Job[w] = <<key, value>>: what each sets, Unset to unset
    InAPI,           \* writers that run in the daemon and always reload
    Edits,           \* contents people may write
    MaxEdits         \* bound: edits in place

Values == Good \cup {Bad, Unset}
Watch == "watch"
Reloaders == Writers \cup {Watch}
NoSettings == [k \in Keys |-> Unset]

ASSUME ConfigAssumption ==
    /\ Bad \notin Good /\ Unset \notin Good \cup {Bad} /\ Watch \notin Writers
    /\ Nobody \notin Reloaders /\ InAPI \subseteq Writers /\ MaxEdits \in Nat
    /\ \A w \in Writers : Job[w] \in Keys \X Values
    /\ Edits \subseteq [Keys -> Values] \cup {Broken}

VARIABLES
    file,      \* config.json
    step,      \* per writer and for the watch: where it is
    copy,      \* per writer, the map it has read and changed; per reloader, what it has read
    mutex,     \* who has Loader.mu, or Nobody
    snapshot,  \* Loader.current, as the file it came from
    watching, fsEvent, timer, \* the watch: directory added, event pending, debounce armed
    editing,   \* whether somebody's editor has truncated the file
    edits,
    behind,    \* history: writers whose copy is older than the file
    asked,     \* history: the file as the acknowledged updates made it one by one
    overlapped,\* history: a writer renamed over a change it had not read
    missed     \* history: the file changed before the watch was up, unseen by a reload

configVars == <<file, step, copy, mutex, snapshot, watching, fsEvent, timer, editing, edits,
                behind, asked, overlapped, missed>>

Valid(f) == f # Broken /\ \A k \in Keys : f[k] # Bad

ConfigInit ==
    /\ file \in {f \in Edits : Valid(f)} /\ snapshot = file /\ asked = file
    /\ step = [r \in Reloaders |-> IF r = Watch THEN "idle" ELSE "new"]
    /\ copy = [r \in Reloaders |-> NoSettings] /\ mutex = Nobody
    /\ watching = FALSE /\ fsEvent = FALSE /\ timer = FALSE /\ editing = FALSE /\ edits = 0
    /\ behind = {} /\ overlapped = FALSE /\ missed = FALSE

ToStep(r, to) == step' = [step EXCEPT ![r] = to]

(* The file's content becomes f: copies taken before are behind, the watch sees it. *)
Becomes(f, by) ==
    /\ file' = f
    /\ behind' = (behind \ {by}) \cup {w \in Writers \ {by} : step[w] = "have"}
    /\ fsEvent' = (fsEvent \/ watching) /\ missed' = (missed \/ ~ watching)

-----------------------------------------------------------------------------
(* SetKey, UnsetKey *)

\* a set that writes its own key alone
ReadNothing(w) ==
    /\ step[w] = "new"
    /\ IF file = Broken \/ Job[w][2] = Bad
       THEN ToStep(w, "done") /\ UNCHANGED copy
       ELSE copy' = [copy EXCEPT ![w] = [NoSettings EXCEPT ![Job[w][1]] = Job[w][2]]] /\ ToStep(w, "have")
    /\ UNCHANGED <<file, mutex, snapshot, watching, fsEvent, timer, editing, edits, behind, asked,
                   overlapped, missed>>

(* A file that does not parse and a value that does not validate are errors.         *)
ReadFileMap(w) ==
    /\ step[w] = "new"
    /\ IF file = Broken \/ Job[w][2] = Bad
       THEN ToStep(w, "done") /\ UNCHANGED copy
       ELSE copy' = [copy EXCEPT ![w] = [file EXCEPT ![Job[w][1]] = Job[w][2]]] /\ ToStep(w, "have")
    /\ UNCHANGED <<file, mutex, snapshot, watching, fsEvent, timer, editing, edits, behind, asked,
                   overlapped, missed>>

(* The rename; then the API reloads, and a CLI asks the daemon to if it answers.     *)
WriteFileMap(w) ==
    /\ step[w] = "have" /\ Becomes(copy[w], w)
    /\ asked' = IF asked = Broken THEN copy[w] ELSE [asked EXCEPT ![Job[w][1]] = Job[w][2]]
    /\ overlapped' = (overlapped \/ w \in behind)
    /\ \/ ToStep(w, "reload")
       \/ w \notin InAPI /\ ToStep(w, "done")
    /\ UNCHANGED <<copy, mutex, snapshot, watching, timer, editing, edits>>

(* An editor truncates the file and writes it; a reader in between sees it empty.    *)
EditTruncates ==
    /\ edits < MaxEdits /\ ~ editing /\ editing' = TRUE /\ edits' = edits + 1
    /\ Becomes(NoSettings, Nobody) /\ asked' = NoSettings
    /\ UNCHANGED <<step, copy, mutex, snapshot, watching, timer, overlapped>>

EditWrites ==
    /\ editing /\ editing' = FALSE
    /\ \E f \in Edits : Becomes(f, Nobody) /\ asked' = f
    /\ UNCHANGED <<step, copy, mutex, snapshot, watching, timer, edits, overlapped>>

-----------------------------------------------------------------------------
(* Loader.Reload: read, parse, validate and store under the mutex.                   *)

\* a reload that reads the file before it takes the mutex
ReadBeforeLock(r) ==
    /\ step[r] = "reload"
    /\ copy' = [copy EXCEPT ![r] = file] /\ ToStep(r, "read")
    /\ UNCHANGED <<mutex, file, snapshot, watching, fsEvent, timer, editing, edits, behind, asked,
                   overlapped, missed>>

ReloadReads(r) ==
    /\ step[r] = "reload" /\ mutex = Nobody /\ mutex' = r
    /\ copy' = [copy EXCEPT ![r] = file] /\ ToStep(r, "read")
    /\ UNCHANGED <<file, snapshot, watching, fsEvent, timer, editing, edits, behind, asked,
                   overlapped, missed>>

(* On an error the previous snapshot is kept.                                        *)
ReloadStores(r) ==
    /\ step[r] = "read" /\ mutex' = Nobody
    /\ snapshot' = IF Valid(copy[r]) THEN copy[r] ELSE snapshot
    /\ missed' = (missed /\ copy[r] # file)
    /\ ToStep(r, IF r = Watch THEN "idle" ELSE "done")
    /\ UNCHANGED <<file, copy, watching, fsEvent, timer, editing, edits, behind, asked, overlapped>>

-----------------------------------------------------------------------------
(* Loader.Watch: one goroutine takes events, resets the timer, and reloads.          *)

WatchStarts ==
    /\ ~ watching /\ watching' = TRUE
    /\ UNCHANGED <<file, step, copy, mutex, snapshot, fsEvent, timer, editing, edits, behind, asked,
                   overlapped, missed>>

WatchEvent ==
    /\ step[Watch] = "idle" /\ fsEvent /\ fsEvent' = FALSE /\ timer' = TRUE
    /\ UNCHANGED <<file, step, copy, mutex, snapshot, watching, editing, edits, behind, asked,
                   overlapped, missed>>

DebounceFires ==
    /\ step[Watch] = "idle" /\ timer /\ timer' = FALSE /\ ToStep(Watch, "reload")
    /\ UNCHANGED <<file, copy, mutex, snapshot, watching, fsEvent, editing, edits, behind, asked,
                   overlapped, missed>>

ConfigNext ==
    \/ \E w \in Writers : ReadFileMap(w) \/ WriteFileMap(w)
    \/ \E r \in Reloaders : ReloadReads(r) \/ ReloadStores(r)
    \/ EditTruncates \/ EditWrites \/ WatchStarts \/ WatchEvent \/ DebounceFires

-----------------------------------------------------------------------------
(* Properties *)

(* Once no event, timer or reload is under way, the daemon runs with the file as it  *)
(* is, if that is valid, however reloads of writers and of the watch interleaved;    *)
(* what changed before the watch was up waits for a later change (Reload, Watch).    *)
SettledSnapshot ==
    (/\ ~ fsEvent /\ ~ timer /\ \A r \in Reloaders : step[r] \notin {"reload", "read"}
     /\ watching /\ ~ missed /\ Valid(file)) => snapshot = file

(* The daemon never runs with values that do not validate, and what `config set`      *)
(* acknowledged stays beside what others had set, unless two updates overlapped or    *)
(* somebody's editor did (SetKey, UnsetKey, writeFileMap).                            *)
UpdatesKept ==
    /\ Valid(snapshot)
    /\ ~ overlapped => file = asked

ConfigSpec == ConfigInit /\ [][ConfigNext]_configVars
=============================================================================
