------------------------------ MODULE HookSettings ------------------------------
(***************************************************************************)
(* `toktop hooks install` and `uninstall` (cli/hooks_cmds.go) on a settings   *)
(* file that belongs to somebody else: a run reads it, changes its own entries  *)
(* per event, truncates it and writes it, with no lock, while its owner edits   *)
(* it and other runs work.  opencode's plugin is a file of its own              *)
(* (opencode/plugin_install.go).  The settings are an object whose "hooks" may   *)
(* be missing, no object, or map events to lists of entries or to something      *)
(* else; rest stands for all its other keys.                                    *)
(***************************************************************************)
EXTENDS Naturals, Sequences

CONSTANTS
    HookEvents,  \* the provider's HookEvents
    OldEvents,   \* events an older version of toktop installed for
    Runs, Op,    \* runs of the command, and each one's "install" or "uninstall"
    Theirs,      \* entries of others
    Owned,       \* settings the owner may write
    MaxOwner,    \* bound: edits by the owner
    MaxCuts      \* bound: runs killed

AllEvents == HookEvents \cup OldEvents

\* entries with toktop's sentinel: of this version, of an older one, and one into which the
\* owner has merged a handler of their own
Ours == {"own", "old", "merged"}
Entries == Ours \cup Theirs

\* settings with something under the given events
SettingsFor(events) ==
    [json : {"empty", "broken", "object"}, kind : {"none", "other", "map"}, rest : BOOLEAN,
     hooks : [events -> [list : BOOLEAN, entries : Seq(Entries)]]]

ASSUME HookAssumption ==
    /\ \A s \in Owned : \E events \in SUBSET AllEvents : s \in SettingsFor(events)
    /\ Op \in [Runs -> {"install", "uninstall"}]

VARIABLES
    settings, plugin,
    run,      \* per run, where it is
    draft,    \* per run, what it writes
    owner,    \* history: the settings as their owner last wrote them
    did,      \* history: the operations completed since
    last,     \* history: the one completed last, or "edit"
    blind,    \* runs that could not read the settings
    unread,   \* history: such a run has written since the owner has
    cut,      \* history: a run was killed between truncating and writing
    crossed,  \* history: a run wrote over settings it had not read
    stale,    \* history: runs whose draft is older than the settings
    ownerEdits, cuts

hookVars == <<settings, plugin, run, draft, owner, did, last, blind, unread, cut, crossed,
              stale, ownerEdits, cuts>>
hookHist == <<owner, cut, ownerEdits, cuts>>
written == <<did, last, unread, crossed, stale>>

NoEvents == [e \in {} |-> [list |-> TRUE, entries |-> <<>>]]
Nothing == [json |-> "empty", kind |-> "none", hooks |-> NoEvents, rest |-> FALSE]
BrokenFile == [Nothing EXCEPT !.json = "broken"]

HookInit ==
    /\ settings \in Owned /\ owner = settings /\ plugin = FALSE
    /\ run = [r \in Runs |-> "new"] /\ draft = [r \in Runs |-> Nothing]
    /\ did = {} /\ last = "edit" /\ blind = {} /\ unread = FALSE
    /\ cut = FALSE /\ crossed = FALSE /\ stale = {} /\ ownerEdits = 0 /\ cuts = 0

ToRun(r, to) == run' = [run EXCEPT ![r] = to]

-----------------------------------------------------------------------------
(* The change of one list; isToktopHookEntry knows ours by the sentinel, wherever an  *)
(* entry carries it.                                                                 *)

IsToktopHookEntry(entry) == entry \in Ours

\* the loop that appends what is to stay, here: toktop's entries or those of others
Filtered(list, ours) ==
    LET kept[i \in 0 .. Len(list)] ==
            IF i = 0 THEN <<>>
            ELSE IF IsToktopHookEntry(list[i]) = ours THEN Append(kept[i - 1], list[i])
            ELSE kept[i - 1]
    IN  kept[Len(list)]

Others(list) == Filtered(list, FALSE)
Under(hooks, e) == {hooks[x] : x \in DOMAIN hooks \cap {e}}
ListAt(hooks, e) ==
    IF e \in DOMAIN hooks /\ hooks[e].list THEN hooks[e].entries ELSE <<>>

\* an upsert that leaves the entry of an earlier install
AppendToktopHookEntry(hooks, e) == [list |-> TRUE, entries |-> Append(ListAt(hooks, e), "own")]

(* Something else than a list under the event is replaced.                            *)
UpsertToktopHookEntry(hooks, e) ==
    [list |-> TRUE, entries |-> Append(Others(ListAt(hooks, e)), "own")]

Installed(s) ==
    [json |-> "object", kind |-> "map", rest |-> s.rest,
     hooks |-> [e \in DOMAIN s.hooks \cup HookEvents |->
                  IF e \in HookEvents THEN UpsertToktopHookEntry(s.hooks, e) ELSE s.hooks[e]]]

(* Events left with no entry go, whoever had left them empty.                         *)
Uninstalled(s) ==
    LET kept == {e \in DOMAIN s.hooks : s.hooks[e].list => Others(s.hooks[e].entries) # <<>>}
    IN  [s EXCEPT !.kind = IF kept = {} THEN "none" ELSE "map",
                  !.hooks = [e \in kept |->
                               IF s.hooks[e].list
                               THEN [list |-> TRUE, entries |-> Others(s.hooks[e].entries)]
                               ELSE s.hooks[e]]]

-----------------------------------------------------------------------------
(* runHookInstall, runHookUninstall *)

(* Settings that are no object, or whose hooks are none, are left alone.              *)
Refuses(op, s) ==
    \/ s.json = "broken" \/ s.kind = "other"
    \/ op = "uninstall" /\ (s.json # "object" \/ s.kind = "none")

Applied(op, s) == IF op = "install" THEN Installed(s) ELSE Uninstalled(s)

ReadSettings(r) ==
    /\ run[r] = "new"
    /\ IF Refuses(Op[r], settings)
       THEN ToRun(r, "done") /\ UNCHANGED draft
       ELSE ToRun(r, "have") /\ draft' = [draft EXCEPT ![r] = Applied(Op[r], settings)]
    /\ UNCHANGED <<settings, plugin, hookHist, written, blind>>

(* The file is there and cannot be read: an uninstall gives up, an install goes on as     *)
(* if it were empty.                                                                  *)
FailToRead(r) ==
    /\ run[r] = "new"
    /\ IF Op[r] = "uninstall"
       THEN ToRun(r, "done") /\ UNCHANGED <<draft, blind>>
       ELSE /\ ToRun(r, "have") /\ blind' = blind \cup {r}
            /\ draft' = [draft EXCEPT ![r] = Installed(Nothing)]
    /\ UNCHANGED <<settings, plugin, hookHist, written>>

Overtaken(r) == (stale \ {r}) \cup {q \in Runs \ {r} : run[q] \in {"have", "write"}}

(* os.WriteFile truncates, then writes.                                               *)
TruncateSettings(r) ==
    /\ run[r] = "have" /\ ToRun(r, "write")
    /\ settings' = Nothing
    /\ crossed' = (crossed \/ r \in stale) /\ stale' = Overtaken(r)
    /\ UNCHANGED <<plugin, hookHist, draft, did, last, blind, unread>>

(* What somebody has written since it truncated the file may stick out behind.         *)
WriteSettings(r) ==
    /\ run[r] = "write" /\ ToRun(r, "done")
    /\ settings' \in IF settings = Nothing THEN {draft[r]} ELSE {draft[r], BrokenFile}
    /\ did' = did \cup {Op[r]} /\ last' = Op[r] /\ unread' = (unread \/ r \in blind)
    /\ crossed' = (crossed \/ r \in stale) /\ stale' = Overtaken(r)
    /\ UNCHANGED <<plugin, hookHist, draft, blind>>

(* opencode's asset is written whole, and removed whole.                              *)
PluginRun(r) ==
    /\ run[r] = "new" /\ ToRun(r, "done") /\ plugin' = (Op[r] = "install")
    /\ UNCHANGED <<settings, hookHist, draft, written, blind>>

(* A run is killed, between the two at worst.                                         *)
CutRun(r) ==
    /\ run[r] \in {"have", "write"} /\ cuts < MaxCuts /\ cuts' = cuts + 1
    /\ ToRun(r, "done") /\ cut' = (cut \/ run[r] = "write")
    /\ UNCHANGED <<settings, plugin, draft, owner, written, blind, ownerEdits>>

OwnerEdits ==
    /\ ownerEdits < MaxOwner /\ ownerEdits' = ownerEdits + 1
    /\ \E s \in Owned : settings' = s /\ owner' = s
    /\ did' = {} /\ last' = "edit" /\ unread' = FALSE
    /\ stale' = stale \cup {q \in Runs : run[q] \in {"have", "write"}}
    /\ UNCHANGED <<plugin, run, draft, blind, cut, crossed, cuts>>

HookNext ==
    \/ \E r \in Runs : \/ ReadSettings(r) \/ FailToRead(r) \/ TruncateSettings(r)
                       \/ WriteSettings(r) \/ PluginRun(r) \/ CutRun(r)
    \/ OwnerEdits

HookSpec == HookInit /\ [][HookNext]_hookVars

-----------------------------------------------------------------------------
(* Properties *)

(* What the operations ops take from settings, and what they leave: other keys, and    *)
(* under each event the entries without the sentinel, in their order.  An install        *)
(* replaces what is no list under its events; events no operation goes to stay as they    *)
(* were, and what is no list stays wherever no install has replaced it.                  *)
Replaced(ops, e) == "install" \in ops /\ e \in HookEvents
Touched(ops, e) == "uninstall" \in ops \/ Replaced(ops, e)
Kept(s, theirs, ops) ==
    /\ s.rest = theirs.rest
    /\ \A e \in AllEvents : Others(ListAt(s.hooks, e)) = Others(ListAt(theirs.hooks, e))
    /\ \A e \in AllEvents : Touched(ops, e) \/ Under(s.hooks, e) = Under(theirs.hooks, e)
    /\ \A e \in AllEvents : \A v \in Under(theirs.hooks, e) :
          v.list \/ (v \in Under(s.hooks, e) <=> ~ Replaced(ops, e))

(* Settings as an operation leaves them: one entry with the sentinel per event of an     *)
(* install; after an uninstall none, and no list that is empty, its owner's neither.      *)
OursRight(op, s) ==
    /\ op = "install" => \A e \in HookEvents : Filtered(ListAt(s.hooks, e), TRUE) = <<"own">>
    /\ op = "uninstall" => \A e \in AllEvents :
          /\ Filtered(ListAt(s.hooks, e), TRUE) = <<>>
          /\ \A v \in Under(s.hooks, e) : v.list => v.entries # <<>>

(* Through installs, reinstalls of another version and uninstalls the settings lose       *)
(* exactly this of what their owner wrote last: a value that is no list under an event     *)
(* an install goes to, a handler merged into an entry of toktop's, empty lists with an      *)
(* uninstall, and everything with an install that could not read the file               *)
(* (hooks_cmds.go:256 takes it for an empty one).  Excluded: a run killed between          *)
(* truncate and write, and two that did not read each other's writing, for which the code    *)
(* has no lock (upsertToktopHookEntry, runHookUninstall).                               *)
HooksKept ==
    (~ cut /\ ~ crossed /\ \A r \in Runs : run[r] # "write") =>
       /\ Kept(settings, IF unread THEN Nothing ELSE owner, did)
       /\ OursRight(last, settings)
=============================================================================
