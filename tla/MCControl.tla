------------------------------- MODULE MCControl -------------------------------
(***************************************************************************)
(* The passes over the transcripts and the parts around the daemon's core,     *)
(* checked side by side: a scene picks the part that moves, the others stay in  *)
(* their initial states, so that the state spaces add up instead of multiplying. *)
(***************************************************************************)
EXTENDS DaemonLifecycle, HookSpool, ConfigStore, HookSettings, MCReconcile

VARIABLE scene

\* one daemon is of an older build than the other and the tool
MCBuild == [d \in Daemons \cup Tools |-> IF d = "old" THEN 1 ELSE 2]

\* an empty body, one that is too long, and three that do not fit the budget together
MCLength == [h \in Hooks |-> CASE h = "empty" -> 0 [] h = "huge" -> 4 [] h = "small" -> 1 [] OTHER -> 2]

\* the API turns redaction off, one CLI unsets the interval, one sets nonsense
MCJob == [w \in Writers |-> CASE w = "api" -> <<"redact", "off">> [] w = "cli" -> <<"interval", Unset>>
                              [] OTHER -> <<"redact", Bad>>]
ConfigFile(redact, interval) == [k \in Keys |-> IF k = "redact" THEN redact ELSE interval]
MCEdits == {ConfigFile("on", Unset), ConfigFile(Unset, Bad), ConfigFile("off", "on"), Broken}

MCOp == [u \in Runs |-> IF u = "uninst" THEN "uninstall" ELSE "install"]
List(entries) == [list |-> TRUE, entries |-> entries]
Object(kind, hooks) == [json |-> "object", kind |-> kind, rest |-> TRUE, hooks |-> hooks]
MCOwned ==
    {Nothing, BrokenFile,
     Object("none", NoEvents), Object("other", NoEvents),
     Object("map", [e \in {"Stop"} |-> List(<<"f1", "f2">>)]),
     Object("map", [e \in {"Stop", "Old"} |->
                       IF e = "Old" THEN List(<<"f1", "old">>) ELSE List(<<"f1", "old", "f2">>)]),
     Object("map", [e \in {"Old"} |-> List(<<"old">>)]),
     Object("map", [e \in {"Stop", "Old"} |-> [list |-> FALSE, entries |-> <<>>]]),
     Object("map", [e \in {"Start", "Old"} |-> IF e = "Old" THEN List(<<>>) ELSE List(<<"merged">>)])}

MCInit ==
    /\ scene \in {"daemons", "spool", "config", "hooks", "passes"}
    /\ DLInit /\ SpoolInit /\ ConfigInit /\ HookInit /\ Init
    /\ scene # "daemons" => schema = Fresh
    /\ scene # "config" => file = ConfigFile("on", Unset)
    /\ scene # "hooks" => settings = Nothing
    /\ scene # "passes" => source = "codex"

MCNext ==
    \/ /\ scene = "daemons" /\ DLNext
       /\ UNCHANGED <<scene, spoolVars, configVars, hookVars, vars>>
    \/ /\ scene = "spool" /\ SpoolNext
       /\ UNCHANGED <<scene, dlVars, configVars, hookVars, vars>>
    \/ /\ scene = "config" /\ ConfigNext
       /\ UNCHANGED <<scene, dlVars, spoolVars, hookVars, vars>>
    \/ /\ scene = "hooks" /\ HookNext
       /\ UNCHANGED <<scene, dlVars, spoolVars, configVars, vars>>
    \/ /\ scene = "passes" /\ Next
       /\ UNCHANGED <<scene, dlVars, spoolVars, configVars, hookVars>>
=============================================================================
