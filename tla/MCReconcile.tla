------------------------------ MODULE MCReconcile ------------------------------
(* Instances of IngestReconcile for TLC.  claude-code: a parent and two           *)
(* subagents with the parent's session id, listed child first.  codex: one         *)
(* rollout.   opencode: a session, its child and the child's child.               *)
EXTENDS IngestReconcile, TLC

CONSTANTS p, s1, s2, r, t, c, g, x

MCTranscripts == {p, s1, s2, r, t, c, g}
MCSubagents == {s1, s2, c, g}
MCExternal == [f \in MCTranscripts |-> IF f \in {s1, s2} THEN p ELSE f]
MCParent == (s1 :> p) @@ (s2 :> p) @@ (c :> t) @@ (g :> c)
MCSource == [f \in MCTranscripts |-> IF f \in {p, s1, s2} THEN "claude-code"
                                     ELSE IF f = r THEN "codex" ELSE "opencode"]
MCOrder == <<g, c, t, r, s1, p, s2>>
MCFirst == {{p, s1, s2}, {s1, s2}, {r}, {t, c, g}, {c, g}}
MCSize == [f \in MCTranscripts |-> IF f \in {s1, t} THEN 2 ELSE 1]
MCEmpty == {<<p, 2>>, <<r, 2>>}
=============================================================================
