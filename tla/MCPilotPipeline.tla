-------------------------- MODULE MCPilotPipeline --------------------------
(* Small instances of PilotPipeline for TLC.                               *)
EXTENDS PilotPipeline, TLC

CONSTANTS ctl, t1, t2, p, q, x, none, k1, k2, a, b

MCOrder      == <<ctl, t1, t2>>
MCPilot      == [languages |-> {"go"}, exposed |-> {t2}, publishedOnly |-> FALSE, excludeRepositories |-> TRUE]
MCLanguageOf == [t \in {ctl, t1, t2} |-> "go"]
MCRepository == [t \in {ctl, t1, t2} |-> t]
MCRank       == (ctl :> 0) @@ (t1 :> 1) @@ (t2 :> 2)
MCPublished  == [t \in {ctl, t1, t2} |-> p]

\* q is built on p with other tools, x is another image.
MCLayered == {<<p, p>>, <<q, q>>, <<x, x>>, <<q, p>>}
MCToolsOf == (p :> "tools") @@ (q :> "others") @@ (x :> "tools")
\* The second version plans another runner for the Helm task, and other targets for the
\* exposed one.
MCPlanOf == [t \in {ctl, t1, t2} |-> [k \in {k1, k2} |->
  [runner  |-> IF <<t, k>> = <<t1, k2>> THEN "helm-go" ELSE "go",
   targets |-> IF <<t, k>> = <<t2, k2>> THEN "others" ELSE "all"]]]
MCCommandOf == (k1 :> "c1") @@ (k2 :> "c2")

Nothing == [t \in {ctl, t1, t2} |-> none]
\* Two tasks can be registered; only q has evidence for the first, nothing for the other.
MCProfile  == (t1 :> "relocated") @@ (t2 :> "cache")
Run(image, status, exit, failed) ==
  [image |-> image, parent |-> p, status |-> status, exit |-> exit, full |-> TRUE,
   passed |-> 1, failed |-> failed, confined |-> TRUE]
MCEvidence == (t1 :> Run(q, "fail", 1, 1)) @@ (t2 :> Run(q, "pass", 0, 1))
MCRegistries ==
  {Nothing, [Nothing EXCEPT ![t1] = q], [Nothing EXCEPT ![t1] = x], [Nothing EXCEPT ![t2] = q]}
\* A suite has two tests, of which one passes.  Its files come to name the other command,
\* or the other test in one of them or in both.
MCOutcomes == {{}, {a}}
Files(command, passing, report) ==
  [image |-> p, command |-> command, passing |-> passing, report |-> report]
MCForgeries == {Files("c2", {a}, {a}), Files("c1", {b}, {a}), Files("c1", {b}, {b})}
MCChoices == {MCOrder, <<t1>>}
=============================================================================
