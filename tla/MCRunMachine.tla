---------------------------- MODULE MCRunMachine ----------------------------
(***************************************************************************)
(* RunMachine on the four templates and on one more graph, which uses what *)
(* no template does: an opt-in stage and a teardown.                       *)
(***************************************************************************)
EXTENDS RunProgress, TLC

Templates == INSTANCE PipelineTemplates

MCSections == {"spec", "plan", "work", "proof", "review", "workspace", "commit"}

Refined ==
  [first |-> "prepare", terminal |-> {"landed", "closed", "failed"},
   stages |->
     "prepare" :> [Bare EXCEPT !.action = "prepare_workspace", !.next = "refine"] @@
     "refine"  :> [Bare EXCEPT !.phase = "refine", !.requires = {"spec"},
                               !.produces = {"spec"}, !.opt_in = TRUE, !.next = "run"] @@
     "run"     :> [Bare EXCEPT !.phase = "run", !.requires = {"spec"},
                               !.produces = {"work"}, !.next = "commit"] @@
     "commit"  :> [Bare EXCEPT !.action = "commit_and_push", !.next = "publish",
                               !.on_refusal = "run", !.max_revisions = 1] @@
     "publish" :> [Bare EXCEPT !.action = "open_pull_request", !.next = "waiting"] @@
     "waiting" :> [Bare EXCEPT !.action = "watch_pull_request",
                     !.outcomes = "merge" :> "tidy" @@ "close" :> "closed"] @@
     "tidy"    :> [Bare EXCEPT !.action = "teardown", !.next = "landed"]]

AllPipelines ==
  "ship-a-ticket" :> Templates!ShipATicket @@ "quick-fix" :> Templates!QuickFix @@
  "strict" :> Templates!Strict @@ "docs-only" :> Templates!DocsOnly @@
  "refined" :> Refined

StrictOnly == "strict" :> Templates!Strict
ShipOnly   == "ship-a-ticket" :> Templates!ShipATicket

MCOptIns == {{}, {"refine"}}
MCSkips  == {{}, {"prove"}, {"prove", "review", "security"}}
NoneSet  == {{}}

-----------------------------------------------------------------------------
(* The shapes that RunMachine_proofs asks of the pipelines.                *)

\* Up to the turn that writes it, a run has its spec; from then on, its work too.
Sure(g) == [n \in DOMAIN g.stages |->
              IF n \in {"prepare", "refine", "plan", "run", "rework"} THEN {"spec"}
              ELSE {"spec", "work"}]

\* What comes between a check and the commit, wherever the pipeline has it.
After(g) == [n \in DOMAIN g.stages |-> DOMAIN g.stages \cap
               CASE n = "prove"  -> {"review", "security", "commit"}
                 [] n = "review" -> {"security", "commit"}
                 [] OTHER        -> {"commit"}]

\* The stages in the order in which a run goes through them; a comment sends it round again.
InOrder == <<"tidy", "waiting", "publish", "commit", "security", "review", "prove", "run", "plan",
             "refine", "prepare", "rework">>

MCRank ==
  [p \in DOMAIN Pipelines |-> [n \in DOMAIN Pipelines[p].stages |-> [commented \in BOOLEAN |->
     IF n = "waiting" /\ commented THEN Len(InOrder) + 1
     ELSE CHOOSE i \in DOMAIN InOrder : InOrder[i] = n]]]

ASSUME ShapeOfThePipelines ==
  \A p \in DOMAIN Pipelines : ChecksEverything(Pipelines[p], Sure(Pipelines[p]), After(Pipelines[p]))
=============================================================================
