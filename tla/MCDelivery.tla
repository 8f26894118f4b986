----------------------------- MODULE MCDelivery -----------------------------
(***************************************************************************)
(* Delivery on a pipeline with a check that always runs before the commit, *)
(* and on the shipped quick-fix, which has none.                           *)
(***************************************************************************)
EXTENDS Delivery, PipelineShapes, TLC

Templates == INSTANCE PipelineTemplates

QuickFix == Templates!QuickFix

Checked ==
  [first |-> "prepare", terminal |-> {"landed", "closed", "failed"},
   stages |->
     "prepare" :> [Bare EXCEPT !.action = "prepare_workspace", !.next = "plan"] @@
     "plan"    :> [Bare EXCEPT !.phase = "plan", !.next = "run",
                               !.skip_when = {"revision", "rework"}] @@
     "run"     :> [Bare EXCEPT !.phase = "run", !.produces = {"work"}, !.next = "prove"] @@
     "prove"   :> [Bare EXCEPT !.phase = "prove", !.contract = "proven",
                               !.requires = {"work"}, !.revert_changes = TRUE,
                               !.next = "commit"] @@
     "commit"  :> [Bare EXCEPT !.action = "commit_and_push", !.next = "publish",
                               !.approve = TRUE, !.on_refusal = "run",
                               !.max_revisions = 1] @@
     "publish" :> [Bare EXCEPT !.action = "open_pull_request", !.next = "waiting"] @@
     "waiting" :> [Bare EXCEPT !.action = "watch_pull_request",
                     !.outcomes = "merge" :> "tidy" @@ "close" :> "closed" @@
                                  "comment" :> "rework"] @@
     "rework"  :> [Bare EXCEPT !.action = "prepare_workspace", !.next = "plan"] @@
     "tidy"    :> [Bare EXCEPT !.action = "teardown", !.next = "landed"]]

-----------------------------------------------------------------------------
(* The shapes that the theorems of Delivery_proofs ask of a pipeline.      *)

\* Up to the turn that writes it, a run has its spec; from then on, its work too.
Sure(g) == [n \in DOMAIN g.stages |->
              IF n \in {"prepare", "plan", "run", "rework"} THEN {"spec"} ELSE {"spec", "work"}]

ASSUME ShapeOfTheGraph == WatchesWhatItPushed(Graph)

\* The check comes before every commit, in the pipeline here as in the strict one;
\* the other pipelines that ship have none, or let a run turn it off.
ASSUME ShapeOfChecked ==
  /\ SeesEveryFile(Checked, Sure(Checked), {"commit"})
  /\ SeesEveryFile(Templates!Strict, Sure(Templates!Strict), {"review", "security", "commit"})

ASSUME ShapesThatShip == \A g \in Templates!Templates : WatchesWhatItPushed(g)
=============================================================================
