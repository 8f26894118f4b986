------------------------- MODULE PipelineTemplates -------------------------
(***************************************************************************)
(* The four pipelines open-refinery ships (TEMPLATES in pipeline/spec.py), *)
(* as _stage reads them: a key the parser does not read is not here.  The  *)
(* `strict` template's  stages["plan"]["max_revisions"] = 3  is such a key *)
(* (only on_refusal.max is read), so it has no counterpart below.          *)
(***************************************************************************)
EXTENDS PipelineGraph, TLC

LOCAL Turn(phase, requires, produces, next) ==
  [Bare EXCEPT !.phase = phase, !.requires = requires, !.produces = produces,
               !.next = next]

LOCAL Action(action, next) == [Bare EXCEPT !.action = action, !.next = next]

LOCAL Check(phase, contract, produces, next) ==
  [Turn(phase, {"work"}, produces, next) EXCEPT !.contract = contract]

LOCAL Watch ==
  [Action("watch_pull_request", "")
     EXCEPT !.outcomes = "merge" :> "landed" @@ "close" :> "closed" @@ "comment" :> "rework"]

LOCAL Pipeline(stages) ==
  [first |-> "prepare", terminal |-> {"landed", "closed", "failed"}, stages |-> stages]

\* The stages all four end with: publish, wait for a person, and go round again.
LOCAL Delivery ==
  "publish" :> Action("open_pull_request", "waiting") @@
  "waiting" :> Watch @@
  "rework"  :> Action("prepare_workspace", "run")

ShipATicketStages ==
  "prepare" :> Action("prepare_workspace", "plan") @@
  "plan"    :> [Turn("plan", {"spec"}, {"plan"}, "run")
                  EXCEPT !.skip_when = {"revision", "rework"},
                         !.on_error = "continue", !.approve = TRUE] @@
  "run"     :> [Turn("run", {"spec"}, {"work"}, "prove")
                  EXCEPT !.on_refusal = "run", !.max_revisions = 2] @@
  "prove"   :> [Check("prove", "proven", {"proof"}, "review")
                  EXCEPT !.optional = TRUE, !.revert_changes = TRUE] @@
  "review"  :> [Check("review", "verdict", {"review"}, "commit")
                  EXCEPT !.optional = TRUE] @@
  "commit"  :> [Action("commit_and_push", "publish")
                  EXCEPT !.on_refusal = "run", !.max_revisions = 2] @@
  Delivery

ShipATicket == Pipeline(ShipATicketStages)

QuickFix ==
  Pipeline("prepare" :> Action("prepare_workspace", "run") @@
           "run"     :> Turn("run", {"spec"}, {"work"}, "commit") @@
           "commit"  :> Action("commit_and_push", "publish") @@
           Delivery)

Strict ==
  Pipeline([ShipATicketStages EXCEPT
              !["plan"].on_error    = "fail",
              !["prove"].optional   = FALSE,
              !["review"].optional  = FALSE,
              !["review"].next      = "security",
              !["run"].max_revisions = 3]
           @@ "security" :> [Check("security", "verdict", {"review"}, "commit")
                               EXCEPT !.optional = TRUE])

DocsOnly ==
  Pipeline("prepare" :> Action("prepare_workspace", "run") @@
           "run"     :> Turn("run", {"spec"}, {"work"}, "review") @@
           "review"  :> Check("review", "verdict", {"review"}, "commit") @@
           "commit"  :> Action("commit_and_push", "publish") @@
           Delivery)

Templates == {ShipATicket, QuickFix, Strict, DocsOnly}
=============================================================================
