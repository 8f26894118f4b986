----------------------------- MODULE RunMachine -----------------------------
(***************************************************************************)
(* One run of one pipeline, moved one stage at a time: pipeline/runner.py  *)
(* (step), the writes of pipeline/store.py (start_run, apply_move,         *)
(* approve_run), the phases' answers (pipeline/agent.py, contracts.py),    *)
(* the actions (pipeline/actions.py) and the run document (document.py).   *)
(* A step is atomic here; Floor opens it up for workers that interleave.   *)
(***************************************************************************)
EXTENDS PipelineGraph, Sequences

CONSTANTS
  Pipelines,    \* pipeline name -> graph, as parse returned it
  OptIns,       \* what a run may ask for, and ...
  Skips,        \* ... turn off, when it is started: sets of stage names
  Asked,        \* how the spec it is started with may begin: "prose", "headed"
  Shapes,       \* how an answer may begin, likewise
  Forges,       \* "local", "remote"
  MaxComments   \* bound: comments people leave on the pull request

ASSUME PipelinesAssumption ==
  \A p \in DOMAIN Pipelines : GraphType(Pipelines[p]) /\ WellFormed(Pipelines[p])

ASSUME ConstantsAssumption ==
  /\ Asked \subseteq {"prose", "headed"} /\ Shapes \subseteq {"prose", "headed"}
  /\ "" \notin Complaints
  /\ Forges \subseteq {"local", "remote"}
  /\ MaxComments \in Nat
  /\ {"spec", "workspace", "commit"} \subseteq Sections

VARIABLES
  run,        \* the Run row
  tree,       \* the run's worktree: "absent", "clean" or "dirty"
  forge,      \* the forge's side: what was pushed, the request, what people did
  \* History, which the code does not keep:
  sentBack,   \* the refusals that sent the run back, in order
  checked,    \* contract stages that passed since a turn last edited the tree
  shipped,    \* `checked` as it was when the diff was last pushed
  seen        \* sections the document had when somebody approved the run

vars == <<run, tree, forge, sentBack, checked, shipped, seen>>
history == <<sentBack, checked, shipped, seen>>

graph == Pipelines[run.pipeline]
stage == graph.stages[run.stage]

-----------------------------------------------------------------------------
(* The document, and the writes to the run's row. *)

(***************************************************************************)
(* Document.with_section, text, and read: a section keeps its text unless  *)
(* the text opens with a "## " heading of its own, which read takes for    *)
(* the next section; the section it was written to then comes back blank,  *)
(* and a blank section is one the document does not have.                  *)
(***************************************************************************)
WithSections(document, produced, shape) ==
  IF shape = "headed" THEN document \ produced ELSE document \cup produced

\* Fault: every move is written down as the run's outcome.
MovedForGood(m, produced, shape) ==
  [run EXCEPT !.stage = m.to, !.reason = m.reason, !.revisions = m.revisions,
              !.last_refusal = m.last_refusal, !.held = m.held,
              !.document = WithSections(@, produced, shape), !.outcome = m.to]

\* apply_move: the one place a run's stage changes.
Moved(m, produced, shape) ==
  [run EXCEPT !.stage = m.to, !.reason = m.reason, !.revisions = m.revisions,
              !.last_refusal = m.last_refusal, !.held = m.held,
              !.document = WithSections(@, produced, shape),
              !.outcome = IF IsTerminalMove(m) THEN m.to ELSE @]

ApplyMove(m) == run' = Moved(m, {}, "prose")

StartRun(pipeline, opt_in, skip, shape) ==
  [pipeline |-> pipeline, stage |-> Pipelines[pipeline].first, reason |-> "",
   revisions |-> 0, last_refusal |-> "", opt_in |-> opt_in, skip |-> skip,
   document |-> WithSections({}, {"spec"}, shape), approved |-> FALSE,
   held |-> FALSE, outcome |-> "", pr |-> FALSE]

\* The phases that are handed an editor, of those that ship.
MayEdit(s) == s.phase = "run"

-----------------------------------------------------------------------------
(* step, before the work: skipped, held, or out of budget. *)

\* Fault: a held run is moved all the same.
MovingThoughHeld == run.outcome = ""

Moving == run.outcome = "" /\ ~run.held

planned == PlanNext(graph, run)

Skip ==
  /\ Moving /\ planned.skipped
  /\ ApplyMove(planned)
  /\ UNCHANGED <<tree, forge, history>>

Hold ==
  /\ Moving /\ planned.held
  /\ ApplyMove(planned)
  /\ UNCHANGED <<tree, forge, history>>

Ready == Moving /\ ~planned.skipped /\ ~planned.held /\ run.stage \in DOMAIN graph.stages

\* What has been spent is Budgets' business: here any check may find it too much.
OverBudget ==
  /\ Ready
  /\ ApplyMove(MoveTo("failed"))
  /\ UNCHANGED <<tree, forge, history>>

-----------------------------------------------------------------------------
(* step, the work: a turn of the harness. *)

\* A turn with an editor leaves the tree as it was or changed; any other leaves it.
Edits == IF MayEdit(stage) /\ tree # "absent"
         THEN tree' \in {tree, "dirty"} /\ checked' = {}
         ELSE UNCHANGED <<tree, checked>>

Left(result, shape) == Moved(Advance(graph, run, result), result.produced, shape)
Leave(result) == run' = Left(result, "prose")

(***************************************************************************)
(* The turn answers.  _grade: an answer a contract reads as objecting, or  *)
(* cannot read, turns the result into an error that keeps what it produced *)
(* but not its words.                                                      *)
(***************************************************************************)
Graded(s, objects) ==
  IF s.contract # "" /\ objects THEN Error(s.produces) ELSE Ok(s.produces)

TurnAnswers ==
  /\ Ready /\ RunsATurn(stage)
  /\ \E shape \in Shapes, objects \in BOOLEAN :
       LET result == Graded(stage, objects) IN
       /\ run' = Left(result, IF result.outcome = "ok" THEN shape ELSE "prose")
       /\ IF MayEdit(stage) THEN Edits
          ELSE /\ checked' = IF stage.contract # "" /\ result.outcome = "ok"
                             THEN checked \cup {run.stage} ELSE checked
               /\ UNCHANGED tree
  /\ UNCHANGED <<forge, sentBack, shipped, seen>>

\* A tool call waits on a person: the run is held where it is.
TurnInterrupted ==
  /\ Ready /\ RunsATurn(stage) /\ tree # "absent"
  /\ Leave(Blocked)
  /\ Edits
  /\ UNCHANGED <<forge, sentBack, shipped, seen>>

\* No workspace, no model, or the turn raised.
TurnFails ==
  /\ Ready /\ RunsATurn(stage)
  /\ Leave(Error({}))
  /\ Edits
  /\ UNCHANGED <<forge, sentBack, shipped, seen>>

-----------------------------------------------------------------------------
(* step, the work: an action. *)

\* The worktree is made or found, and the repository's prepare_cmd may write to it.  A
\* git worktree add that times out is taken for one that worked, whatever it left.
PrepareWorkspace ==
  /\ Ready /\ stage.action = "prepare_workspace"
  /\ Leave(Ok({"workspace"})) \/ Leave(Error({}))
  /\ tree' \in {tree, IF tree = "absent" THEN "clean" ELSE tree, "dirty"}
  /\ UNCHANGED <<forge, history>>

\* The gate, the commit hook, the push.  A refusal in either's words sends the run back;
\* so does a commit of nothing, where a git status that failed was read as a change.  What
\* a git add that timed out has not staged stays behind (Delivery has the commands).
CommitAndPush ==
  /\ Ready /\ stage.action = "commit_and_push"
  /\ \/ /\ Leave(Error({}))                           \* nothing changed, or git failed
        /\ UNCHANGED <<tree, forge, sentBack, shipped>>
     \/ /\ tree # "absent"
        /\ \E words \in Complaints :
             LET m == Advance(graph, run, Refused(words)) IN
             /\ ApplyMove(m)
             /\ sentBack' = IF m.to = "failed" THEN sentBack
                            ELSE Append(sentBack, [at |-> run.stage, words |-> words])
        /\ UNCHANGED <<tree, forge, shipped>>
     \/ /\ tree = "dirty" /\ tree' \in {"clean", "dirty"}     \* committed, not pushed
        /\ Leave(Error({}))
        /\ UNCHANGED <<forge, sentBack, shipped>>
     \/ /\ tree = "dirty" /\ tree' \in {"clean", "dirty"}
        /\ Leave(Ok({"commit"}))
        /\ forge' = [forge EXCEPT !.pushed = TRUE]
        /\ shipped' = checked
        /\ UNCHANGED sentBack
  /\ UNCHANGED <<checked, seen>>

(***************************************************************************)
(* open_pr.  A remote forge refuses a second request for a branch that has *)
(* one open; `local` writes its file again, without the comments appended  *)
(* to it, and the file is in the worktree.  step writes pr_number first    *)
(* and stores no section.                                                  *)
(***************************************************************************)
OpenPullRequest ==
  /\ Ready /\ stage.action = "open_pull_request"
  /\ \/ Leave(Error({})) /\ UNCHANGED <<tree, forge>>
     \/ /\ forge.kind = "remote" => forge.pr # "open"
        /\ run' = [Left(Ok({}), "prose") EXCEPT !.pr = TRUE]
        /\ forge' = [forge EXCEPT !.pr = "open", !.commented = FALSE]
        /\ tree' = IF forge.kind = "local" THEN "dirty" ELSE tree
  /\ UNCHANGED history

\* What the human did, as the forge tells it now.
Watched ==
  CASE forge.pr = "merged" -> Result("ok", "", "merge", {})
    [] forge.pr = "closed" -> Result("ok", "", "close", {})
    [] forge.pr \in {"none", "open"} ->
         IF forge.commented THEN Result("ok", "", "comment", {}) ELSE Ok({})

WatchPullRequest ==
  /\ Ready /\ stage.action = "watch_pull_request"
  /\ \/ run.pr /\ Leave(Watched)
     \/ Leave(Error({}))          \* no request, or the forge is unreachable
  /\ UNCHANGED <<tree, forge, history>>

Teardown ==
  /\ Ready /\ stage.action = "teardown"
  /\ Leave(Ok({}))
  /\ tree' \in {"absent", tree}       \* whether the worktree goes is not looked at
  /\ UNCHANGED <<forge, history>>

-----------------------------------------------------------------------------
(* People. *)

\* POST /runs/{id}/approve: it looks at who asks, not at whether the run is held.
Approve ==
  /\ run' = [run EXCEPT !.approved = TRUE, !.held = FALSE]
  /\ seen' = seen \cup run.document
  /\ UNCHANGED <<tree, forge, sentBack, checked, shipped>>

Decide ==
  /\ forge.pr = "open"
  /\ \E fate \in {"merged", "closed"} : forge' = [forge EXCEPT !.pr = fate]
  /\ UNCHANGED <<run, tree, history>>

Comment ==
  /\ forge.pr = "open" /\ forge.comments < MaxComments
  /\ forge' = [forge EXCEPT !.commented = TRUE, !.comments = @ + 1]
  /\ UNCHANGED <<run, tree, history>>

-----------------------------------------------------------------------------

Init ==
  /\ \E p \in DOMAIN Pipelines, o \in OptIns, k \in Skips, shape \in Asked :
       run = StartRun(p, o, k, shape)
  /\ tree = "absent"
  /\ \E kind \in Forges :
       forge = [kind |-> kind, pushed |-> FALSE, pr |-> "none", commented |-> FALSE,
                comments |-> 0]
  /\ sentBack = <<>> /\ checked = {} /\ shipped = {} /\ seen = {}

Step ==
  \/ Skip \/ Hold \/ OverBudget
  \/ TurnAnswers \/ TurnInterrupted \/ TurnFails
  \/ PrepareWorkspace \/ CommitAndPush \/ OpenPullRequest \/ WatchPullRequest \/ Teardown

People == Approve \/ Decide \/ Comment

Next == Step \/ People

\* A worker comes by for as long as the run can be moved; nobody has to approve,
\* merge, close or comment.
Spec == Init /\ [][Next]_vars /\ WF_vars(Step)

-----------------------------------------------------------------------------
(* Properties. *)

RunType ==
  [pipeline : DOMAIN Pipelines, stage : UNION {Names(Pipelines[p]) : p \in DOMAIN Pipelines},
   reason : Reasons, revisions : Nat, last_refusal : Words,
   opt_in : OptIns, skip : Skips, document : SUBSET Sections, approved : BOOLEAN,
   held : BOOLEAN, outcome : Finals \cup {""}, pr : BOOLEAN]

\* Every variable has its type, and the run stands at a stage, or an end, of its graph.
TypeOK ==
  /\ run \in RunType
  /\ run.stage \in Names(graph)
  /\ tree \in {"absent", "clean", "dirty"}
  /\ forge \in [kind : Forges, pushed : BOOLEAN, commented : BOOLEAN, comments : 0..MaxComments,
                pr : {"none", "open", "merged", "closed"}]
  /\ sentBack \in Seq([at : DOMAIN graph.stages, words : Complaints])
  /\ checked \subseteq DOMAIN graph.stages /\ shipped \subseteq DOMAIN graph.stages
  /\ seen \subseteq Sections

(***************************************************************************)
(* A run is never sent back more often than the stage that does it allows, *)
(* although the count is one number that every stage with a refusal path,  *)
(* every rework round and every carried move shares.                       *)
(***************************************************************************)
RevisionsBounded ==
  run.revisions > 0 =>
    \E n \in DOMAIN graph.stages :
      graph.stages[n].on_refusal # "" /\ run.revisions <= graph.stages[n].max_revisions

(***************************************************************************)
(* The count on the row is the number of times the run was really sent     *)
(* back, from its start and through every rework; only a failed run's row  *)
(* may have lost it (a refusal for want of budget files it with zero).     *)
(***************************************************************************)
RefusalsCounted == run.outcome # "failed" => Len(sentBack) = run.revisions

(***************************************************************************)
(* A gate that repeats itself word for word does not send the run back a   *)
(* second time, whatever happened to the run in between: turns, checks,    *)
(* skips, holds, a published request and the rework it drew.               *)
(***************************************************************************)
NoRefusalRepeated ==
  \A i \in 1..Len(sentBack) - 1 :
    sentBack[i].words = sentBack[i + 1].words =>
      ~graph.stages[sentBack[i + 1].at].stop_when_identical

\* The checks a run of this graph owes: those with a contract that it did not turn off.
Owed == {n \in DOMAIN graph.stages :
           LET s == graph.stages[n] IN
           /\ s.contract # ""
           /\ ~(s.optional /\ n \in run.skip)
           /\ ~(s.opt_in /\ n \notin run.opt_in)}

(***************************************************************************)
(* No diff is pushed that a check the run owes has not passed since a turn *)
(* last edited it: not on a revision, not on a rework, not after a hold    *)
(* or a skip ("a factory that quietly stopped checking would be worse than *)
(* one that never checked").                                               *)
(***************************************************************************)
ShippedWorkWasChecked == forge.pushed => Owed \subseteq shipped

(***************************************************************************)
(* A run stands at one of its graph's ends exactly when it has an outcome. *)
(* The ends are the graph's own; the outcome is written for three names    *)
(* fixed in the code, so this is a property of the graphs that ship.       *)
(***************************************************************************)
StageAndOutcomeAgree == (run.stage \in graph.terminal) <=> (run.outcome # "")

(***************************************************************************)
(* Left to the workers, a run always comes to rest: it finishes or it is   *)
(* held for a person.  No chain of refusals, reworks, skips and failed     *)
(* turns keeps it going by itself.                                         *)
(***************************************************************************)
ComesToRest == []<>~Moving

\* How a run looks from outside, and how often it may be sent back.
Phase == IF run.outcome # "" THEN run.outcome ELSE IF run.held THEN "waiting" ELSE "moving"

Allowed ==
  {0} \cup {k \in Nat : \E p \in DOMAIN Pipelines : \E n \in DOMAIN Pipelines[p].stages :
             /\ Pipelines[p].stages[n].on_refusal # ""
             /\ k <= Pipelines[p].stages[n].max_revisions}

(***************************************************************************)
(* The run keeps what RunLifecycle promises.                               *)
(***************************************************************************)
Lifecycle ==
  INSTANCE RunLifecycle WITH Counts <- Allowed, phase <- Phase, sentBack <- run.revisions
LifecycleSpec == Lifecycle!Spec

(***************************************************************************)
(* docs/FEATURES.md draws the approve gate between the plan and the run,   *)
(* and the strict template says its pull requests have had "its plan read  *)
(* by a person": where planning is gated, no diff is pushed from a plan    *)
(* that nobody had before them when they approved.                         *)
(***************************************************************************)
PlanWasRead ==
  (forge.pushed /\ "plan" \in run.document /\
     \E n \in DOMAIN graph.stages : graph.stages[n].approve /\ "plan" \in graph.stages[n].produces)
  => "plan" \in seen

(***************************************************************************)
(* watch_pull_request is to "poll the forge and react to what the human    *)
(* did": once the request is merged, the run lands.                        *)
(***************************************************************************)
MergedRequestLands == (forge.pr = "merged" /\ run.stage = "waiting") ~> (run.outcome # "")
=============================================================================
