------------------------------ MODULE Delivery ------------------------------
(***************************************************************************)
(* The diff of one run, from the worktree to the forge: the git commands   *)
(* of pipeline/workspace.py and the calls of pipeline/forge.py, one by     *)
(* one, in the order in which pipeline/actions.py and step (runner.py)     *)
(* make them, with the process going down between them.  After a restart   *)
(* the run is claimed again and its stage begins anew.  A git command can  *)
(* fail, or be killed after its 120 seconds; most of the calls do not look *)
(* whether it did.                                                         *)
(*                                                                         *)
(* What a tree holds is the set of edits that tell it from the base.  The  *)
(* forge is a remote one; RunMachine has the local one.                    *)
(***************************************************************************)
EXTENDS PipelineGraph, FiniteSets

CONSTANTS
  Graph,         \* the pipeline
  RunEdits,      \* edits a run turn can make, ...
  CheckEdits,    \* ... a check that runs the software, ...
  SetupEdits,    \* ... and the repository's prepare_cmd
  NewFiles,      \* those that make a file git does not track yet
  Forbidden,     \* those the delivery gate refuses
  CrashAt,       \* where in a stage the process may go down
  MaxCrashes,    \* bound: times it does
  MaxComments,   \* bound: comments people leave on the request
  MaxUnheard     \* bound: git commands that fail unnoticed, each any number of times

Edits == RunEdits \cup CheckEdits \cup SetupEdits
Unheard == {"add", "checkout", "clean", "diff", "commit"}
Places == {"idle", "created", "snapshot", "turned", "gated", "committed", "opened", "back"}

ASSUME GraphAssumption == GraphType(Graph) /\ WellFormed(Graph)

ASSUME DeliveryAssumption ==
  /\ NewFiles \subseteq Edits /\ Forbidden \subseteq Edits
  /\ CrashAt \subseteq Places
  /\ MaxCrashes \in Nat /\ MaxComments \in Nat /\ MaxUnheard \in Nat
  /\ {"spec", "workspace", "commit"} \subseteq Sections

VARIABLES
  row,        \* the Run row
  worktree,   \* is there a worktree?
  tree,       \* what it holds
  index,      \* what is staged in it
  head,       \* the run's branch, in the checkout
  origin,     \* the run's branch, on the remote
  forge,      \* the request, and what people did to it
  pc,         \* how far the worker is with the stage
  result,     \* what the stage came back with
  built,      \* history: the tree as set-up and the turns that may edit left it
  cut,        \* history: has it gone down while a commit was on no remote?
  unheard,    \* history: the git commands that came out otherwise than they were taken to
  crashes     \* bound

vars ==
  <<row, worktree, tree, index, head, origin, forge, pc, result, built, cut, unheard, crashes>>
disk == <<worktree, tree, index, head>>
faults == <<unheard, cut, crashes>>
downs == <<cut, crashes>>

stage == Graph.stages[row.stage]

NewRow ==
  [stage |-> Graph.first, reason |-> "", revisions |-> 0, last_refusal |-> "",
   document |-> {"spec"}, opt_in |-> {}, skip |-> {}, approved |-> FALSE,
   held |-> FALSE, outcome |-> "", pr |-> FALSE]

\* Fault: every move is written down as the run's outcome.
AppliedForGood(m, produced) ==
  [row EXCEPT !.stage = m.to, !.reason = m.reason, !.revisions = m.revisions,
              !.last_refusal = m.last_refusal, !.held = m.held,
              !.document = @ \cup produced, !.outcome = m.to]

\* apply_move.
Applied(m, produced) ==
  [row EXCEPT !.stage = m.to, !.reason = m.reason, !.revisions = m.revisions,
              !.last_refusal = m.last_refusal, !.held = m.held,
              !.document = @ \cup produced,
              !.outcome = IF IsTerminalMove(m) THEN m.to ELSE @]

-----------------------------------------------------------------------------
(* step, around the work. *)

Nothing == Blocked
Moving == pc = "idle" /\ row.outcome = "" /\ ~row.held
planned == PlanNext(Graph, row)

PassOver ==
  /\ Moving /\ (planned.skipped \/ planned.held)
  /\ row' = Applied(planned, {})
  /\ UNCHANGED <<disk, origin, forge, pc, result, built, faults>>

Ready == Moving /\ ~planned.skipped /\ ~planned.held /\ row.stage \in DOMAIN Graph.stages

OverBudget ==
  /\ Ready
  /\ row' = Applied(MoveTo("failed"), {})
  /\ UNCHANGED <<disk, origin, forge, pc, result, built, faults>>

\* The stage comes back with r; or it goes on.
Comes(r) == result' = r /\ pc' = "back"
GoesOn(place) == pc' = place /\ UNCHANGED result

\* These commands failed, and the code goes on as if they had not.
Unnoticed(failed) ==
  unheard' = unheard \cup failed /\ Cardinality(unheard') <= MaxUnheard

\* The step is recorded and charged, the next stage decided and written.
ApplyMove ==
  /\ pc = "back"
  /\ row' = Applied(Advance(Graph, row, result), result.produced)
  /\ pc' = "idle" /\ result' = Nothing
  /\ UNCHANGED <<disk, origin, forge, built, faults>>

-----------------------------------------------------------------------------
(* prepare_workspace. *)

\* A worktree that is there is taken as it is; a new one is the branch as it stands.
create ==
  /\ Ready /\ stage.action = "prepare_workspace"
  /\ \/ /\ worktree /\ GoesOn("created")
        /\ UNCHANGED <<disk, built>>
     \/ /\ ~worktree /\ GoesOn("created")
        /\ worktree' = TRUE /\ tree' = head /\ index' = head /\ built' = head
        /\ UNCHANGED head
     \/ /\ ~worktree /\ GoesOn("created")     \* timed out, and left nothing
        /\ UNCHANGED <<disk, built>>
     \/ /\ Comes(Error({}))
        /\ UNCHANGED <<disk, built>>
  /\ UNCHANGED <<row, origin, forge, faults>>

\* In a worktree that is not there it raises; a repository that has none goes on.
prepare_cmd ==
  /\ pc = "created"
  /\ \E made \in SUBSET SetupEdits : tree' = tree \cup (IF worktree THEN made ELSE {})
  /\ built' = IF worktree THEN tree' ELSE built
  /\ Comes(Ok({"workspace"})) \/ (worktree /\ Comes(Error({})))
  /\ UNCHANGED <<row, worktree, index, head, origin, forge, faults>>

-----------------------------------------------------------------------------
(* A turn. *)

\* git add -A: all of the tree, or, as nobody looks, nothing.
snapshot ==
  /\ Ready /\ RunsATurn(stage) /\ stage.revert_changes
  /\ \/ /\ index' = IF worktree THEN tree ELSE index
        /\ UNCHANGED unheard
     \/ /\ worktree
        /\ Unnoticed({"add"}) /\ UNCHANGED index
  /\ GoesOn("snapshot")
  /\ UNCHANGED <<row, worktree, tree, head, origin, forge, built, downs>>

\* A phase with an editor or a shell can undo what is there and make its own edits.
MayMake(s) == CASE s.phase = "run"   -> RunEdits
                [] s.phase = "prove" -> CheckEdits
                [] OTHER             -> {}

LeftBy(s) == IF MayMake(s) = {} THEN {tree}
             ELSE {t \in SUBSET Edits : t \ tree \subseteq MayMake(s)}

Answers(s) == {Ok(s.produces), Error({}), Blocked} \cup
              (IF s.contract = "" THEN {} ELSE {Error(s.produces)})

Turn ==
  /\ \/ Ready /\ RunsATurn(stage) /\ ~stage.revert_changes /\ pc' = "back"
     \/ pc = "snapshot" /\ pc' = "turned"
  /\ tree' \in IF worktree THEN LeftBy(stage) ELSE {tree}
  /\ built' = IF stage.revert_changes THEN built ELSE tree'
  /\ result' \in IF worktree THEN Answers(stage) ELSE {Error({})}
  /\ UNCHANGED <<row, worktree, index, head, origin, forge, faults>>

\* git checkout -- .: what is staged as it is staged; git does not touch other files.
checkedOut(t) == index \cup (t \cap NewFiles)

\* git clean -fd: the files git does not track go.
cleaned(t) == {e \in t : e \notin NewFiles \/ e \in index}

\* Fault: the checkout alone.
RevertedButNewFiles(failed) == IF "checkout" \in failed THEN tree ELSE checkedOut(tree)

\* Each may fail, and clean also leaves a repository of the check's own where it is.
Reverted(failed) ==
  LET t == IF "checkout" \in failed THEN tree ELSE checkedOut(tree)
  IN  IF "clean" \in failed THEN t ELSE cleaned(t)

revert_changes ==
  /\ pc = "turned"
  /\ \/ /\ worktree
        /\ \E failed \in SUBSET {"checkout", "clean"} :
             tree' = Reverted(failed) /\ Unnoticed(failed)
     \/ ~worktree /\ UNCHANGED <<tree, unheard>>
  /\ pc' = "back"
  /\ UNCHANGED <<row, worktree, index, head, origin, forge, result, built, downs>>

-----------------------------------------------------------------------------
(* commit_and_push. *)

\* git status --porcelain.
dirty == tree # head \/ index # head

\* Fault: git diff with nothing to compare with shows what is not staged.
diffUnstaged == {e \in tree : e \notin index /\ e \notin NewFiles}

\* git diff <base>: a file git does not track is not in it.
diff == {e \in tree : e \notin NewFiles \/ e \in index}

(***************************************************************************)
(* What git says of a status that failed is not blank, and reads as a      *)
(* change; what it says of a diff that failed is what the gate is given,   *)
(* and there is nothing forbidden in that.                                 *)
(***************************************************************************)
Examine ==
  /\ Ready /\ stage.action = "commit_and_push"
  /\ \/ /\ ~worktree \/ ~dirty
        /\ Comes(Error({})) /\ UNCHANGED unheard
     \/ /\ worktree /\ diff \cap Forbidden # {}
        /\ \E words \in Complaints : Comes(Refused(words))
        /\ UNCHANGED unheard
     \/ /\ worktree /\ diff \cap Forbidden = {}
        /\ GoesOn("gated") /\ UNCHANGED unheard
     \/ /\ worktree
        /\ GoesOn("gated") /\ Unnoticed({"diff"})
  /\ UNCHANGED <<row, disk, origin, forge, built, downs>>

(***************************************************************************)
(* git add -A raises if it fails, but not if it is killed; then git commit *)
(* commits what is staged.  That the hook refused is what any failure of   *)
(* it is taken for: there may have been nothing to commit, or it has       *)
(* committed and was killed in a hook that runs afterwards.                *)
(***************************************************************************)
commit ==
  /\ pc = "gated"
  /\ \/ Comes(Error({})) /\ UNCHANGED <<index, head, unheard>>
     \/ \E killed \in SUBSET {"add", "commit"} :
          /\ index' = IF "add" \in killed THEN index ELSE tree
          /\ Unnoticed(killed)
          /\ \/ (\E words \in Complaints : Comes(Refused(words)))
                /\ head' = IF "commit" \in killed THEN index' ELSE head
             \/ /\ "commit" \notin killed /\ index' # head
                /\ head' = index' /\ GoesOn("committed")
  /\ UNCHANGED <<row, worktree, tree, origin, forge, built, downs>>

\* Fault: a push that fails is read as one that worked.
PushedAnyway(ok) == Ok({"commit"})

\* Fault: a push that fails is read as the hook's refusal.
PushedOrRefused(ok) == IF ok THEN Ok({"commit"}) ELSE Refused(CHOOSE words \in Complaints : TRUE)

Pushed(ok) == IF ok THEN Ok({"commit"}) ELSE Error({})

\* A push that timed out may have arrived.
push ==
  /\ pc = "committed"
  /\ \E ok \in BOOLEAN :
       /\ origin' \in {head} \cup (IF ok THEN {} ELSE {origin})
       /\ Comes(Pushed(ok))
  /\ UNCHANGED <<row, disk, forge, built, faults>>

-----------------------------------------------------------------------------
(* The request. *)

\* The forge refuses a second request for the branch; its answer to the first may be lost.
open_pr ==
  /\ Ready /\ stage.action = "open_pull_request"
  /\ \/ Comes(Error({})) /\ UNCHANGED forge
     \/ /\ forge.pr # "open"
        /\ forge' = [forge EXCEPT !.pr = "open", !.commented = FALSE]
        /\ GoesOn("opened") \/ Comes(Error({}))
  /\ UNCHANGED <<row, disk, origin, built, faults>>

\* step stores the number in a commit of its own.
StoreNumber ==
  /\ pc = "opened"
  /\ row' = [row EXCEPT !.pr = TRUE]
  /\ Comes(Ok({}))
  /\ UNCHANGED <<disk, origin, forge, built, faults>>

\* What the human did, as the forge tells it now.
Watched ==
  CASE forge.pr = "merged" -> Result("ok", "", "merge", {})
    [] forge.pr = "closed" -> Result("ok", "", "close", {})
    [] forge.pr \in {"none", "open"} ->
         Result("ok", "", IF forge.commented THEN "comment" ELSE "", {})

watch_pull_request ==
  /\ Ready /\ stage.action = "watch_pull_request"
  /\ (row.pr /\ Comes(Watched)) \/ Comes(Error({}))
  /\ UNCHANGED <<row, disk, origin, forge, built, faults>>

\* The branch stays; so does the worktree, if git does not remove it.
teardown ==
  /\ Ready /\ stage.action = "teardown"
  /\ Comes(Ok({}))
  /\ \/ worktree' = FALSE /\ tree' = {} /\ index' = {}
     \/ UNCHANGED <<worktree, tree, index>>
  /\ UNCHANGED <<row, head, origin, forge, built, faults>>

-----------------------------------------------------------------------------
(* People, and failure. *)

Approve ==
  /\ row' = [row EXCEPT !.approved = TRUE, !.held = FALSE]
  /\ UNCHANGED <<disk, origin, forge, pc, result, built, faults>>

Decide ==
  /\ forge.pr = "open"
  /\ \E fate \in {"merged", "closed"} : forge' = [forge EXCEPT !.pr = fate]
  /\ UNCHANGED <<row, disk, origin, pc, result, built, faults>>

Comment ==
  /\ forge.pr = "open" /\ forge.comments < MaxComments
  /\ forge' = [forge EXCEPT !.commented = TRUE, !.comments = @ + 1]
  /\ UNCHANGED <<row, disk, origin, pc, result, built, faults>>

\* The process goes down, or the step raises: the stage begins again.
Crash ==
  /\ pc \in CrashAt \ {"idle"}
  /\ crashes < MaxCrashes /\ crashes' = crashes + 1
  /\ cut' = (cut \/ head # origin)
  /\ pc' = "idle" /\ result' = Nothing
  /\ UNCHANGED <<row, disk, origin, forge, built, unheard>>

-----------------------------------------------------------------------------

Init ==
  /\ row = NewRow
  /\ worktree = FALSE /\ tree = {} /\ index = {} /\ head = {} /\ origin = {}
  /\ forge = [pr |-> "none", commented |-> FALSE, comments |-> 0]
  /\ pc = "idle" /\ result = Nothing
  /\ built = {} /\ cut = FALSE /\ unheard = {} /\ crashes = 0

Step ==
  \/ PassOver \/ OverBudget \/ ApplyMove
  \/ create \/ prepare_cmd
  \/ snapshot \/ Turn \/ revert_changes
  \/ Examine \/ commit \/ push
  \/ open_pr \/ StoreNumber \/ watch_pull_request \/ teardown

Next == Step \/ Approve \/ Decide \/ Comment \/ Crash

Spec == Init /\ [][Next]_vars /\ WF_vars(Step)

-----------------------------------------------------------------------------
(* Properties. *)

RowType ==
  [stage : Names(Graph), reason : Reasons, revisions : Nat, last_refusal : Words,
   document : SUBSET Sections, opt_in : {{}}, skip : {{}}, approved : BOOLEAN,
   held : BOOLEAN, outcome : Finals \cup {""}, pr : BOOLEAN]

\* Every variable has its type.
TypeOK ==
  /\ row \in RowType
  /\ worktree \in BOOLEAN
  /\ tree \subseteq Edits /\ index \subseteq Edits /\ built \subseteq Edits
  /\ head \subseteq Edits /\ origin \subseteq Edits
  /\ forge \in [pr : {"none", "open", "merged", "closed"}, commented : BOOLEAN,
                comments : 0..MaxComments]
  /\ pc \in Places /\ result \in ResultType
  /\ cut \in BOOLEAN /\ unheard \subseteq Unheard /\ crashes \in 0..MaxCrashes

(***************************************************************************)
(* A commit is of what set-up and the turns that may edit left, all of it  *)
(* and nothing else: "A check may run; it may not repair", nor destroy.    *)
(* It holds over refused commits, reworks and restarts, unless the process *)
(* goes down between a check's turn and the revert after it, or one of the *)
(* three commands that should see to it has failed, which nobody looks at. *)
(***************************************************************************)
CommitsWhatWasBuilt ==
  [][head' # head => head' = built \/ unheard' \cap {"add", "checkout", "clean"} # {}]_vars

(***************************************************************************)
(* What the delivery gate refuses is never pushed: the gate is "rung 4,    *)
(* over the finished diff, and the last thing between a run and a pull     *)
(* request".  Unless git failed and was not asked about it: a diff, so     *)
(* that the gate was given git's complaint instead; an add, or a clean, so *)
(* that there were files the diff does not show.                           *)
(***************************************************************************)
NothingForbiddenIsPushed ==
  unheard \cap {"diff", "add", "clean"} = {} => origin \cap Forbidden = {}

(***************************************************************************)
(* While a run waits on its request, everything it has committed is on the *)
(* remote branch for people to see, whatever failed or was retried before. *)
(***************************************************************************)
PeopleSeeWhatWasCommitted ==
  /\ row.outcome = "" /\ row.stage \in DOMAIN Graph.stages
  /\ Graph.stages[row.stage].action = "watch_pull_request"
  => origin = head /\ forge.pr # "none"

(***************************************************************************)
(* A stage begun again after a crash "does the work once", which is to be  *)
(* "what makes at-least-once delivery safe": a run is not told that it has *)
(* changed nothing while a commit it made is on no remote.  The exceptions *)
(* are a process that goes down between a commit and its push, or before   *)
(* the push's failure is written down, and a commit that was made and then *)
(* taken for a refused one.                                                *)
(***************************************************************************)
DoesTheWorkOnce ==
  [][Examine /\ worktree /\ result'.outcome = "error"
       => head = origin \/ cut \/ "commit" \in unheard]_vars
=============================================================================
