-------------------------- MODULE Delivery_proofs --------------------------
(***************************************************************************)
(* Proofs about Delivery, for every pipeline, every set of edits and any   *)
(* number of crashes.                                                      *)
(***************************************************************************)
EXTENDS Delivery, PipelineGraph_proofs, TLAPS

(***************************************************************************)
(* Rows and results: what a step writes is a row, and what a stage comes   *)
(* back with is a result.                                                  *)
(***************************************************************************)
LEMMA AppliedType ==
  ASSUME TypeOK, NEW m \in MoveType(Graph), NEW produced \in SUBSET Sections
  PROVE  Applied(m, produced) \in RowType
<1> DEFINE outcome == IF IsTerminalMove(m) THEN m.to ELSE row.outcome
           document == row.document \cup produced
<1>1. m.to \in Names(Graph) /\ m.revisions \in Nat /\ m.reason \in Reasons
  BY DEF MoveType
<1>2. m.last_refusal \in Words /\ m.held \in BOOLEAN /\ row \in RowType
  BY DEF MoveType, TypeOK
<1>3. outcome \in Finals \cup {""} /\ document \in SUBSET Sections
  BY <1>2 DEF IsTerminalMove, RowType
<1>4. Applied(m, produced) =
        [row EXCEPT !.stage = m.to, !.reason = m.reason, !.revisions = m.revisions,
              !.last_refusal = m.last_refusal, !.held = m.held,
              !.document = document, !.outcome = outcome]
  BY DEF Applied
<1> HIDE DEF outcome, document
<1> QED BY <1>1, <1>2, <1>3, <1>4 DEF RowType

LEMMA MovesAreMoves ==
  ASSUME TypeOK
  PROVE  /\ planned \in MoveType(Graph) /\ MoveTo("failed") \in MoveType(Graph)
         /\ Advance(Graph, row, result) \in MoveType(Graph)
         /\ result.produced \in SUBSET Sections
<1>1. At(Graph, row) /\ GraphType(Graph) /\ Came(result)
  BY GraphAssumption DEF TypeOK, RowType, At, Came, ResultType
<1>2. MoveTo("failed") \in MoveType(Graph)
  BY MoveTyped DEF MoveTo, Names, Reasons, Words
<1>3. result.produced \in SUBSET Sections
  BY DEF TypeOK, ResultType
<1> QED BY <1>1, <1>2, <1>3, PlanNextType, AdvanceFromAnywhere DEF planned

LEMMA ResultsAreResults ==
  /\ \A D \in SUBSET Sections : Ok(D) \in ResultType /\ Error(D) \in ResultType
  /\ Blocked \in ResultType
  /\ \A c \in Complaints : Refused(c) \in ResultType
  /\ \A e \in Events \cup {""} : Result("ok", "", e, {}) \in ResultType
<1>1. \A o \in Outcomes, e \in Events \cup {""}, c \in Words, D \in SUBSET Sections :
        Result(o, c, e, D) \in ResultType
  BY DEF Result, ResultType
<1>2. /\ "ok" \in Outcomes /\ "error" \in Outcomes /\ "refused" \in Outcomes
      /\ "blocked" \in Outcomes /\ "" \in Words /\ {} \in SUBSET Sections
  BY DEF Outcomes, Words
<1> QED BY <1>1, <1>2 DEF Ok, Error, Blocked, Refused, Words

\* The results of the actions that have one result each.
LEMMA FixedResults ==
  /\ Ok({}) \in ResultType /\ Error({}) \in ResultType /\ Nothing \in ResultType
  /\ Ok({"workspace"}) \in ResultType /\ Ok({"commit"}) \in ResultType
<1>1. {} \subseteq Sections /\ {"workspace"} \subseteq Sections /\ {"commit"} \subseteq Sections
  BY DeliveryAssumption
<1> QED BY <1>1, ResultsAreResults DEF Nothing

LEMMA WatchedIsAResult ==
  ASSUME TypeOK
  PROVE  Watched \in ResultType
<1>1. forge.pr \in {"none", "open", "merged", "closed"}
  BY DEF TypeOK
<1>2. \E e \in Events \cup {""} : Watched = Result("ok", "", e, {})
  BY <1>1 DEF Watched, Events
<1> QED BY <1>2, ResultsAreResults

LEMMA AnswersAreResults ==
  ASSUME NEW n \in DOMAIN Graph.stages, NEW x \in Answers(Graph.stages[n])
  PROVE  x \in ResultType
<1> DEFINE s == Graph.stages[n]
<1>1. s.produces \in SUBSET Sections
  BY GraphAssumption DEF GraphType, StageType
<1> HIDE DEF s
<1>2. x \in Answers(s)
  BY DEF s
<1> QED BY <1>1, <1>2, ResultsAreResults, FixedResults DEF Answers

-----------------------------------------------------------------------------
(* Types. *)

\* A stage that has begun is a stage of the pipeline, and it reverts if it took a snapshot.
AtAStage ==
  /\ pc # "idle" => row.stage \in DOMAIN Graph.stages
  /\ pc \in {"snapshot", "turned"} => stage.revert_changes

TypeInv == TypeOK /\ AtAStage

LEMMA TypeInit ==
  ASSUME Init
  PROVE  TypeInv
<1>1. Graph.first \in Names(Graph) /\ {"spec"} \subseteq Sections
  BY GraphAssumption, DeliveryAssumption DEF WellFormed, Names
<1>2. NewRow \in RowType
  BY <1>1 DEF NewRow, RowType, Reasons, Words
<1>3. Nothing \in ResultType
  BY FixedResults
<1>4. MaxComments \in Nat /\ MaxCrashes \in Nat
  BY DeliveryAssumption
<1>5. 0 \in 0..MaxComments /\ 0 \in 0..MaxCrashes
  BY <1>4
<1> QED BY <1>2, <1>3, <1>5 DEF Init, TypeInv, TypeOK, AtAStage, Places

(***************************************************************************)
(* A stage that comes back, or goes on, keeps the types of the row, the    *)
(* forge and the bounds; what it does to the disk is shown for each.       *)
(***************************************************************************)
DiskType ==
  /\ worktree \in BOOLEAN
  /\ tree \subseteq Edits /\ index \subseteq Edits /\ built \subseteq Edits
  /\ head \subseteq Edits /\ origin \subseteq Edits

RestType ==
  /\ row \in RowType
  /\ forge \in [pr : {"none", "open", "merged", "closed"}, commented : BOOLEAN,
                comments : 0..MaxComments]
  /\ pc \in Places /\ result \in ResultType
  /\ cut \in BOOLEAN /\ unheard \subseteq Unheard /\ crashes \in 0..MaxCrashes

LEMMA TypeInHalves == TypeOK <=> DiskType /\ RestType
BY DEF TypeOK, DiskType, RestType

LEMMA DiskStep ==
  ASSUME DiskType, [Next]_vars
  PROVE  DiskType'
<1> USE DEF DiskType
<1>1. CASE UNCHANGED <<disk, origin, built>>
  BY <1>1 DEF disk
<1>2. CASE create
  BY <1>2 DEF create, disk
<1>3. CASE prepare_cmd
  BY <1>3 DEF prepare_cmd, Edits
<1>4. CASE snapshot
  BY <1>4 DEF snapshot
<1>5. CASE Turn
  <2>1. tree' \subseteq Edits
    BY <1>5 DEF Turn, LeftBy
  <2> QED BY <1>5, <2>1 DEF Turn
<1>6. CASE revert_changes
  <2>1. \A failed : Reverted(failed) \subseteq Edits
    BY DEF Reverted, checkedOut, cleaned
  <2> QED BY <1>6, <2>1 DEF revert_changes
<1>7. CASE commit
  <2>1. index' \in {index, tree} /\ head' \in {head, index'}
    BY <1>7 DEF commit
  <2> QED BY <1>7, <2>1 DEF commit
<1>8. CASE push
  BY <1>8 DEF push, disk
<1>9. CASE teardown
  BY <1>9 DEF teardown
<1>10. ASSUME PassOver \/ OverBudget \/ ApplyMove \/ Examine \/ open_pr \/ StoreNumber
              \/ watch_pull_request \/ Approve \/ Decide \/ Comment \/ Crash
       PROVE  UNCHANGED <<disk, origin, built>>
  BY <1>10 DEF PassOver, OverBudget, ApplyMove, Examine, open_pr, StoreNumber,
               watch_pull_request, Approve, Decide, Comment, Crash
<1> QED BY <1>1, <1>2, <1>3, <1>4, <1>5, <1>6, <1>7, <1>8, <1>9, <1>10
        DEF Next, Step, vars, disk

LEMMA UnheardTyped ==
  ASSUME TypeOK, [Next]_vars
  PROVE  unheard' \subseteq Unheard
<1>1. unheard \subseteq Unheard
  BY DEF TypeOK
<1>2. CASE snapshot \/ revert_changes \/ Examine \/ commit
  BY <1>1, <1>2 DEF snapshot, revert_changes, Examine, commit, Unnoticed, Unheard
<1>3. CASE PassOver \/ OverBudget \/ ApplyMove \/ create \/ prepare_cmd \/ Turn \/ push
           \/ open_pr \/ StoreNumber \/ watch_pull_request \/ teardown \/ Approve \/ Decide
           \/ Comment \/ Crash \/ UNCHANGED vars
  BY <1>1, <1>3 DEF PassOver, OverBudget, ApplyMove, create, prepare_cmd, Turn, push, open_pr,
              StoreNumber, watch_pull_request, teardown, Approve, Decide, Comment, Crash,
              vars, faults
<1> QED BY <1>2, <1>3 DEF Next, Step

LEMMA RestStep ==
  ASSUME TypeInv, Next
  PROVE  RestType'
<1>0. unheard' \subseteq Unheard
  BY UnheardTyped DEF TypeInv
<1>1. TypeOK /\ DiskType /\ RestType /\ row \in RowType
  BY TypeInHalves DEF TypeInv, RestType
<1> USE DEF Places, downs
<1>2. CASE UNCHANGED forge /\ UNCHANGED downs
  <2>1. ASSUME row' \in RowType, pc' \in Places, result' \in ResultType
        PROVE  RestType'
    BY <1>0, <1>1, <1>2, <2>1 DEF RestType
  <2>2. ASSUME UNCHANGED row, pc' \in Places, result' \in ResultType
        PROVE  RestType'
    BY <1>1, <2>1, <2>2
  <2>3. pc \in Places /\ result \in ResultType
    BY <1>1 DEF RestType
  <2>4. CASE PassOver
    <3>1. Applied(planned, {}) \in RowType
      BY <1>1, AppliedType, MovesAreMoves
    <3> QED BY <3>1, <2>1, <2>3, <2>4 DEF PassOver
  <2>5. CASE OverBudget
    <3>1. Applied(MoveTo("failed"), {}) \in RowType
      BY <1>1, AppliedType, MovesAreMoves
    <3> QED BY <3>1, <2>1, <2>3, <2>5 DEF OverBudget
  <2>6. CASE ApplyMove
    <3>1. Applied(Advance(Graph, row, result), result.produced) \in RowType
      BY <1>1, AppliedType, MovesAreMoves
    <3> QED BY <3>1, <2>1, <2>6, FixedResults DEF ApplyMove
  <2>7. CASE create
    BY <2>7, <2>2, <2>3, FixedResults DEF create, Comes, GoesOn
  <2>8. CASE prepare_cmd
    BY <2>8, <2>2, FixedResults DEF prepare_cmd, Comes
  <2>9. CASE snapshot
    BY <2>9, <2>2, <2>3 DEF snapshot, GoesOn
  <2>10. CASE Turn
    <3>1. row.stage \in DOMAIN Graph.stages
      BY <2>10 DEF Turn, Ready, TypeInv, AtAStage
    <3>2. result' \in Answers(stage) \cup {Error({})}
      BY <2>10 DEF Turn
    <3>3. result' \in ResultType
      BY <3>1, <3>2, AnswersAreResults, FixedResults DEF stage
    <3> QED BY <3>3, <2>10, <2>2 DEF Turn
  <2>11. CASE revert_changes
    BY <2>11, <2>2, <2>3 DEF revert_changes
  <2>12. CASE Examine
    BY <2>12, <2>2, <2>3, FixedResults, ResultsAreResults DEF Examine, Comes, GoesOn
  <2>13. CASE commit
    BY <2>13, <2>2, <2>3, ResultsAreResults DEF commit, Comes, GoesOn
  <2>14. CASE push
    BY <2>14, <2>2, FixedResults DEF push, Pushed, Comes
  <2>15. CASE StoreNumber
    <3>1. [row EXCEPT !.pr = TRUE] \in RowType
      BY <1>1 DEF RowType
    <3> QED BY <3>1, <2>15, <2>1, FixedResults DEF StoreNumber, Comes
  <2>16. CASE watch_pull_request
    BY <1>1, <2>16, <2>2, FixedResults, WatchedIsAResult DEF watch_pull_request, Comes
  <2>17. CASE teardown
    BY <2>17, <2>2, FixedResults DEF teardown, Comes
  <2>18. CASE Approve
    <3>1. [row EXCEPT !.approved = TRUE, !.held = FALSE] \in RowType
      BY <1>1 DEF RowType
    <3> QED BY <3>1, <2>1, <2>3, <2>18 DEF Approve
  <2>19. CASE open_pr
    BY <2>19, <2>2, <2>3, FixedResults DEF open_pr, Comes, GoesOn
  <2>20. CASE Decide \/ Comment \/ Crash
    BY <1>1, <1>2, <2>2, <2>3, <2>20, FixedResults DEF Decide, Comment, Crash
  <2> QED BY <2>4, <2>5, <2>6, <2>7, <2>8, <2>9, <2>10, <2>11, <2>12, <2>13, <2>14, <2>15,
             <2>16, <2>17, <2>18, <2>19, <2>20 DEF Next, Step
<1>3. CASE open_pr
  <2>1. forge' \in [pr : {"none", "open", "merged", "closed"}, commented : BOOLEAN,
                    comments : 0..MaxComments]
    BY <1>1, <1>3 DEF open_pr, RestType
  <2>2. pc' \in Places /\ result' \in ResultType
    BY <1>1, <1>3, FixedResults DEF open_pr, Comes, GoesOn, RestType
  <2> QED BY <1>1, <1>3, <2>1, <2>2 DEF open_pr, faults, RestType
<1>4. CASE Decide
  BY <1>1, <1>4 DEF Decide, faults, RestType
<1>5. CASE Comment
  <2>1. forge.comments \in 0..MaxComments /\ MaxComments \in Nat
    BY <1>1, DeliveryAssumption DEF RestType
  <2>2. forge.comments + 1 \in 0..MaxComments
    BY <1>5, <2>1 DEF Comment
  <2>3. forge' = [forge EXCEPT !.commented = TRUE, !.comments = forge.comments + 1]
    BY <1>5 DEF Comment
  <2>4. forge' \in [pr : {"none", "open", "merged", "closed"}, commented : BOOLEAN,
                    comments : 0..MaxComments]
    BY <1>1, <2>2, <2>3 DEF RestType
  <2> QED BY <1>1, <1>5, <2>4 DEF Comment, faults, RestType
<1>6. CASE Crash
  <2>1. crashes \in 0..MaxCrashes /\ MaxCrashes \in Nat
    BY <1>1, DeliveryAssumption DEF RestType
  <2>2. crashes' \in 0..MaxCrashes
    BY <1>6, <2>1 DEF Crash
  <2> QED BY <1>1, <1>6, <2>2, FixedResults DEF Crash, RestType
<1>7. ASSUME PassOver \/ OverBudget \/ ApplyMove \/ create \/ prepare_cmd \/ snapshot \/ Turn
             \/ revert_changes \/ Examine \/ commit \/ push \/ StoreNumber
             \/ watch_pull_request \/ teardown \/ Approve
      PROVE  UNCHANGED forge /\ UNCHANGED downs
  BY <1>7 DEF PassOver, OverBudget, ApplyMove, create, prepare_cmd, snapshot, Turn,
              revert_changes, Examine, commit, push, StoreNumber, watch_pull_request,
              teardown, Approve, faults
<1> QED BY <1>2, <1>3, <1>4, <1>5, <1>6, <1>7 DEF Next, Step

LEMMA AtAStageStep ==
  ASSUME TypeInv, Next
  PROVE  AtAStage'
<1>1. row \in RowType
  BY DEF TypeInv, TypeOK
<1>2. ASSUME row'.stage = row.stage,
             pc = "idle" => row.stage \in DOMAIN Graph.stages \/ pc' = "idle",
             pc' \in {"snapshot", "turned"} => stage.revert_changes
      PROVE  AtAStage'
  BY <1>2 DEF TypeInv, AtAStage, stage
<1>3. CASE PassOver \/ OverBudget \/ ApplyMove \/ Crash
  BY <1>3 DEF PassOver, OverBudget, ApplyMove, Crash, Moving, Ready, AtAStage
<1>4. CASE create \/ prepare_cmd \/ revert_changes \/ Examine \/ commit \/ push \/ open_pr
           \/ watch_pull_request \/ teardown
  BY <1>2, <1>4 DEF create, prepare_cmd, revert_changes, Examine, commit, push, open_pr,
                    watch_pull_request, teardown, Comes, GoesOn, Ready
<1>5. CASE snapshot
  BY <1>2, <1>5 DEF snapshot, GoesOn, Ready
<1>6. CASE Turn
  BY <1>2, <1>6 DEF Turn, Ready, TypeInv, AtAStage
<1>7. CASE StoreNumber
  <2>1. row'.stage = row.stage
    BY <1>1, <1>7 DEF StoreNumber, RowType
  <2> QED BY <1>2, <1>7, <2>1 DEF StoreNumber, Comes
<1>8. CASE Approve
  <2>1. row'.stage = row.stage
    BY <1>1, <1>8 DEF Approve, RowType
  <2> QED BY <1>2, <1>8, <2>1 DEF Approve, TypeInv, AtAStage
<1>9. CASE Decide \/ Comment
  BY <1>2, <1>9 DEF Decide, Comment, TypeInv, AtAStage
<1> QED BY <1>3, <1>4, <1>5, <1>6, <1>7, <1>8, <1>9 DEF Next, Step

LEMMA TypeStep ==
  ASSUME TypeInv, [Next]_vars
  PROVE  TypeInv'
<1>1. DiskType'
  BY TypeInHalves, DiskStep DEF TypeInv
<1>2. CASE Next
  <2>1. TypeOK'
    BY <1>1, <1>2, RestStep DEF TypeOK, DiskType, RestType
  <2> QED BY <1>2, <2>1, AtAStageStep DEF TypeInv
<1>3. CASE UNCHANGED vars
  BY <1>3 DEF vars, TypeInv, TypeOK, AtAStage, stage
<1> QED BY <1>2, <1>3

(***************************************************************************)
(* Every variable keeps its type, and whatever the worker is in the middle *)
(* of is a stage of the pipeline.                                          *)
(***************************************************************************)
THEOREM TypeCorrectOfDelivery == Spec => []TypeOK
<1>1. TypeInv => TypeOK
  BY DEF TypeInv
<1> QED BY TypeInit, TypeStep, <1>1, PTL DEF Spec

-----------------------------------------------------------------------------
(* A check leaves no trace. *)

(***************************************************************************)
(* While there is a worktree it holds what was built; a check that has     *)
(* taken its turn finds that in the index, where its snapshot put it, and  *)
(* the revert brings it back.  So it is for as long as the commands that   *)
(* do this have done it.                                                   *)
(***************************************************************************)
Done == unheard \cap {"add", "checkout", "clean"} = {}

HoldsWhatWasBuilt ==
  /\ Done /\ worktree => IF pc = "turned" THEN index = built ELSE tree = built
  /\ Done /\ worktree /\ pc = "snapshot" => index = built
  /\ pc = "gated" => worktree

\* What has failed has failed.
LEMMA UnheardStays ==
  ASSUME [Next]_vars
  PROVE  unheard \subseteq unheard'
<1>1. snapshot \/ revert_changes \/ Examine \/ commit => unheard \subseteq unheard'
  BY DEF snapshot, revert_changes, Examine, commit, Unnoticed
<1>2. CASE PassOver \/ OverBudget \/ ApplyMove \/ create \/ prepare_cmd \/ Turn \/ push
           \/ open_pr \/ StoreNumber \/ watch_pull_request \/ teardown \/ Approve \/ Decide
           \/ Comment \/ Crash \/ UNCHANGED vars
  BY <1>2 DEF PassOver, OverBudget, ApplyMove, create, prepare_cmd, Turn, push, open_pr,
              StoreNumber, watch_pull_request, teardown, Approve, Decide, Comment, Crash,
              vars, faults
<1> QED BY <1>1, <1>2 DEF Next, Step

LEMMA BuiltInit ==
  ASSUME Init
  PROVE  HoldsWhatWasBuilt
BY DEF Init, HoldsWhatWasBuilt

LEMMA GatedStep ==
  ASSUME TypeInv, HoldsWhatWasBuilt, Next, pc' = "gated"
  PROVE  worktree'
<1>1. CASE pc = "gated"
  <2>1. worktree
    BY <1>1 DEF HoldsWhatWasBuilt
  <2> QED BY <1>1, <2>1 DEF Next, Step, PassOver, OverBudget, ApplyMove, create, prepare_cmd,
       snapshot, Turn, revert_changes, Examine, commit, push, open_pr, StoreNumber,
       watch_pull_request, teardown, Approve, Decide, Comment, Crash, disk, Ready, Moving
<1>2. CASE Examine
  BY <1>2 DEF Examine, disk, Comes, GoesOn
<1>3. CASE ~(pc = "gated") /\ ~Examine
  BY <1>3 DEF Next, Step, PassOver, OverBudget, ApplyMove, create, prepare_cmd, snapshot, Turn,
       revert_changes, commit, push, open_pr, StoreNumber, watch_pull_request, teardown,
       Approve, Decide, Comment, Crash, Comes, GoesOn
<1> QED BY <1>1, <1>2, <1>3

LEMMA BuiltStep ==
  ASSUME TypeInv, HoldsWhatWasBuilt, Next, "turned" \notin CrashAt
  PROVE  HoldsWhatWasBuilt' /\ (head' # head => head' = built \/ ~Done')
<1>a. pc' = "gated" => worktree'
  BY GatedStep
<1>b. SUFFICES ASSUME Done'
               PROVE  /\ worktree' => IF pc' = "turned" THEN index' = built' ELSE tree' = built'
                      /\ worktree' /\ pc' = "snapshot" => index' = built'
                      /\ head' # head => head' = built
  BY <1>a DEF HoldsWhatWasBuilt
<1>c. Done
  BY <1>b, UnheardStays DEF Done
<1>d. /\ worktree => IF pc = "turned" THEN index = built ELSE tree = built
      /\ worktree /\ pc = "snapshot" => index = built
      /\ pc = "gated" => worktree
  BY <1>c DEF HoldsWhatWasBuilt
<1> DEFINE Goal == /\ worktree' => IF pc' = "turned" THEN index' = built' ELSE tree' = built'
                   /\ worktree' /\ pc' = "snapshot" => index' = built'
                   /\ head' # head => head' = built
<1>0. ASSUME UNCHANGED <<worktree, tree, index, head, built>>, pc # "turned",
             pc' = pc \/ pc' \notin {"turned", "snapshot", "gated"}
      PROVE  Goal
  BY <1>0, <1>d
<1>1. CASE PassOver \/ OverBudget \/ ApplyMove \/ Approve \/ Decide \/ Comment
  <2>1. UNCHANGED <<worktree, tree, index, head, built>>
    BY <1>1 DEF PassOver, OverBudget, ApplyMove, Approve, Decide, Comment, disk
  <2>2. pc' = pc \/ (pc = "back" /\ pc' = "idle")
    BY <1>1 DEF PassOver, OverBudget, ApplyMove, Approve, Decide, Comment
  <2> QED BY <1>d, <2>1, <2>2
<1>2. CASE create
  <2>1. pc = "idle" /\ head' = head /\ pc' \in {"created", "back"}
    BY <1>2 DEF create, disk, Comes, GoesOn, Ready, Moving
  <2>2. \/ UNCHANGED <<worktree, tree, index, built>>
        \/ worktree' = TRUE /\ tree' = head /\ built' = head
    BY <1>2 DEF create, disk
  <2> QED BY <1>d, <2>1, <2>2
<1>3. CASE prepare_cmd
  BY <1>3 DEF prepare_cmd, Comes
<1>4. CASE snapshot
  <2>1. pc = "idle" /\ pc' = "snapshot" /\ UNCHANGED <<worktree, tree, head, built>>
    BY <1>4 DEF snapshot, GoesOn, Ready, Moving
  <2>2. worktree => index' = tree
    BY <1>4, <1>b DEF snapshot, Unnoticed, Done
  <2> QED BY <1>d, <2>1, <2>2
<1>5. CASE Turn
  <2>1. CASE stage.revert_changes
    <3>1. pc = "snapshot" /\ pc' = "turned" /\ built' = built
      BY <1>5, <2>1 DEF Turn
    <3> QED BY <1>5, <1>d, <3>1 DEF Turn
  <2>2. CASE ~stage.revert_changes
    <3>1. pc' = "back" /\ built' = tree'
      BY <1>5, <2>2 DEF Turn, TypeInv, AtAStage
    <3> QED BY <1>5, <3>1 DEF Turn
  <2> QED BY <2>1, <2>2
<1>6. CASE revert_changes
  <2>1. pc = "turned" /\ pc' = "back" /\ UNCHANGED <<worktree, index, head, built>>
    BY <1>6 DEF revert_changes
  <2>2. worktree => tree' = index
    <3> SUFFICES ASSUME worktree PROVE tree' = index
      OBVIOUS
    <3>1. PICK failed \in SUBSET {"checkout", "clean"} :
            tree' = Reverted(failed) /\ unheard' = unheard \cup failed
      BY <1>6 DEF revert_changes, Unnoticed
    <3>2. "checkout" \notin failed /\ "clean" \notin failed
      BY <1>b, <3>1 DEF Done
    <3> QED BY <3>1, <3>2 DEF Reverted, checkedOut, cleaned
  <2> QED BY <1>d, <2>1, <2>2
<1>7. CASE Examine
  BY <1>7, <1>d DEF Examine, disk, Comes, GoesOn, Ready, Moving
<1>8. CASE commit
  <2>1. pc = "gated" /\ pc' \in {"back", "committed"} /\ UNCHANGED <<worktree, tree, built>>
    BY <1>8 DEF commit, Comes, GoesOn
  <2>2. head' = head \/ head' = tree
    <3>1. CASE UNCHANGED head
      BY <3>1
    <3>2. CASE \E killed \in SUBSET {"add", "commit"} :
                 /\ index' = IF "add" \in killed THEN index ELSE tree
                 /\ unheard' = unheard \cup killed
                 /\ head' \in {head, index'}
      BY <1>b, <3>2 DEF Done
    <3> QED BY <1>8, <3>1, <3>2 DEF commit, Unnoticed
  <2> QED BY <1>d, <2>1, <2>2
<1>9. CASE push \/ StoreNumber
  BY <1>9, <1>d DEF push, StoreNumber, disk, Comes
<1>10. CASE open_pr \/ watch_pull_request
  <2>1. UNCHANGED <<worktree, tree, index, head, built>>
    BY <1>10 DEF open_pr, watch_pull_request, disk
  <2>2. pc = "idle"
    BY <1>10 DEF open_pr, watch_pull_request, Ready, Moving
  <2>3. pc' \in {"opened", "back"}
    BY <1>10 DEF open_pr, watch_pull_request, Comes, GoesOn
  <2> QED BY <1>0, <2>1, <2>2, <2>3
<1>11. CASE teardown
  <2>1. pc = "idle" /\ pc' = "back" /\ UNCHANGED <<head, built>>
    BY <1>11 DEF teardown, Comes, Ready, Moving
  <2>2. worktree' = FALSE \/ UNCHANGED <<worktree, tree, index>>
    BY <1>11 DEF teardown
  <2> QED BY <1>d, <2>1, <2>2
<1>12. CASE Crash
  BY <1>12, <1>d DEF Crash, disk
<1> QED BY <1>1, <1>2, <1>3, <1>4, <1>5, <1>6, <1>7, <1>8, <1>9, <1>10, <1>11, <1>12
        DEF Next, Step

(***************************************************************************)
(* If the process does not go down between a check's turn and the revert   *)
(* after it, every commit is of what set-up and the editing turns left,    *)
(* until one of the three git commands that see to it fails unnoticed: no  *)
(* check repairs or destroys anything that ships, in any pipeline.         *)
(***************************************************************************)
THEOREM ChecksLeaveNoTrace ==
  ASSUME "turned" \notin CrashAt
  PROVE  Spec => CommitsWhatWasBuilt
<1>1. TypeInv /\ HoldsWhatWasBuilt /\ [Next]_vars =>
        /\ HoldsWhatWasBuilt'
        /\ [head' # head => head' = built \/ unheard' \cap {"add", "checkout", "clean"} # {}]_vars
  <2>1. CASE UNCHANGED vars
    BY <2>1 DEF vars, HoldsWhatWasBuilt, Done
  <2> QED BY <2>1, BuiltStep DEF Done
<1> QED BY <1>1, TypeInit, TypeStep, BuiltInit, PTL DEF Spec, CommitsWhatWasBuilt

-----------------------------------------------------------------------------
(* Where a run goes, and what it carries there. *)

\* What a turn comes back with is never a refusal, and if it is a result it has everything.
TurnResult ==
  pc \in {"turned", "back"} /\ RunsATurn(stage) =>
    result.outcome # "refused" /\ (result.outcome = "ok" => result.produced = stage.produces)

\* What a worker is in the middle of is a stage of a run that is not over.
AtWork ==
  /\ pc # "idle" => row.outcome = "" /\ row.stage \in DOMAIN Graph.stages
  /\ pc = "created" => stage.action = "prepare_workspace"
  /\ pc \in {"snapshot", "turned"} => RunsATurn(stage)
  /\ pc \in {"gated", "committed"} => stage.action = "commit_and_push"
  /\ pc = "opened" => stage.action = "open_pull_request"

WorkInv == TypeInv /\ AtWork /\ TurnResult /\ "spec" \in row.document

\* A stage with an action runs no turn.
LEMMA ActionsAreNoTurns ==
  ASSUME NEW n \in DOMAIN Graph.stages
  PROVE  Graph.stages[n].action # "" => ~RunsATurn(Graph.stages[n])
BY GraphAssumption DEF WellFormed, StageOK, RunsATurn

LEMMA AnswersOfATurn ==
  ASSUME NEW s, NEW x \in Answers(s)
  PROVE  x.outcome # "refused" /\ (x.outcome = "ok" => x.produced = s.produces)
<1>1. \A D : /\ Ok(D).outcome = "ok" /\ Ok(D).produced = D
             /\ Error(D).outcome = "error"
  BY DEF Ok, Error, Result
<1>2. Blocked.outcome = "blocked"
  BY DEF Blocked, Result
<1>3. x \in {Ok(s.produces), Error({}), Blocked, Error(s.produces)}
  BY DEF Answers
<1> QED BY <1>1, <1>2, <1>3

\* The row as apply_move leaves it, field by field.
LEMMA AppliedFields ==
  ASSUME row \in RowType, NEW m, NEW produced, row' = Applied(m, produced)
  PROVE  /\ row'.stage = m.to /\ row'.document = row.document \cup produced
         /\ row'.outcome = IF IsTerminalMove(m) THEN m.to ELSE row.outcome
BY DEF Applied, RowType

\* The run stays where it is; what its document had it still has.
Stays ==
  /\ row'.stage = row.stage /\ row'.outcome = row.outcome
  /\ row.document \subseteq row'.document

\* The run takes an edge: it passes over its stage, or its stage came back.
Passes ==
  /\ PassOver /\ ShouldSkip(row.stage, stage, row)
  /\ row'.document = row.document

ComesBack ==
  /\ ApplyMove
  /\ row'.document = row.document \cup result.produced
  /\ \/ result.outcome = "ok"
     \/ result.outcome = "error" /\ stage.on_error = "continue"
     \/ result.outcome = "refused" /\ row'.stage = stage.on_refusal

Follows ==
  /\ row.stage \in DOMAIN Graph.stages /\ Edge(Graph, row.stage, row'.stage)
  /\ Passes \/ ComesBack

(***************************************************************************)
(* A step of a run that is not over after it: the run stays, or it follows *)
(* an edge of its graph, or it is at no stage but, once more, the first.   *)
(***************************************************************************)
LEMMA RunsFollowEdges ==
  ASSUME WorkInv, [Next]_vars, row'.outcome = ""
  PROVE  /\ row.outcome = "" /\ row.document \subseteq row'.document
         /\ Stays \/ Astray(Graph, row'.stage) \/ Follows
<1> DEFINE Goal == /\ row.outcome = "" /\ row.document \subseteq row'.document
                   /\ Stays \/ Astray(Graph, row'.stage) \/ Follows
<1>1. row \in RowType /\ GraphType(Graph) /\ WellFormed(Graph)
  BY GraphAssumption DEF WorkInv, TypeInv, TypeOK
<1>2. ASSUME NEW m, NEW produced, row' = Applied(m, produced)
      PROVE  /\ row'.stage = m.to /\ row'.document = row.document \cup produced
             /\ m.to # "failed" /\ row.outcome = ""
  <2>1. /\ row'.stage = m.to /\ row'.document = row.document \cup produced
        /\ row'.outcome = IF IsTerminalMove(m) THEN m.to ELSE row.outcome
    BY <1>1, <1>2, AppliedFields
  <2>2. ~IsTerminalMove(m)
    BY <2>1 DEF IsTerminalMove, Finals
  <2> QED BY <2>1, <2>2 DEF IsTerminalMove, Finals
<1>3. CASE row' = row
  BY <1>3 DEF Stays
<1>4. CASE PassOver
  <2>1. row' = Applied(planned, {}) /\ (planned.skipped \/ planned.held)
    BY <1>4 DEF PassOver
  <2>a. /\ row'.stage = planned.to /\ row'.document = row.document \cup {}
        /\ planned.to # "failed" /\ row.outcome = ""
    BY <1>2, <2>1, Zenon
  <2>2. /\ row'.stage = planned.to /\ row'.document = row.document /\ row.outcome = ""
        /\ planned.to # "failed"
    BY <2>a
  <2>3. CASE row.stage \in DOMAIN Graph.stages
    <3>1. /\ planned.skipped => ShouldSkip(row.stage, stage, row)
                                /\ (planned.to = "failed" \/ Edge(Graph, row.stage, planned.to))
          /\ planned.held /\ ~planned.skipped => planned.to = row.stage
      BY <1>1, <2>3, PlanTakesAnEdge DEF planned, stage
    <3>2. CASE planned.skipped
      BY <1>4, <2>2, <2>3, <3>1, <3>2 DEF Follows, Passes
    <3>3. CASE planned.held /\ ~planned.skipped
      BY <2>2, <3>1, <3>3 DEF Stays
    <3> QED BY <2>1, <3>2, <3>3
  <2>4. CASE row.stage \notin DOMAIN Graph.stages
    <3>1. planned \in {MoveTo(row.stage), MoveTo("failed")}
      BY <2>4 DEF planned, PlanNext
    <3>a. \A to : MoveTo(to).to = to
      BY DEF MoveTo, Move
    <3>2. planned.to \in {row.stage, "failed"}
      BY <3>1, <3>a
    <3> QED BY <2>2, <3>2 DEF Stays
  <2> QED BY <2>3, <2>4
<1>5. CASE OverBudget
  <2>1. MoveTo("failed").to = "failed"
    BY DEF MoveTo, Move
  <2> QED BY <1>2, <1>5, <2>1 DEF OverBudget
<1>6. CASE ApplyMove
  <2> DEFINE m == Advance(Graph, row, result)
  <2>1. row' = Applied(m, result.produced) /\ pc = "back"
    BY <1>6 DEF ApplyMove
  <2>2. row.stage \in DOMAIN Graph.stages /\ Came(result)
    BY <2>1 DEF WorkInv, AtWork, TypeInv, TypeOK, ResultType, Came
  <2>3. Takes(Graph, row.stage, result.outcome, m.to)
    BY <1>1, <2>2, AdvanceTakesAnEdge
  <2> HIDE DEF m
  <2>4. /\ row'.stage = m.to /\ row'.document = row.document \cup result.produced
        /\ m.to # "failed" /\ row.outcome = ""
    BY <1>2, <2>1
  <2>5. CASE m.to = row.stage
    BY <2>4, <2>5 DEF Stays
  <2>6. CASE Astray(Graph, m.to)
    BY <2>4, <2>6
  <2>7. CASE /\ Edge(Graph, row.stage, m.to)
             /\ \/ result.outcome = "ok"
                \/ result.outcome = "error" /\ stage.on_error = "continue"
                \/ result.outcome = "refused" /\ m.to = stage.on_refusal
    BY <1>6, <2>2, <2>4, <2>7 DEF Follows, ComesBack
  <2> QED BY <2>3, <2>4, <2>5, <2>6, <2>7 DEF Takes, stage
<1>7. CASE StoreNumber \/ Approve
  <2>1. \/ row' = [row EXCEPT !.pr = TRUE]
        \/ row' = [row EXCEPT !.approved = TRUE, !.held = FALSE]
    BY <1>7 DEF StoreNumber, Approve
  <2>2. row'.stage = row.stage /\ row'.outcome = row.outcome /\ row'.document = row.document
    BY <1>1, <2>1 DEF RowType
  <2> QED BY <2>2 DEF Stays
<1>8. CASE create \/ prepare_cmd \/ snapshot \/ Turn \/ revert_changes \/ Examine \/ commit
           \/ push \/ open_pr \/ watch_pull_request \/ teardown \/ Decide \/ Comment \/ Crash
           \/ UNCHANGED vars
  <2>1. row' = row
    BY <1>8 DEF create, prepare_cmd, snapshot, Turn, revert_changes, Examine, commit, push,
                open_pr, watch_pull_request, teardown, Decide, Comment, Crash, vars
  <2> QED BY <1>3, <2>1
<1> QED BY <1>4, <1>5, <1>6, <1>7, <1>8 DEF Next, Step

\* While a worker is in the middle of a stage, the run stays there.
LEMMA WorkersStay ==
  ASSUME WorkInv, [Next]_vars, pc' # "idle"
  PROVE  Stays /\ stage' = stage
<1>1. row \in RowType
  BY DEF WorkInv, TypeInv, TypeOK
<1>2. row' = row \/ StoreNumber \/ Approve
  BY DEF Next, Step, create, prepare_cmd, snapshot, Turn, revert_changes, Examine, commit, push,
         open_pr, watch_pull_request, teardown, Decide, Comment, Crash, vars, PassOver,
         OverBudget, ApplyMove, Ready, Moving
<1>3. row'.stage = row.stage /\ row'.outcome = row.outcome /\ row'.document = row.document
  BY <1>1, <1>2 DEF StoreNumber, Approve, RowType
<1> QED BY <1>3 DEF Stays, stage

LEMMA WorkInit ==
  ASSUME Init
  PROVE  WorkInv
<1>1. row.document = {"spec"} /\ pc = "idle"
  BY DEF Init, NewRow
<1> QED BY <1>1, TypeInit DEF WorkInv, AtWork, TurnResult

LEMMA AtWorkStep ==
  ASSUME WorkInv, [Next]_vars
  PROVE  AtWork'
<1>1. CASE pc' = "idle"
  BY <1>1 DEF AtWork
<1>2. CASE pc' # "idle"
  <2>1. /\ row'.stage = row.stage /\ row'.outcome = row.outcome /\ stage' = stage
    BY <1>2, WorkersStay DEF Stays
  <2>2. row.outcome = "" /\ row.stage \in DOMAIN Graph.stages
    <3>1. CASE pc # "idle"
      BY <3>1 DEF WorkInv, AtWork
    <3>2. CASE pc = "idle"
      <4>1. Ready
        BY <1>2, <3>2 DEF Next, Step, PassOver, OverBudget, ApplyMove, create, prepare_cmd,
                          snapshot,
             Turn, revert_changes, Examine, commit, push, open_pr, StoreNumber,
             watch_pull_request, teardown, Approve, Decide, Comment, Crash, vars
      <4> QED BY <4>1 DEF Ready, Moving
    <3> QED BY <3>1, <3>2
  <2>3. /\ pc' = "created" => stage.action = "prepare_workspace"
        /\ pc' \in {"snapshot", "turned"} => RunsATurn(stage)
        /\ pc' \in {"gated", "committed"} => stage.action = "commit_and_push"
        /\ pc' = "opened" => stage.action = "open_pull_request"
    <3>1. CASE pc' = pc
      BY <3>1 DEF WorkInv, AtWork
    <3>2. CASE pc' = "back"
      BY <3>2
    <3>3. CASE create \/ snapshot \/ Turn \/ Examine \/ commit \/ open_pr
      BY <3>2, <3>3 DEF create, snapshot, Turn, Examine, commit, open_pr, GoesOn, Comes, WorkInv,
                        AtWork
    <3>4. CASE prepare_cmd \/ revert_changes \/ push \/ StoreNumber \/ watch_pull_request \/ teardown
      BY <3>2, <3>4 DEF prepare_cmd, revert_changes, push, StoreNumber, watch_pull_request,
                        teardown, Comes
    <3>5. CASE PassOver \/ OverBudget \/ Approve \/ Decide \/ Comment \/ UNCHANGED vars
      BY <3>1, <3>5 DEF PassOver, OverBudget, Approve, Decide, Comment, vars
    <3>6. CASE ApplyMove \/ Crash
      BY <1>2, <3>6 DEF ApplyMove, Crash
    <3> QED BY <3>3, <3>4, <3>5, <3>6 DEF Next, Step
  <2> QED BY <2>1, <2>2, <2>3 DEF AtWork
<1> QED BY <1>1, <1>2

LEMMA TurnResultStep ==
  ASSUME WorkInv, [Next]_vars
  PROVE  TurnResult'
<1> SUFFICES ASSUME pc' \in {"turned", "back"}, RunsATurn(stage)'
             PROVE  result'.outcome # "refused" /\ (result'.outcome = "ok" => result'.produced = stage'.produces)
  BY DEF TurnResult
<1>1. stage' = stage /\ row'.stage = row.stage
  BY WorkersStay DEF Stays
<1>2. RunsATurn(stage)
  BY <1>1 DEF RunsATurn
<1>3. CASE pc' = pc /\ result' = result
  BY <1>1, <1>2, <1>3 DEF WorkInv, TurnResult
<1>4. CASE Turn
  <2>1. worktree \in BOOLEAN
    BY DEF WorkInv, TypeInv, TypeOK
  <2>2. result' \in Answers(stage)
    BY <1>4, <2>1 DEF Turn, Answers
  <2> QED BY <1>1, <2>2, AnswersOfATurn
<1>5. CASE revert_changes
  BY <1>1, <1>2, <1>5 DEF revert_changes, WorkInv, TurnResult
<1>6. CASE create \/ Examine \/ open_pr \/ watch_pull_request \/ teardown
  <2>1. stage.action # "" /\ row.stage \in DOMAIN Graph.stages
    BY <1>6 DEF create, Examine, open_pr, watch_pull_request, teardown, Ready
  <2> QED BY <1>2, <2>1, ActionsAreNoTurns DEF stage
<1>7. CASE prepare_cmd \/ commit \/ push \/ StoreNumber
  <2>1. stage.action # "" /\ row.stage \in DOMAIN Graph.stages
    BY <1>7 DEF prepare_cmd, commit, push, StoreNumber, WorkInv, AtWork
  <2> QED BY <1>2, <2>1, ActionsAreNoTurns DEF stage
<1>8. CASE PassOver \/ OverBudget \/ Approve \/ Decide \/ Comment \/ UNCHANGED vars
  BY <1>3, <1>8 DEF PassOver, OverBudget, Approve, Decide, Comment, vars
<1>9. CASE ApplyMove \/ Crash \/ snapshot
  BY <1>9 DEF ApplyMove, Crash, snapshot, GoesOn
<1> QED BY <1>4, <1>5, <1>6, <1>7, <1>8, <1>9 DEF Next, Step

LEMMA SpecStays ==
  ASSUME WorkInv, [Next]_vars
  PROVE  row.document \subseteq row'.document
<1>1. row \in RowType
  BY DEF WorkInv, TypeInv, TypeOK
<1>2. \/ row' = row \/ StoreNumber \/ Approve
      \/ \E m, produced : row' = Applied(m, produced)
  BY DEF Next, Step, create, prepare_cmd, snapshot, Turn, revert_changes, Examine, commit, push,
         open_pr, watch_pull_request, teardown, Decide, Comment, Crash, vars, PassOver,
         OverBudget, ApplyMove
<1>3. CASE StoreNumber \/ Approve
  BY <1>1, <1>3 DEF StoreNumber, Approve, RowType
<1>4. CASE \E m, produced : row' = Applied(m, produced)
  BY <1>1, <1>4, AppliedFields
<1> QED BY <1>2, <1>3, <1>4

LEMMA WorkStep ==
  ASSUME WorkInv, [Next]_vars
  PROVE  WorkInv'
BY AtWorkStep, TurnResultStep, SpecStays, TypeStep DEF WorkInv

-----------------------------------------------------------------------------
(* What a run surely has in its document. *)

SureInv(sure) ==
  row.outcome = "" /\ row.stage \in DOMAIN Graph.stages => sure[row.stage] \subseteq row.document

LEMMA SureInit ==
  ASSUME Init, NEW sure, Surely(Graph, sure)
  PROVE  SureInv(sure)
<1>1. row.stage = Graph.first /\ row.document = {"spec"}
  BY DEF Init, NewRow
<1> QED BY <1>1 DEF SureInv, Surely

LEMMA SureStep ==
  ASSUME WorkInv, [Next]_vars, NEW sure, Surely(Graph, sure), SureInv(sure)
  PROVE  SureInv(sure)'
<1> SUFFICES ASSUME row'.outcome = "", row'.stage \in DOMAIN Graph.stages
             PROVE  sure[row'.stage] \subseteq row'.document
  BY DEF SureInv
<1>1. /\ row.outcome = "" /\ row.document \subseteq row'.document
      /\ Stays \/ Astray(Graph, row'.stage) \/ Follows
  BY RunsFollowEdges
<1>2. CASE Stays
  BY <1>1, <1>2 DEF Stays, SureInv
<1>3. CASE Astray(Graph, row'.stage)
  <2>1. row'.stage = Graph.first /\ sure[Graph.first] \subseteq {"spec"}
    BY <1>3 DEF Astray, Surely
  <2>2. "spec" \in row'.document
    BY <1>1 DEF WorkInv
  <2> QED BY <2>1, <2>2
<1>4. CASE Follows
  <2>1. /\ row.stage \in DOMAIN Graph.stages /\ Edge(Graph, row.stage, row'.stage)
        /\ Passes \/ ComesBack
    BY <1>4 DEF Follows
  <2>2. /\ sure[row'.stage] \subseteq sure[row.stage] \cup Adds(stage, sure[row.stage])
        /\ sure[row.stage] \subseteq row.document
    BY <1>1, <2>1 DEF Surely, SureInv, stage
  <2>3. Adds(stage, sure[row.stage]) \subseteq row'.document
    <3> SUFFICES ASSUME RunsATurn(stage), stage.on_error = "fail",
                        NeverSkipped(stage, sure[row.stage])
                 PROVE  stage.produces \subseteq row'.document
      BY DEF Adds
    <3>1. ComesBack
      BY <2>1, <2>2, NeverSkippedIsNot DEF Passes
    <3>2. result.outcome = "ok" /\ result.produced = stage.produces
      <4>1. pc = "back"
        BY <3>1 DEF ComesBack, ApplyMove
      <4> QED BY <3>1, <4>1 DEF ComesBack, WorkInv, TurnResult
    <3> QED BY <3>1, <3>2 DEF ComesBack
  <2> QED BY <1>1, <2>2, <2>3
<1> QED BY <1>1, <1>2, <1>3, <1>4

-----------------------------------------------------------------------------
(* The gate sees every file. *)

\* Every file that git does not track yet is staged, so that the diff shows it.
AllStaged == tree \cap NewFiles \subseteq index

\* Without a worktree there is nothing in it, and no work that needs one is going on.
NoTree == ~worktree => tree = {} /\ index = {} /\ pc # "gated"

\* The gate has been given every diff, and every file was there to be in it.
Shown == unheard \cap {"diff", "add", "clean"} = {}

(***************************************************************************)
(* A run stands at a commit, or at a stage from where it goes on to one    *)
(* without a check, only with every file staged; so what passed the gate,  *)
(* and with it what is committed and pushed, holds nothing forbidden: for  *)
(* as long as git has done what it was told.                               *)
(***************************************************************************)
StagedInv(covered) ==
  /\ NoTree
  /\ Shown =>
       /\ row.outcome = "" /\ row.stage \in covered => AllStaged
       /\ pc = "back" /\ RunsATurn(stage) /\ stage.revert_changes => AllStaged
       /\ pc = "gated" => tree \cap Forbidden = {}
       /\ head \cap Forbidden = {} /\ origin \cap Forbidden = {}

LEMMA StagedInit ==
  ASSUME Init, NEW covered
  PROVE  StagedInv(covered)
BY DEF Init, StagedInv, NoTree, AllStaged

LEMMA NoTreeStep ==
  ASSUME WorkInv, NoTree, [Next]_vars
  PROVE  NoTree'
<1> USE DEF NoTree
<1>1. worktree \in BOOLEAN
  BY DEF WorkInv, TypeInv, TypeOK
<1>2. ASSUME UNCHANGED <<worktree, tree, index>>, pc' = pc \/ pc' # "gated"
      PROVE  NoTree'
  BY <1>2
<1>3. CASE create
  <2>1. worktree' = TRUE \/ UNCHANGED <<worktree, tree, index>>
    BY <1>1, <1>3 DEF create, disk
  <2>2. pc' \in {"created", "back"}
    BY <1>3 DEF create, GoesOn, Comes
  <2> QED BY <1>1, <2>1, <2>2
<1>4. CASE prepare_cmd \/ commit
  <2>1. CASE prepare_cmd
    BY <1>1, <2>1 DEF prepare_cmd, Comes
  <2>2. CASE commit
    BY <2>2 DEF commit
  <2> QED BY <1>4, <2>1, <2>2
<1>5. CASE snapshot
  BY <1>1, <1>5 DEF snapshot, GoesOn
<1>6. CASE Turn \/ revert_changes
  BY <1>1, <1>6 DEF Turn, revert_changes
<1>7. CASE teardown
  BY <1>7 DEF teardown, Comes
<1>8. CASE Examine
  BY <1>1, <1>8 DEF Examine, disk, Comes, GoesOn
<1>9. CASE PassOver \/ OverBudget \/ ApplyMove \/ push \/ open_pr \/ StoreNumber
           \/ watch_pull_request \/ Approve \/ Decide \/ Comment \/ Crash \/ UNCHANGED vars
  <2>1. UNCHANGED <<worktree, tree, index>>
    BY <1>9 DEF PassOver, OverBudget, ApplyMove, push, open_pr, StoreNumber,
                watch_pull_request, Approve, Decide, Comment, Crash, vars, disk
  <2>2. pc' = pc \/ pc' \in {"idle", "back", "opened"}
    BY <1>9 DEF PassOver, OverBudget, ApplyMove, push, open_pr, StoreNumber, Comes, GoesOn,
                watch_pull_request, Approve, Decide, Comment, Crash, vars
  <2> QED BY <1>2, <2>1, <2>2
<1> QED BY <1>3, <1>4, <1>5, <1>6, <1>7, <1>8, <1>9 DEF Next, Step

\* No step but a turn, or the preparation of the worktree, makes a file git does not know.
\* After a revert whose clean has worked, every file is staged, or there is no worktree.
LEMMA RevertStages ==
  ASSUME NoTree, revert_changes, Shown'
  PROVE  AllStaged'
<1>1. index' = index
  BY DEF revert_changes
<1>2. CASE ~worktree
  BY <1>1, <1>2 DEF revert_changes, NoTree, AllStaged
<1>3. CASE worktree
  <2>1. PICK failed \in SUBSET {"checkout", "clean"} :
          tree' = Reverted(failed) /\ unheard' = unheard \cup failed
    BY <1>3 DEF revert_changes, Unnoticed
  <2>2. "clean" \notin failed
    BY <2>1 DEF Shown
  <2>3. tree' \cap NewFiles \subseteq index
    BY <2>1, <2>2 DEF Reverted, cleaned
  <2> QED BY <1>1, <2>3 DEF AllStaged
<1> QED BY <1>2, <1>3

LEMMA StaysStaged ==
  ASSUME WorkInv, NoTree, [Next]_vars, Shown', AllStaged,
         row.stage \in DOMAIN Graph.stages, Reads(stage)
  PROVE  AllStaged'
<1> USE DEF AllStaged
<1>1. worktree \in BOOLEAN
  BY DEF WorkInv, TypeInv, TypeOK
<1>2. ~create /\ ~prepare_cmd
  BY DEF create, prepare_cmd, Reads, WorkInv, AtWork
<1>3. CASE snapshot \/ commit \/ teardown
  <2>1. CASE snapshot
    BY <2>1 DEF snapshot
  <2>2. CASE commit
    <3>1. tree' = tree /\ index' \in {index, tree}
      BY <2>2 DEF commit
    <3> QED BY <3>1
  <2>3. CASE teardown
    BY <2>3 DEF teardown
  <2> QED BY <1>3, <2>1, <2>2, <2>3
<1>4. CASE Turn
  <2>1. LeftBy(stage) = {tree}
    BY DEF LeftBy, MayMake, Reads
  <2> QED BY <1>4, <2>1 DEF Turn
<1>5. CASE revert_changes
  BY <1>5, RevertStages
<1>6. CASE PassOver \/ OverBudget \/ ApplyMove \/ Examine \/ push \/ open_pr \/ StoreNumber
           \/ watch_pull_request \/ Approve \/ Decide \/ Comment \/ Crash \/ UNCHANGED vars
  <2>1. UNCHANGED <<tree, index>>
    BY <1>6 DEF PassOver, OverBudget, ApplyMove, Examine, push, open_pr, StoreNumber,
                watch_pull_request, Approve, Decide, Comment, Crash, vars, disk
  <2> QED BY <2>1
<1> QED BY <1>2, <1>3, <1>4, <1>5, <1>6 DEF Next, Step

LEMMA StagedStep ==
  ASSUME WorkInv, [Next]_vars, NEW sure, NEW covered, SeesEveryFile(Graph, sure, covered),
         SureInv(sure), StagedInv(covered)
  PROVE  StagedInv(covered)'
<1>1. NoTree /\ NoTree'
  BY NoTreeStep DEF StagedInv
<1>a. SUFFICES ASSUME Shown'
               PROVE  /\ row'.outcome = "" /\ row'.stage \in covered => AllStaged'
                      /\ pc' = "back" /\ RunsATurn(stage)' /\ stage'.revert_changes => AllStaged'
                      /\ pc' = "gated" => tree' \cap Forbidden = {}
                      /\ head' \cap Forbidden = {} /\ origin' \cap Forbidden = {}
  BY <1>1 DEF StagedInv
<1>b. Shown
  BY <1>a, UnheardStays DEF Shown
<1>c. /\ row.outcome = "" /\ row.stage \in covered => AllStaged
      /\ pc = "back" /\ RunsATurn(stage) /\ stage.revert_changes => AllStaged
      /\ pc = "gated" => tree \cap Forbidden = {}
      /\ head \cap Forbidden = {} /\ origin \cap Forbidden = {}
  BY <1>b DEF StagedInv
<1>2. row'.outcome = "" /\ row'.stage \in covered => AllStaged'
  <2> SUFFICES ASSUME row'.outcome = "", row'.stage \in covered PROVE AllStaged'
    OBVIOUS
  <2>1. /\ row.outcome = ""
        /\ Stays \/ Astray(Graph, row'.stage) \/ Follows
    BY RunsFollowEdges
  <2>2. row'.stage \in DOMAIN Graph.stages /\ ~Astray(Graph, row'.stage)
    BY DEF SeesEveryFile, Astray
  <2>3. ASSUME row.stage \in covered PROVE AllStaged'
    <3>1. row.stage \in DOMAIN Graph.stages /\ Reads(stage) /\ AllStaged
      BY <1>c, <2>1, <2>3 DEF SeesEveryFile, stage
    <3> QED BY <1>1, <1>a, <3>1, StaysStaged
  <2>4. CASE Stays
    BY <2>3, <2>4 DEF Stays
  <2>5. CASE Follows /\ row.stage \notin covered
    <3>1. /\ row.stage \in DOMAIN Graph.stages /\ Edge(Graph, row.stage, row'.stage)
          /\ Passes \/ ComesBack
      BY <2>5 DEF Follows
    <3>2. RunsATurn(stage) /\ stage.revert_changes /\ NeverSkipped(stage, sure[row.stage])
      BY <2>2, <2>5, <3>1 DEF SeesEveryFile, stage
    <3>3. sure[row.stage] \subseteq row.document
      BY <2>1, <3>1 DEF SureInv
    <3>4. ComesBack
      BY <3>1, <3>2, <3>3, NeverSkippedIsNot DEF Passes
    <3>5. pc = "back" /\ UNCHANGED <<tree, index>>
      BY <3>4 DEF ComesBack, ApplyMove, disk
    <3> QED BY <1>c, <3>2, <3>5 DEF AllStaged
  <2> QED BY <2>1, <2>2, <2>3, <2>4, <2>5
<1>3. pc' = "back" /\ RunsATurn(stage)' /\ stage'.revert_changes => AllStaged'
  <2> SUFFICES ASSUME pc' = "back", RunsATurn(stage)', stage'.revert_changes PROVE AllStaged'
    OBVIOUS
  <2>1. stage' = stage /\ row'.stage = row.stage
    BY WorkersStay DEF Stays
  <2>2. RunsATurn(stage) /\ stage.revert_changes
    BY <2>1 DEF RunsATurn
  <2>3. CASE pc = "back" /\ UNCHANGED <<tree, index>>
    BY <1>c, <2>2, <2>3 DEF AllStaged
  <2>4. CASE revert_changes
    BY <1>1, <1>a, <2>4, RevertStages
  <2>5. CASE create \/ Examine \/ open_pr \/ watch_pull_request \/ teardown
    <3>1. stage.action # "" /\ row.stage \in DOMAIN Graph.stages
      BY <2>5 DEF create, Examine, open_pr, watch_pull_request, teardown, Ready
    <3> QED BY <2>2, <3>1, ActionsAreNoTurns DEF stage
  <2>6. CASE prepare_cmd \/ commit \/ push \/ StoreNumber
    <3>1. stage.action # "" /\ row.stage \in DOMAIN Graph.stages
      BY <2>6 DEF prepare_cmd, commit, push, StoreNumber, WorkInv, AtWork
    <3> QED BY <2>2, <3>1, ActionsAreNoTurns DEF stage
  <2>7. CASE PassOver \/ OverBudget \/ Approve \/ Decide \/ Comment \/ UNCHANGED vars
    BY <2>3, <2>7 DEF PassOver, OverBudget, Approve, Decide, Comment, vars, disk
  <2>8. ~Turn /\ ~snapshot /\ ~ApplyMove /\ ~Crash
    BY <2>2 DEF Turn, snapshot, GoesOn, ApplyMove, Crash
  <2> QED BY <2>4, <2>5, <2>6, <2>7, <2>8 DEF Next, Step
<1>4. pc' = "gated" => tree' \cap Forbidden = {}
  <2> SUFFICES ASSUME pc' = "gated" PROVE tree' \cap Forbidden = {}
    OBVIOUS
  <2>1. CASE pc = "gated" /\ tree' = tree
    BY <1>c, <2>1
  <2>2. CASE Examine
    <3>1. Ready /\ stage.action = "commit_and_push" /\ tree' = tree
      BY <2>2 DEF Examine, disk
    <3>d. diff \cap Forbidden = {}
      BY <1>a, <2>2 DEF Examine, Comes, Unnoticed, Shown
    <3>2. AllStaged
      BY <1>c, <3>1 DEF SeesEveryFile, Doing, Ready, Moving, stage
    <3>3. diff = tree
      BY <3>2 DEF AllStaged, diff
    <3> QED BY <3>1, <3>d, <3>3
  <2>3. CASE PassOver \/ OverBudget \/ Approve \/ Decide \/ Comment \/ UNCHANGED vars
    BY <2>1, <2>3 DEF PassOver, OverBudget, Approve, Decide, Comment, vars, disk
  <2>4. pc' # "gated" \/ ~(ApplyMove \/ create \/ prepare_cmd \/ snapshot \/ Turn
             \/ revert_changes \/ commit \/ push \/ open_pr \/ StoreNumber
             \/ watch_pull_request \/ teardown \/ Crash)
    BY DEF ApplyMove, create, prepare_cmd, snapshot, Turn, revert_changes, commit, push, open_pr,
           StoreNumber, watch_pull_request, teardown, Crash, Comes, GoesOn
  <2> QED BY <2>2, <2>3, <2>4 DEF Next, Step
<1>5. head' \cap Forbidden = {} /\ origin' \cap Forbidden = {}
  <2>1. head' = head \/ commit
    BY DEF Next, Step, PassOver, OverBudget, ApplyMove, create, prepare_cmd, snapshot, Turn,
           revert_changes, Examine, commit, push, open_pr, StoreNumber, watch_pull_request,
           teardown, Approve, Decide, Comment, Crash, vars, disk
  <2>2. origin' \in {origin, head}
    BY DEF Next, Step, PassOver, OverBudget, ApplyMove, create, prepare_cmd, snapshot, Turn,
           revert_changes, Examine, commit, push, open_pr, StoreNumber, watch_pull_request,
           teardown, Approve, Decide, Comment, Crash, vars
  <2>3. commit => pc = "gated" /\ head' \in {head, tree}
    <3> SUFFICES ASSUME commit PROVE pc = "gated" /\ head' \in {head, tree}
      OBVIOUS
    <3>1. CASE UNCHANGED head
      BY <3>1 DEF commit
    <3>2. CASE \E killed \in SUBSET {"add", "commit"} :
                 /\ index' = IF "add" \in killed THEN index ELSE tree
                 /\ unheard' = unheard \cup killed
                 /\ head' \in {head, index'}
      BY <1>a, <3>2 DEF Shown, commit
    <3> QED BY <3>1, <3>2 DEF commit, Unnoticed
  <2> QED BY <1>c, <2>1, <2>2, <2>3
<1> QED BY <1>2, <1>3, <1>4, <1>5

(***************************************************************************)
(* What the delivery gate refuses is never pushed, in every pipeline where *)
(* a check that reverts its changes comes before each commit, and only     *)
(* stages that read come between: the check's snapshot is what shows the   *)
(* gate the files git does not track yet.  It holds until a diff, an add   *)
(* or a clean fails and the code goes on as if it had not.  strict is such *)
(* a pipeline; quick-fix, which has no check, breaks the property with     *)
(* every command working.                                                  *)
(***************************************************************************)
THEOREM TheGateHolds ==
  ASSUME NEW sure, NEW covered, SeesEveryFile(Graph, sure, covered)
  PROVE  Spec => []NothingForbiddenIsPushed
<1>1. Surely(Graph, sure)
  BY DEF SeesEveryFile
<1>2. Init => WorkInv /\ SureInv(sure) /\ StagedInv(covered)
  BY <1>1, WorkInit, SureInit, StagedInit
<1>3. WorkInv /\ SureInv(sure) /\ StagedInv(covered) /\ [Next]_vars =>
        WorkInv' /\ SureInv(sure)' /\ StagedInv(covered)'
  BY <1>1, WorkStep, SureStep, StagedStep
<1>4. StagedInv(covered) => NothingForbiddenIsPushed
  BY DEF StagedInv, Shown, NothingForbiddenIsPushed
<1> QED BY <1>2, <1>3, <1>4, PTL DEF Spec

-----------------------------------------------------------------------------
(* What people see. *)

Commits == stage.action = "commit_and_push"
Opens   == stage.action = "open_pull_request"
Watches == stage.action = "watch_pull_request"

(***************************************************************************)
(* A commit that came back well is on the remote, and a request that came  *)
(* back well is open or was: both stay true for as long as the run opens   *)
(* and watches, because there nothing commits.                             *)
(***************************************************************************)
PublishedInv ==
  /\ row.outcome = "" /\ row.stage \in DOMAIN Graph.stages =>
       /\ Opens \/ Watches => origin = head
       /\ Watches => forge.pr # "none"
  /\ pc = "back" /\ Commits /\ result.outcome = "ok" => origin = head
  /\ pc = "opened" => forge.pr # "none"
  /\ pc = "back" /\ Opens =>
       /\ result.outcome \in {"ok", "error"}
       /\ result.outcome = "ok" => forge.pr # "none"

LEMMA PublishedInit ==
  ASSUME Init, WatchesWhatItPushed(Graph)
  PROVE  PublishedInv
<1>1. row.stage = Graph.first /\ pc = "idle"
  BY DEF Init, NewRow
<1>2. Graph.first \notin Doing(Graph, "open_pull_request") \cup Doing(Graph, "watch_pull_request")
  BY DEF WatchesWhatItPushed
<1> QED BY <1>1, <1>2 DEF PublishedInv, Opens, Watches, Doing, stage

\* A request that was opened stays one, whatever becomes of it.
LEMMA RequestsStay ==
  ASSUME WorkInv, [Next]_vars, forge.pr # "none"
  PROVE  forge'.pr # "none"
<1>1. forge \in [pr : {"none", "open", "merged", "closed"}, commented : BOOLEAN,
                comments : 0..MaxComments]
  BY DEF WorkInv, TypeInv, TypeOK
<1>2. forge' = forge \/ open_pr \/ Decide \/ Comment
  BY DEF Next, Step, PassOver, OverBudget, ApplyMove, create, prepare_cmd, snapshot, Turn,
         revert_changes, Examine, commit, push, StoreNumber, watch_pull_request, teardown,
         Approve, Crash, vars
<1>3. CASE open_pr
  BY <1>1, <1>3 DEF open_pr
<1>4. CASE Decide \/ Comment
  BY <1>1, <1>4 DEF Decide, Comment
<1> QED BY <1>2, <1>3, <1>4

\* Only a commit makes the branch differ from the one people see.
LEMMA BranchStays ==
  ASSUME WorkInv, [Next]_vars, ~(pc = "gated" \/ pc = "committed")
  PROVE  head' = head /\ origin' = origin
BY DEF Next, Step, PassOver, OverBudget, ApplyMove, create, prepare_cmd, snapshot, Turn,
       revert_changes, Examine, commit, push, open_pr, StoreNumber, watch_pull_request, teardown,
       Approve, Decide, Comment, Crash, vars, disk

LEMMA PublishedStep ==
  ASSUME WorkInv, [Next]_vars, WatchesWhatItPushed(Graph), PublishedInv
  PROVE  PublishedInv'
<1>0. \A c : c # "" => \A n \in DOMAIN Graph.stages :
        Graph.stages[n].action = c <=> n \in Doing(Graph, c)
  BY DEF Doing
<1>1. ASSUME row'.outcome = "", row'.stage \in DOMAIN Graph.stages, (Opens \/ Watches)'
      PROVE  origin' = head' /\ (Watches' => forge'.pr # "none")
  <2>1. /\ row.outcome = ""
        /\ Stays \/ Astray(Graph, row'.stage) \/ Follows
    BY <1>1, RunsFollowEdges
  <2>2. row'.stage # Graph.first
    BY <1>1, <1>0 DEF WatchesWhatItPushed, Doing, Opens, Watches, stage
  <2>3. CASE Stays
    <3>1. stage' = stage /\ row.stage \in DOMAIN Graph.stages
      BY <1>1, <2>3 DEF Stays, stage
    <3>2. Opens \/ Watches
      BY <1>1, <3>1 DEF Opens, Watches
    <3>3. ~(pc = "gated" \/ pc = "committed")
      BY <3>2 DEF Opens, Watches, WorkInv, AtWork
    <3>4. Watches' => Watches
      BY <3>1 DEF Watches
    <3>5. origin' = origin /\ head' = head
      BY <3>3, BranchStays
    <3> QED BY <2>1, <3>1, <3>2, <3>4, <3>5, RequestsStay DEF PublishedInv
  <2>4. CASE Follows
    <3>1. /\ row.stage \in DOMAIN Graph.stages /\ Edge(Graph, row.stage, row'.stage)
          /\ Passes \/ ComesBack
      BY <2>4 DEF Follows
    <3>2. /\ Opens' => Commits
          /\ Watches' => Opens \/ Watches
      BY <1>1, <3>1 DEF WatchesWhatItPushed, Doing, Opens, Watches, Commits, stage
    <3>3. Commits \/ Opens => stage.on_error = "fail" /\ NeverSkipped(stage, {})
      BY <3>1 DEF WatchesWhatItPushed, Doing, Opens, Commits, stage
    <3>4. Commits /\ Opens' => row'.stage # stage.on_refusal
      BY <1>1, <3>1 DEF WatchesWhatItPushed, Doing, Opens, Commits, stage
    <3>5. UNCHANGED <<head, origin, forge>>
      BY <3>1 DEF Passes, ComesBack, PassOver, ApplyMove, disk
    <3>6. Commits \/ Opens => ComesBack /\ pc = "back"
      <4>1. Commits \/ Opens => ~ShouldSkip(row.stage, stage, row)
        BY <3>3, NeverSkippedIsNot
      <4> QED BY <3>1, <4>1 DEF Passes, ComesBack, ApplyMove
    <3>7. CASE Watches
      BY <2>1, <3>1, <3>5, <3>7 DEF PublishedInv
    <3>8. CASE Opens
      <4>1. origin = head
        BY <2>1, <3>1, <3>8 DEF PublishedInv
      <4>2. result.outcome = "ok"
        BY <3>3, <3>6, <3>8 DEF PublishedInv, ComesBack
      <4>3. forge.pr # "none"
        BY <3>6, <3>8, <4>2 DEF PublishedInv
      <4> QED BY <3>5, <4>1, <4>3
    <3>9. CASE Commits /\ Opens'
      <4>1. result.outcome = "ok"
        BY <3>3, <3>4, <3>6, <3>9 DEF ComesBack
      <4>2. origin = head
        BY <3>6, <3>9, <4>1 DEF PublishedInv
      <4>3. ~Watches'
        BY <3>9 DEF Watches, Opens
      <4> QED BY <3>5, <4>2, <4>3
    <3> QED BY <1>1, <3>2, <3>7, <3>8, <3>9
  <2> QED BY <1>1, <2>1, <2>2, <2>3, <2>4 DEF Astray
<1>2. ASSUME pc' = "back", Commits', result'.outcome = "ok" PROVE origin' = head'
  <2>1. stage' = stage /\ row'.stage = row.stage
    BY <1>2, WorkersStay DEF Stays
  <2>2. Commits
    BY <1>2, <2>1 DEF Commits
  <2>3. CASE pc = "back" /\ UNCHANGED <<result, head, origin>>
    BY <1>2, <2>2, <2>3 DEF PublishedInv
  <2>4. CASE push
    <3>1. PICK ok \in BOOLEAN : /\ origin' \in {head} \cup (IF ok THEN {} ELSE {origin})
                                /\ result' = Pushed(ok)
      BY <2>4 DEF push, Comes
    <3>2. ok
      BY <1>2, <3>1 DEF Pushed, Error, Result
    <3> QED BY <2>4, <3>1, <3>2 DEF push, disk
  <2>5. CASE Examine \/ commit
    <3>1. result' = Error({}) \/ \E words \in Complaints : result' = Refused(words)
      BY <1>2, <2>5 DEF Examine, commit, Comes, GoesOn
    <3>2. Error({}).outcome = "error" /\ \A words : Refused(words).outcome = "refused"
      BY DEF Error, Refused, Result
    <3> QED BY <1>2, <3>1, <3>2
  <2>6. CASE PassOver \/ OverBudget \/ Approve \/ Decide \/ Comment \/ UNCHANGED vars
    BY <1>2, <2>3, <2>6 DEF PassOver, OverBudget, Approve, Decide, Comment, vars, disk
  <2>7. CASE create \/ prepare_cmd \/ open_pr \/ StoreNumber \/ watch_pull_request \/ teardown
    BY <2>2, <2>7 DEF create, prepare_cmd, open_pr, StoreNumber, watch_pull_request, teardown,
                      Commits, WorkInv, AtWork
  <2>8. CASE Turn \/ revert_changes \/ snapshot
    <3>1. RunsATurn(stage) /\ row.stage \in DOMAIN Graph.stages
      BY <2>8 DEF Turn, revert_changes, snapshot, Ready, WorkInv, AtWork
    <3> QED BY <2>2, <3>1, ActionsAreNoTurns DEF Commits, stage
  <2>9. ~ApplyMove /\ ~Crash
    BY <1>2 DEF ApplyMove, Crash
  <2> QED BY <2>4, <2>5, <2>6, <2>7, <2>8, <2>9 DEF Next, Step
<1>3. pc' = "opened" => forge'.pr # "none"
  <2> SUFFICES ASSUME pc' = "opened" PROVE forge'.pr # "none"
    OBVIOUS
  <2>1. CASE pc = "opened"
    BY <2>1, RequestsStay DEF PublishedInv
  <2>2. CASE pc # "opened"
    <3>1. open_pr
      BY <2>2 DEF Next, Step, PassOver, OverBudget, ApplyMove, create, prepare_cmd, snapshot, Turn,
         revert_changes, Examine, commit, push, StoreNumber, watch_pull_request, teardown,
         Approve, Decide, Comment, Crash, vars, Comes, GoesOn
    <3>2. forge' = [forge EXCEPT !.pr = "open", !.commented = FALSE]
      BY <3>1 DEF open_pr, Comes
    <3>3. forge \in [pr : {"none", "open", "merged", "closed"}, commented : BOOLEAN,
                     comments : 0..MaxComments]
      BY DEF WorkInv, TypeInv, TypeOK
    <3> QED BY <3>2, <3>3
  <2> QED BY <2>1, <2>2
<1>4. ASSUME pc' = "back", Opens'
      PROVE  result'.outcome \in {"ok", "error"} /\ (result'.outcome = "ok" => forge'.pr # "none")
  <2>1. stage' = stage /\ row'.stage = row.stage
    BY <1>4, WorkersStay DEF Stays
  <2>2. Opens
    BY <1>4, <2>1 DEF Opens
  <2>3. CASE pc = "back" /\ result' = result
    BY <2>2, <2>3, RequestsStay DEF PublishedInv
  <2>4. CASE open_pr
    <3>1. result' = Error({})
      BY <1>4, <2>4 DEF open_pr, Comes, GoesOn
    <3> QED BY <3>1 DEF Error, Result
  <2>5. CASE StoreNumber
    <3>1. pc = "opened" /\ forge' = forge /\ result' = Ok({})
      BY <2>5 DEF StoreNumber, Comes
    <3> QED BY <3>1 DEF PublishedInv, Ok, Result
  <2>6. CASE PassOver \/ OverBudget \/ Approve \/ Decide \/ Comment \/ UNCHANGED vars
    BY <1>4, <2>3, <2>6 DEF PassOver, OverBudget, Approve, Decide, Comment, vars
  <2>7. CASE create \/ prepare_cmd \/ Examine \/ commit \/ push \/ watch_pull_request \/ teardown
    BY <2>2, <2>7 DEF create, prepare_cmd, Examine, commit, push, watch_pull_request, teardown,
                      Opens, WorkInv, AtWork
  <2>8. CASE Turn \/ revert_changes \/ snapshot
    <3>1. RunsATurn(stage) /\ row.stage \in DOMAIN Graph.stages
      BY <2>8 DEF Turn, revert_changes, snapshot, Ready, WorkInv, AtWork
    <3> QED BY <2>2, <3>1, ActionsAreNoTurns DEF Opens, stage
  <2>9. ~ApplyMove /\ ~Crash
    BY <1>4 DEF ApplyMove, Crash
  <2> QED BY <2>4, <2>5, <2>6, <2>7, <2>8, <2>9 DEF Next, Step
<1> QED BY <1>1, <1>2, <1>3, <1>4 DEF PublishedInv

(***************************************************************************)
(* While a run waits on its request, everything it committed is on the     *)
(* remote branch and the request has been opened, in every pipeline that   *)
(* watches only what it opened and opens only what it pushed: over failed  *)
(* pushes, lost answers, reworks, restarts and any number of crashes.      *)
(***************************************************************************)
THEOREM WhatIsWatchedIsPublished ==
  ASSUME WatchesWhatItPushed(Graph)
  PROVE  Spec => []PeopleSeeWhatWasCommitted
<1>1. Init => WorkInv /\ PublishedInv
  BY WorkInit, PublishedInit
<1>2. WorkInv /\ PublishedInv /\ [Next]_vars => WorkInv' /\ PublishedInv'
  BY WorkStep, PublishedStep
<1>3. WorkInv /\ PublishedInv => PeopleSeeWhatWasCommitted
  BY DEF PublishedInv, PeopleSeeWhatWasCommitted, Watches, stage
<1> QED BY <1>1, <1>2, <1>3, PTL DEF Spec
-----------------------------------------------------------------------------
(* What a stage that begins again finds.                                   *)

\* A commit that is on no remote is being pushed, or is about to fail the run, or has, or
\* the process went down while there was one, or it was taken for a refused one.
PushedOrOver ==
  \/ head = origin \/ cut \/ "commit" \in unheard \/ row.outcome # "" \/ pc = "committed"
  \/ pc = "back" /\ Commits /\ result.outcome = "error"

FailsUnpushed == \A n \in Doing(Graph, "commit_and_push") : Graph.stages[n].on_error = "fail"

\* A commit stage that comes back with an error ends its run.
LEMMA ErrorsEndRuns ==
  ASSUME WorkInv, FailsUnpushed, ApplyMove, Commits, result.outcome = "error"
  PROVE  row'.outcome # ""
<1>1. row.stage \in DOMAIN Graph.stages \ Graph.terminal
  BY GraphAssumption, StagesAreNotEnds DEF ApplyMove, WorkInv, AtWork
<1>2. stage.on_error = "fail"
  BY <1>1 DEF FailsUnpushed, Doing, Commits, stage
<1>3. Advance(Graph, row, result) = AfterError(stage, row)
  BY <1>1 DEF Advance, stage
<1>4. Advance(Graph, row, result).to = "failed"
  <2>1. AfterError(stage, row) = CarryTo("failed", row)
    BY <1>2 DEF AfterError
  <2> QED BY <1>3, <2>1 DEF CarryTo, Move
<1>5. row \in RowType
  BY DEF WorkInv, TypeInv, TypeOK
<1> QED BY <1>4, <1>5, AppliedFields DEF ApplyMove, IsTerminalMove, Finals

LEMMA PushedStep ==
  ASSUME WorkInv, [Next]_vars, FailsUnpushed, PushedOrOver
  PROVE  PushedOrOver'
<1>0. "commit" \in unheard => "commit" \in unheard'
  BY UnheardStays
<1>1. cut => cut'
  BY DEF Next, Step, PassOver, OverBudget, ApplyMove, create, prepare_cmd, snapshot, Turn,
     revert_changes, Examine, commit, push, open_pr, StoreNumber, watch_pull_request, teardown,
     Approve, Decide, Comment, Crash, vars, faults, downs
<1>2. ASSUME Crash
      PROVE  PushedOrOver'
  <2>1. cut' = (cut \/ head # origin) /\ head' = head /\ origin' = origin
    BY <1>2, Zenon DEF Crash, disk
  <2> QED BY <2>1, Zenon DEF PushedOrOver
<1>3. CASE pc = "committed"
  <2>1. CASE push
    <3>1. PICK ok \in BOOLEAN : /\ origin' \in {head} \cup (IF ok THEN {} ELSE {origin})
                                /\ result' = Pushed(ok)
      BY <2>1 DEF push, Comes
    <3>2. head' = head /\ pc' = "back" /\ row' = row
      BY <2>1 DEF push, Comes, disk
    <3>3. CASE ok
      BY <3>1, <3>2, <3>3 DEF PushedOrOver
    <3>4. CASE ~ok
      <4>1. result'.outcome = "error"
        BY <3>1, <3>4 DEF Pushed, Error, Result
      <4>2. Commits'
        BY <1>3, <3>2 DEF WorkInv, AtWork, Commits, stage
      <4> QED BY <3>2, <4>1, <4>2 DEF PushedOrOver
    <3> QED BY <3>3, <3>4
  <2>2. CASE Approve \/ Decide \/ Comment \/ UNCHANGED vars
    BY <1>0, <1>1, <1>3, <2>2 DEF Approve, Decide, Comment, vars, PushedOrOver
  <2>3. CASE Crash
    BY <1>2, <2>3
  <2> QED BY <1>3, <2>1, <2>2, <2>3 DEF Next, Step, PassOver, OverBudget, ApplyMove, create,
         prepare_cmd, snapshot, Turn, revert_changes, Examine, commit, open_pr, StoreNumber,
         watch_pull_request, teardown, Ready, Moving
<1>4. CASE commit
  <2>1. pc = "gated" /\ row' = row /\ origin' = origin /\ cut' = cut
    BY <1>4, Zenon DEF commit, downs
  <2>2. \/ head' = head \/ pc' = "committed"
        \/ "commit" \in unheard'
    BY <1>4 DEF commit, GoesOn, Unnoticed
  <2>3. \/ head = origin \/ cut \/ "commit" \in unheard \/ row.outcome # ""
    BY <2>1 DEF PushedOrOver
  <2> QED BY <1>0, <2>1, <2>2, <2>3, Zenon DEF PushedOrOver
<1>5. CASE pc # "committed" /\ ~commit
  <2>1. head' = head /\ origin' = origin
    BY <1>5 DEF Next, Step, PassOver, OverBudget, ApplyMove, create, prepare_cmd, snapshot, Turn,
       revert_changes, Examine, push, open_pr, StoreNumber, watch_pull_request, teardown,
       Approve, Decide, Comment, Crash, vars, disk
  <2>2. row.outcome # "" => row'.outcome # ""
    BY RunsFollowEdges
  <2>3. ASSUME pc = "back", Commits, result.outcome = "error"
        PROVE  PushedOrOver'
    <3>1. CASE ApplyMove
      BY <2>3, <3>1, ErrorsEndRuns DEF PushedOrOver
    <3>2. CASE Approve \/ Decide \/ Comment \/ UNCHANGED vars
      <4>1. pc' = pc /\ result' = result
        BY <3>2 DEF Approve, Decide, Comment, vars
      <4>2. stage' = stage
        BY <2>3, <4>1, WorkersStay
      <4> QED BY <2>3, <4>1, <4>2 DEF PushedOrOver, Commits
    <3>3. CASE Crash
      BY <1>2, <3>3
    <3> QED BY <2>3, <3>1, <3>2, <3>3 DEF Next, Step, PassOver, OverBudget, create,
         prepare_cmd, snapshot, Turn, revert_changes, Examine, commit, push, open_pr, StoreNumber,
         watch_pull_request, teardown, Ready, Moving
  <2> QED BY <1>0, <1>1, <1>5, <2>1, <2>2, <2>3 DEF PushedOrOver
<1> QED BY <1>3, <1>4, <1>5

(***************************************************************************)
(* In every pipeline whose commits fail their run when they fail, a stage  *)
(* that begins again does the work once, wherever the process goes down    *)
(* but between a commit and its push, or before the push's failure is      *)
(* written down.  These two places are all there are; and a commit that is *)
(* made and taken for a refused one is the only failure to add to them.    *)
(***************************************************************************)
THEOREM WorkIsDoneOnce ==
  ASSUME FailsUnpushed
  PROVE  Spec => DoesTheWorkOnce
<1>1. Init => WorkInv /\ PushedOrOver
  BY WorkInit DEF Init, PushedOrOver
<1>2. WorkInv /\ PushedOrOver /\ [Next]_vars => WorkInv' /\ PushedOrOver'
  BY WorkStep, PushedStep
<1>3. WorkInv /\ PushedOrOver /\ [Next]_vars
        => [Examine /\ worktree /\ result'.outcome = "error"
              => head = origin \/ cut \/ "commit" \in unheard]_vars
  BY DEF PushedOrOver, Examine, Ready, Moving
<1> QED BY <1>1, <1>2, <1>3, PTL DEF Spec, DoesTheWorkOnce
=============================================================================
