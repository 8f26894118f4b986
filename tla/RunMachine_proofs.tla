-------------------------- MODULE RunMachine_proofs --------------------------
(***************************************************************************)
(* Proofs about RunMachine, for every set of well-formed pipelines.        *)
(***************************************************************************)
EXTENDS RunProgress, PipelineGraph_proofs, TLAPS

-----------------------------------------------------------------------------
(* What every action of RunMachine does to the run's row. *)

\* The run's row moved by m, as apply_move writes it.
MovedBy(m) ==
  /\ run'.pipeline = run.pipeline /\ run'.stage = m.to /\ run'.revisions = m.revisions
  /\ run'.last_refusal = m.last_refusal /\ run'.held = m.held
  /\ run'.outcome = IF IsTerminalMove(m) THEN m.to ELSE run.outcome

LEMMA NamesOfAPipeline ==
  ASSUME run \in RunType
  PROVE  /\ run.pipeline \in DOMAIN Pipelines
         /\ GraphType(graph) /\ WellFormed(graph)
         /\ \A n \in Names(graph) :
              n \in UNION {Names(Pipelines[p]) : p \in DOMAIN Pipelines}
<1>1. run.pipeline \in DOMAIN Pipelines
  BY DEF RunType
<1> QED BY <1>1, PipelinesAssumption DEF graph

LEMMA MovedType ==
  ASSUME run \in RunType, NEW m \in MoveType(graph), NEW produced \in SUBSET Sections, NEW shape,
         run' = Moved(m, produced, shape)
                \/ run' = [Moved(m, produced, shape) EXCEPT !.pr = TRUE]
  PROVE  run' \in RunType /\ run'.stage \in Names(graph) /\ graph' = graph /\ MovedBy(m)
<1>1. m.to \in Names(graph) /\ m.revisions \in Nat /\ m.reason \in Reasons
  BY DEF MoveType
<1>2. m.last_refusal \in Words /\ m.held \in BOOLEAN
  BY DEF MoveType
<1>3. m.to \in UNION {Names(Pipelines[p]) : p \in DOMAIN Pipelines}
  BY <1>1, NamesOfAPipeline
<1> DEFINE outcome == IF IsTerminalMove(m) THEN m.to ELSE run.outcome
           document == WithSections(run.document, produced, shape)
<1>4. outcome \in Finals \cup {""}
  BY DEF IsTerminalMove, RunType
<1>5. document \in SUBSET Sections
  BY DEF WithSections, RunType
<1> HIDE DEF outcome, document
<1> DEFINE M == [run EXCEPT !.stage = m.to, !.reason = m.reason, !.revisions = m.revisions,
                   !.last_refusal = m.last_refusal, !.held = m.held,
                   !.document = document, !.outcome = outcome]
<1>6. M \in RunType /\ [M EXCEPT !.pr = TRUE] \in RunType
  BY <1>1, <1>2, <1>3, <1>4, <1>5 DEF RunType
<1>7. run' = M \/ run' = [M EXCEPT !.pr = TRUE]
  BY DEF Moved, outcome, document
<1>8. /\ run'.pipeline = run.pipeline /\ run'.stage = m.to /\ run'.revisions = m.revisions
      /\ run'.last_refusal = m.last_refusal /\ run'.held = m.held
      /\ run'.outcome = outcome
  BY <1>7 DEF RunType
<1>9. graph' = graph
  BY <1>8 DEF graph
<1> QED BY <1>1, <1>6, <1>7, <1>8, <1>9 DEF MovedBy, outcome

\* m leaves the count and the words of the run as they are, or fails it.
Plain(m) == Keeps(m, run) \/ (m.to = "failed" /\ m.revisions \in {0, run.revisions})

\* The row after a step: typed, at a stage of the same graph, moved by m.
Row(m) == run' \in RunType /\ run'.stage \in Names(graph) /\ graph' = graph /\ MovedBy(m)

LEMMA ReadyAt ==
  ASSUME TypeOK
  PROVE  /\ At(graph, run) /\ GraphType(graph)
         /\ Ready => run.stage \in DOMAIN graph.stages \ graph.terminal
                     /\ stage \in StageType(Names(graph)) /\ stage.produces \subseteq Sections
<1>1. run \in RunType /\ run.stage \in Names(graph)
  BY DEF TypeOK
<1>2. At(graph, run)
  BY <1>1 DEF At, RunType
<1>3. GraphType(graph) /\ DOMAIN graph.stages \cap graph.terminal = {}
  BY <1>1, NamesOfAPipeline, StagesAreNotEnds
<1>4. ASSUME Ready
      PROVE  run.stage \in DOMAIN graph.stages \ graph.terminal
             /\ stage \in StageType(Names(graph)) /\ stage.produces \subseteq Sections
  <2>1. run.stage \in DOMAIN graph.stages
    BY <1>4 DEF Ready
  <2>2. stage \in StageType(Names(graph))
    BY <1>3, <2>1 DEF GraphType, stage
  <2>3. stage.produces \subseteq Sections
    BY <2>2 DEF StageType
  <2> QED BY <1>3, <2>1, <2>2, <2>3
<1> QED BY <1>2, <1>3, <1>4

\* step with a result that is no refusal.
LEMMA LeavingIsPlain ==
  ASSUME TypeOK, Ready, NEW x, Came(x), x.outcome # "refused",
         NEW produced \in SUBSET Sections, NEW shape,
         run' = Moved(Advance(graph, run, x), produced, shape)
           \/ run' = [Moved(Advance(graph, run, x), produced, shape) EXCEPT !.pr = TRUE]
  PROVE  \E m \in MoveType(graph) : Row(m) /\ Plain(m)
<1> DEFINE m == Advance(graph, run, x)
<1>1. m \in MoveType(graph) /\ Keeps(m, run)
  BY ReadyAt, AdvanceType
<1>2. run \in RunType
  BY DEF TypeOK
<1> HIDE DEF m
<1>3. run' = Moved(m, produced, shape) \/ run' = [Moved(m, produced, shape) EXCEPT !.pr = TRUE]
  BY DEF m
<1>4. Row(m)
  BY <1>1, <1>2, <1>3, MovedType DEF Row
<1> QED BY <1>1, <1>4 DEF Plain

\* The results the phases and the actions come back with are results.
LEMMA ResultsCame ==
  ASSUME TypeOK, NEW produced
  PROVE  /\ Came(Ok(produced)) /\ Ok(produced).outcome = "ok" /\ Ok(produced).produced = produced
         /\ Came(Error(produced)) /\ Error(produced).outcome = "error"
         /\ Error(produced).produced = produced
         /\ Came(Blocked) /\ Blocked.outcome = "blocked" /\ Blocked.produced = {}
         /\ Came(Watched) /\ Watched.outcome = "ok" /\ Watched.produced = {}
<1>1. \A o \in Outcomes : \A e : /\ Came(Result(o, "", e, produced))
                                 /\ Result(o, "", e, produced).outcome = o
                                 /\ Result(o, "", e, produced).produced = produced
  BY DEF Came, Result, Words
<1>2. \A o \in Outcomes : \A e : /\ Came(Result(o, "", e, {}))
                                 /\ Result(o, "", e, {}).outcome = o
                                 /\ Result(o, "", e, {}).produced = {}
  BY DEF Came, Result, Words
<1>3. "ok" \in Outcomes /\ "error" \in Outcomes /\ "blocked" \in Outcomes
  BY DEF Outcomes
<1>4. PICK e : Watched = Result("ok", "", e, {})
  <2>1. forge.pr \in {"none", "open", "merged", "closed"}
    BY DEF TypeOK
  <2>2. \/ Watched = Result("ok", "", "merge", {})
        \/ Watched = Result("ok", "", "close", {})
        \/ Watched = Result("ok", "", "comment", {})
        \/ Watched = Result("ok", "", "", {})
    BY <2>1 DEF Watched, Ok
  <2> QED BY <2>2
<1> QED BY <1>1, <1>2, <1>3, <1>4 DEF Ok, Error, Blocked

\* step before the work: the move is plan_next's.
LEMMA PlanningIsPlain ==
  ASSUME TypeOK, Moving, NEW m, ApplyMove(m),
         m = MoveTo("failed") \/ (m = planned /\ (planned.skipped \/ planned.held))
  PROVE  Row(m) /\ Plain(m) /\ m \in MoveType(graph)
<1>1. "failed" \in Names(graph) /\ "" \in Reasons /\ "" \in Words /\ 0 \in Nat
  BY DEF Names, Reasons, Words
<1>2. \A to : /\ MoveTo(to).to = to /\ MoveTo(to).revisions = 0
              /\ MoveTo(to).held = FALSE /\ MoveTo(to).skipped = FALSE
  BY DEF MoveTo, Move
<1>3. MoveTo("failed") \in MoveType(graph) /\ Plain(MoveTo("failed"))
  <2>1. MoveTo("failed") \in MoveType(graph)
    BY <1>1, MoveTyped DEF MoveTo
  <2> QED BY <1>2, <2>1 DEF Plain
<1>4. m \in MoveType(graph) /\ Plain(m)
  <2>1. CASE m = MoveTo("failed")
    BY <1>3, <2>1
  <2>2. CASE m = planned /\ (planned.skipped \/ planned.held)
    <3>1. PlanNext(graph, run) \notin {MoveTo(run.stage), MoveTo("failed")}
      BY <1>2, <2>2 DEF planned
    <3>2. planned \in MoveType(graph) /\ Keeps(planned, run)
      BY <3>1, ReadyAt, PlanNextType DEF planned
    <3> QED BY <2>2, <3>2 DEF Plain
  <2> QED BY <2>1, <2>2
<1>5. run' = Moved(m, {}, "prose")
  BY DEF ApplyMove
<1>6. Row(m)
  <2>1. run \in RunType /\ {} \in SUBSET Sections
    BY DEF TypeOK
  <2> QED BY <1>4, <1>5, <2>1, MovedType DEF Row
<1> QED BY <1>4, <1>6

\* A refusal sends the run back by m, and is written down.
Refuses(m) ==
  \E words \in Complaints :
    /\ SendsBack(m, stage, run, Refused(words))
    /\ sentBack' = IF m.to = "failed" THEN sentBack
                   ELSE Append(sentBack, [at |-> run.stage, words |-> words])

LEMMA CommitRefused ==
  ASSUME TypeOK, Ready, NEW words \in Complaints,
         ApplyMove(Advance(graph, run, Refused(words))),
         sentBack' = IF Advance(graph, run, Refused(words)).to = "failed" THEN sentBack
                     ELSE Append(sentBack, [at |-> run.stage, words |-> words])
  PROVE  \E m \in MoveType(graph) :
           Row(m) /\ ((Plain(m) /\ sentBack' = sentBack) \/ Refuses(m))
<1> DEFINE m == Advance(graph, run, Refused(words))
<1>1. Came(Refused(words)) /\ Refused(words).outcome = "refused"
  <2>1. Refused(words).outcome = "refused" /\ Refused(words).reason = words
    BY DEF Refused, Result
  <2> QED BY <2>1 DEF Came, Outcomes, Words
<1>2. /\ m \in MoveType(graph)
      /\ GivesUp(m, run) \/ SendsBack(m, graph.stages[run.stage], run, Refused(words))
  BY <1>1, ReadyAt, AdvanceType
<1>3. sentBack' = IF m.to = "failed" THEN sentBack
                  ELSE Append(sentBack, [at |-> run.stage, words |-> words])
  OBVIOUS
<1>4. run' = Moved(m, {}, "prose")
  BY DEF ApplyMove
<1> HIDE DEF m
<1>5. Row(m)
  <2>1. run \in RunType /\ {} \in SUBSET Sections
    BY DEF TypeOK
  <2> QED BY <1>2, <1>4, <2>1, MovedType DEF Row
<1>6. CASE GivesUp(m, run)
  <2>1. m.to = "failed" /\ m.revisions = run.revisions
    BY <1>6 DEF GivesUp
  <2>2. Plain(m) /\ sentBack' = sentBack
    BY <1>3, <2>1 DEF Plain
  <2> QED BY <1>2, <1>5, <2>2
<1>7. CASE SendsBack(m, graph.stages[run.stage], run, Refused(words))
  <2>1. SendsBack(m, stage, run, Refused(words))
    BY <1>7 DEF stage
  <2>2. Refuses(m)
    BY <1>3, <2>1 DEF Refuses
  <2> QED BY <1>2, <1>5, <2>2
<1> QED BY <1>2, <1>6, <1>7

LEMMA StepMoves ==
  ASSUME TypeOK, Step
  PROVE  /\ Moving
         /\ \E m \in MoveType(graph) :
              Row(m) /\ ((Plain(m) /\ sentBack' = sentBack) \/ (Refuses(m) /\ Ready))
<1> DEFINE Goal == Moving /\ \E m \in MoveType(graph) :
              Row(m) /\ ((Plain(m) /\ sentBack' = sentBack) \/ (Refuses(m) /\ Ready))
<1>1. {} \in SUBSET Sections /\ {"workspace"} \in SUBSET Sections
      /\ {"commit"} \in SUBSET Sections
  BY ConstantsAssumption
<1>2. ASSUME NEW x, Ready, Came(x), x.outcome # "refused", NEW produced \in SUBSET Sections,
             NEW shape, sentBack' = sentBack,
             run' = Moved(Advance(graph, run, x), produced, shape)
               \/ run' = [Moved(Advance(graph, run, x), produced, shape) EXCEPT !.pr = TRUE]
      PROVE  Goal
  <2>1. PICK m \in MoveType(graph) : Row(m) /\ Plain(m)
    BY <1>2, LeavingIsPlain
  <2> QED BY <1>2, <2>1 DEF Ready
<1>3. ASSUME NEW x, Ready, Came(x), x.outcome # "refused", x.produced \in SUBSET Sections,
             NEW shape, sentBack' = sentBack,
             run' = Left(x, shape) \/ run' = [Left(x, shape) EXCEPT !.pr = TRUE]
      PROVE  Goal
  BY <1>2, <1>3 DEF Left
<1>4. ASSUME NEW m, Moving, sentBack' = sentBack, ApplyMove(m),
             m = MoveTo("failed") \/ (m = planned /\ (planned.skipped \/ planned.held))
      PROVE  Goal
  BY <1>4, PlanningIsPlain
<1>5. CASE Skip
  BY <1>4, <1>5 DEF Skip, history
<1>6. CASE Hold
  BY <1>4, <1>6 DEF Hold, history
<1>7. CASE OverBudget
  BY <1>4, <1>7 DEF OverBudget, Ready, history
<1>8. CASE TurnAnswers
  <2>1. PICK shape \in Shapes, objects \in BOOLEAN :
          run' = Left(Graded(stage, objects),
                      IF Graded(stage, objects).outcome = "ok" THEN shape ELSE "prose")
    BY <1>8 DEF TurnAnswers
  <2>2. Ready /\ stage.produces \in SUBSET Sections /\ sentBack' = sentBack
    BY <1>8, ReadyAt DEF TurnAnswers
  <2>3. Graded(stage, objects) \in {Error(stage.produces), Ok(stage.produces)}
    BY DEF Graded
  <2> QED BY <1>3, <2>1, <2>2, <2>3, ResultsCame
<1>9. CASE TurnInterrupted
  BY <1>1, <1>3, <1>9, ResultsCame DEF TurnInterrupted, Leave
<1>10. CASE TurnFails
  BY <1>1, <1>3, <1>10, ResultsCame DEF TurnFails, Leave
<1>11. CASE PrepareWorkspace
  BY <1>1, <1>3, <1>11, ResultsCame DEF PrepareWorkspace, Leave, history
<1>12. CASE CommitAndPush
  <2>1. Ready
    BY <1>12 DEF CommitAndPush
  <2>2. CASE \E words \in Complaints :
               LET m == Advance(graph, run, Refused(words)) IN
               /\ ApplyMove(m)
               /\ sentBack' = IF m.to = "failed" THEN sentBack
                              ELSE Append(sentBack, [at |-> run.stage, words |-> words])
    <3>1. PICK words \in Complaints :
            /\ ApplyMove(Advance(graph, run, Refused(words)))
            /\ sentBack' = IF Advance(graph, run, Refused(words)).to = "failed" THEN sentBack
                           ELSE Append(sentBack, [at |-> run.stage, words |-> words])
      BY <2>2
    <3> QED BY <2>1, <3>1, CommitRefused DEF Ready
  <2>3. CASE sentBack' = sentBack /\ \E x \in {Error({}), Ok({"commit"})} : Leave(x)
    BY <1>1, <1>3, <2>1, <2>3, ResultsCame DEF Leave
  <2> QED BY <1>12, <2>2, <2>3 DEF CommitAndPush
<1>13. CASE OpenPullRequest
  BY <1>1, <1>3, <1>13, ResultsCame DEF OpenPullRequest, Leave, history
<1>14. CASE WatchPullRequest
  BY <1>1, <1>3, <1>14, ResultsCame DEF WatchPullRequest, Leave, history
<1>15. CASE Teardown
  BY <1>1, <1>3, <1>15, ResultsCame DEF Teardown, Leave, history
<1> QED BY <1>5, <1>6, <1>7, <1>8, <1>9, <1>10, <1>11, <1>12, <1>13, <1>14, <1>15 DEF Step

\* What people do leaves the row alone, but for the approval and the hold.
LEMMA PeopleMoveNothing ==
  ASSUME TypeOK, People \/ UNCHANGED vars
  PROVE  /\ run' \in RunType /\ graph' = graph /\ run'.stage = run.stage
         /\ run'.revisions = run.revisions /\ run'.last_refusal = run.last_refusal
         /\ run'.outcome = run.outcome /\ run'.held \in {run.held, FALSE}
         /\ sentBack' = sentBack
<1>1. run \in RunType
  BY DEF TypeOK
<1>2. CASE Approve
  <2>1. run' = [run EXCEPT !.approved = TRUE, !.held = FALSE] /\ sentBack' = sentBack
    BY <1>2 DEF Approve
  <2>2. run' \in RunType
    BY <1>1, <2>1 DEF RunType
  <2>3. /\ run'.pipeline = run.pipeline /\ run'.stage = run.stage
        /\ run'.revisions = run.revisions /\ run'.last_refusal = run.last_refusal
        /\ run'.outcome = run.outcome /\ run'.held = FALSE
    BY <1>1, <2>1 DEF RunType
  <2> QED BY <2>1, <2>2, <2>3 DEF graph
<1>3. CASE Decide \/ Comment \/ UNCHANGED vars
  <2>1. run' = run /\ sentBack' = sentBack
    BY <1>3 DEF Decide, Comment, vars, history
  <2> QED BY <1>1, <2>1 DEF graph
<1> QED BY <1>2, <1>3 DEF People

-----------------------------------------------------------------------------
(* Types. *)

LEMMA ForgeTyped ==
  ASSUME TypeOK, [Next]_vars
  PROVE  forge' \in [kind : Forges, pushed : BOOLEAN, commented : BOOLEAN,
                     comments : 0..MaxComments, pr : {"none", "open", "merged", "closed"}]
<1> DEFINE T == [kind : Forges, pushed : BOOLEAN, commented : BOOLEAN,
                 comments : 0..MaxComments, pr : {"none", "open", "merged", "closed"}]
<1>1. forge \in T
  BY DEF TypeOK
<1>2. CASE CommitAndPush
  <2>1. forge' = forge \/ forge' = [forge EXCEPT !.pushed = TRUE]
    BY <1>2 DEF CommitAndPush
  <2> QED BY <1>1, <2>1
<1>3. CASE OpenPullRequest
  <2>1. forge' = forge \/ forge' = [forge EXCEPT !.pr = "open", !.commented = FALSE]
    BY <1>3 DEF OpenPullRequest
  <2>2. [forge EXCEPT !.pr = "open", !.commented = FALSE] \in T
    BY <1>1
  <2> QED BY <1>1, <2>1, <2>2
<1>4. CASE Decide
  <2>1. forge' = [forge EXCEPT !.pr = "merged"] \/ forge' = [forge EXCEPT !.pr = "closed"]
    BY <1>4 DEF Decide
  <2> QED BY <1>1, <2>1
<1>5. CASE Comment
  <2>1. forge.comments \in 0..MaxComments /\ forge.comments < MaxComments
    BY <1>1, <1>5 DEF Comment
  <2>2. forge.comments + 1 \in 0..MaxComments
    <3>1. \A a, b : a \in 0..b /\ b \in Nat /\ a < b => a + 1 \in 0..b
      OBVIOUS
    <3>2. MaxComments \in Nat
      BY ConstantsAssumption
    <3> QED BY <2>1, <3>1, <3>2
  <2>3. forge' = [forge EXCEPT !.commented = TRUE, !.comments = forge.comments + 1]
    BY <1>5 DEF Comment
  <2> QED BY <1>1, <2>2, <2>3
<1>6. CASE UNCHANGED forge
  BY <1>1, <1>6
<1>7. CASE Skip \/ Hold \/ OverBudget \/ TurnAnswers \/ TurnInterrupted \/ TurnFails
  BY <1>6, <1>7 DEF Skip, Hold, OverBudget, TurnAnswers, TurnInterrupted, TurnFails
<1>8. CASE PrepareWorkspace \/ WatchPullRequest \/ Teardown \/ Approve \/ UNCHANGED vars
  BY <1>6, <1>8 DEF PrepareWorkspace, WatchPullRequest, Teardown, Approve, vars
<1> QED BY <1>2, <1>3, <1>4, <1>5, <1>7, <1>8 DEF Next, Step, People

LEMMA TreeTyped ==
  ASSUME TypeOK, [Next]_vars
  PROVE  tree' \in {"absent", "clean", "dirty"}
<1>1. tree \in {"absent", "clean", "dirty"}
  BY DEF TypeOK
<1>2. CASE UNCHANGED tree
  BY <1>1, <1>2
<1>4. CASE Edits
  BY <1>1, <1>4 DEF Edits
<1>5. CASE TurnAnswers \/ TurnInterrupted \/ TurnFails
  BY <1>2, <1>4, <1>5 DEF TurnAnswers, TurnInterrupted, TurnFails
<1>6. CASE PrepareWorkspace
  BY <1>1, <1>6 DEF PrepareWorkspace
<1>7. CASE CommitAndPush \/ OpenPullRequest \/ Teardown
  BY <1>1, <1>7 DEF CommitAndPush, OpenPullRequest, Teardown, history
<1>8. CASE Skip \/ Hold \/ OverBudget \/ WatchPullRequest \/ People \/ UNCHANGED vars
  BY <1>2, <1>8 DEF Skip, Hold, OverBudget, WatchPullRequest, People, Approve, Decide, Comment, vars
<1> QED BY <1>5, <1>6, <1>7, <1>8 DEF Next, Step

LEMMA HistoryTyped ==
  ASSUME TypeOK, [Next]_vars
  PROVE  /\ checked' \subseteq DOMAIN graph.stages /\ shipped' \subseteq DOMAIN graph.stages
         /\ seen' \subseteq Sections
<1>1. /\ checked \subseteq DOMAIN graph.stages /\ shipped \subseteq DOMAIN graph.stages
      /\ seen \subseteq Sections /\ run.document \subseteq Sections
  BY DEF TypeOK, RunType
<1>2. CASE UNCHANGED <<checked, shipped, seen>>
  BY <1>1, <1>2
<1>3. ASSUME Edits PROVE checked' \subseteq DOMAIN graph.stages
  BY <1>1, <1>3 DEF Edits
<1>4. CASE TurnAnswers
  <2>1. run.stage \in DOMAIN graph.stages /\ UNCHANGED <<shipped, seen>>
    BY <1>4 DEF TurnAnswers, Ready
  <2>2. Edits \/ checked' \in {checked, checked \cup {run.stage}}
    BY <1>4 DEF TurnAnswers
  <2> QED BY <1>1, <1>3, <2>1, <2>2
<1>5. CASE TurnInterrupted \/ TurnFails
  BY <1>1, <1>3, <1>5 DEF TurnInterrupted, TurnFails
<1>6. CASE CommitAndPush
  BY <1>1, <1>6 DEF CommitAndPush
<1>7. CASE Approve
  BY <1>1, <1>7 DEF Approve
<1>8. CASE \/ Skip \/ Hold \/ OverBudget \/ PrepareWorkspace \/ OpenPullRequest
           \/ WatchPullRequest \/ Teardown \/ Decide \/ Comment \/ UNCHANGED vars
  BY <1>2, <1>8 DEF Skip, Hold, OverBudget, PrepareWorkspace, OpenPullRequest,
     WatchPullRequest, Teardown, Decide, Comment, vars, history
<1> QED BY <1>4, <1>5, <1>6, <1>7, <1>8 DEF Next, Step, People

\* Every refusal that is written down was of a stage of the graph.
LEMMA SentBackTyped ==
  ASSUME TypeOK, [Next]_vars
  PROVE  sentBack' \in Seq([at : DOMAIN graph.stages, words : Complaints])
<1>1. sentBack \in Seq([at : DOMAIN graph.stages, words : Complaints])
  BY DEF TypeOK
<1>2. CASE Step
  <2>1. PICK m : (Plain(m) /\ sentBack' = sentBack) \/ (Refuses(m) /\ Ready)
    BY <1>2, StepMoves
  <2>2. CASE sentBack' = sentBack
    BY <1>1, <2>2
  <2>3. CASE Refuses(m) /\ Ready
    <3>1. PICK words \in Complaints :
            sentBack' \in {sentBack, Append(sentBack, [at |-> run.stage, words |-> words])}
      BY <2>3 DEF Refuses
    <3>2. [at |-> run.stage, words |-> words] \in [at : DOMAIN graph.stages, words : Complaints]
      BY <2>3 DEF Ready
    <3>3. \A S : \A q \in Seq(S), e \in S : Append(q, e) \in Seq(S)
      OBVIOUS
    <3> HIDE DEF graph
    <3>4. Append(sentBack, [at |-> run.stage, words |-> words])
            \in Seq([at : DOMAIN graph.stages, words : Complaints])
      BY <1>1, <3>2, <3>3
    <3> QED BY <1>1, <3>1, <3>4
  <2> QED BY <2>1, <2>2, <2>3
<1>3. CASE People \/ UNCHANGED vars
  BY <1>1, <1>3, PeopleMoveNothing
<1> QED BY <1>2, <1>3 DEF Next

\* Every run a pipeline may start is typed.
LEMMA StartRunType ==
  ASSUME Init
  PROVE  /\ run \in RunType /\ run.stage \in Names(graph)
         /\ run.revisions = 0 /\ run.outcome = "" /\ run.held = FALSE
<1>1. PICK p \in DOMAIN Pipelines, o \in OptIns, k \in Skips, shape \in Asked :
        run = StartRun(p, o, k, shape)
  BY DEF Init
<1>2. Pipelines[p].first \in Names(Pipelines[p])
  BY PipelinesAssumption DEF WellFormed, Names
<1>3. Pipelines[p].first \in UNION {Names(Pipelines[q]) : q \in DOMAIN Pipelines}
  BY <1>2
<1>4. WithSections({}, {"spec"}, shape) \in SUBSET Sections
  BY ConstantsAssumption DEF WithSections
<1>5. "" \in Reasons /\ "" \in Words /\ 0 \in Nat /\ "" \in Finals \cup {""}
  BY DEF Reasons, Words
<1>6. run \in RunType
  BY <1>1, <1>3, <1>4, <1>5 DEF StartRun, RunType
<1>7. /\ run.pipeline = p /\ run.stage = Pipelines[p].first
      /\ run.revisions = 0 /\ run.outcome = "" /\ run.held = FALSE
  BY <1>1 DEF StartRun
<1> QED BY <1>2, <1>6, <1>7 DEF graph

LEMMA TypeInit == Init => TypeOK
<1> SUFFICES ASSUME Init PROVE TypeOK
  OBVIOUS
<1>2. run \in RunType /\ run.stage \in Names(graph)
  BY StartRunType
<1>3. PICK kind \in Forges :
        forge = [kind |-> kind, pushed |-> FALSE, pr |-> "none", commented |-> FALSE, comments |-> 0]
  BY DEF Init
<1>4. 0 \in 0..MaxComments
  <2>1. \A b \in Nat : 0 \in 0..b
    OBVIOUS
  <2> QED BY <2>1, ConstantsAssumption
<1>5. forge \in [kind : Forges, pushed : BOOLEAN, commented : BOOLEAN,
                 comments : 0..MaxComments, pr : {"none", "open", "merged", "closed"}]
  BY <1>3, <1>4
<1>6. sentBack \in Seq([at : DOMAIN graph.stages, words : Complaints])
  <2>1. \A S : <<>> \in Seq(S)
    OBVIOUS
  <2> QED BY <2>1 DEF Init
<1>7. /\ tree \in {"absent", "clean", "dirty"} /\ checked \subseteq DOMAIN graph.stages
      /\ shipped \subseteq DOMAIN graph.stages /\ seen \subseteq Sections
  BY DEF Init
<1> QED BY <1>2, <1>5, <1>6, <1>7 DEF TypeOK

LEMMA TypeStep == TypeOK /\ [Next]_vars => TypeOK'
<1> SUFFICES ASSUME TypeOK, [Next]_vars PROVE TypeOK'
  OBVIOUS
<1>1. run' \in RunType /\ run'.stage \in Names(graph) /\ graph' = graph
  <2>1. CASE Step
    BY <2>1, StepMoves DEF Row
  <2>2. CASE People \/ UNCHANGED vars
    <3>1. run.stage \in Names(graph)
      BY DEF TypeOK
    <3> QED BY <2>2, <3>1, PeopleMoveNothing
  <2> QED BY <2>1, <2>2 DEF Next
<1>2. RunType' = RunType
  BY DEF RunType
<1> QED BY <1>1, <1>2, ForgeTyped, TreeTyped, HistoryTyped, SentBackTyped DEF TypeOK

(***************************************************************************)
(* Whatever well-formed pipelines there are, a run, its worktree and its   *)
(* pull request keep their types, and the run stands at a stage or an end  *)
(* of its own graph.                                                       *)
(***************************************************************************)
THEOREM TypeCorrect == Spec => []TypeOK
<1>1. Init => TypeOK
  BY TypeInit
<1>2. TypeOK /\ [Next]_vars => TypeOK'
  BY TypeStep
<1> QED BY <1>1, <1>2, PTL DEF Spec

-----------------------------------------------------------------------------
(* What the count and the last words on the row say of the past. *)

LastSentBack == sentBack[Len(sentBack)]

\* A run that can still move has with it the words it was last sent back with.
LastWordsCarried ==
  run.outcome = "" /\ Len(sentBack) > 0 => run.last_refusal = LastSentBack.words

(***************************************************************************)
(* The inductive invariant: none of the three properties about refusals is *)
(* inductive without LastWordsCarried, which ties what the row carries to  *)
(* the last entry of the history.                                          *)
(***************************************************************************)
RefusalsInv ==
  TypeOK /\ RevisionsBounded /\ RefusalsCounted /\ NoRefusalRepeated /\ LastWordsCarried

LEMMA RefusalsInit == Init => RefusalsInv
<1> SUFFICES ASSUME Init PROVE RefusalsInv
  OBVIOUS
<1>2. run.revisions = 0 /\ Len(sentBack) = 0
  <2>1. sentBack = <<>>
    BY DEF Init
  <2> QED BY <2>1, StartRunType
<1>3. RevisionsBounded
  <2>1. ~(run.revisions > 0)
    BY <1>2
  <2> QED BY <2>1, Zenon DEF RevisionsBounded
<1>4. RefusalsCounted
  BY <1>2 DEF RefusalsCounted
<1>5. NoRefusalRepeated
  <2>1. 1..Len(sentBack) - 1 = {}
    BY <1>2
  <2> QED BY <2>1 DEF NoRefusalRepeated
<1>6. LastWordsCarried
  <2>1. ~(Len(sentBack) > 0)
    BY <1>2
  <2> QED BY <2>1, Zenon DEF LastWordsCarried
<1> QED BY <1>3, <1>4, <1>5, <1>6, TypeInit DEF RefusalsInv

\* A run that failed has no words left to carry, and no count to be held to.
LEMMA FailedMove ==
  ASSUME NEW m, MovedBy(m), m.to = "failed"
  PROVE  run'.outcome = "failed"
BY DEF MovedBy, IsTerminalMove, Finals

LEMMA RefusalsStep == RefusalsInv /\ [Next]_vars => RefusalsInv'
<1> SUFFICES ASSUME RefusalsInv, [Next]_vars PROVE RefusalsInv'
  OBVIOUS
<1> USE DEF RefusalsInv
<1>1. TypeOK'
  BY TypeStep
<1>2. ASSUME sentBack' = sentBack, graph' = graph, run'.revisions = run.revisions,
             run'.last_refusal = run.last_refusal, run.outcome = "" \/ run'.outcome = run.outcome
      PROVE  RefusalsInv'
  <2>1. RevisionsBounded'
    BY <1>2 DEF RevisionsBounded
  <2>2. RefusalsCounted'
    BY <1>2 DEF RefusalsCounted
  <2>3. NoRefusalRepeated'
    BY <1>2 DEF NoRefusalRepeated
  <2>4. LastWordsCarried'
    BY <1>2 DEF LastWordsCarried, LastSentBack
  <2> QED BY <1>1, <2>1, <2>2, <2>3, <2>4
<1>3. ASSUME sentBack' = sentBack, graph' = graph, run'.revisions \in {0, run.revisions},
             run'.outcome = "failed"
      PROVE  RefusalsInv'
  <2>1. RevisionsBounded'
    <3>1. CASE run'.revisions = 0
      <4>1. ~(run'.revisions > 0)
        BY <3>1
      <4> QED BY <4>1, Zenon DEF RevisionsBounded
    <3>2. CASE run'.revisions = run.revisions
      BY <1>3, <3>2 DEF RevisionsBounded
    <3> QED BY <1>3, <3>1, <3>2
  <2>2. NoRefusalRepeated'
    BY <1>3 DEF NoRefusalRepeated
  <2> QED BY <1>1, <1>3, <2>1, <2>2 DEF RefusalsCounted, LastWordsCarried
<1>4. CASE People \/ UNCHANGED vars
  BY <1>2, <1>4, PeopleMoveNothing
<1>5. CASE Step
  <2>1. PICK m \in MoveType(graph) :
          Row(m) /\ ((Plain(m) /\ sentBack' = sentBack) \/ (Refuses(m) /\ Ready))
    BY <1>5, StepMoves
  <2>2. run.outcome = "" /\ graph' = graph /\ MovedBy(m)
    BY <1>5, <2>1, StepMoves DEF Moving, Row
  <2>3. run'.revisions = m.revisions /\ run'.last_refusal = m.last_refusal
    BY <2>2 DEF MovedBy
  <2>4. CASE Keeps(m, run) /\ sentBack' = sentBack
    BY <1>2, <2>2, <2>3, <2>4 DEF Keeps
  <2>5. CASE m.to = "failed" /\ m.revisions \in {0, run.revisions} /\ sentBack' = sentBack
    BY <1>3, <2>2, <2>3, <2>5, FailedMove
  <2>6. CASE Refuses(m) /\ Ready
    <3>1. PICK words \in Complaints :
            /\ SendsBack(m, stage, run, Refused(words))
            /\ sentBack' = IF m.to = "failed" THEN sentBack
                           ELSE Append(sentBack, [at |-> run.stage, words |-> words])
      BY <2>6 DEF Refuses
    <3>2. Refused(words).reason = words /\ words # ""
      BY ConstantsAssumption DEF Refused, Result
    <3>3. /\ run'.revisions = run.revisions + 1 /\ run'.last_refusal = words
          /\ run'.revisions <= stage.max_revisions /\ stage.on_refusal # ""
          /\ stage.stop_when_identical => words # run.last_refusal
      BY <2>3, <3>1, <3>2 DEF SendsBack, Repeats
    <3>4. RevisionsBounded'
      <4>1. run.stage \in DOMAIN graph.stages
        BY <2>6 DEF Ready
      <4>2. /\ graph.stages[run.stage].on_refusal # ""
            /\ run'.revisions <= graph.stages[run.stage].max_revisions
        BY <3>3 DEF stage
      <4> QED BY <2>2, <4>1, <4>2 DEF RevisionsBounded
    <3>5. CASE m.to = "failed"
      <4>1. sentBack' = sentBack /\ run'.outcome = "failed"
        BY <2>2, <3>1, <3>5, FailedMove
      <4>2. NoRefusalRepeated'
        BY <2>2, <4>1 DEF NoRefusalRepeated
      <4> QED BY <1>1, <3>4, <4>1, <4>2 DEF RefusalsCounted, LastWordsCarried
    <3>6. CASE m.to # "failed"
      <4> DEFINE e == [at |-> run.stage, words |-> words]
                 T == [at : DOMAIN graph.stages, words : Complaints]
                 n == Len(sentBack)
      <4>1. sentBack' = Append(sentBack, e)
        BY <3>1, <3>6
      <4>2. sentBack \in Seq(T) /\ e \in T
        BY <2>6 DEF TypeOK, Ready
      <4>3. e.words = words /\ e.at = run.stage
        OBVIOUS
      <4>4. Len(sentBack) = run.revisions /\ run.revisions \in Nat
        BY <2>2 DEF RefusalsCounted, TypeOK, RunType
      <4> HIDE DEF e, T
      <4>5. /\ n \in Nat /\ Len(sentBack') = n + 1 /\ sentBack'[n + 1] = e
            /\ \A i \in 1..n : sentBack'[i] = sentBack[i]
        BY <4>1, <4>2
      <4>6. RefusalsCounted'
        BY <3>3, <4>4, <4>5 DEF RefusalsCounted
      <4>7. LastWordsCarried'
        BY <3>3, <4>3, <4>5 DEF LastWordsCarried, LastSentBack
      <4>8. NoRefusalRepeated'
        <5> SUFFICES ASSUME NEW i \in 1..n, sentBack'[i].words = sentBack'[i + 1].words
                     PROVE  ~graph.stages[sentBack'[i + 1].at].stop_when_identical
          <6>1. 1..Len(sentBack') - 1 = 1..n
            BY <4>5
          <6> QED BY <2>2, <6>1 DEF NoRefusalRepeated
        <5>1. CASE i < n
          <6>1. i \in 1..Len(sentBack) - 1 /\ i + 1 \in 1..n
            BY <4>5, <5>1
          <6>2. sentBack'[i] = sentBack[i] /\ sentBack'[i + 1] = sentBack[i + 1]
            BY <4>5, <6>1
          <6> QED BY <6>1, <6>2 DEF NoRefusalRepeated
        <5>2. CASE i = n
          <6>1. n > 0 /\ sentBack'[i] = LastSentBack /\ sentBack'[i + 1] = e
            BY <4>5, <5>2 DEF LastSentBack
          <6>2. run.last_refusal = words
            BY <2>2, <4>3, <6>1 DEF LastWordsCarried
          <6>3. ~stage.stop_when_identical
            BY <3>3, <6>2
          <6> QED BY <4>3, <6>1, <6>3 DEF stage
        <5> QED BY <4>5, <5>1, <5>2
      <4> QED BY <1>1, <3>4, <4>6, <4>7, <4>8
    <3> QED BY <3>5, <3>6
  <2> QED BY <2>1, <2>4, <2>5, <2>6 DEF Plain
<1> QED BY <1>4, <1>5 DEF Next

LEMMA RefusalsHold == Spec => []RefusalsInv
<1>1. Init => RefusalsInv
  BY RefusalsInit
<1>2. RefusalsInv /\ [Next]_vars => RefusalsInv'
  BY RefusalsStep
<1> QED BY <1>1, <1>2, PTL DEF Spec

(***************************************************************************)
(* With any well-formed pipelines, no run is sent back more often than     *)
(* some stage of its graph that sends runs back allows.                    *)
(***************************************************************************)
THEOREM RevisionsStayBounded == Spec => []RevisionsBounded
<1>1. RefusalsInv => RevisionsBounded
  BY DEF RefusalsInv
<1> QED BY <1>1, RefusalsHold, PTL

(***************************************************************************)
(* The count on the row of a run that has not failed is the number of      *)
(* times the run was sent back.                                            *)
(***************************************************************************)
THEOREM RefusalsAreCounted == Spec => []RefusalsCounted
<1>1. RefusalsInv => RefusalsCounted
  BY DEF RefusalsInv
<1> QED BY <1>1, RefusalsHold, PTL

(***************************************************************************)
(* A stage that stops on an identical refusal never sends a run back twice *)
(* in a row with the same words, however many stages, skips, holds and     *)
(* rework rounds lie in between.                                           *)
(***************************************************************************)
THEOREM NoRefusalIsRepeated == Spec => []NoRefusalRepeated
<1>1. RefusalsInv => NoRefusalRepeated
  BY DEF RefusalsInv
<1> QED BY <1>1, RefusalsHold, PTL

-----------------------------------------------------------------------------
(* The ends of a graph, and the outcomes. *)

\* Every pipeline ends in the three names the outcome is written for.
EndsAreFinals == \A p \in DOMAIN Pipelines : Pipelines[p].terminal = Finals

(***************************************************************************)
(* Where every pipeline ends in exactly the names that apply_move writes   *)
(* an outcome for, no run is at an end without an outcome or has one       *)
(* anywhere else.  A graph with an end of another name breaks it: a run    *)
(* that reaches that end is never finished.                                *)
(***************************************************************************)
THEOREM EndsHaveOutcomes ==
  ASSUME EndsAreFinals
  PROVE  Spec => []StageAndOutcomeAgree
<1>1. ASSUME TypeOK PROVE graph.terminal = Finals
  BY <1>1, NamesOfAPipeline DEF TypeOK, EndsAreFinals, graph
<1>2. Init => StageAndOutcomeAgree
  <2> SUFFICES ASSUME Init PROVE StageAndOutcomeAgree
    OBVIOUS
  <2>1. run.outcome = "" /\ run.pipeline \in DOMAIN Pipelines
    BY StartRunType DEF RunType
  <2>2. PICK p \in DOMAIN Pipelines : run.stage = Pipelines[p].first /\ graph = Pipelines[p]
    <3>1. PICK p \in DOMAIN Pipelines, o \in OptIns, k \in Skips, shape \in Asked :
            run = StartRun(p, o, k, shape)
      BY DEF Init
    <3> QED BY <3>1 DEF StartRun, graph
  <2>3. Pipelines[p].first \in DOMAIN Pipelines[p].stages /\ WellFormed(Pipelines[p])
    BY PipelinesAssumption DEF WellFormed
  <2>4. run.stage \notin graph.terminal
    BY <2>2, <2>3, StagesAreNotEnds
  <2> QED BY <2>1, <2>4 DEF StageAndOutcomeAgree
<1>3. TypeOK /\ StageAndOutcomeAgree /\ [Next]_vars => StageAndOutcomeAgree'
  <2> SUFFICES ASSUME TypeOK, StageAndOutcomeAgree, [Next]_vars PROVE StageAndOutcomeAgree'
    OBVIOUS
  <2>1. CASE People \/ UNCHANGED vars
    BY <2>1, PeopleMoveNothing DEF StageAndOutcomeAgree
  <2>2. CASE Step
    <3>1. PICK m \in MoveType(graph) : Row(m)
      BY <2>2, StepMoves
    <3>2. run.outcome = "" /\ graph' = graph /\ MovedBy(m)
      BY <2>2, <3>1, StepMoves DEF Moving, Row
    <3>3. run'.stage \in graph'.terminal <=> IsTerminalMove(m)
      BY <1>1, <3>2 DEF MovedBy, IsTerminalMove
    <3>4. (run'.outcome # "") <=> IsTerminalMove(m)
      BY <3>2 DEF MovedBy, IsTerminalMove, Finals
    <3> QED BY <3>3, <3>4 DEF StageAndOutcomeAgree
  <2> QED BY <2>1, <2>2 DEF Next
<1> QED BY <1>2, <1>3, TypeCorrect, PTL DEF Spec

-----------------------------------------------------------------------------
(* RunMachine implements RunLifecycle. *)

LEMMA LifecycleInit == Init => Lifecycle!Init
BY StartRunType DEF Lifecycle!Init, Phase

LEMMA LifecycleStep ==
  RefusalsInv /\ [Next]_vars => [Lifecycle!Next]_<<Phase, run.revisions>>
<1> SUFFICES ASSUME RefusalsInv, [Next]_vars
             PROVE  Lifecycle!Next \/ (Phase' = Phase /\ run'.revisions = run.revisions)
  OBVIOUS
<1>1. TypeOK /\ run \in RunType /\ run' \in RunType
  BY TypeStep DEF RefusalsInv, TypeOK
<1>2. CASE People \/ UNCHANGED vars
  <2>1. /\ run'.revisions = run.revisions /\ run'.outcome = run.outcome
        /\ run'.held \in {run.held, FALSE}
    BY <1>1, <1>2, PeopleMoveNothing
  <2>2. Phase' = Phase \/ (Phase = "waiting" /\ Phase' = "moving")
    BY <2>1 DEF Phase
  <2> QED BY <2>1, <2>2 DEF Lifecycle!Next, Lifecycle!Resume
<1>3. CASE Step
  <2>1. PICK m \in MoveType(graph) :
          Row(m) /\ ((Plain(m) /\ sentBack' = sentBack) \/ (Refuses(m) /\ Ready))
    BY <1>1, <1>3, StepMoves
  <2>2. Phase = "moving" /\ MovedBy(m)
    BY <1>1, <1>3, <2>1, StepMoves DEF Moving, Row, Phase
  <2>3. run.outcome = "" /\ run.held = FALSE
    BY <1>1, <1>3, StepMoves DEF Moving, RunType
  <2>4. /\ Phase' \in {"moving", "waiting"} \cup Finals
        /\ m.to = "failed" => Phase' = "failed"
        /\ m.held = FALSE => Phase' \in {"moving"} \cup Finals
    BY <2>2, <2>3 DEF MovedBy, IsTerminalMove, Phase, Finals
  <2>5. run'.revisions = m.revisions
    BY <2>2 DEF MovedBy
  <2>6. CASE Plain(m)
    <3>1. CASE run'.revisions = run.revisions
      BY <2>2, <2>4, <3>1 DEF Lifecycle!Next, Lifecycle!Wait, Lifecycle!Finish,
         Lifecycle!Outcome, Finals
    <3>2. CASE m.to = "failed" /\ run'.revisions \in {0, run.revisions}
      BY <2>2, <2>4, <3>2 DEF Lifecycle!Next, Lifecycle!Finish, Lifecycle!Outcome
    <3> QED BY <2>5, <2>6, <3>1, <3>2 DEF Plain, Keeps
  <2>7. CASE Refuses(m) /\ Ready
    <3>1. PICK words \in Complaints : SendsBack(m, stage, run, Refused(words))
      BY <2>7 DEF Refuses
    <3>2. /\ run'.revisions = run.revisions + 1 /\ run'.revisions <= stage.max_revisions
          /\ stage.on_refusal # "" /\ m.held = FALSE
      BY <2>5, <3>1 DEF SendsBack
    <3>3. run'.revisions \in Allowed
      <4>1. run.stage \in DOMAIN Pipelines[run.pipeline].stages
        BY <2>7 DEF Ready, graph
      <4>2. stage = Pipelines[run.pipeline].stages[run.stage]
        BY DEF stage, graph
      <4>3. run.pipeline \in DOMAIN Pipelines /\ run'.revisions \in Nat
        BY <1>1 DEF RunType
      <4> HIDE DEF stage
      <4>4. /\ Pipelines[run.pipeline].stages[run.stage].on_refusal # ""
            /\ run'.revisions <= Pipelines[run.pipeline].stages[run.stage].max_revisions
        BY <3>2, <4>2
      <4> QED BY <4>1, <4>3, <4>4 DEF Allowed
    <3> QED BY <2>2, <2>4, <3>2, <3>3 DEF Lifecycle!Next, Lifecycle!SendBack, Lifecycle!Finish,
            Lifecycle!Outcome, Finals
  <2> QED BY <2>1, <2>6, <2>7
<1> QED BY <1>2, <1>3 DEF Next

(***************************************************************************)
(* With any well-formed pipelines, a run keeps what RunLifecycle promises  *)
(* of every run: it waits only when it says so, is sent back only as often *)
(* as its graph allows, and keeps the outcome it gets.                     *)
(***************************************************************************)
THEOREM RunHasALifecycle == Spec => LifecycleSpec
<1>1. Init => Lifecycle!Init
  BY LifecycleInit
<1>2. RefusalsInv /\ [Next]_vars => [Lifecycle!Next]_<<Phase, run.revisions>>
  BY LifecycleStep
<1> QED BY <1>1, <1>2, RefusalsHold, PTL DEF Spec, LifecycleSpec, Lifecycle!Spec

-----------------------------------------------------------------------------
(* Nothing is pushed that was not checked. *)

\* Neither the spec nor an answer opens with a heading of its own.
PlainAnswers == Asked \subseteq {"prose"} /\ Shapes \subseteq {"prose"}

\* The row as apply_move leaves it when the answer was plain, field by field.
LEMMA MovedFields ==
  ASSUME run \in RunType, NEW m, NEW produced,
         run' = Moved(m, produced, "prose")
           \/ run' = [Moved(m, produced, "prose") EXCEPT !.pr = TRUE]
  PROVE  /\ run'.stage = m.to /\ run'.document = run.document \cup produced
         /\ run'.outcome = IF IsTerminalMove(m) THEN m.to ELSE run.outcome
         /\ run'.pipeline = run.pipeline /\ run'.opt_in = run.opt_in /\ run'.skip = run.skip
BY DEF Moved, WithSections, RunType

\* What stays the same of a run, whatever happens to it, and what only grows.
SameRun ==
  /\ run'.pipeline = run.pipeline /\ run'.opt_in = run.opt_in /\ run'.skip = run.skip
  /\ run.document \subseteq run'.document

\* A turn that answered well: its sections are stored, and if it was a check it is passed.
PassedTurn ==
  /\ run'.document = run.document \cup stage.produces
  /\ ~MayEdit(stage) /\ stage.contract # "" => checked' = checked \cup {run.stage}

\* The run takes an edge of its graph, in one of the ways there are.
Follows ==
  /\ run.stage \in DOMAIN graph.stages /\ Edge(graph, run.stage, run'.stage)
  /\ \/ ShouldSkip(run.stage, stage, run)
     \/ PassedTurn
     \/ stage.on_error = "continue"
     \/ ~RunsATurn(stage)

Goes ==
  /\ SameRun
  /\ run'.outcome = "" =>
       \/ run'.stage = run.stage
       \/ Astray(graph, run'.stage)
       \/ Follows

LEMMA PlanningGoes ==
  ASSUME TypeOK, Moving, NEW m, ApplyMove(m),
         m = MoveTo("failed") \/ (m = planned /\ (planned.skipped \/ planned.held))
  PROVE  Goes
<1>1. run \in RunType /\ GraphType(graph) /\ WellFormed(graph) /\ run.outcome = ""
  BY NamesOfAPipeline DEF TypeOK, Moving
<1>2. /\ run'.stage = m.to /\ run'.document = run.document \cup {}
      /\ run'.outcome = IF IsTerminalMove(m) THEN m.to ELSE run.outcome
      /\ run'.pipeline = run.pipeline /\ run'.opt_in = run.opt_in /\ run'.skip = run.skip
  BY <1>1, MovedFields DEF ApplyMove
<1>3. SameRun
  BY <1>2 DEF SameRun
<1>4. m.to = "failed" => run'.outcome # ""
  BY <1>2 DEF IsTerminalMove, Finals
<1>5. CASE m = MoveTo("failed")
  <2>1. MoveTo("failed").to = "failed"
    BY DEF MoveTo, Move
  <2> QED BY <1>3, <1>4, <1>5, <2>1 DEF Goes
<1>6. CASE m = planned /\ (planned.skipped \/ planned.held)
  <2>1. CASE run.stage \in DOMAIN graph.stages
    <3>1. /\ planned.skipped => ShouldSkip(run.stage, stage, run)
                                /\ (planned.to = "failed" \/ Edge(graph, run.stage, planned.to))
          /\ planned.held /\ ~planned.skipped => planned.to = run.stage
      BY <1>1, <2>1, PlanTakesAnEdge DEF planned, stage
    <3> QED BY <1>2, <1>3, <1>4, <1>6, <2>1, <3>1 DEF Goes, Follows
  <2>2. CASE run.stage \notin DOMAIN graph.stages
    <3>1. planned \in {MoveTo(run.stage), MoveTo("failed")}
      BY <2>2 DEF planned, PlanNext
    <3>2. \A to : MoveTo(to).to = to
      BY DEF MoveTo, Move
    <3> QED BY <1>2, <1>3, <1>4, <1>6, <3>1, <3>2 DEF Goes
  <2> QED BY <2>1, <2>2
<1> QED BY <1>5, <1>6

LEMMA LeavingGoes ==
  ASSUME TypeOK, Ready, NEW x, Came(x), NEW produced,
         run' = Moved(Advance(graph, run, x), produced, "prose")
           \/ run' = [Moved(Advance(graph, run, x), produced, "prose") EXCEPT !.pr = TRUE],
         \/ x.outcome \in {"error", "blocked"}
         \/ ~RunsATurn(stage)
         \/ PassedTurn
  PROVE  Goes
<1> DEFINE m == Advance(graph, run, x)
<1>1. run \in RunType /\ GraphType(graph) /\ WellFormed(graph)
  BY NamesOfAPipeline DEF TypeOK
<1>2. /\ run'.stage = m.to /\ run'.document = run.document \cup produced
      /\ run'.outcome = IF IsTerminalMove(m) THEN m.to ELSE run.outcome
      /\ run'.pipeline = run.pipeline /\ run'.opt_in = run.opt_in /\ run'.skip = run.skip
  BY <1>1, MovedFields
<1>3. run.stage \in DOMAIN graph.stages
  BY DEF Ready
<1>4. Takes(graph, run.stage, x.outcome, m.to)
  BY <1>1, <1>3, AdvanceTakesAnEdge
<1> HIDE DEF m
<1>5. SameRun
  BY <1>2 DEF SameRun
<1>6. m.to = "failed" => run'.outcome # ""
  BY <1>2 DEF IsTerminalMove, Finals
<1>7. ASSUME Edge(graph, run.stage, m.to),
             x.outcome = "ok" \/ x.outcome = "refused"
             \/ (x.outcome = "error" /\ stage.on_error = "continue")
      PROVE  Follows
  BY <1>2, <1>3, <1>7 DEF Follows
<1> QED BY <1>2, <1>4, <1>5, <1>6, <1>7 DEF Goes, Takes, stage

LEMMA StepGoes ==
  ASSUME TypeOK, Step, PlainAnswers
  PROVE  Goes
<1>1. ASSUME NEW x, Ready, Came(x), NEW produced,
             run' = Moved(Advance(graph, run, x), produced, "prose")
               \/ run' = [Moved(Advance(graph, run, x), produced, "prose") EXCEPT !.pr = TRUE],
             x.outcome \in {"error", "blocked"} \/ ~RunsATurn(stage) \/ PassedTurn
      PROVE  Goes
  BY <1>1, LeavingGoes
<1>2. ASSUME NEW x, Ready, Came(x),
             run' = Left(x, "prose") \/ run' = [Left(x, "prose") EXCEPT !.pr = TRUE],
             x.outcome \in {"error", "blocked"} \/ ~RunsATurn(stage) \/ PassedTurn
      PROVE  Goes
  BY <1>1, <1>2 DEF Left
<1>3. ASSUME NEW m, Moving, ApplyMove(m),
             m = MoveTo("failed") \/ (m = planned /\ (planned.skipped \/ planned.held))
      PROVE  Goes
  BY <1>3, PlanningGoes
<1>4. Ready /\ stage.action # "" => ~RunsATurn(stage)
  <2>1. WellFormed(graph)
    BY NamesOfAPipeline DEF TypeOK
  <2> QED BY <2>1 DEF Ready, WellFormed, StageOK, RunsATurn, stage
<1>5. CASE Skip
  BY <1>3, <1>5 DEF Skip
<1>6. CASE Hold
  BY <1>3, <1>6 DEF Hold
<1>7. CASE OverBudget
  BY <1>3, <1>7 DEF OverBudget, Ready
<1>8. CASE TurnAnswers
  <2>1. PICK shape \in Shapes, objects \in BOOLEAN :
          LET result == Graded(stage, objects) IN
          /\ run' = Left(result, IF result.outcome = "ok" THEN shape ELSE "prose")
          /\ IF MayEdit(stage) THEN Edits
             ELSE /\ checked' = IF stage.contract # "" /\ result.outcome = "ok"
                                THEN checked \cup {run.stage} ELSE checked
                  /\ UNCHANGED tree
    BY <1>8 DEF TurnAnswers
  <2> DEFINE x == Graded(stage, objects)
  <2>2. shape = "prose"
    BY DEF PlainAnswers
  <2>3. run' = Left(x, "prose")
    BY <2>1, <2>2
  <2>4. ~MayEdit(stage) /\ stage.contract # "" /\ x.outcome = "ok" =>
          checked' = checked \cup {run.stage}
    BY <2>1
  <2>5. x \in {Error(stage.produces), Ok(stage.produces)}
    BY DEF Graded
  <2> HIDE DEF x
  <2>6. Came(x) /\ x.outcome \in {"ok", "error"} /\ x.produced = stage.produces
    BY <2>5, ResultsCame
  <2>7. Ready
    BY <1>8 DEF TurnAnswers
  <2>8. CASE x.outcome = "ok"
    <3>1. run' = Moved(Advance(graph, run, x), x.produced, "prose") /\ run \in RunType
      BY <2>3 DEF Left, TypeOK
    <3>2. run'.document = run.document \cup x.produced
      BY <3>1, MovedFields
    <3>3. PassedTurn
      BY <2>4, <2>6, <2>8, <3>2 DEF PassedTurn
    <3> QED BY <1>2, <2>3, <2>6, <2>7, <3>3
  <2>9. CASE x.outcome = "error"
    BY <1>2, <2>3, <2>6, <2>7, <2>9
  <2> QED BY <2>6, <2>8, <2>9
<1>9. CASE TurnInterrupted \/ TurnFails
  <2>1. Ready /\ (Leave(Blocked) \/ Leave(Error({})))
    BY <1>9 DEF TurnInterrupted, TurnFails
  <2> QED BY <1>2, <2>1, ResultsCame DEF Leave
<1>10. CASE PrepareWorkspace \/ WatchPullRequest \/ Teardown
  <2>1. /\ Ready /\ stage.action # ""
        /\ \/ Leave(Ok({"workspace"})) \/ Leave(Error({})) \/ Leave(Watched) \/ Leave(Ok({}))
    BY <1>10 DEF PrepareWorkspace, WatchPullRequest, Teardown
  <2> QED BY <1>2, <1>4, <2>1, ResultsCame DEF Leave
<1>11. CASE CommitAndPush
  <2>1. Ready /\ stage.action # ""
    BY <1>11 DEF CommitAndPush
  <2>2. \/ Leave(Error({})) \/ Leave(Ok({"commit"}))
        \/ \E words \in Complaints : ApplyMove(Advance(graph, run, Refused(words)))
    BY <1>11 DEF CommitAndPush
  <2>3. ASSUME NEW words \in Complaints, ApplyMove(Advance(graph, run, Refused(words)))
        PROVE  Goes
    <3>1. Came(Refused(words))
      <4>1. Refused(words).outcome = "refused" /\ Refused(words).reason = words
        BY DEF Refused, Result
      <4> QED BY <4>1 DEF Came, Outcomes, Words
    <3>2. run' = Moved(Advance(graph, run, Refused(words)), {}, "prose")
      BY <2>3 DEF ApplyMove
    <3> QED BY <1>1, <1>4, <2>1, <3>1, <3>2
  <2> QED BY <1>2, <1>4, <2>1, <2>2, <2>3, ResultsCame DEF Leave
<1>12. CASE OpenPullRequest
  <2>1. /\ Ready /\ stage.action # ""
        /\ Leave(Error({})) \/ run' = [Left(Ok({}), "prose") EXCEPT !.pr = TRUE]
    BY <1>12 DEF OpenPullRequest
  <2> QED BY <1>2, <1>4, <2>1, ResultsCame DEF Leave
<1> QED BY <1>5, <1>6, <1>7, <1>8, <1>9, <1>10, <1>11, <1>12 DEF Step

LEMMA PeopleGoNowhere ==
  ASSUME TypeOK, People \/ UNCHANGED vars
  PROVE  Goes /\ run'.stage = run.stage /\ run'.outcome = run.outcome
<1>1. run \in RunType
  BY DEF TypeOK
<1>2. run' = run \/ run' = [run EXCEPT !.approved = TRUE, !.held = FALSE]
  BY DEF People, Approve, Decide, Comment, vars
<1>3. SameRun /\ run'.stage = run.stage /\ run'.outcome = run.outcome
  BY <1>1, <1>2 DEF SameRun, RunType
<1> QED BY <1>3 DEF Goes

\* The certificate of a pipeline: what `sure` and `after` say of it.
Certified(sure, after) ==
  \A p \in DOMAIN Pipelines : ChecksEverything(Pipelines[p], sure[p], after[p])

(***************************************************************************)
(* A run that can still move has in its document what its pipeline assures *)
(* it of, and where it stands after an owed check it has passed that check *)
(* since a turn last edited.                                               *)
(***************************************************************************)
CheckedInv(sure, after) ==
  /\ "spec" \in run.document
  /\ run.outcome = "" /\ run.stage \in DOMAIN graph.stages =>
       sure[run.pipeline][run.stage] \subseteq run.document
  /\ run.outcome = "" => \A n \in Owed : run.stage \in after[run.pipeline][n] => n \in checked

LEMMA CheckedInit ==
  ASSUME Init, PlainAnswers, NEW sure, NEW after, Certified(sure, after)
  PROVE  CheckedInv(sure, after) /\ ShippedWorkWasChecked
<1>1. PICK p \in DOMAIN Pipelines, o \in OptIns, k \in Skips, shape \in Asked :
        run = StartRun(p, o, k, shape)
  BY DEF Init
<1>2. shape = "prose"
  BY DEF PlainAnswers
<1>3. run.document = {"spec"} /\ run.pipeline = p /\ run.stage = Pipelines[p].first
  BY <1>1, <1>2 DEF StartRun, WithSections
<1>4. ChecksEverything(Pipelines[p], sure[p], after[p]) /\ graph = Pipelines[p]
  BY <1>3 DEF Certified, graph
<1>5. sure[p][Pipelines[p].first] \subseteq {"spec"}
  BY <1>4 DEF ChecksEverything, Surely
<1>6. \A n \in Owed : run.stage \notin after[p][n]
  BY <1>3, <1>4 DEF ChecksEverything, ChecksCommits, Owed
<1>7. ~forge.pushed
  BY DEF Init
<1> QED BY <1>3, <1>5, <1>6, <1>7 DEF CheckedInv, ShippedWorkWasChecked

\* Only a turn that may edit unmakes a check.
LEMMA ChecksStay ==
  ASSUME Next, ~(Ready /\ MayEdit(stage))
  PROVE  checked \subseteq checked'
BY DEF Next, Step, People, Skip, Hold, OverBudget, TurnAnswers, TurnInterrupted, TurnFails, Edits,
       PrepareWorkspace, CommitAndPush, OpenPullRequest, WatchPullRequest, Teardown, history,
       Approve, Decide, Comment

\* What is pushed has the checks its run had then.
LEMMA PushesOnly ==
  ASSUME TypeOK, Next
  PROVE  \/ forge'.pushed = forge.pushed /\ shipped' = shipped
         \/ Ready /\ stage.action = "commit_and_push" /\ shipped' = checked /\ checked' = checked
<1>1. forge \in [kind : Forges, pushed : BOOLEAN, commented : BOOLEAN, comments : 0..MaxComments,
                pr : {"none", "open", "merged", "closed"}]
  BY DEF TypeOK
<1>2. CASE forge' = forge /\ shipped' = shipped
  BY <1>2
<1>3. CASE CommitAndPush
  BY <1>3 DEF CommitAndPush
<1>4. CASE OpenPullRequest \/ Decide \/ Comment
  <2>1. /\ shipped' = shipped
        /\ \/ forge' = forge
           \/ forge' = [forge EXCEPT !.pr = "open", !.commented = FALSE]
           \/ \E fate : forge' = [forge EXCEPT !.pr = fate]
           \/ forge' = [forge EXCEPT !.commented = TRUE, !.comments = @ + 1]
    BY <1>4 DEF OpenPullRequest, Decide, Comment, history
  <2> QED BY <1>1, <2>1
<1>5. CASE Skip \/ Hold \/ OverBudget \/ TurnAnswers \/ TurnInterrupted \/ TurnFails
           \/ PrepareWorkspace \/ WatchPullRequest \/ Teardown \/ Approve
  <2>1. forge' = forge /\ shipped' = shipped
    BY <1>5 DEF Skip, Hold, OverBudget, TurnAnswers, TurnInterrupted, TurnFails,
           PrepareWorkspace, WatchPullRequest, Teardown, Approve, history
  <2> QED BY <2>1
<1> QED BY <1>3, <1>4, <1>5 DEF Next, Step, People

LEMMA CheckedStep ==
  ASSUME TypeOK, PlainAnswers, NEW sure, NEW after, Certified(sure, after),
         CheckedInv(sure, after), ShippedWorkWasChecked, [Next]_vars
  PROVE  CheckedInv(sure, after)' /\ ShippedWorkWasChecked'
<1> DEFINE p == run.pipeline
<1>1. /\ GraphType(graph) /\ WellFormed(graph) /\ p \in DOMAIN Pipelines
      /\ ChecksEverything(graph, sure[p], after[p])
  BY NamesOfAPipeline DEF TypeOK, Certified, graph
<1>2. Goes
  BY StepGoes, PeopleGoNowhere DEF Next
<1>3. /\ run'.pipeline = p /\ graph' = graph /\ Owed' = Owed
      /\ run.document \subseteq run'.document
  BY <1>2 DEF Goes, SameRun, graph, Owed
<1>4. run'.outcome = "" => run.outcome = ""
  <2>1. CASE Step
    BY <2>1, StepMoves DEF Moving
  <2>2. CASE People \/ UNCHANGED vars
    BY <2>2, PeopleGoNowhere
  <2> QED BY <2>1, <2>2 DEF Next
<1>5. "spec" \in run'.document
  BY <1>3 DEF CheckedInv
<1>6. ASSUME run'.outcome = "", run'.stage \in DOMAIN graph.stages
      PROVE  sure[p][run'.stage] \subseteq run'.document
  <2>1. Surely(graph, sure[p]) /\ run.outcome = ""
    BY <1>1, <1>4, <1>6 DEF ChecksEverything
  <2>2. CASE run'.stage = run.stage
    BY <1>3, <1>6, <2>1, <2>2 DEF CheckedInv
  <2>3. CASE Astray(graph, run'.stage)
    <3>1. run'.stage = graph.first /\ sure[p][graph.first] \subseteq {"spec"}
      BY <1>6, <2>1, <2>3 DEF Astray, Surely
    <3> QED BY <1>5, <3>1
  <2>4. CASE Follows
    <3>1. run.stage \in DOMAIN graph.stages /\ Edge(graph, run.stage, run'.stage)
      BY <2>4 DEF Follows
    <3>2. /\ sure[p][run'.stage] \subseteq sure[p][run.stage] \cup Adds(stage, sure[p][run.stage])
          /\ sure[p][run.stage] \subseteq run.document
      BY <1>6, <2>1, <3>1 DEF Surely, CheckedInv, stage
    <3>3. Adds(stage, sure[p][run.stage]) \subseteq run'.document
      <4> SUFFICES ASSUME RunsATurn(stage), stage.on_error = "fail",
                          NeverSkipped(stage, sure[p][run.stage])
                   PROVE  stage.produces \subseteq run'.document
        BY DEF Adds
      <4>1. PassedTurn
        BY <2>4, <3>2, NeverSkippedIsNot DEF Follows
      <4> QED BY <4>1 DEF PassedTurn
    <3> QED BY <1>3, <3>2, <3>3
  <2> QED BY <1>2, <1>6, <2>2, <2>3, <2>4 DEF Goes
<1>7. ASSUME run'.outcome = "", NEW n \in Owed, run'.stage \in after[p][n]
      PROVE  n \in checked'
  <2>1. /\ run.outcome = "" /\ n \in DOMAIN graph.stages /\ graph.stages[n].contract # ""
        /\ ChecksCommits(graph, sure[p], n, after[p][n])
    BY <1>1, <1>4, <1>7 DEF ChecksEverything, Owed
  <2>2. ~Astray(graph, run'.stage) /\ run'.stage \in DOMAIN graph.stages
    BY <1>7, <2>1 DEF Astray, ChecksCommits
  <2>3. ASSUME run.stage \in after[p][n] PROVE n \in checked'
    <3>1. n \in checked /\ ~MayEdit(stage)
      BY <2>1, <2>3 DEF CheckedInv, ChecksCommits, MayEdit, stage
    <3>2. CASE Next
      BY <3>1, <3>2, ChecksStay
    <3>3. CASE UNCHANGED vars
      BY <3>1, <3>3 DEF vars
    <3> QED BY <3>2, <3>3
  <2>4. CASE Follows /\ run.stage \notin after[p][n]
    <3>1. run.stage = n
      BY <1>7, <2>1, <2>2, <2>4 DEF Follows, ChecksCommits
    <3>2. /\ stage.contract # "" /\ stage.on_error = "fail" /\ ~MayEdit(stage)
          /\ stage.skip_when = {} /\ stage.requires \subseteq sure[p][n]
          /\ ~(stage.optional /\ n \in run.skip) /\ ~(stage.opt_in /\ n \notin run.opt_in)
      BY <2>1, <3>1 DEF ChecksCommits, MayEdit, stage, Owed
    <3>3. RunsATurn(stage)
      BY <1>1, <2>1, <3>1 DEF WellFormed, stage
    <3>4. sure[p][n] \subseteq run.document
      BY <2>1, <3>1 DEF CheckedInv
    <3>5. ~ShouldSkip(run.stage, stage, run)
      BY <3>1, <3>2, <3>4 DEF ShouldSkip
    <3>6. PassedTurn
      BY <2>4, <3>2, <3>3, <3>5 DEF Follows
    <3> QED BY <3>1, <3>2, <3>6 DEF PassedTurn
  <2>5. CASE run'.stage = run.stage
    BY <1>7, <2>3, <2>5
  <2> QED BY <1>2, <1>7, <2>2, <2>3, <2>4, <2>5 DEF Goes
<1>8. CheckedInv(sure, after)'
  BY <1>3, <1>5, <1>6, <1>7 DEF CheckedInv
<1>9. ShippedWorkWasChecked'
  <2>1. CASE forge'.pushed = forge.pushed /\ shipped' = shipped
    BY <1>3, <2>1 DEF ShippedWorkWasChecked
  <2>2. CASE Ready /\ stage.action = "commit_and_push" /\ shipped' = checked
    <3>1. run.outcome = "" /\ run.stage \in Doing(graph, "commit_and_push")
      BY <2>2 DEF Ready, Moving, Doing, stage
    <3>2. \A n \in Owed : n \in checked
      BY <1>1, <3>1 DEF ChecksEverything, ChecksCommits, Owed, CheckedInv
    <3> QED BY <1>3, <2>2, <3>2 DEF ShippedWorkWasChecked
  <2>3. CASE UNCHANGED vars
    BY <1>3, <2>1, <2>3 DEF vars
  <2> QED BY <2>1, <2>2, <2>3, PushesOnly
<1> QED BY <1>8, <1>9

(***************************************************************************)
(* No diff is pushed that a check its run owes has not passed since a turn *)
(* last edited it, in every pipeline whose checks come before its commits  *)
(* with no other way round them: through revisions, reworks, holds, skips  *)
(* and failed turns.  All pipelines that ship are such.  An answer that    *)
(* opens with a heading of its own breaks it: the section it should have   *)
(* filled is blank, and the check that requires it is passed over.         *)
(***************************************************************************)
THEOREM WhatShipsWasChecked ==
  ASSUME PlainAnswers, NEW sure, NEW after, Certified(sure, after)
  PROVE  Spec => []ShippedWorkWasChecked
<1> DEFINE Inv == CheckedInv(sure, after) /\ ShippedWorkWasChecked
<1>1. Init => Inv
  BY CheckedInit
<1>2. TypeOK /\ Inv /\ [Next]_vars => Inv'
  BY CheckedStep
<1>3. Inv => ShippedWorkWasChecked
  OBVIOUS
<1> HIDE DEF Inv
<1> QED BY <1>1, <1>2, <1>3, TypeCorrect, PTL DEF Spec
-----------------------------------------------------------------------------
(* Every step of a run uses something up. *)

\* At rank c of stage d a run has less before it than at rank b of the stage it is at.
Lower(d, c, b) == RankAt(run.pipeline, d, c) < RankAt(run.pipeline, run.stage, b)

Reopens == stage.action = "open_pull_request"
Passes  == ~Reopens \/ stage.on_error = "continue" \/ ~NeverSkipped(stage, {})

LEMMA RanksAreNumbers ==
  ASSUME TypeOK, run.stage \in DOMAIN graph.stages
  PROVE  /\ \A b \in BOOLEAN : RankAt(run.pipeline, run.stage, b) \in Nat \ {0}
         /\ \A d \in DOMAIN graph.stages : \A b \in BOOLEAN :
              RankAt(run.pipeline, d, b) = Rank[run.pipeline][d][b]
         /\ \A d : d \notin DOMAIN graph.stages => \A b : RankAt(run.pipeline, d, b) = 0
         /\ RunsOut(graph, Rank[run.pipeline])
<1>1. run.pipeline \in DOMAIN Pipelines
  BY NamesOfAPipeline DEF TypeOK
<1>2. RunsOut(graph, Rank[run.pipeline])
  BY <1>1, RankAssumption DEF graph
<1>3. Rank[run.pipeline] \in [DOMAIN graph.stages -> [BOOLEAN -> Nat \ {0}]]
  BY <1>2 DEF RunsOut
<1>4. \A d \in DOMAIN graph.stages : \A b : RankAt(run.pipeline, d, b) = Rank[run.pipeline][d][b]
  BY DEF RankAt, graph
<1>5. \A d : d \notin DOMAIN graph.stages => \A b : RankAt(run.pipeline, d, b) = 0
  BY DEF RankAt, graph
<1>6. \A d \in DOMAIN graph.stages : \A b \in BOOLEAN : Rank[run.pipeline][d][b] \in Nat \ {0}
  BY <1>3
<1> QED BY <1>2, <1>4, <1>5, <1>6

\* A name that is no stage of the graph comes after them all.
LEMMA ElsewhereIsLower ==
  ASSUME TypeOK, run.stage \in DOMAIN graph.stages, NEW d, d \notin DOMAIN graph.stages
  PROVE  \A b, c \in BOOLEAN : Lower(d, c, b)
<1> SUFFICES ASSUME NEW b \in BOOLEAN, NEW c \in BOOLEAN PROVE Lower(d, c, b)
  OBVIOUS
<1>1. RankAt(run.pipeline, run.stage, b) \in Nat \ {0} /\ RankAt(run.pipeline, d, c) = 0
  BY RanksAreNumbers
<1> QED BY <1>1 DEF Lower

LEMMA NextIsLower ==
  ASSUME TypeOK, run.stage \in DOMAIN graph.stages, NextOf(stage) \notin Finals
  PROVE  \A b \in BOOLEAN : /\ Passes => Lower(NextOf(stage), b, b)
                            /\ Reopens => Lower(NextOf(stage), FALSE, b)
<1> DEFINE d == NextOf(stage)
<1>1. d = stage.next
  BY DEF NextOf, Finals
<1>2. CASE d \notin DOMAIN graph.stages
  BY <1>2, ElsewhereIsLower
<1>3. CASE d \in DOMAIN graph.stages
  <2>1. \A b \in BOOLEAN :
          /\ Passes => Rank[run.pipeline][d][b] < Rank[run.pipeline][run.stage][b]
          /\ Reopens => Rank[run.pipeline][d][FALSE] < Rank[run.pipeline][run.stage][b]
    BY <1>1, <1>3, RanksAreNumbers DEF RunsOut, Passes, Reopens, stage
  <2> HIDE DEF d
  <2> QED BY <1>3, <2>1, RanksAreNumbers DEF Lower, d
<1> QED BY <1>2, <1>3

LEMMA EventIsLower ==
  ASSUME TypeOK, run.stage \in DOMAIN graph.stages, NEW e \in DOMAIN stage.outcomes,
         stage.outcomes[e] \notin Finals
  PROVE  \A b \in BOOLEAN : (e = "comment" => b) => Lower(stage.outcomes[e], b, b)
<1> DEFINE d == stage.outcomes[e]
<1> SUFFICES ASSUME NEW b \in BOOLEAN, e = "comment" => b PROVE Lower(d, b, b)
  OBVIOUS
<1>2. CASE d \notin DOMAIN graph.stages
  BY <1>2, ElsewhereIsLower
<1>3. CASE d \in DOMAIN graph.stages
  <2>1. /\ Rank[run.pipeline][d][TRUE] < Rank[run.pipeline][run.stage][TRUE]
        /\ e # "comment" => Rank[run.pipeline][d][FALSE] < Rank[run.pipeline][run.stage][FALSE]
    BY <1>3, RanksAreNumbers DEF RunsOut, stage
  <2>2. Rank[run.pipeline][d][b] < Rank[run.pipeline][run.stage][b]
    BY <2>1
  <2> HIDE DEF d
  <2> QED BY <1>3, <2>2, RanksAreNumbers DEF Lower
<1> QED BY <1>2, <1>3

\* A move that keeps the count: it stops the run, or it leads down.
LEMMA MoveGoesOn ==
  ASSUME TypeOK, NEW m, MovedBy(m), run.outcome = "",
         \/ m.to \in Finals \/ m.held
         \/ m.revisions = run.revisions /\ Lower(m.to, forge'.commented, forge.commented)
  PROVE  GoesOn
<1>1. CASE m.to \in Finals \/ m.held
  <2>1. run'.outcome # "" \/ run'.held
    BY <1>1 DEF MovedBy, IsTerminalMove, Finals
  <2> QED BY <2>1 DEF GoesOn, Moving
<1>2. CASE m.revisions = run.revisions /\ Lower(m.to, forge'.commented, forge.commented)
  <2>1. RankNow' = RankAt(run.pipeline, m.to, forge'.commented)
    BY DEF MovedBy, RankNow, RankAt
  <2>2. run'.revisions = run.revisions
    BY <1>2 DEF MovedBy
  <2> QED BY <1>2, <2>1, <2>2 DEF GoesOn, Lower, RankNow
<1> QED BY <1>1, <1>2

LEMMA PlanningGoesOn ==
  ASSUME TypeOK, Moving, NEW m, ApplyMove(m), forge' = forge,
         m = MoveTo("failed") \/ (m = planned /\ (planned.skipped \/ planned.held))
  PROVE  GoesOn
<1>1. Row(m) /\ run.outcome = "" /\ forge.commented \in BOOLEAN
  BY PlanningIsPlain DEF Moving, TypeOK
<1>2. MovedBy(m)
  BY <1>1 DEF Row
<1>3. \A to : MoveTo(to).to = to /\ MoveTo(to).held = FALSE /\ MoveTo(to).skipped = FALSE
  BY DEF MoveTo, Move
<1>4. CASE m.to \in Finals \/ m.held
  BY <1>1, <1>2, <1>4, MoveGoesOn
<1>5. CASE ~(m.to \in Finals \/ m.held)
  <2>1. m = planned /\ planned.skipped
    BY <1>3, <1>5 DEF Finals
  <2>2. run.stage \in DOMAIN graph.stages \ graph.terminal
    BY <1>3, <2>1, PlanNextType, ReadyAt DEF planned
  <2>3. ShouldSkip(run.stage, stage, run)
    BY <2>1, <2>2, NamesOfAPipeline, PlanTakesAnEdge DEF planned, stage, TypeOK
  <2>4. m = Skipped(CarryTo(NextOf(stage), run))
    BY <2>1, <2>2, <2>3 DEF planned, PlanNext, stage
  <2>5. m.to = NextOf(stage) /\ m.revisions = run.revisions
    BY <2>4 DEF Skipped, CarryTo, Move
  <2>6. Passes
    BY <2>3, NeverSkippedIsNot DEF Passes
  <2>7. Lower(m.to, forge.commented, forge.commented)
    BY <1>1, <1>5, <2>2, <2>5, <2>6, NextIsLower
  <2> QED BY <1>1, <1>2, <2>5, <2>7, MoveGoesOn
<1> QED BY <1>4, <1>5

\* What an action or a turn may tell of the request, and what it may do to it.
Tells(x) ==
  /\ x.event = "comment" => forge.commented
  /\ \/ forge'.commented = forge.commented /\ ~(Reopens /\ x.outcome = "ok")
     \/ forge'.commented = FALSE /\ Reopens /\ x.outcome = "ok" /\ x.event = ""

LEMMA LeavingGoesOn ==
  ASSUME TypeOK, Ready, NEW x, Came(x), x.outcome # "refused", Tells(x),
         NEW produced \in SUBSET Sections, NEW shape,
         run' = Moved(Advance(graph, run, x), produced, shape)
           \/ run' = [Moved(Advance(graph, run, x), produced, shape) EXCEPT !.pr = TRUE]
  PROVE  GoesOn
<1> DEFINE m == Advance(graph, run, x)
<1>1. /\ run.stage \in DOMAIN graph.stages \ graph.terminal /\ run.outcome = ""
      /\ forge.commented \in BOOLEAN /\ run \in RunType /\ WellFormed(graph)
  BY ReadyAt, NamesOfAPipeline DEF Ready, Moving, TypeOK
<1>2. m \in MoveType(graph) /\ Keeps(m, run)
  BY ReadyAt, AdvanceType
<1>3. MovedBy(m)
  <2> HIDE DEF m
  <2>1. run' = Moved(m, produced, shape) \/ run' = [Moved(m, produced, shape) EXCEPT !.pr = TRUE]
    BY DEF m
  <2> QED BY <1>1, <1>2, <2>1, MovedType
<1>4. \A to : /\ CarryTo(to, run).to = to /\ Held(CarryTo(to, run)).held
              /\ CarryTo("failed", run).to \in Finals
  BY DEF CarryTo, Held, Move, Finals
<1>5. CASE x.outcome = "blocked"
  <2>1. m = Held(CarryTo(run.stage, run))
    BY <1>1, <1>5 DEF Advance
  <2> HIDE DEF m
  <2>2. m.held
    BY <1>4, <2>1
  <2> QED BY <1>1, <1>3, <2>2, MoveGoesOn
<1>6. CASE x.outcome = "error"
  <2>1. m = AfterError(stage, run)
    BY <1>1, <1>6 DEF Advance, stage
  <2>2. stage.on_error \in {"fail", "continue"}
    BY <1>1 DEF WellFormed, StageOK, stage
  <2>3. \/ m.to \in Finals
        \/ m.to = NextOf(stage) /\ stage.on_error = "continue"
    BY <1>4, <2>1, <2>2 DEF AfterError, Finals
  <2>4. forge'.commented = forge.commented
    BY <1>6 DEF Tells
  <2> HIDE DEF m
  <2>5. m.to \in Finals \/ Lower(m.to, forge'.commented, forge.commented)
    BY <1>1, <2>3, <2>4, NextIsLower DEF Passes
  <2> QED BY <1>1, <1>2, <1>3, <2>5, MoveGoesOn DEF Keeps
<1>7. CASE x.outcome = "ok" /\ stage.outcomes # [e \in {} |-> ""]
  <2>1. m = AfterEvent(stage, run, x)
    BY <1>1, <1>7 DEF Advance, stage
  <2>2. CASE x.event \notin DOMAIN stage.outcomes
    <3>1. m = Held(CarryTo(run.stage, run))
      BY <2>1, <2>2 DEF AfterEvent
    <3> HIDE DEF m
    <3>2. m.held
      BY <1>4, <3>1
    <3> QED BY <1>1, <1>3, <3>2, MoveGoesOn
  <2>3. CASE x.event \in DOMAIN stage.outcomes
    <3>1. m.to = stage.outcomes[x.event]
      BY <2>1, <2>3 DEF AfterEvent, Move
    <3>2. DOMAIN stage.outcomes \subseteq Events
      BY <1>1 DEF WellFormed, StageOK, stage
    <3>3. x.event # ""
      BY <2>3, <3>2 DEF Events
    <3>4. forge'.commented = forge.commented /\ (x.event = "comment" => forge.commented)
      BY <3>3 DEF Tells
    <3> HIDE DEF m
    <3>5. m.to \in Finals \/ Lower(m.to, forge'.commented, forge.commented)
      BY <1>1, <2>3, <3>1, <3>4, EventIsLower
    <3> QED BY <1>1, <1>2, <1>3, <3>5, MoveGoesOn DEF Keeps
  <2> QED BY <2>2, <2>3
<1>8. CASE x.outcome = "ok" /\ stage.outcomes = [e \in {} |-> ""]
  <2>1. m = Move(NextOf(stage), run.revisions, "", run.last_refusal)
    BY <1>1, <1>8 DEF Advance, stage
  <2>2. m.to = NextOf(stage)
    <3>1. Move(NextOf(stage), run.revisions, "", run.last_refusal).to = NextOf(stage)
      BY DEF Move
    <3> QED BY <2>1, <3>1
  <2> HIDE DEF m
  <2>3. \/ forge'.commented = forge.commented /\ Passes
        \/ forge'.commented = FALSE /\ Reopens
    BY <1>8 DEF Tells, Passes
  <2>4. m.to \in Finals \/ Lower(m.to, forge'.commented, forge.commented)
    BY <1>1, <2>2, <2>3, NextIsLower
  <2> QED BY <1>1, <1>2, <1>3, <2>4, MoveGoesOn DEF Keeps
<1> QED BY <1>5, <1>6, <1>7, <1>8 DEF Came, Outcomes

LEMMA RefusingGoesOn ==
  ASSUME TypeOK, Ready, NEW words \in Complaints, ApplyMove(Advance(graph, run, Refused(words)))
  PROVE  GoesOn
<1> DEFINE m == Advance(graph, run, Refused(words))
<1>1. Came(Refused(words)) /\ Refused(words).outcome = "refused"
  <2>1. Refused(words).outcome = "refused" /\ Refused(words).reason = words
    BY DEF Refused, Result
  <2> QED BY <2>1 DEF Came, Outcomes, Words
<1>2. /\ m \in MoveType(graph)
      /\ GivesUp(m, run) \/ SendsBack(m, graph.stages[run.stage], run, Refused(words))
  BY <1>1, ReadyAt, AdvanceType
<1>3. run' = Moved(m, {}, "prose") /\ run \in RunType /\ run.outcome = ""
  BY DEF ApplyMove, TypeOK, Ready, Moving
<1> HIDE DEF m
<1>4. MovedBy(m)
  BY <1>2, <1>3, MovedType
<1>5. CASE GivesUp(m, run)
  BY <1>3, <1>4, <1>5, MoveGoesOn DEF GivesUp, Finals
<1>6. CASE SendsBack(m, graph.stages[run.stage], run, Refused(words))
  <2>1. run'.revisions = run.revisions + 1 /\ run.revisions \in Nat
    BY <1>3, <1>4, <1>6 DEF SendsBack, MovedBy, RunType
  <2> QED BY <2>1 DEF GoesOn
<1> QED BY <1>2, <1>5, <1>6

\* Of the results there are, only a watched request tells of an event.
LEMMA ResultsTell ==
  ASSUME TypeOK, NEW produced
  PROVE  /\ Ok(produced).event = "" /\ Error(produced).event = "" /\ Blocked.event = ""
         /\ Watched.event = "comment" => forge.commented
<1>1. \A o, e, p : Result(o, "", e, p).event = e
  BY DEF Result
<1>2. Watched.event = "comment" => forge.commented
  <2> SUFFICES ASSUME ~forge.commented PROVE Watched.event # "comment"
    OBVIOUS
  <2>1. forge.pr \in {"none", "open", "merged", "closed"}
    BY DEF TypeOK
  <2>2. \/ Watched = Result("ok", "", "merge", {})
        \/ Watched = Result("ok", "", "close", {})
        \/ Watched = Result("ok", "", "", {})
    BY <2>1 DEF Watched, Ok
  <2>3. \A e : Result("ok", "", e, {}).event = e
    BY <1>1
  <2> QED BY <2>2, <2>3
<1> QED BY <1>1, <1>2 DEF Ok, Error, Blocked

LEMMA StepGoesOn ==
  ASSUME TypeOK, Step
  PROVE  GoesOn
<1>1. {} \in SUBSET Sections /\ {"workspace"} \in SUBSET Sections
      /\ {"commit"} \in SUBSET Sections
  BY ConstantsAssumption
<1>2. ASSUME NEW x, Ready, Came(x), x.outcome # "refused", x.produced \in SUBSET Sections,
             Tells(x), NEW shape,
             run' = Left(x, shape) \/ run' = [Left(x, shape) EXCEPT !.pr = TRUE]
      PROVE  GoesOn
  BY <1>2, LeavingGoesOn DEF Left
<1>3. ASSUME NEW m, Moving, ApplyMove(m), forge' = forge,
             m = MoveTo("failed") \/ (m = planned /\ (planned.skipped \/ planned.held))
      PROVE  GoesOn
  BY <1>3, PlanningGoesOn
<1>4. ASSUME Ready, forge'.commented = forge.commented, NEW p \in SUBSET Sections, NEW shape,
             run' = Left(Error(p), shape)
      PROVE  GoesOn
  <2>1. Came(Error(p)) /\ Error(p).outcome = "error" /\ Error(p).produced = p
    BY ResultsCame
  <2>2. Tells(Error(p))
    BY <1>4, <2>1, ResultsTell DEF Tells
  <2> QED BY <1>2, <1>4, <2>1, <2>2
<1>5. ASSUME Ready, forge'.commented = forge.commented, NEW p \in SUBSET Sections, NEW shape,
             run' = Left(Ok(p), shape), ~Reopens
      PROVE  GoesOn
  <2>1. Came(Ok(p)) /\ Ok(p).outcome = "ok" /\ Ok(p).produced = p
    BY ResultsCame
  <2>2. Tells(Ok(p))
    BY <1>5, <2>1, ResultsTell DEF Tells
  <2> QED BY <1>2, <1>5, <2>1, <2>2
<1>7. Ready /\ RunsATurn(stage) => ~Reopens
  <2>1. WellFormed(graph)
    BY NamesOfAPipeline DEF TypeOK
  <2> QED BY <2>1 DEF Ready, WellFormed, StageOK, RunsATurn, stage, Reopens
<1>6. CASE Skip \/ Hold \/ OverBudget
  BY <1>3, <1>6 DEF Skip, Hold, OverBudget, Ready
<1>8. CASE TurnAnswers
  <2>1. PICK shape \in Shapes, objects \in BOOLEAN :
          run' = Left(Graded(stage, objects),
                      IF Graded(stage, objects).outcome = "ok" THEN shape ELSE "prose")
    BY <1>8 DEF TurnAnswers
  <2>2. Ready /\ stage.produces \in SUBSET Sections /\ forge' = forge /\ RunsATurn(stage)
    BY <1>8, ReadyAt DEF TurnAnswers
  <2>3. Graded(stage, objects) \in {Error(stage.produces), Ok(stage.produces)}
    BY DEF Graded
  <2> QED BY <1>4, <1>5, <1>7, <2>1, <2>2, <2>3
<1>9. CASE TurnInterrupted
  <2>1. Ready /\ Leave(Blocked) /\ forge' = forge
    BY <1>9 DEF TurnInterrupted
  <2>2. Came(Blocked) /\ Blocked.outcome = "blocked" /\ Blocked.produced = {}
    BY ResultsCame
  <2>3. Tells(Blocked)
    BY <2>1, <2>2, ResultsTell DEF Tells
  <2> QED BY <1>1, <1>2, <2>1, <2>2, <2>3 DEF Leave
<1>10. CASE TurnFails
  BY <1>1, <1>4, <1>10 DEF TurnFails, Leave
<1>11. CASE PrepareWorkspace \/ Teardown
  <2>1. /\ Ready /\ forge' = forge /\ ~Reopens
        /\ Leave(Ok({"workspace"})) \/ Leave(Error({})) \/ Leave(Ok({}))
    BY <1>11 DEF PrepareWorkspace, Teardown, Reopens
  <2> QED BY <1>1, <1>4, <1>5, <2>1 DEF Leave
<1>12. CASE WatchPullRequest
  <2>1. /\ Ready /\ forge' = forge /\ ~Reopens
        /\ Leave(Watched) \/ Leave(Error({}))
    BY <1>12 DEF WatchPullRequest, Reopens
  <2>2. Came(Watched) /\ Watched.outcome = "ok" /\ Watched.produced = {}
    BY ResultsCame
  <2>3. Tells(Watched)
    BY <2>1, ResultsTell DEF Tells
  <2> QED BY <1>1, <1>2, <1>4, <2>1, <2>2, <2>3 DEF Leave
<1>13. CASE CommitAndPush
  <2>1. Ready /\ ~Reopens
    BY <1>13 DEF CommitAndPush, Reopens
  <2>2. \/ Leave(Error({})) /\ forge' = forge
        \/ Leave(Ok({"commit"})) /\ forge' = [forge EXCEPT !.pushed = TRUE]
        \/ \E words \in Complaints : ApplyMove(Advance(graph, run, Refused(words)))
    BY <1>13 DEF CommitAndPush
  <2>3. CASE Leave(Ok({"commit"})) /\ forge' = [forge EXCEPT !.pushed = TRUE]
    <3>1. forge'.commented = forge.commented
      BY <2>3 DEF TypeOK
    <3> QED BY <1>1, <1>5, <2>1, <2>3, <3>1 DEF Leave
  <2> QED BY <1>1, <1>4, <2>1, <2>2, <2>3, RefusingGoesOn DEF Leave
<1>14. CASE OpenPullRequest
  <2>1. Ready /\ Reopens
    BY <1>14 DEF OpenPullRequest, Reopens
  <2>2. CASE Leave(Error({})) /\ forge' = forge
    BY <1>1, <1>4, <2>1, <2>2 DEF Leave
  <2>3. CASE /\ run' = [Left(Ok({}), "prose") EXCEPT !.pr = TRUE]
             /\ forge' = [forge EXCEPT !.pr = "open", !.commented = FALSE]
    <3>1. forge'.commented = FALSE
      BY <2>3 DEF TypeOK
    <3>2. Came(Ok({})) /\ Ok({}).outcome = "ok" /\ Ok({}).produced = {}
      BY ResultsCame
    <3>3. Tells(Ok({}))
      BY <2>1, <3>1, <3>2, ResultsTell DEF Tells
    <3> QED BY <1>1, <1>2, <2>1, <2>3, <3>2, <3>3
  <2> QED BY <1>14, <2>2, <2>3 DEF OpenPullRequest
<1> QED BY <1>6, <1>8, <1>9, <1>10, <1>11, <1>12, <1>13, <1>14 DEF Step

(***************************************************************************)
(* Where every edge of the pipelines leads down in rank, as it does in     *)
(* those that ship, every step of a run stops it, counts one more refusal, *)
(* or leads down: with RevisionsStayBounded, a run that people leave alone *)
(* has only so many steps before it.                                       *)
(***************************************************************************)
THEOREM RunsGoOn == Spec => EveryStepGoesOn
<1>1. TypeOK /\ [Next]_vars => [Step => GoesOn]_vars
  BY StepGoesOn
<1> QED BY <1>1, TypeCorrect, PTL DEF Spec, EveryStepGoesOn
=============================================================================
