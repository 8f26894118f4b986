---------------------------- MODULE Floor_proofs ----------------------------
(***************************************************************************)
(* Proofs about Floor, for every number of workers, runs and teams.        *)
(***************************************************************************)
EXTENDS Floor, PipelineGraph_proofs, FiniteSetTheorems, TLAPS

(***************************************************************************)
(* Rows: apply_move and a commit make rows of rows.                        *)
(***************************************************************************)
LEMMA RowIsAt ==
  ASSUME NEW row \in RowType
  PROVE  At(Graph, row)
BY DEF RowType, At

LEMMA AppliedType ==
  ASSUME NEW row \in RowType, NEW m \in MoveType(Graph), NEW produced \in SUBSET Sections
  PROVE  Applied(row, m, produced) \in RowType
<1> DEFINE outcome == IF IsTerminalMove(m) THEN m.to ELSE row.outcome
           document == row.document \cup produced
<1>1. m.to \in Names(Graph) /\ m.revisions \in Nat /\ m.reason \in Reasons
  BY DEF MoveType
<1>2. m.last_refusal \in Words /\ m.held \in BOOLEAN
  BY DEF MoveType
<1>3. outcome \in Finals \cup {""} /\ document \in SUBSET Sections
  BY DEF IsTerminalMove, RowType
<1>4. Applied(row, m, produced) =
        [row EXCEPT !.stage = m.to, !.reason = m.reason, !.revisions = m.revisions,
              !.last_refusal = m.last_refusal, !.held = m.held,
              !.document = document, !.outcome = outcome]
  BY DEF Applied
<1> HIDE DEF outcome, document
<1> QED BY <1>1, <1>2, <1>3, <1>4 DEF RowType

LEMMA WrittenType ==
  ASSUME NEW row \in RowType, NEW old \in RowType, NEW new \in RowType
  PROVE  Written(row, old, new) \in RowType
BY DEF Written, RowType

LEMMA NewRowType == NewRow \in RowType
<1>1. Graph.first \in Names(Graph)
  BY GraphAssumption DEF WellFormed, Names
<1>2. {"spec"} \subseteq Sections
  BY FloorAssumption
<1> QED BY <1>1, <1>2 DEF NewRow, RowType, Reasons, Words

LEMMA ResultsAreResults ==
  ASSUME NEW n \in DOMAIN Graph.stages, NEW x \in ResultsOf(Graph.stages[n])
  PROVE  x \in ResultType
<1> DEFINE s == Graph.stages[n]
<1>1. s.produces \subseteq Sections
  BY GraphAssumption DEF GraphType, StageType
<1> HIDE DEF s
<1>2. \A o \in Outcomes, e \in Events \cup {""}, c \in Words, D \in SUBSET Sections :
        Result(o, c, e, D) \in ResultType
  BY DEF Result, ResultType
<1>3. /\ "ok" \in Outcomes /\ "error" \in Outcomes /\ "refused" \in Outcomes
      /\ "blocked" \in Outcomes /\ "" \in Words /\ {} \in SUBSET Sections
  BY DEF Outcomes, Words
<1>4. /\ Ok(s.produces) \in ResultType /\ Ok({}) \in ResultType
      /\ Error(s.produces) \in ResultType /\ Error({}) \in ResultType
      /\ Blocked \in ResultType
  BY <1>1, <1>2, <1>3 DEF Ok, Error, Blocked
<1>5. \A c \in Complaints : Refused(c) \in ResultType
  BY <1>2, <1>3 DEF Refused, Words
<1>6. \A e \in Events \cup {""} : Result("ok", "", e, {}) \in ResultType
  BY <1>2, <1>3
<1>7. x \in ResultsOf(s)
  BY DEF s
<1> QED BY <1>4, <1>5, <1>6, <1>7 DEF ResultsOf, TurnResults

-----------------------------------------------------------------------------
(* Types. *)

\* A thread that is past its claim is at a run.
HasAJob == \A x \in Actors : pc[x] \notin {"idle", "claiming"} => job[x] \in Runs

TypeInv == TypeOK /\ HasAJob

LEMMA MovesAreMoves ==
  ASSUME NEW row \in RowType, NEW x \in ResultType
  PROVE  /\ PlanNext(Graph, row) \in MoveType(Graph)
         /\ MoveTo("failed") \in MoveType(Graph)
         /\ Advance(Graph, row, x) \in MoveType(Graph)
<1>1. At(Graph, row) /\ GraphType(Graph) /\ Came(x)
  BY RowIsAt, GraphAssumption DEF Came, ResultType
<1>2. MoveTo("failed") \in MoveType(Graph)
  BY MoveTyped DEF MoveTo, Names, Reasons, Words
<1> QED BY <1>1, <1>2, PlanNextType, AdvanceFromAnywhere

LEMMA TypeInit ==
  ASSUME Init
  PROVE  TypeInv
<1>1. NewRow \in RowType /\ "" \in Words
  BY NewRowType DEF Words
<1>2. Blocked \in ResultType
  BY DEF Blocked, Result, ResultType, Outcomes, Words
<1>3. Nothing \in [at : Names(Graph) \cup {""}, result : ResultType]
  BY <1>2 DEF Nothing
<1>4. MoveTo("failed") \in MoveType(Graph)
  BY MoveTyped DEF MoveTo, Names, Reasons, Words
<1>5. rows \in [Runs -> RowType] /\ read \in [Actors -> RowType]
  BY <1>1 DEF Init
<1>6. /\ made \in [Actors -> [at : Names(Graph) \cup {""}, result : ResultType]]
      /\ moving \in [Actors -> MoveType(Graph)]
  BY <1>3, <1>4 DEF Init
<1>7. in_flight = [t \in Teams |-> 0]
  BY Zenon DEF Init
<1>8. in_flight \in [Teams -> Int]
  BY <1>7
<1>9. /\ claimed_by \in [Runs -> Workers \cup {""}] /\ stale \in [Runs -> BOOLEAN]
      /\ team_id \in [Owners -> Teams \cup {""}]
  BY Zenon DEF Init
<1>10. /\ pc \in [Actors -> Places] /\ candidates \in [Actors -> SUBSET Runs]
       /\ job \in [Actors -> Runs \cup {NoRun}] /\ slot \in [Actors -> Teams \cup {""}]
  BY DEF Init, Places
<1>11. MaxCrashes \in Nat /\ MaxApprovals \in Nat /\ crashes = 0 /\ approvals = 0
  BY FloorAssumption DEF Init
<1>12. crashes \in 0..MaxCrashes /\ approvals \in 0..MaxApprovals
  BY <1>11
<1>13. HasAJob
  BY DEF Init, HasAJob
<1> QED BY <1>5, <1>6, <1>8, <1>9, <1>10, <1>12, <1>13 DEF TypeInv, TypeOK

\* What a thread that is past its claim has before it.
LEMMA ItsRow ==
  ASSUME TypeInv, NEW x \in Actors, pc[x] \notin {"idle", "claiming"}
  PROVE  /\ job[x] \in Runs /\ rows[job[x]] \in RowType
         /\ read[x] \in RowType /\ moving[x] \in MoveType(Graph)
         /\ made[x].at \in Names(Graph) \cup {""} /\ made[x].result \in ResultType
         /\ made[x].result.produced \in SUBSET Sections
         /\ planned(x) \in MoveType(Graph) /\ MoveTo("failed") \in MoveType(Graph)
         /\ Advance(Graph, rows[job[x]], made[x].result) \in MoveType(Graph)
<1>1. job[x] \in Runs /\ rows[job[x]] \in RowType /\ read[x] \in RowType
  BY DEF TypeInv, TypeOK, HasAJob
<1>2. /\ moving[x] \in MoveType(Graph) /\ made[x].at \in Names(Graph) \cup {""}
      /\ made[x].result \in ResultType
  BY DEF TypeInv, TypeOK
<1>3. made[x].result.produced \in SUBSET Sections
  BY <1>2 DEF ResultType
<1> QED BY <1>1, <1>2, <1>3, MovesAreMoves DEF planned

LEMMA ForgetType ==
  ASSUME TypeInv, NEW x \in Actors, Forget(x)
  PROVE  /\ read' \in [Actors -> RowType] /\ moving' \in [Actors -> MoveType(Graph)]
         /\ made' \in [Actors -> [at : Names(Graph) \cup {""}, result : ResultType]]
<1>1. NewRow \in RowType /\ MoveTo("failed") \in MoveType(Graph) /\ Blocked \in ResultType
  BY NewRowType, MoveTyped
     DEF MoveTo, Names, Reasons, Words, Blocked, Result, ResultType, Outcomes
<1>2. Nothing \in [at : Names(Graph) \cup {""}, result : ResultType]
  BY <1>1 DEF Nothing
<1> QED BY <1>1, <1>2 DEF Forget, TypeInv, TypeOK

LEMMA TypeInTurns ==
  ASSUME TypeInv, NEW w \in Workers,
         Tick(w) \/ claim(w) \/ TooLate(w) \/ EnterSlot(w) \/ NoRoom(w)
           \/ LeaveSlot(w) \/ release(w)
  PROVE  TypeInv'
<1>0. w \in Actors
  BY DEF Actors
<1>1. CASE Tick(w)
  <2>1. candidates' \in [Actors -> SUBSET Runs] /\ pc' \in [Actors -> Places]
    BY <1>1 DEF Tick, Goes, actionable, Places, TypeInv, TypeOK
  <2>2. HasAJob'
    BY <1>1 DEF Tick, Goes, Is, TypeInv, TypeOK, HasAJob
  <2> QED BY <1>1, <2>1, <2>2 DEF Tick, floorVars, TypeInv, TypeOK
<1>2. CASE claim(w)
  <2>1. PICK r \in Runs : /\ claimed_by' = [claimed_by EXCEPT ![r] = w]
                          /\ stale' = [stale EXCEPT ![r] = FALSE]
                          /\ job' = [job EXCEPT ![w] = r]
    BY <1>2 DEF claim
  <2>2. stale' \in [Runs -> BOOLEAN]
    BY <2>1, Zenon DEF TypeInv, TypeOK
  <2>3. /\ claimed_by' \in [Runs -> Workers \cup {""}]
        /\ job' \in [Actors -> Runs \cup {NoRun}]
        /\ candidates' \in [Actors -> SUBSET Runs] /\ pc' \in [Actors -> Places]
    BY <1>2, <2>1 DEF claim, Goes, Places, TypeInv, TypeOK
  <2>4. HasAJob'
    BY <1>0, <1>2, <2>1 DEF claim, Goes, TypeInv, TypeOK, HasAJob
  <2> QED BY <1>2, <2>2, <2>3, <2>4 DEF claim, TypeInv, TypeOK
<1>3. CASE TooLate(w)
  <2>1. /\ candidates' \in [Actors -> SUBSET Runs]
        /\ \E p \in {"idle", "claiming"} : pc' = [pc EXCEPT ![w] = p]
    BY <1>3 DEF TooLate, Goes, TypeInv, TypeOK
  <2>3. pc' \in [Actors -> Places]
    BY <2>1 DEF Places, TypeInv, TypeOK
  <2>2. HasAJob'
    BY <1>3 DEF TooLate, Goes, Is, floorVars, TypeInv, TypeOK, HasAJob
  <2> QED BY <1>3, <2>1, <2>2, <2>3 DEF TooLate, floorVars, TypeInv, TypeOK
<1>4. CASE EnterSlot(w)
  <2> DEFINE t == TeamOf(job[w])
  <2>1. pc[w] = "claimed" /\ job[w] \in Runs
    BY <1>0, <1>4 DEF EnterSlot, Is, TypeInv, HasAJob
  <2>2. rows[job[w]] \in RowType /\ t \in Teams \cup {""}
    BY <2>1, FloorAssumption DEF TeamOf, TypeInv, TypeOK
  <2>3. read' \in [Actors -> RowType] /\ pc' \in [Actors -> Places]
    BY <1>4, <2>2 DEF EnterSlot, Goes, Places, TypeInv, TypeOK
  <2>4. \/ slot' = [slot EXCEPT ![w] = t] /\ in_flight' = [in_flight EXCEPT ![t] = @ + 1]
        \/ UNCHANGED <<slot, in_flight>>
    BY <1>4 DEF EnterSlot
  <2> HIDE DEF t
  <2>5. slot' \in [Actors -> Teams \cup {""}]
    BY <2>2, <2>4 DEF TypeInv, TypeOK
  <2>7. in_flight \in [Teams -> Int]
    BY DEF TypeInv, TypeOK
  <2>8. in_flight' \in [Teams -> Int]
    BY <2>4, <2>7
  <2>6. HasAJob'
    BY <1>4, <2>1 DEF EnterSlot, Goes, TypeInv, TypeOK, HasAJob
  <2> QED BY <1>4, <2>3, <2>5, <2>6, <2>8 DEF EnterSlot, TypeInv, TypeOK
<1>5. CASE NoRoom(w)
  <2>1. pc' \in [Actors -> Places]
    BY <1>5 DEF NoRoom, Goes, Places, TypeInv, TypeOK
  <2>2. HasAJob'
    BY <1>0, <1>5 DEF NoRoom, Goes, Is, TypeInv, TypeOK, HasAJob
  <2> QED BY <1>5, <2>1, <2>2 DEF NoRoom, floorVars, TypeInv, TypeOK
<1>6. CASE LeaveSlot(w)
  <2>1. pc' \in [Actors -> Places] /\ slot' \in [Actors -> Teams \cup {""}]
    BY <1>6 DEF LeaveSlot, Goes, Places, TypeInv, TypeOK
  <2>5. in_flight \in [Teams -> Int]
    BY DEF TypeInv, TypeOK
  <2>6. in_flight' = in_flight \/ in_flight' = [in_flight EXCEPT ![slot[w]] = @ - 1]
    BY <1>6 DEF LeaveSlot, LeftSlot
  <2>2. in_flight' \in [Teams -> Int]
    BY <2>5, <2>6
  <2>3. /\ read' \in [Actors -> RowType] /\ moving' \in [Actors -> MoveType(Graph)]
        /\ made' \in [Actors -> [at : Names(Graph) \cup {""}, result : ResultType]]
    BY <1>0, <1>6, ForgetType DEF LeaveSlot, TypeInv, TypeOK
  <2>4. HasAJob'
    BY <1>6 DEF LeaveSlot, Goes, Is, TypeInv, TypeOK, HasAJob
  <2> QED BY <1>6, <2>1, <2>2, <2>3, <2>4 DEF LeaveSlot, TypeInv, TypeOK
<1>7. CASE release(w)
  <2>1. stale' \in [Runs -> BOOLEAN]
    BY <1>7, Zenon DEF release, TypeInv, TypeOK
  <2>2. /\ claimed_by' \in [Runs -> Workers \cup {""}] /\ pc' \in [Actors -> Places]
        /\ job' \in [Actors -> Runs \cup {NoRun}]
    BY <1>7 DEF release, Goes, Places, TypeInv, TypeOK
  <2>3. HasAJob'
    BY <1>0, <1>7 DEF release, Goes, TypeInv, TypeOK, HasAJob
  <2> QED BY <1>7, <2>1, <2>2, <2>3 DEF release, TypeInv, TypeOK
<1> QED BY <1>1, <1>2, <1>3, <1>4, <1>5, <1>6, <1>7

LEMMA TypeInSteps ==
  ASSUME TypeInv, NEW x \in Actors, Step(x)
  PROVE  TypeInv'
<1>1. CASE AlreadyFinished(x) \/ Raise(x)
  <2>1. pc' \in [Actors -> Places]
    BY <1>1 DEF AlreadyFinished, Raise, Goes, Places, TypeInv, TypeOK
  <2>2. HasAJob'
    BY <1>1 DEF AlreadyFinished, Raise, Ready, Goes, Is, TypeInv, TypeOK, HasAJob
  <2> QED BY <1>1, <2>1, <2>2 DEF AlreadyFinished, Raise, floorVars, TypeInv, TypeOK
<1>2. CASE PassOver(x) \/ OverBudget(x)
  <2>1. Is(x, "stepping") /\ pc' = [pc EXCEPT ![x] = "writing"] /\ job' = job
    BY <1>2 DEF PassOver, OverBudget, Ready, Goes
  <2>2. rows[job[x]] \in RowType /\ planned(x) \in MoveType(Graph)
        /\ MoveTo("failed") \in MoveType(Graph)
    BY <2>1, ItsRow DEF Is
  <2>3. pc' \in [Actors -> Places] /\ HasAJob'
    BY <2>1 DEF Is, Places, TypeInv, TypeOK, HasAJob
  <2>4. moving' \in [Actors -> MoveType(Graph)]
    BY <1>2, <2>2 DEF PassOver, OverBudget, TypeInv, TypeOK
  <2>5. read' = read \/ read' = [read EXCEPT ![x] = rows[job[x]]]
    <3>1. CASE PassOver(x)
      <4>1. PICK held \in BOOLEAN :
              read' = [read EXCEPT ![x] = IF held THEN @ ELSE rows[job[x]]]
        BY <3>1, Zenon DEF PassOver
      <4> QED BY <4>1 DEF TypeInv, TypeOK
    <3>2. CASE OverBudget(x)
      BY <3>2 DEF OverBudget
    <3> QED BY <1>2, <3>1, <3>2
  <2>6. read' \in [Actors -> RowType]
    BY <2>2, <2>5 DEF TypeInv, TypeOK
  <2> QED BY <1>2, <2>3, <2>4, <2>6 DEF PassOver, OverBudget, floorVars, TypeInv, TypeOK
<1>3. CASE Work(x)
  <2>1. pc' \in [Actors -> Places] /\ HasAJob'
    BY <1>3 DEF Work, Ready, Goes, Is, Places, floorVars, TypeInv, TypeOK, HasAJob
  <2>2. PICK y \in ResultType : made' = [made EXCEPT ![x] = [at |-> read[x].stage, result |-> y]]
    BY <1>3, ResultsAreResults DEF Work
  <2>3. read[x].stage \in Names(Graph)
    BY <1>3 DEF Work, Names
  <2>4. made' \in [Actors -> [at : Names(Graph) \cup {""}, result : ResultType]]
    BY <2>2, <2>3 DEF TypeInv, TypeOK
  <2> QED BY <1>3, <2>1, <2>4 DEF Work, floorVars, TypeInv, TypeOK
<1>4. CASE Decide(x)
  <2>1. Is(x, "working") /\ pc' = [pc EXCEPT ![x] = "writing"] /\ job' = job
    BY <1>4 DEF Decide, Goes
  <2>2. rows[job[x]] \in RowType
        /\ Advance(Graph, rows[job[x]], made[x].result) \in MoveType(Graph)
    BY <2>1, ItsRow DEF Is
  <2>3. pc' \in [Actors -> Places] /\ HasAJob'
    BY <2>1 DEF Is, Places, TypeInv, TypeOK, HasAJob
  <2>4. moving' \in [Actors -> MoveType(Graph)] /\ read' \in [Actors -> RowType]
    BY <1>4, <2>2 DEF Decide, TypeInv, TypeOK
  <2> QED BY <1>4, <2>3, <2>4 DEF Decide, floorVars, TypeInv, TypeOK
<1>5. CASE ApplyMove(x)
  <2>1. Is(x, "writing") /\ pc' = [pc EXCEPT ![x] = "leaving"] /\ job' = job
    BY <1>5 DEF ApplyMove, Goes
  <2>2. /\ job[x] \in Runs /\ rows[job[x]] \in RowType /\ read[x] \in RowType
        /\ moving[x] \in MoveType(Graph) /\ made[x].result.produced \in SUBSET Sections
    BY <2>1, ItsRow DEF Is
  <2> DEFINE row == Written(rows[job[x]], read[x],
                            Applied(read[x], moving[x], made[x].result.produced))
  <2>3. row \in RowType
    BY <2>2, AppliedType, WrittenType
  <2>4. rows' = [rows EXCEPT ![job[x]] = row]
    BY <1>5, <2>2 DEF ApplyMove, TypeInv, TypeOK
  <2> HIDE DEF row
  <2>5. rows' \in [Runs -> RowType]
    BY <2>3, <2>4 DEF TypeInv, TypeOK
  <2>6. pc' \in [Actors -> Places] /\ HasAJob'
    BY <2>1 DEF Is, Places, TypeInv, TypeOK, HasAJob
  <2> QED BY <1>5, <2>5, <2>6 DEF ApplyMove, TypeInv, TypeOK
<1> QED BY <1>1, <1>2, <1>3, <1>4, <1>5 DEF Step

LEMMA TypeByHand ==
  ASSUME TypeInv, NEW a \in Advancers, (\E r \in Runs : AdvanceByHand(a, r)) \/ Answer(a)
  PROVE  TypeInv'
<1>0. a \in Actors
  BY DEF Actors
<1>1. ASSUME NEW r \in Runs, AdvanceByHand(a, r)
      PROVE  TypeInv'
  <2>1. /\ pc' \in [Actors -> Places] /\ job' \in [Actors -> Runs \cup {NoRun}]
        /\ read' \in [Actors -> RowType]
    BY <1>1 DEF AdvanceByHand, Goes, Places, TypeInv, TypeOK
  <2>2. HasAJob'
    BY <1>0, <1>1 DEF AdvanceByHand, Goes, TypeInv, TypeOK, HasAJob
  <2> QED BY <1>1, <2>1, <2>2 DEF AdvanceByHand, floorVars, TypeInv, TypeOK
<1>2. CASE Answer(a)
  <2>1. pc' \in [Actors -> Places] /\ job' \in [Actors -> Runs \cup {NoRun}]
    BY <1>2 DEF Answer, Goes, Places, TypeInv, TypeOK
  <2>2. HasAJob'
    BY <1>0, <1>2 DEF Answer, Goes, TypeInv, TypeOK, HasAJob
  <2>3. /\ read' \in [Actors -> RowType] /\ moving' \in [Actors -> MoveType(Graph)]
        /\ made' \in [Actors -> [at : Names(Graph) \cup {""}, result : ResultType]]
    BY <1>0, <1>2, ForgetType DEF Answer
  <2> QED BY <1>2, <2>1, <2>2, <2>3 DEF Answer, floorVars, TypeInv, TypeOK
<1> QED BY <1>1, <1>2

LEMMA ApprovedType ==
  ASSUME NEW row \in RowType
  PROVE  [row EXCEPT !.approved = TRUE, !.held = FALSE] \in RowType
BY DEF RowType

LEMMA TypeAround ==
  ASSUME TypeInv,
         \/ \E r \in Runs : Approve(r) \/ Expire(r)
         \/ \E o \in Owners : SetTeam(o)
         \/ Crash
  PROVE  TypeInv'
<1>1. ASSUME NEW r \in Runs, Approve(r)
      PROVE  TypeInv'
  <2>1. rows[r] \in RowType
    BY DEF TypeInv, TypeOK
  <2>2. [rows[r] EXCEPT !.approved = TRUE, !.held = FALSE] \in RowType
    BY <2>1, ApprovedType
  <2>3. rows' = [rows EXCEPT ![r] = [rows[r] EXCEPT !.approved = TRUE, !.held = FALSE]]
    BY <1>1, <2>1 DEF Approve, RowType, TypeInv, TypeOK
  <2>4. rows' \in [Runs -> RowType]
    BY <2>2, <2>3 DEF TypeInv, TypeOK
  <2>5. approvals \in 0..MaxApprovals /\ approvals < MaxApprovals /\ approvals' = approvals + 1
    BY <1>1 DEF Approve, TypeInv, TypeOK
  <2>6. MaxApprovals \in Nat
    BY FloorAssumption
  <2>7. approvals' \in 0..MaxApprovals
    BY <2>5, <2>6
  <2>8. HasAJob'
    BY <1>1 DEF Approve, threadVars, TypeInv, HasAJob
  <2> QED BY <1>1, <2>4, <2>7, <2>8 DEF Approve, threadVars, TypeInv, TypeOK
<1>2. ASSUME NEW r \in Runs, Expire(r)
      PROVE  TypeInv'
  <2>1. stale' \in [Runs -> BOOLEAN]
    BY <1>2, Zenon DEF Expire, TypeInv, TypeOK
  <2>2. HasAJob'
    BY <1>2 DEF Expire, threadVars, TypeInv, HasAJob
  <2> QED BY <1>2, <2>1, <2>2 DEF Expire, threadVars, TypeInv, TypeOK
<1>3. ASSUME NEW o \in Owners, SetTeam(o)
      PROVE  TypeInv'
  <2>1. team_id' \in [Owners -> Teams \cup {""}]
    BY <1>3 DEF SetTeam, TypeInv, TypeOK
  <2>2. HasAJob'
    BY <1>3 DEF SetTeam, threadVars, TypeInv, HasAJob
  <2> QED BY <1>3, <2>1, <2>2 DEF SetTeam, threadVars, TypeInv, TypeOK
<1>4. CASE Crash
  <2>1. NewRow \in RowType /\ MoveTo("failed") \in MoveType(Graph) /\ Blocked \in ResultType
    BY NewRowType, MoveTyped
       DEF MoveTo, Names, Reasons, Words, Blocked, Result, ResultType, Outcomes
  <2>2. Nothing \in [at : Names(Graph) \cup {""}, result : ResultType]
    BY <2>1 DEF Nothing
  <2>3. /\ made' \in [Actors -> [at : Names(Graph) \cup {""}, result : ResultType]]
        /\ moving' \in [Actors -> MoveType(Graph)] /\ read' \in [Actors -> RowType]
    BY <1>4, <2>1, <2>2 DEF Crash
  <2>4. /\ pc' \in [Actors -> Places] /\ candidates' \in [Actors -> SUBSET Runs]
        /\ job' \in [Actors -> Runs \cup {NoRun}] /\ slot' \in [Actors -> Teams \cup {""}]
    BY <1>4 DEF Crash, Places
  <2>5. in_flight' = [t \in Teams |-> 0]
    BY <1>4 DEF Crash
  <2>6. in_flight' \in [Teams -> Int]
    BY <2>5
  <2>7. /\ crashes \in 0..MaxCrashes /\ crashes < MaxCrashes /\ crashes' = crashes + 1
    BY <1>4 DEF Crash, TypeInv, TypeOK
  <2>8. MaxCrashes \in Nat
    BY FloorAssumption
  <2>9. crashes' \in 0..MaxCrashes
    BY <2>7, <2>8
  <2>10. HasAJob'
    BY <1>4 DEF Crash, HasAJob
  <2> QED BY <1>4, <2>3, <2>4, <2>6, <2>9, <2>10 DEF Crash, TypeInv, TypeOK
<1> QED BY <1>1, <1>2, <1>3, <1>4

LEMMA TypeStep ==
  ASSUME TypeInv, [Next]_vars
  PROVE  TypeInv'
<1>1. CASE UNCHANGED vars
  BY <1>1 DEF vars, floorVars, threadVars, TypeInv, TypeOK, HasAJob
<1>2. ASSUME NEW w \in Workers, Turn(w)
      PROVE  TypeInv'
  BY <1>2, TypeInTurns, TypeInSteps DEF Turn, Actors
<1>3. ASSUME NEW a \in Advancers, ByHand(a)
      PROVE  TypeInv'
  BY <1>3, TypeByHand, TypeInSteps DEF ByHand, Actors
<1> QED BY <1>1, <1>2, <1>3, TypeAround DEF Next

(***************************************************************************)
(* Every variable has its type, whatever the workers, the people and the   *)
(* crashes do.                                                             *)
(***************************************************************************)
THEOREM TypeCorrectOnTheFloor == Spec => []TypeOK
<1>1. TypeInv => TypeOK
  BY DEF TypeInv
<1> QED BY <1>1, TypeInit, TypeStep, PTL DEF Spec

-----------------------------------------------------------------------------
(* What a step does to the rows. *)

LEMMA WrittenFields ==
  ASSUME NEW row \in RowType, NEW old \in RowType, NEW m \in MoveType(Graph),
         NEW produced, NEW row2, row2 = Written(row, old, Applied(old, m, produced))
  PROVE  /\ row2.approved = row.approved
         /\ row2.revisions = IF m.revisions = old.revisions THEN row.revisions ELSE m.revisions
         /\ row2.stage = IF m.to = old.stage THEN row.stage ELSE m.to
         /\ row2.held = IF m.held = old.held THEN row.held ELSE m.held
<1> DEFINE new == Applied(old, m, produced)
<1>1. /\ new.approved = old.approved /\ new.revisions = m.revisions
      /\ new.stage = m.to /\ new.held = m.held
  BY DEF Applied, RowType
<1> HIDE DEF new
<1>2. row2 = [f \in DOMAIN row |-> IF new[f] = old[f] THEN row[f] ELSE new[f]]
  BY DEF Written, new
<1>3. {"approved", "revisions", "stage", "held"} \subseteq DOMAIN row
  BY DEF RowType
<1> QED BY <1>1, <1>2, <1>3

\* A row changes when somebody approves the run, or a thread at it writes its move.
LEMMA RowsChange ==
  ASSUME TypeInv, Next, NEW r \in Runs
  PROVE  \/ rows'[r] = rows[r]
         \/ /\ rows'[r] = [rows[r] EXCEPT !.approved = TRUE, !.held = FALSE]
            /\ approvals' = approvals + 1
            /\ UNCHANGED <<claimed_by, stale, threadVars>>
         \/ \E x \in Actors :
              /\ ApplyMove(x) /\ pc[x] = "writing" /\ job[x] = r
              /\ rows'[r] = Written(rows[r], read[x],
                              Applied(read[x], moving[x], made[x].result.produced))
<1> DEFINE Goal ==
         \/ rows'[r] = rows[r]
         \/ /\ rows'[r] = [rows[r] EXCEPT !.approved = TRUE, !.held = FALSE]
            /\ approvals' = approvals + 1
            /\ UNCHANGED <<claimed_by, stale, threadVars>>
         \/ \E x \in Actors :
              /\ ApplyMove(x) /\ pc[x] = "writing" /\ job[x] = r
              /\ rows'[r] = Written(rows[r], read[x],
                              Applied(read[x], moving[x], made[x].result.produced))
<1>1. ASSUME NEW x \in Actors, Step(x)
      PROVE  Goal
  <2>1. CASE ApplyMove(x)
    <3>1. pc[x] = "writing" /\ rows \in [Runs -> RowType]
      BY <2>1 DEF ApplyMove, Is, TypeInv, TypeOK
    <3> QED BY <2>1, <3>1 DEF ApplyMove
  <2>2. CASE AlreadyFinished(x) \/ PassOver(x) \/ OverBudget(x) \/ Work(x) \/ Raise(x) \/ Decide(x)
    BY <2>2 DEF AlreadyFinished, PassOver, OverBudget, Work, Raise, Decide, floorVars
  <2> QED BY <1>1, <2>1, <2>2 DEF Step
<1>2. ASSUME NEW w \in Workers, Turn(w)
      PROVE  Goal
  <2>1. CASE Tick(w) \/ claim(w) \/ TooLate(w) \/ EnterSlot(w) \/ NoRoom(w)
               \/ LeaveSlot(w) \/ release(w)
    BY <2>1 DEF Tick, claim, TooLate, EnterSlot, NoRoom, LeaveSlot, release, floorVars
  <2> HIDE DEF Goal
  <2> QED BY <1>1, <1>2, <2>1 DEF Turn, Actors
<1>3. ASSUME NEW a \in Advancers, ByHand(a)
      PROVE  Goal
  <2>1. CASE (\E q \in Runs : AdvanceByHand(a, q)) \/ Answer(a)
    BY <2>1 DEF AdvanceByHand, Answer, floorVars
  <2> HIDE DEF Goal
  <2> QED BY <1>1, <1>3, <2>1 DEF ByHand, Actors
<1>4. ASSUME NEW q \in Runs, Approve(q)
      PROVE  Goal
  <2>1. rows \in [Runs -> RowType]
    BY DEF TypeInv, TypeOK
  <2>2. rows' = [rows EXCEPT ![q] = [rows[q] EXCEPT !.approved = TRUE, !.held = FALSE]]
    BY <1>4, <2>1 DEF Approve, RowType
  <2> QED BY <1>4, <2>1, <2>2 DEF Approve
<1>5. ASSUME (\E q \in Runs : Expire(q)) \/ (\E o \in Owners : SetTeam(o)) \/ Crash
      PROVE  Goal
  BY <1>5 DEF Expire, SetTeam, Crash
<1> HIDE DEF Goal
<1>6. Goal
  <2>1. \/ \E w \in Workers : Turn(w)
        \/ \E a \in Advancers : ByHand(a)
        \/ \E q \in Runs : Approve(q)
        \/ \E q \in Runs : Expire(q)
        \/ \E o \in Owners : SetTeam(o)
        \/ Crash
    BY Zenon DEF Next
  <2> QED BY <1>2, <1>3, <1>4, <1>5, <2>1
<1> QED BY <1>6 DEF Goal

(***************************************************************************)
(* No write of any thread takes an approval back: a move changes other     *)
(* columns, and a commit writes only the columns that changed.             *)
(***************************************************************************)
THEOREM ApprovalsAreKept == Spec => ApprovalsLast
<1>1. ASSUME TypeInv, [Next]_vars
      PROVE  [\A r \in Runs : rows[r].approved => rows'[r].approved]_vars
  <2>1. CASE UNCHANGED vars
    BY <2>1
  <2>2. ASSUME Next, NEW r \in Runs, rows[r].approved
        PROVE  rows'[r].approved
    <3>1. rows[r] \in RowType
      BY <1>1 DEF TypeInv, TypeOK
    <3>2. CASE rows'[r] = [rows[r] EXCEPT !.approved = TRUE, !.held = FALSE]
      BY <3>1, <3>2 DEF RowType
    <3>3. ASSUME NEW x \in Actors, pc[x] = "writing", job[x] = r,
                 rows'[r] = Written(rows[r], read[x],
                              Applied(read[x], moving[x], made[x].result.produced))
          PROVE  rows'[r].approved = rows[r].approved
      <4>1. read[x] \in RowType /\ moving[x] \in MoveType(Graph)
        BY <1>1, <3>3 DEF TypeInv, TypeOK
      <4> QED BY <3>1, <3>3, <4>1, WrittenFields
    <3> QED BY <1>1, <2>2, <3>2, <3>3, RowsChange, Zenon
  <2> QED BY <1>1, <2>1, <2>2
<1> QED BY <1>1, TypeInit, TypeStep, PTL DEF Spec, ApprovalsLast

-----------------------------------------------------------------------------
(* Revisions. *)

\* What a thread has read is a row of the table; what it is about to write is decided
\* from such a row.
ReadsARow(x) == read'[x] = read[x] \/ read'[x] = NewRow \/ \E r \in Runs : read'[x] = rows[r]

Decides(x) ==
  \/ moving'[x] = moving[x] \/ moving'[x] = MoveTo("failed") \/ moving'[x] = planned(x)
  \/ \E r \in Runs, y \in ResultType : moving'[x] = Advance(Graph, rows[r], y)

LEMMA ThreadsChange ==
  ASSUME TypeInv, Next, NEW x \in Actors
  PROVE  ReadsARow(x) /\ Decides(x)
<1> DEFINE Goal == ReadsARow(x) /\ Decides(x)
<1>0. read \in [Actors -> RowType] /\ moving \in [Actors -> MoveType(Graph)]
  BY DEF TypeInv, TypeOK
<1>1. ASSUME read' = read, moving' = moving
      PROVE  Goal
  BY <1>1 DEF ReadsARow, Decides
<1>2. ASSUME NEW y \in Actors, Forget(y)
      PROVE  Goal
  BY <1>0, <1>2 DEF Forget, ReadsARow, Decides
<1>3. ASSUME NEW y \in Actors, NEW r \in Runs, read' = [read EXCEPT ![y] = rows[r]],
             moving' = moving
      PROVE  Goal
  BY <1>0, <1>3 DEF ReadsARow, Decides
<1>4. ASSUME NEW y \in Actors, Step(y)
      PROVE  Goal
  <2>1. CASE AlreadyFinished(y) \/ Raise(y) \/ Work(y) \/ ApplyMove(y)
    BY <1>1, <2>1 DEF AlreadyFinished, Raise, Work, ApplyMove
  <2>2. ASSUME PassOver(y) \/ OverBudget(y) \/ Decide(y)
        PROVE  Goal
    <3>1. job[y] \in Runs /\ made[y].result \in ResultType
      BY <2>2, ItsRow DEF PassOver, OverBudget, Decide, Ready, Is
    <3>2. read' = [read EXCEPT ![y] = rows[job[y]]] \/ read' = read
      <4>1. CASE PassOver(y)
        <5>1. PICK held \in BOOLEAN :
                read' = [read EXCEPT ![y] = IF held THEN @ ELSE rows[job[y]]]
          BY <4>1, Zenon DEF PassOver
        <5> QED BY <1>0, <5>1
      <4>2. CASE OverBudget(y) \/ Decide(y)
        BY <4>2 DEF OverBudget, Decide
      <4> QED BY <2>2, <4>1, <4>2
    <3>3. \/ moving' = [moving EXCEPT ![y] = planned(y)]
          \/ moving' = [moving EXCEPT ![y] = MoveTo("failed")]
          \/ moving' = [moving EXCEPT ![y] = Advance(Graph, rows[job[y]], made[y].result)]
      BY <2>2 DEF PassOver, OverBudget, Decide
    <3>4. ReadsARow(x)
      BY <1>0, <3>1, <3>2 DEF ReadsARow
    <3>5. Decides(x)
      BY <1>0, <3>1, <3>3 DEF Decides
    <3> QED BY <3>4, <3>5
  <2> HIDE DEF Goal
  <2>3. ASSUME AlreadyFinished(y) \/ Raise(y) \/ Work(y) \/ ApplyMove(y)
        PROVE  Goal
    BY <1>1, <2>3 DEF AlreadyFinished, Raise, Work, ApplyMove
  <2> QED BY <1>4, <2>2, <2>3 DEF Step
<1>5. ASSUME NEW w \in Workers, Turn(w)
      PROVE  Goal
  <2> HIDE DEF Goal
  <2>0. w \in Actors
    BY DEF Actors
  <2>1. ASSUME Tick(w) \/ claim(w) \/ TooLate(w) \/ NoRoom(w) \/ release(w)
        PROVE  Goal
    BY <1>1, <2>1 DEF Tick, claim, TooLate, NoRoom, release
  <2>2. ASSUME EnterSlot(w)
        PROVE  Goal
    <3>1. job[w] \in Runs
      BY <2>0, <2>2, ItsRow DEF EnterSlot, Is
    <3> QED BY <1>3, <2>0, <2>2, <3>1 DEF EnterSlot
  <2>3. ASSUME LeaveSlot(w)
        PROVE  Goal
    BY <1>2, <2>0, <2>3 DEF LeaveSlot
  <2> QED BY <1>4, <1>5, <2>0, <2>1, <2>2, <2>3 DEF Turn
<1>6. ASSUME NEW a \in Advancers, ByHand(a)
      PROVE  Goal
  <2> HIDE DEF Goal
  <2>0. a \in Actors
    BY DEF Actors
  <2>1. ASSUME NEW r \in Runs, AdvanceByHand(a, r)
        PROVE  Goal
    BY <1>3, <2>0, <2>1 DEF AdvanceByHand
  <2>2. ASSUME Answer(a)
        PROVE  Goal
    BY <1>2, <2>0, <2>2 DEF Answer
  <2> QED BY <1>4, <1>6, <2>0, <2>1, <2>2 DEF ByHand
<1>7. ASSUME Crash
      PROVE  Goal
  BY <1>7 DEF Crash, ReadsARow, Decides
<1>8. ASSUME (\E r \in Runs : Approve(r) \/ Expire(r)) \/ (\E o \in Owners : SetTeam(o))
      PROVE  Goal
  BY <1>1, <1>8 DEF Approve, Expire, SetTeam, threadVars
<1> HIDE DEF Goal
<1>9. Goal
  BY <1>5, <1>6, <1>7, <1>8 DEF Next
<1> QED BY <1>9 DEF Goal

LEMMA NoneIsAllowed == 0 \in Allowed
BY DEF Allowed

\* No move that is decided from a row within bounds leaves them.
LEMMA MovesWithinBounds ==
  ASSUME NEW row \in RowType, row.revisions \in Allowed, NEW x \in ResultType
  PROVE  /\ PlanNext(Graph, row).revisions \in Allowed
         /\ Advance(Graph, row, x).revisions \in Allowed
<1>1. At(Graph, row) /\ GraphType(Graph) /\ Came(x)
  BY RowIsAt, GraphAssumption DEF Came, ResultType
<1>2. \A to : MoveTo(to).revisions \in Allowed
  BY NoneIsAllowed DEF MoveTo, Move
<1>3. CASE row.stage \in DOMAIN Graph.stages \ Graph.terminal
  <2>1. PlanNext(Graph, row).revisions \in Allowed
    BY <1>1, <1>3, PlanNextType DEF Keeps
  <2> DEFINE m == Advance(Graph, row, x)
             s == Graph.stages[row.stage]
  <2>2. \/ m.revisions = row.revisions
        \/ m.revisions = row.revisions + 1 /\ m.revisions <= s.max_revisions /\ s.on_refusal # ""
    <3>1. Keeps(m, row) \/ GivesUp(m, row) \/ SendsBack(m, s, row, x)
      BY <1>1, <1>3, AdvanceType, GraphAssumption, Zenon
    <3> HIDE DEF m, s
    <3> QED BY <3>1 DEF Keeps, GivesUp, SendsBack
  <2>3. row.revisions \in Nat
    BY DEF RowType
  <2>4. m.revisions \in Nat
    <3>1. m.revisions = row.revisions \/ m.revisions = row.revisions + 1
      BY <2>2, Zenon
    <3> HIDE DEF m
    <3> QED BY <2>3, <3>1
  <2> HIDE DEF m
  <2>5. CASE m.revisions = row.revisions
    BY <2>1, <2>5 DEF m
  <2>6. CASE m.revisions <= s.max_revisions /\ s.on_refusal # ""
    <3>1. \E n \in DOMAIN Graph.stages : Graph.stages[n].on_refusal # ""
             /\ m.revisions <= Graph.stages[n].max_revisions
      BY <1>3, <2>6
    <3>2. m.revisions \in Allowed
      BY <2>4, <3>1 DEF Allowed
    <3> QED BY <2>1, <3>2 DEF m
  <2> QED BY <2>1, <2>2, <2>5, <2>6
<1>4. CASE row.stage \notin DOMAIN Graph.stages \ Graph.terminal
  <2>1. Advance(Graph, row, x) \in {MoveTo(row.stage), MoveTo("failed")}
    BY <1>4 DEF Advance
  <2> QED BY <1>1, <1>2, <1>4, <2>1, PlanNextType
<1> QED BY <1>3, <1>4

RevisionsInv ==
  /\ \A r \in Runs : rows[r].revisions \in Allowed
  /\ \A x \in Actors : read[x].revisions \in Allowed /\ moving[x].revisions \in Allowed

LEMMA RevisionsStep ==
  ASSUME TypeInv, RevisionsInv, Next
  PROVE  RevisionsInv'
<1>1. ASSUME NEW r \in Runs
      PROVE  rows'[r].revisions \in Allowed
  <2>1. rows[r] \in RowType /\ rows[r].revisions \in Allowed
    BY DEF TypeInv, TypeOK, RevisionsInv
  <2>2. CASE rows'[r] = [rows[r] EXCEPT !.approved = TRUE, !.held = FALSE]
    BY <2>1, <2>2 DEF RowType
  <2>3. ASSUME NEW x \in Actors, job[x] = r,
               rows'[r] = Written(rows[r], read[x],
                              Applied(read[x], moving[x], made[x].result.produced))
        PROVE  rows'[r].revisions \in Allowed
    <3>1. /\ read[x] \in RowType /\ moving[x] \in MoveType(Graph)
          /\ moving[x].revisions \in Allowed
      BY DEF TypeInv, TypeOK, RevisionsInv
    <3> QED BY <2>1, <2>3, <3>1, WrittenFields
  <2> QED BY <2>1, <2>2, <2>3, RowsChange
<1>2. ASSUME NEW x \in Actors
      PROVE  read'[x].revisions \in Allowed /\ moving'[x].revisions \in Allowed
  <2>1. ReadsARow(x) /\ Decides(x)
    BY ThreadsChange
  <2>2. /\ read[x] \in RowType /\ read[x].revisions \in Allowed
        /\ moving[x].revisions \in Allowed /\ made[x].result \in ResultType
    BY DEF TypeInv, TypeOK, RevisionsInv
  <2>3. \A r \in Runs : rows[r] \in RowType /\ rows[r].revisions \in Allowed
    BY DEF TypeInv, TypeOK, RevisionsInv
  <2>4. NewRow.revisions \in Allowed /\ MoveTo("failed").revisions \in Allowed
    BY NoneIsAllowed DEF NewRow, MoveTo, Move
  <2>5. read'[x].revisions \in Allowed
    BY <2>1, <2>2, <2>3, <2>4 DEF ReadsARow
  <2>6. planned(x).revisions \in Allowed
    BY <2>2, MovesWithinBounds DEF planned
  <2>7. \A r \in Runs, y \in ResultType : Advance(Graph, rows[r], y).revisions \in Allowed
    BY <2>3, MovesWithinBounds
  <2>8. moving'[x].revisions \in Allowed
    BY <2>1, <2>2, <2>4, <2>6, <2>7 DEF Decides
  <2> QED BY <2>5, <2>8
<1> QED BY <1>1, <1>2 DEF RevisionsInv

LEMMA RevisionsHold == Spec => []RevisionsInv
<1>1. Init => RevisionsInv
  <2>1. NewRow.revisions \in Allowed /\ MoveTo("failed").revisions \in Allowed
    BY NoneIsAllowed DEF NewRow, MoveTo, Move
  <2>2. ASSUME Init
        PROVE  /\ rows = [r \in Runs |-> NewRow] /\ read = [x \in Actors |-> NewRow]
               /\ moving = [x \in Actors |-> MoveTo("failed")]
    BY <2>2, Zenon DEF Init
  <2> QED BY <2>1, <2>2 DEF RevisionsInv
<1>2. TypeInv /\ RevisionsInv /\ [Next]_vars => RevisionsInv'
  <2>1. CASE UNCHANGED vars
    BY <2>1 DEF vars, floorVars, threadVars, RevisionsInv
  <2> QED BY <2>1, RevisionsStep
<1> QED BY <1>1, <1>2, TypeInit, TypeStep, PTL DEF Spec

(***************************************************************************)
(* The count of revisions of every row stays within what its pipeline      *)
(* allows, however many threads are at it and whoever else moves it: each  *)
(* of them counts from a row of the table, and one more than such a row    *)
(* has is checked against the stage that sends the run back.               *)
(***************************************************************************)
THEOREM RevisionsStayBoundedOnTheFloor == Spec => []RevisionsBounded
<1>1. RevisionsInv => RevisionsBounded
  BY DEF RevisionsInv, RevisionsBounded
<1> QED BY <1>1, RevisionsHold, PTL

-----------------------------------------------------------------------------
(* Ends and outcomes, with any number of threads at a run. *)

Stands(row) == row.outcome = "" => row.stage \in DOMAIN Graph.stages

\* What a thread read of a run that was over is true of the row.
KnowsTheEnd(x) == OnTheJob(x) /\ read[x].outcome # "" => rows[job[x]].outcome # ""

StandsInv ==
  /\ \A r \in Runs : Stands(rows[r])
  /\ \A x \in Actors : Stands(read[x]) /\ KnowsTheEnd(x)

\* Ends that outcomes are written for.
KnownEnds == Graph.terminal \subseteq Finals

\* A write leaves an outcome where there is one, and brings one to an end.
LEMMA WrittenStands ==
  ASSUME KnownEnds, NEW row \in RowType, NEW old \in RowType, NEW m \in MoveType(Graph),
         NEW produced, NEW row2, row2 = Written(row, old, Applied(old, m, produced)),
         Stands(row), old.outcome # "" => row.outcome # ""
  PROVE  Stands(row2) /\ (row.outcome # "" => row2.outcome # "")
<1> DEFINE new == Applied(old, m, produced)
<1>1. new.stage = m.to /\ new.outcome = IF IsTerminalMove(m) THEN m.to ELSE old.outcome
  BY DEF Applied, RowType
<1> HIDE DEF new
<1>2. row2 = [f \in DOMAIN row |-> IF new[f] = old[f] THEN row[f] ELSE new[f]]
  BY DEF Written, new
<1>3. {"stage", "outcome"} \subseteq DOMAIN row
  BY DEF RowType
<1>4. /\ row2.stage = IF m.to = old.stage THEN row.stage ELSE m.to
      /\ row2.outcome = IF new.outcome = old.outcome THEN row.outcome ELSE new.outcome
  BY <1>1, <1>2, <1>3
<1>5. m.to \in DOMAIN Graph.stages \cup Finals
  BY DEF MoveType, Names, KnownEnds, Finals
<1>6. IsTerminalMove(m) => m.to \in Finals /\ m.to # ""
  BY DEF IsTerminalMove, Finals
<1>7. row.outcome # "" => row2.outcome # ""
  BY <1>1, <1>4, <1>6
<1>8. ASSUME row2.outcome = "" PROVE row2.stage \in DOMAIN Graph.stages
  <2>1. row.outcome = "" /\ old.outcome = ""
    BY <1>7, <1>8
  <2>2. ~IsTerminalMove(m)
    BY <1>1, <1>4, <1>6, <1>8, <2>1
  <2>3. m.to \in DOMAIN Graph.stages
    BY <1>5, <2>2 DEF IsTerminalMove
  <2> QED BY <1>4, <2>1, <2>3 DEF Stands
<1> QED BY <1>7, <1>8 DEF Stands

LEMMA RowsStand ==
  ASSUME KnownEnds, TypeInv, StandsInv, Next, NEW r \in Runs
  PROVE  Stands(rows'[r]) /\ (rows[r].outcome # "" => rows'[r].outcome # "")
<1>1. rows[r] \in RowType /\ Stands(rows[r])
  BY DEF TypeInv, TypeOK, StandsInv
<1>2. CASE rows'[r] = [rows[r] EXCEPT !.approved = TRUE, !.held = FALSE]
  BY <1>1, <1>2 DEF RowType, Stands
<1>3. ASSUME NEW x \in Actors, pc[x] = "writing", job[x] = r,
             rows'[r] = Written(rows[r], read[x],
                              Applied(read[x], moving[x], made[x].result.produced))
      PROVE  Stands(rows'[r]) /\ (rows[r].outcome # "" => rows'[r].outcome # "")
  <2>1. read[x] \in RowType /\ moving[x] \in MoveType(Graph)
    BY DEF TypeInv, TypeOK
  <2>2. read[x].outcome # "" => rows[r].outcome # ""
    BY <1>3 DEF StandsInv, KnowsTheEnd, OnTheJob
  <2> DEFINE row2 == rows'[r]
             produced == made[x].result.produced
  <2>3. row2 = Written(rows[r], read[x], Applied(read[x], moving[x], produced))
    BY <1>3
  <2> HIDE DEF row2, produced
  <2>4. Stands(row2) /\ (rows[r].outcome # "" => row2.outcome # "")
    <3>1. KnownEnds
      OBVIOUS
    <3>2. \A p, new : new = Written(rows[r], read[x], Applied(read[x], moving[x], p))
                       => Stands(new)
      BY <1>1, <2>1, <2>2, <3>1, WrittenStands
    <3>3. \A p, new : new = Written(rows[r], read[x], Applied(read[x], moving[x], p))
                       => (rows[r].outcome # "" => new.outcome # "")
      BY <1>1, <2>1, <2>2, <3>1, WrittenStands
    <3> QED BY <2>3, <3>2, <3>3
  <2> QED BY <2>4 DEF row2
<1> QED BY <1>1, <1>2, <1>3, RowsChange

\* A thread at a run stays at it, or has just read its row.
Follows(x) ==
  OnTheJob(x)' =>
    \/ read'[x] = rows[job'[x]]
    \/ OnTheJob(x) /\ job'[x] = job[x] /\ read'[x] = read[x]

LEMMA ThreadsFollow ==
  ASSUME TypeInv, Next, NEW x \in Actors
  PROVE  Follows(x)
<1> DEFINE Goal == Follows(x)
<1>0. /\ read \in [Actors -> RowType] /\ job \in [Actors -> Runs \cup {NoRun}]
      /\ pc \in [Actors -> Places]
  BY DEF TypeInv, TypeOK
<1>1. ASSUME NEW y \in Actors, NEW p \in {"idle", "claiming", "claimed", "leaving", "releasing"},
             pc' = [pc EXCEPT ![y] = p],
             \A z \in Actors \ {y} : job'[z] = job[z] /\ read'[z] = read[z]
      PROVE  Goal
  BY <1>0, <1>1 DEF Follows, OnTheJob
<1>2. ASSUME NEW y \in Actors, NEW p, OnTheJob(y), pc' = [pc EXCEPT ![y] = p], job' = job,
             read' = read \/ read' = [read EXCEPT ![y] = rows[job[y]]]
      PROVE  Goal
  BY <1>0, <1>2 DEF Follows, OnTheJob
<1>3. ASSUME NEW y \in Actors, Step(y)
      PROVE  Goal
  <2>1. ASSUME AlreadyFinished(y) \/ Raise(y) \/ Work(y) \/ ApplyMove(y)
        PROVE  Goal
    <3>1. OnTheJob(y) /\ job' = job /\ read' = read
      BY <2>1 DEF AlreadyFinished, Raise, Work, ApplyMove, Ready, Is, OnTheJob
    <3>2. \E p : pc' = [pc EXCEPT ![y] = p]
      BY <2>1, Zenon DEF AlreadyFinished, Raise, Work, ApplyMove, Goes
    <3> QED BY <1>2, <3>1, <3>2
  <2>2. ASSUME PassOver(y) \/ OverBudget(y) \/ Decide(y)
        PROVE  Goal
    <3>1. OnTheJob(y) /\ job' = job
      BY <2>2 DEF PassOver, OverBudget, Decide, Ready, Is, OnTheJob
    <3>2. \E p : pc' = [pc EXCEPT ![y] = p]
      BY <2>2, Zenon DEF PassOver, OverBudget, Decide, Goes
    <3>3. read' = [read EXCEPT ![y] = rows[job[y]]] \/ read' = read
      <4>1. CASE PassOver(y)
        <5>1. PICK held \in BOOLEAN :
                read' = [read EXCEPT ![y] = IF held THEN @ ELSE rows[job[y]]]
          BY <4>1, Zenon DEF PassOver
        <5> QED BY <1>0, <5>1
      <4>2. CASE OverBudget(y) \/ Decide(y)
        BY <4>2 DEF OverBudget, Decide
      <4> QED BY <2>2, <4>1, <4>2
    <3> QED BY <1>2, <3>1, <3>2, <3>3
  <2> HIDE DEF Goal
  <2> QED BY <1>3, <2>1, <2>2 DEF Step
<1>4. ASSUME NEW y \in Actors, NEW r \in Runs, pc' = [pc EXCEPT ![y] = "stepping"],
             read' = [read EXCEPT ![y] = rows[r]], job' = [job EXCEPT ![y] = r]
      PROVE  Goal
  BY <1>0, <1>4 DEF Follows, OnTheJob
<1>5. ASSUME NEW w \in Workers, Turn(w)
      PROVE  Goal
  <2> HIDE DEF Goal
  <2>0. w \in Actors
    BY DEF Actors
  <2>1. ASSUME Tick(w) \/ TooLate(w) \/ NoRoom(w)
        PROVE  Goal
    <3>1. \E p \in {"idle", "claiming", "releasing"} : pc' = [pc EXCEPT ![w] = p]
      BY <2>1, Zenon DEF Tick, TooLate, NoRoom, Goes
    <3>2. job' = job /\ read' = read
      BY <2>1 DEF Tick, TooLate, NoRoom
    <3> QED BY <1>1, <2>0, <3>1, <3>2
  <2>2. ASSUME claim(w) \/ release(w)
        PROVE  Goal
    <3>1. \E p \in {"claimed", "idle"} : pc' = [pc EXCEPT ![w] = p]
      BY <2>2 DEF claim, release, Goes
    <3>2. read' = read /\ \A z \in Actors \ {w} : job'[z] = job[z]
      BY <1>0, <2>2 DEF claim, release
    <3> QED BY <1>1, <2>0, <3>1, <3>2
  <2>3. ASSUME EnterSlot(w)
        PROVE  Goal
    <3>1. job[w] \in Runs /\ job' = job
      BY <2>0, <2>3, ItsRow DEF EnterSlot, Is
    <3>2. job' = [job EXCEPT ![w] = job[w]]
      BY <1>0, <3>1
    <3> QED BY <1>4, <2>0, <2>3, <3>1, <3>2 DEF EnterSlot, Goes
  <2>4. ASSUME LeaveSlot(w)
        PROVE  Goal
    <3>1. pc' = [pc EXCEPT ![w] = "releasing"] /\ job' = job
      BY <2>4 DEF LeaveSlot, Goes
    <3>2. \A z \in Actors \ {w} : read'[z] = read[z]
      BY <1>0, <2>4 DEF LeaveSlot, Forget
    <3> QED BY <1>1, <2>0, <3>1, <3>2
  <2> QED BY <1>3, <1>5, <2>0, <2>1, <2>2, <2>3, <2>4 DEF Turn
<1>6. ASSUME NEW a \in Advancers, ByHand(a)
      PROVE  Goal
  <2> HIDE DEF Goal
  <2>0. a \in Actors
    BY DEF Actors
  <2>1. ASSUME NEW r \in Runs, AdvanceByHand(a, r)
        PROVE  Goal
    BY <1>4, <2>0, <2>1 DEF AdvanceByHand, Goes
  <2>2. ASSUME Answer(a)
        PROVE  Goal
    <3>1. pc' = [pc EXCEPT ![a] = "idle"]
      BY <2>2 DEF Answer, Goes
    <3>2. \A z \in Actors \ {a} : read'[z] = read[z] /\ job'[z] = job[z]
      BY <1>0, <2>2 DEF Answer, Forget
    <3> QED BY <1>1, <2>0, <3>1, <3>2
  <2> QED BY <1>3, <1>6, <2>0, <2>1, <2>2 DEF ByHand
<1>7. ASSUME Crash
      PROVE  Goal
  BY <1>7 DEF Crash, Follows, OnTheJob
<1>8. ASSUME (\E r \in Runs : Approve(r) \/ Expire(r)) \/ (\E o \in Owners : SetTeam(o))
      PROVE  Goal
  BY <1>8 DEF Approve, Expire, SetTeam, threadVars, Follows, OnTheJob
<1> HIDE DEF Goal
<1>9. Goal
  BY <1>5, <1>6, <1>7, <1>8 DEF Next
<1> QED BY <1>9 DEF Goal

LEMMA StandsStep ==
  ASSUME KnownEnds, TypeInv, TypeInv', StandsInv, Next
  PROVE  StandsInv'
<1>1. \A r \in Runs : Stands(rows[r]) /\ Stands(rows'[r])
  BY RowsStand DEF StandsInv
<1>2. ASSUME NEW x \in Actors
      PROVE  Stands(read'[x])
  <2>1. Stands(NewRow)
    BY GraphAssumption DEF Stands, NewRow, WellFormed
  <2> QED BY <1>1, <2>1, ThreadsChange DEF ReadsARow, StandsInv
<1>3. ASSUME NEW x \in Actors, OnTheJob(x)', read'[x].outcome # ""
      PROVE  rows'[job'[x]].outcome # ""
  <2>1. job'[x] \in Runs
    BY <1>3 DEF TypeInv, HasAJob, OnTheJob
  <2>2. rows[job'[x]].outcome # ""
    BY <1>3, ThreadsFollow DEF Follows, StandsInv, KnowsTheEnd
  <2> QED BY <2>1, <2>2, RowsStand
<1> QED BY <1>1, <1>2, <1>3 DEF StandsInv, KnowsTheEnd, Stands

(***************************************************************************)
(* In a pipeline that ends at the names outcomes are written for, step     *)
(* never raises for want of a stage, however many threads are at a run: a  *)
(* write brings an end and its outcome together, and no later write of an  *)
(* earlier reading takes one of them back alone.                           *)
(***************************************************************************)
THEOREM NoRunIsBeyondItsStages ==
  ASSUME KnownEnds
  PROVE  Spec => []NobodyRaises
<1>1. Init => StandsInv
  <2>1. ASSUME Init
        PROVE  /\ rows = [r \in Runs |-> NewRow] /\ read = [x \in Actors |-> NewRow]
               /\ pc = [x \in Actors |-> "idle"]
    BY <2>1, Zenon DEF Init
  <2>2. Stands(NewRow)
    BY GraphAssumption DEF Stands, NewRow, WellFormed
  <2> QED BY <2>1, <2>2 DEF StandsInv, KnowsTheEnd, OnTheJob
<1>2. TypeInv /\ TypeInv' /\ StandsInv /\ [Next]_vars => StandsInv'
  <2>1. CASE UNCHANGED vars
    BY <2>1 DEF vars, floorVars, threadVars, StandsInv, Stands, KnowsTheEnd, OnTheJob
  <2> QED BY <2>1, StandsStep
<1>3. StandsInv => NobodyRaises
  BY DEF StandsInv, Stands, NobodyRaises
<1> QED BY <1>1, <1>2, <1>3, TypeInit, TypeStep, PTL DEF Spec

-----------------------------------------------------------------------------
(* Claims, where no turn outlasts them. *)

\* A worker with a run in hand holds that run's claim, and the claim is fresh.
Claims == \A w \in Workers : InHand(w) => claimed_by[job[w]] = w /\ ~stale[job[w]]

\* Nothing is taken in hand, and no claim, job or age of a claim changes.
Quiet ==
  /\ claimed_by' = claimed_by /\ stale' = stale
  /\ \A w \in Workers : job'[w] = job[w] /\ (InHand(w)' => InHand(w))

LEMMA QuietKeepsClaims ==
  ASSUME Claims, Quiet
  PROVE  Claims'
BY DEF Claims, Quiet

LEMMA StepsAreQuiet ==
  ASSUME TypeInv, NEW x \in Actors, Step(x)
  PROVE  Quiet
<1>1. /\ claimed_by' = claimed_by /\ stale' = stale /\ job' = job
      /\ pc[x] \in {"stepping", "working", "writing"}
      /\ \E p \in {"working", "writing", "leaving"} : pc' = [pc EXCEPT ![x] = p]
  BY DEF Step, AlreadyFinished, PassOver, OverBudget, Work, Raise, Decide, ApplyMove, Ready,
         Is, Goes, floorVars
<1>2. pc \in [Actors -> Places]
  BY DEF TypeInv, TypeOK
<1>3. \A w \in Workers : InHand(w)' => InHand(w)
  BY <1>1, <1>2 DEF InHand, Actors
<1> QED BY <1>1, <1>3 DEF Quiet

LEMMA ClaimsStep ==
  ASSUME SlowTurns = FALSE, TypeInv, Claims, Next
  PROVE  Claims'
<1>0. /\ pc \in [Actors -> Places] /\ claimed_by \in [Runs -> Workers \cup {""}]
      /\ job \in [Actors -> Runs \cup {NoRun}]
  BY DEF TypeInv, TypeOK
<1>00. \A w \in Workers : w \in Actors /\ w # "" /\ (InHand(w) => job[w] \in Runs)
  BY FloorAssumption DEF Actors, InHand, TypeInv, HasAJob
<1>1. ASSUME NEW w \in Workers, Tick(w) \/ TooLate(w) \/ EnterSlot(w) \/ NoRoom(w) \/ LeaveSlot(w)
      PROVE  Quiet
  <2>1. claimed_by' = claimed_by /\ stale' = stale /\ job' = job
    BY <1>1 DEF Tick, TooLate, EnterSlot, NoRoom, LeaveSlot, floorVars
  <2>2. \/ pc[w] \in {"claimed", "leaving"}
        \/ \E p \in {"idle", "claiming"} : pc' = [pc EXCEPT ![w] = p]
    BY <1>1 DEF Tick, TooLate, EnterSlot, NoRoom, LeaveSlot, Is, Goes
  <2>3. \E p : pc' = [pc EXCEPT ![w] = p]
    BY <1>1 DEF Tick, TooLate, EnterSlot, NoRoom, LeaveSlot, Goes
  <2> QED BY <1>0, <1>00, <2>1, <2>2, <2>3 DEF Quiet, InHand
<1>2. ASSUME NEW w \in Workers, claim(w)
      PROVE  Claims'
  <2>1. PICK r \in Runs : /\ Claimable(r)
                          /\ claimed_by' = [claimed_by EXCEPT ![r] = w]
                          /\ stale' = [stale EXCEPT ![r] = FALSE]
                          /\ job' = [job EXCEPT ![w] = r]
    BY <1>2 DEF claim
  <2>2. \A v \in Workers : InHand(v) => job[v] # r
    BY <1>00, <2>1 DEF Claims, Claimable, Free
  <2>3. pc' = [pc EXCEPT ![w] = "claimed"]
    BY <1>2 DEF claim, Goes
  <2>4. ASSUME NEW v \in Workers, InHand(v)'
        PROVE  claimed_by'[job'[v]] = v /\ ~stale'[job'[v]]
    <3>1. CASE v = w
      <4>1. job'[v] = r
        BY <1>0, <1>00, <2>1, <3>1
      <4>2. claimed_by'[r] = w
        BY <1>0, <2>1
      <4>3. stale'[r] = FALSE
        BY <2>1, Zenon DEF TypeInv, TypeOK
      <4> QED BY <3>1, <4>1, <4>2, <4>3
    <3>2. CASE v # w
      <4>1. job'[v] = job[v] /\ InHand(v)
        BY <1>0, <1>00, <2>1, <2>3, <2>4, <3>2 DEF InHand
      <4>2. claimed_by[job[v]] = v /\ ~stale[job[v]] /\ job[v] # r /\ job[v] \in Runs
        BY <1>00, <2>2, <4>1 DEF Claims
      <4>3. claimed_by'[job[v]] = v
        BY <1>0, <2>1, <4>2
      <4>4. stale'[job[v]] = stale[job[v]]
        BY <2>1, <4>2, Zenon DEF TypeInv, TypeOK
      <4> QED BY <4>1, <4>2, <4>3, <4>4
    <3> QED BY <3>1, <3>2
  <2> QED BY <2>4 DEF Claims
<1>3. ASSUME NEW w \in Workers, release(w)
      PROVE  Claims'
  <2>1. /\ InHand(w) /\ pc' = [pc EXCEPT ![w] = "idle"]
        /\ claimed_by' = [claimed_by EXCEPT ![job[w]] = ""]
        /\ stale' = [stale EXCEPT ![job[w]] = FALSE]
        /\ job' = [job EXCEPT ![w] = NoRun]
    BY <1>3 DEF release, Goes, Is, InHand
  <2>2. ASSUME NEW v \in Workers, InHand(v)'
        PROVE  claimed_by'[job'[v]] = v /\ ~stale'[job'[v]]
    <3>1. v # w /\ InHand(v) /\ job'[v] = job[v]
      BY <1>0, <1>00, <2>1, <2>2 DEF InHand
    <3>2. /\ claimed_by[job[v]] = v /\ ~stale[job[v]] /\ job[v] \in Runs
          /\ claimed_by[job[w]] = w
      BY <1>00, <2>1, <3>1 DEF Claims
    <3>3. job[v] # job[w]
      BY <3>1, <3>2
    <3>4. claimed_by'[job[v]] = v
      BY <1>0, <2>1, <3>2, <3>3
    <3>5. stale'[job[v]] = stale[job[v]]
      BY <2>1, <3>2, <3>3, Zenon DEF TypeInv, TypeOK
    <3> QED BY <3>1, <3>2, <3>4, <3>5
  <2> QED BY <2>2 DEF Claims
<1>4. ASSUME NEW a \in Advancers, (\E r \in Runs : AdvanceByHand(a, r)) \/ Answer(a)
      PROVE  Quiet
  <2>1. /\ claimed_by' = claimed_by /\ stale' = stale
        /\ (\E p : pc' = [pc EXCEPT ![a] = p]) /\ (\E r : job' = [job EXCEPT ![a] = r])
    BY <1>4 DEF AdvanceByHand, Answer, Goes, floorVars
  <2>2. \A w \in Workers : w # a
    BY FloorAssumption
  <2> QED BY <1>0, <1>00, <2>1, <2>2 DEF Quiet, InHand
<1>5. ASSUME NEW r \in Runs, Approve(r)
      PROVE  Quiet
  BY <1>5 DEF Approve, Quiet, threadVars, InHand
<1>6. ASSUME NEW o \in Owners, SetTeam(o)
      PROVE  Quiet
  BY <1>6 DEF SetTeam, Quiet, threadVars, InHand
<1>7. ASSUME NEW r \in Runs, Expire(r)
      PROVE  Claims'
  <2>1. \A w \in Workers : InHand(w) => job[w] # r
    BY <1>7 DEF Expire
  <2>2. /\ claimed_by' = claimed_by /\ job' = job /\ pc' = pc
        /\ stale' = [stale EXCEPT ![r] = TRUE]
    BY <1>7 DEF Expire, threadVars
  <2>3. \A q \in Runs : q # r => stale'[q] = stale[q]
    BY <2>2, Zenon DEF TypeInv, TypeOK
  <2> QED BY <1>00, <2>1, <2>2, <2>3 DEF Claims, InHand
<1>8. ASSUME Crash
      PROVE  Claims'
  BY <1>00, <1>8 DEF Crash, Claims, InHand
<1>9. ASSUME NEW w \in Workers, Turn(w)
      PROVE  Claims'
  BY <1>00, <1>1, <1>2, <1>3, <1>9, StepsAreQuiet, QuietKeepsClaims DEF Turn
<1>10. ASSUME NEW a \in Advancers, ByHand(a)
       PROVE  Claims'
  BY <1>4, <1>10, StepsAreQuiet, QuietKeepsClaims DEF ByHand, Actors
<1> QED BY <1>5, <1>6, <1>7, <1>8, <1>9, <1>10, QuietKeepsClaims DEF Next

-----------------------------------------------------------------------------
(* What a worker knows of the run it is at, where nobody moves runs by     *)
(* hand.                                                                   *)

AtItsStage(w) ==
  /\ pc[w] = "claimed" \/ OnTheJob(w) => ~rows[job[w]].held
  /\ OnTheJob(w) => read[w].stage = rows[job[w]].stage
  /\ pc[w] \notin {"working", "writing", "leaving"} => made[w].at = ""
  /\ pc[w] \in {"working", "writing"} /\ made[w].at # "" => made[w].at = rows[job[w]].stage

FloorInv == Claims /\ \A w \in Workers : AtItsStage(w)

\* Nobody but the worker that has a run in hand moves it.
LEMMA RowStays ==
  ASSUME Advancers = {}, TypeInv, Claims, Next, NEW w \in Workers, InHand(w), ~ApplyMove(w)
  PROVE  /\ rows'[job[w]].stage = rows[job[w]].stage
         /\ ~rows[job[w]].held => ~rows'[job[w]].held
<1> DEFINE r == job[w]
<1>1. r \in Runs /\ rows[r] \in RowType
  <2>1. w \in Actors /\ pc[w] \notin {"idle", "claiming"}
    BY DEF Actors, InHand
  <2> QED BY <2>1, ItsRow
<1>2. \A x \in Actors : pc[x] = "writing" /\ job[x] = r => x = w
  BY DEF Claims, InHand, Actors
<1>3. \/ rows'[r] = rows[r]
      \/ rows'[r] = [rows[r] EXCEPT !.approved = TRUE, !.held = FALSE]
  BY <1>1, <1>2, RowsChange
<1> QED BY <1>1, <1>3 DEF RowType

\* What w keeps is as it was.
Rests(w) == pc'[w] = pc[w] /\ job'[w] = job[w] /\ read'[w] = read[w] /\ made'[w] = made[w]

\* Whatever a thread does, it does to what it keeps itself.
LEMMA OnlyItself ==
  ASSUME TypeInv, NEW v \in Workers, NEW w \in Workers, v # w, Turn(v)
  PROVE  Rests(w)
<1>1. /\ pc \in [Actors -> Places] /\ job \in [Actors -> Runs \cup {NoRun}]
      /\ read \in [Actors -> RowType] /\ v \in Actors /\ w \in Actors
      /\ made \in [Actors -> [at : Names(Graph) \cup {""}, result : ResultType]]
  BY DEF TypeInv, TypeOK, Actors
<1>2. \E p : pc' = [pc EXCEPT ![v] = p]
  BY DEF Turn, Step, Tick, claim, TooLate, EnterSlot, NoRoom, LeaveSlot, release,
         AlreadyFinished, PassOver, OverBudget, Work, Raise, Decide, ApplyMove, Goes
<1>3. job' = job \/ \E r : job' = [job EXCEPT ![v] = r]
  BY DEF Turn, Step, Tick, claim, TooLate, EnterSlot, NoRoom, LeaveSlot, release,
         AlreadyFinished, PassOver, OverBudget, Work, Raise, Decide, ApplyMove
<1>4. read' = read \/ \E row : read' = [read EXCEPT ![v] = row]
  <2>1. CASE PassOver(v)
    <3>1. PICK held \in BOOLEAN :
            read' = [read EXCEPT ![v] = IF held THEN @ ELSE rows[job[v]]]
      BY <2>1, Zenon DEF PassOver
    <3> QED BY <1>1, <3>1
  <2>2. CASE ~PassOver(v)
    BY <2>2 DEF Turn, Step, Tick, claim, TooLate, EnterSlot, NoRoom, LeaveSlot, release, Forget,
         AlreadyFinished, OverBudget, Work, Raise, Decide, ApplyMove
  <2> QED BY <2>1, <2>2
<1>5. made' = made \/ \E m : made' = [made EXCEPT ![v] = m]
  BY DEF Turn, Step, Tick, claim, TooLate, EnterSlot, NoRoom, LeaveSlot, release, Forget,
         AlreadyFinished, PassOver, OverBudget, Work, Raise, Decide, ApplyMove
<1> QED BY <1>1, <1>2, <1>3, <1>4, <1>5 DEF Rests

LEMMA Bystander ==
  ASSUME TypeInv, Claims, Advancers = {}, Next, NEW w \in Workers, Rests(w),
         ~ApplyMove(w), AtItsStage(w)
  PROVE  AtItsStage(w)'
<1>1. CASE InHand(w)
  BY <1>1, RowStays DEF Rests, AtItsStage, OnTheJob
<1>2. CASE ~InHand(w)
  BY <1>2 DEF Rests, AtItsStage, OnTheJob, InHand
<1> QED BY <1>1, <1>2

LEMMA OwnTurn ==
  ASSUME TypeInv, Claims, Advancers = {}, NEW w \in Workers, Turn(w), AtItsStage(w)
  PROVE  AtItsStage(w)'
<1>0. /\ pc \in [Actors -> Places] /\ job \in [Actors -> Runs \cup {NoRun}]
      /\ read \in [Actors -> RowType] /\ w \in Actors
      /\ made \in [Actors -> [at : Names(Graph) \cup {""}, result : ResultType]]
  BY DEF TypeInv, TypeOK, Actors
<1>1. CASE Tick(w) \/ TooLate(w) \/ NoRoom(w)
  <2>1. /\ rows' = rows /\ job' = job /\ read' = read /\ made' = made
        /\ pc[w] \in {"idle", "claiming", "claimed"}
        /\ \E p \in {"idle", "claiming", "releasing"} : pc' = [pc EXCEPT ![w] = p]
    BY <1>1 DEF Tick, TooLate, NoRoom, Is, Goes, floorVars
  <2> QED BY <1>0, <2>1 DEF AtItsStage, OnTheJob
<1>2. CASE claim(w)
  <2>1. PICK r \in Runs : Movable(rows[r]) /\ job' = [job EXCEPT ![w] = r]
    BY <1>2 DEF claim, Claimable
  <2>2. /\ pc[w] = "claiming" /\ pc' = [pc EXCEPT ![w] = "claimed"]
        /\ rows' = rows /\ made' = made
    BY <1>2 DEF claim, Is, Goes
  <2> QED BY <1>0, <2>1, <2>2 DEF AtItsStage, OnTheJob, Movable
<1>3. CASE EnterSlot(w)
  <2>1. /\ pc[w] = "claimed" /\ pc' = [pc EXCEPT ![w] = "stepping"]
        /\ rows' = rows /\ job' = job /\ made' = made
        /\ read' = [read EXCEPT ![w] = rows[job[w]]]
    BY <1>3 DEF EnterSlot, Is, Goes
  <2> QED BY <1>0, <2>1 DEF AtItsStage, OnTheJob
<1>4. CASE AlreadyFinished(w) \/ Raise(w)
  <2>1. /\ pc' = [pc EXCEPT ![w] = "leaving"] /\ rows' = rows
    BY <1>4 DEF AlreadyFinished, Raise, Goes, floorVars
  <2> QED BY <1>0, <2>1 DEF AtItsStage, OnTheJob
<1>5. CASE PassOver(w) \/ OverBudget(w)
  <2>1. /\ pc[w] = "stepping" /\ pc' = [pc EXCEPT ![w] = "writing"]
        /\ rows' = rows /\ job' = job /\ made' = made
    BY <1>5 DEF PassOver, OverBudget, Ready, Is, Goes, floorVars
  <2>2. read'[w] = read[w] \/ read'[w] = rows[job[w]]
    <3>1. CASE PassOver(w)
      <4>1. PICK held \in BOOLEAN :
              read' = [read EXCEPT ![w] = IF held THEN @ ELSE rows[job[w]]]
        BY <3>1, Zenon DEF PassOver
      <4> QED BY <1>0, <4>1
    <3>2. CASE OverBudget(w)
      BY <1>0, <3>2 DEF OverBudget
    <3> QED BY <1>5, <3>1, <3>2
  <2> QED BY <1>0, <2>1, <2>2 DEF AtItsStage, OnTheJob
<1>6. CASE Work(w)
  <2>1. /\ pc[w] = "stepping" /\ pc' = [pc EXCEPT ![w] = "working"]
        /\ rows' = rows /\ job' = job /\ read' = read
    BY <1>6 DEF Work, Ready, Is, Goes, floorVars
  <2>2. PICK y : made' = [made EXCEPT ![w] = [at |-> read[w].stage, result |-> y]]
    BY <1>6 DEF Work
  <2>3. made'[w].at = read[w].stage
    BY <1>0, <2>2
  <2> QED BY <1>0, <2>1, <2>3 DEF AtItsStage, OnTheJob
<1>7. CASE Decide(w)
  <2>1. /\ pc[w] = "working" /\ pc' = [pc EXCEPT ![w] = "writing"]
        /\ rows' = rows /\ job' = job /\ made' = made
        /\ read' = [read EXCEPT ![w] = rows[job[w]]]
    BY <1>7 DEF Decide, Is, Goes, floorVars
  <2> QED BY <1>0, <2>1 DEF AtItsStage, OnTheJob
<1>8. CASE ApplyMove(w)
  <2>1. pc' = [pc EXCEPT ![w] = "leaving"]
    BY <1>8 DEF ApplyMove, Goes
  <2> QED BY <1>0, <2>1 DEF AtItsStage, OnTheJob
<1>9. CASE LeaveSlot(w)
  <2>1. pc' = [pc EXCEPT ![w] = "releasing"] /\ made' = [made EXCEPT ![w] = Nothing]
    BY <1>9 DEF LeaveSlot, Goes, Forget
  <2> QED BY <1>0, <2>1 DEF AtItsStage, OnTheJob, Nothing
<1>10. CASE release(w)
  <2>1. pc[w] = "releasing" /\ pc' = [pc EXCEPT ![w] = "idle"] /\ made' = made
    BY <1>10 DEF release, Is, Goes
  <2> QED BY <1>0, <2>1 DEF AtItsStage, OnTheJob
<1> QED BY <1>1, <1>2, <1>3, <1>4, <1>5, <1>6, <1>7, <1>8, <1>9, <1>10 DEF Turn, Step

LEMMA FloorInit ==
  ASSUME Init
  PROVE  FloorInv
<1>1. /\ pc = [x \in Actors |-> "idle"] /\ made = [x \in Actors |-> Nothing]
  BY Zenon DEF Init
<1> QED BY <1>1 DEF FloorInv, Claims, AtItsStage, OnTheJob, InHand, Actors, Nothing

LEMMA FloorStep ==
  ASSUME SlowTurns = FALSE, Advancers = {}, TypeInv, FloorInv, [Next]_vars
  PROVE  FloorInv'
<1>1. CASE UNCHANGED vars
  BY <1>1 DEF vars, floorVars, threadVars, FloorInv, Claims, AtItsStage, OnTheJob, InHand
<1>2. ASSUME Next, NEW w \in Workers
      PROVE  AtItsStage(w)'
  <2>0. AtItsStage(w) /\ Claims
    BY DEF FloorInv
  <2>1. CASE Turn(w)
    BY <2>0, <2>1, OwnTurn
  <2>2. ASSUME NEW v \in Workers, v # w, Turn(v), ~Turn(w)
        PROVE  AtItsStage(w)'
    <3>1. Rests(w) /\ ~ApplyMove(w)
      BY <2>2, OnlyItself DEF Turn, Step
    <3> QED BY <1>2, <2>0, <3>1, Bystander
  <2>3. ASSUME ~Turn(w), (\E r \in Runs : Approve(r) \/ Expire(r)) \/ (\E o \in Owners : SetTeam(o))
        PROVE  AtItsStage(w)'
    <3>1. Rests(w)
      BY <2>3 DEF Approve, Expire, SetTeam, threadVars, Rests
    <3>2. ~ApplyMove(w)
      BY <2>3 DEF Turn, Step
    <3> QED BY <1>2, <2>0, <3>1, <3>2, Bystander
  <2>4. CASE Crash
    BY <2>4 DEF Crash, AtItsStage, OnTheJob, Nothing, Actors
  <2> QED BY <1>2, <2>1, <2>2, <2>3, <2>4 DEF Next
<1>3. ASSUME Next
      PROVE  FloorInv'
  BY <1>2, <1>3, ClaimsStep DEF FloorInv
<1> QED BY <1>1, <1>3

(***************************************************************************)
(* Where no turn outlasts STALE_AFTER_SECONDS and nobody moves runs by     *)
(* hand, no two threads are ever at the same run.  Both conditions are     *)
(* needed: the claim is all that keeps them apart, a stale claim is taken  *)
(* over, and advance_run takes none.                                       *)
(***************************************************************************)
THEOREM OneWorkerAtARun ==
  ASSUME SlowTurns = FALSE, Advancers = {}
  PROVE  Spec => []OneAtATime
<1>1. FloorInv => OneAtATime
  BY DEF FloorInv, Claims, OneAtATime, OnTheJob, InHand, Actors
<1> QED BY <1>1, TypeInit, TypeStep, FloorInit, FloorStep, PTL DEF Spec

(***************************************************************************)
(* Under the same conditions, the stage a result came from is the stage    *)
(* the run is still at when the move it decides is written.                *)
(***************************************************************************)
THEOREM ResultsLand ==
  ASSUME SlowTurns = FALSE, Advancers = {}
  PROVE  Spec => []ResultsLandWhereTheyWereMade
<1>1. FloorInv => ResultsLandWhereTheyWereMade
  BY DEF FloorInv, AtItsStage, ResultsLandWhereTheyWereMade, Actors
<1> QED BY <1>1, TypeInit, TypeStep, FloorInit, FloorStep, PTL DEF Spec

(***************************************************************************)
(* Under the same conditions, a hold ends only with an approval: a worker  *)
(* is never at a run that waits for a person.                              *)
(***************************************************************************)
THEOREM HoldsEndWithAnApproval ==
  ASSUME SlowTurns = FALSE, Advancers = {}
  PROVE  Spec => OnlyAPersonEndsAHold
<1>1. ASSUME TypeInv, FloorInv, [Next]_vars
      PROVE  [\A r \in Runs : rows[r].held /\ ~rows'[r].held => approvals' = approvals + 1]_vars
  <2>1. ASSUME Next, NEW r \in Runs, rows[r].held, ~rows'[r].held
        PROVE  approvals' = approvals + 1
    <3>1. \A x \in Actors : pc[x] = "writing" => job[x] # r
      BY <1>1, <2>1 DEF FloorInv, AtItsStage, OnTheJob, Actors
    <3> QED BY <1>1, <2>1, <3>1, RowsChange
  <2> QED BY <1>1, <2>1
<1> QED BY <1>1, TypeInit, TypeStep, FloorInit, FloorStep, PTL DEF Spec, OnlyAPersonEndsAHold

-----------------------------------------------------------------------------
(* Floor implements RunLifecycle, run by run. *)

\* A move that the lifecycle of a run that stands at `row` has.
KeepsTheLifecycle(m, row) ==
  \/ m.revisions = row.revisions
  \/ m.revisions = 0 /\ m.to = "failed"
  \/ m.revisions = row.revisions + 1 /\ m.revisions \in Allowed /\ m.held = FALSE

Unfinished(row) == row.outcome = "" /\ row.held = FALSE

\* Two readings of a run that say the same of how far it is.
Alike(a, b) == a.revisions = b.revisions /\ a.outcome = b.outcome /\ a.held = b.held

\* What a worker at a run relies on.
Grips(w) ==
  /\ pc[w] = "claimed" \/ OnTheJob(w) => Unfinished(rows[job[w]])
  /\ OnTheJob(w) => Alike(read[w], rows[job[w]])
  /\ pc[w] = "working" => rows[job[w]].stage \in DOMAIN Graph.stages
  /\ pc[w] = "writing" => KeepsTheLifecycle(moving[w], rows[job[w]])

LifeInv == FloorInv /\ \A w \in Workers : Grips(w)

LEMMA ApprovedFields ==
  ASSUME NEW row \in RowType, NEW row2, row2 = [row EXCEPT !.approved = TRUE, !.held = FALSE]
  PROVE  row2.revisions = row.revisions /\ row2.outcome = row.outcome /\ row2.held = FALSE
BY DEF RowType

\* plan_next passes a run over only at a stage, and with its count as it was.
LEMMA PassedOverKeeps ==
  ASSUME NEW row \in RowType, PlanNext(Graph, row).skipped \/ PlanNext(Graph, row).held
  PROVE  PlanNext(Graph, row).revisions = row.revisions
<1>1. \A to : ~MoveTo(to).skipped /\ ~MoveTo(to).held
  BY DEF MoveTo, Move
<1>2. row.stage \in DOMAIN Graph.stages \ Graph.terminal
  BY <1>1 DEF PlanNext
<1>3. At(Graph, row) /\ GraphType(Graph)
  BY RowIsAt, GraphAssumption
<1> QED BY <1>2, <1>3, PlanNextType DEF Keeps

\* What advance decides from a stage is a move of the lifecycle.
LEMMA AdvanceKeepsTheLifecycle ==
  ASSUME NEW row \in RowType, row.revisions \in Allowed, NEW x \in ResultType,
         row.stage \in DOMAIN Graph.stages
  PROVE  KeepsTheLifecycle(Advance(Graph, row, x), row)
<1> DEFINE m == Advance(Graph, row, x)
           s == Graph.stages[row.stage]
<1>1. At(Graph, row) /\ GraphType(Graph) /\ Came(x)
  BY RowIsAt, GraphAssumption DEF Came, ResultType
<1>2. CASE row.stage \in Graph.terminal
  BY <1>2, StagesAreNotEnds, GraphAssumption
<1>3. CASE row.stage \notin Graph.terminal
  <2>1. Keeps(m, row) \/ GivesUp(m, row) \/ SendsBack(m, s, row, x)
    BY <1>1, <1>3, AdvanceType, GraphAssumption, Zenon
  <2>2. m.revisions \in Allowed
    BY MovesWithinBounds
  <2> HIDE DEF m, s
  <2>3. KeepsTheLifecycle(m, row)
    BY <2>1, <2>2 DEF Keeps, GivesUp, SendsBack, KeepsTheLifecycle
  <2> QED BY <2>3 DEF m
<1> QED BY <1>2, <1>3

\* An approval is all that can happen to an unfinished run a worker has in hand.
LEMMA UnfinishedStays ==
  ASSUME Advancers = {}, TypeInv, Claims, Next, NEW w \in Workers, InHand(w), ~ApplyMove(w),
         Unfinished(rows[job[w]])
  PROVE  Alike(rows'[job[w]], rows[job[w]])
<1> DEFINE r == job[w]
<1>1. r \in Runs /\ rows[r] \in RowType
  <2>1. w \in Actors /\ pc[w] \notin {"idle", "claiming"}
    BY DEF Actors, InHand
  <2> QED BY <2>1, ItsRow
<1>2. \A x \in Actors : pc[x] = "writing" /\ job[x] = r => x = w
  BY DEF Claims, InHand, Actors
<1>3. \/ rows'[r] = rows[r]
      \/ rows'[r] = [rows[r] EXCEPT !.approved = TRUE, !.held = FALSE]
  BY <1>1, <1>2, RowsChange
<1> QED BY <1>1, <1>3, ApprovedFields DEF Alike, Unfinished

\* Whoever has the run keeps the grip, as long as nothing of its own changes.
LEMMA GripsOfABystander ==
  ASSUME Advancers = {}, TypeInv, Claims, Next, NEW w \in Workers, Rests(w), moving'[w] = moving[w],
         ~ApplyMove(w), Grips(w)
  PROVE  Grips(w)'
<1>1. CASE pc[w] = "claimed" \/ OnTheJob(w)
  <2>1. Alike(rows'[job[w]], rows[job[w]]) /\ Unfinished(rows[job[w]])
    BY <1>1, UnfinishedStays DEF Grips, OnTheJob, InHand
  <2>2. KeepsTheLifecycle(moving[w], rows[job[w]]) => KeepsTheLifecycle(moving[w], rows'[job[w]])
    BY <2>1 DEF Alike, KeepsTheLifecycle
  <2>3. rows'[job[w]].stage = rows[job[w]].stage
    BY <1>1, RowStays DEF OnTheJob, InHand
  <2> QED BY <1>1, <2>1, <2>2, <2>3 DEF Rests, Grips, Alike, Unfinished, OnTheJob
<1>2. CASE ~(pc[w] = "claimed" \/ OnTheJob(w))
  BY <1>2 DEF Rests, Grips, OnTheJob
<1> QED BY <1>1, <1>2

LEMMA OwnGrips ==
  ASSUME TypeInv, RevisionsInv, NEW w \in Workers, AtItsStage(w), Turn(w), Grips(w)
  PROVE  Grips(w)'
<1>0. /\ pc \in [Actors -> Places] /\ job \in [Actors -> Runs \cup {NoRun}]
      /\ read \in [Actors -> RowType] /\ moving \in [Actors -> MoveType(Graph)] /\ w \in Actors
      /\ made \in [Actors -> [at : Names(Graph) \cup {""}, result : ResultType]]
  BY DEF TypeInv, TypeOK, Actors
<1>1. CASE Tick(w) \/ TooLate(w) \/ NoRoom(w)
  <2>1. \E p \in {"idle", "claiming", "releasing"} : pc' = [pc EXCEPT ![w] = p]
    BY <1>1 DEF Tick, TooLate, NoRoom, Goes
  <2> QED BY <1>0, <2>1 DEF Grips, OnTheJob
<1>2. CASE claim(w)
  <2>1. PICK r \in Runs : Movable(rows[r]) /\ job' = [job EXCEPT ![w] = r]
    BY <1>2 DEF claim, Claimable
  <2>2. pc' = [pc EXCEPT ![w] = "claimed"] /\ rows' = rows
    BY <1>2 DEF claim, Goes
  <2>3. rows[r] \in RowType
    BY DEF TypeInv, TypeOK
  <2>4. Unfinished(rows[r])
    BY <2>1, <2>3 DEF Unfinished, Movable, RowType
  <2> QED BY <1>0, <2>1, <2>2, <2>4 DEF Grips, OnTheJob
<1>3. CASE EnterSlot(w)
  <2>1. /\ pc[w] = "claimed" /\ pc' = [pc EXCEPT ![w] = "stepping"]
        /\ rows' = rows /\ job' = job /\ read' = [read EXCEPT ![w] = rows[job[w]]]
    BY <1>3 DEF EnterSlot, Is, Goes
  <2> QED BY <1>0, <2>1 DEF Grips, OnTheJob, Alike
<1>4. CASE AlreadyFinished(w) \/ Raise(w) \/ ApplyMove(w)
  <2>1. pc' = [pc EXCEPT ![w] = "leaving"]
    BY <1>4 DEF AlreadyFinished, Raise, ApplyMove, Goes
  <2> QED BY <1>0, <2>1 DEF Grips, OnTheJob
<1>5. CASE PassOver(w)
  <2>1. /\ pc[w] = "stepping" /\ pc' = [pc EXCEPT ![w] = "writing"]
        /\ rows' = rows /\ job' = job
        /\ moving' = [moving EXCEPT ![w] = planned(w)] /\ (planned(w).skipped \/ planned(w).held)
    BY <1>5 DEF PassOver, Is, Goes, floorVars
  <2>2. read'[w] = read[w] \/ read'[w] = rows[job[w]]
    <3>1. PICK held \in BOOLEAN :
            read' = [read EXCEPT ![w] = IF held THEN @ ELSE rows[job[w]]]
      BY <1>5, Zenon DEF PassOver
    <3> QED BY <1>0, <3>1
  <2>3. OnTheJob(w) /\ Alike(read[w], rows[job[w]]) /\ Unfinished(rows[job[w]])
    BY <2>1 DEF OnTheJob, Grips
  <2>4. planned(w).revisions = read[w].revisions
    BY <1>0, <2>1, PassedOverKeeps DEF planned
  <2>5. KeepsTheLifecycle(planned(w), rows[job[w]])
    BY <2>3, <2>4 DEF Alike, KeepsTheLifecycle
  <2>6. moving'[w] = planned(w) /\ pc'[w] = "writing"
    BY <1>0, <2>1
  <2> QED BY <2>1, <2>2, <2>3, <2>5, <2>6 DEF Grips, OnTheJob, Alike
<1>6. CASE OverBudget(w)
  <2>1. /\ pc[w] = "stepping" /\ pc' = [pc EXCEPT ![w] = "writing"]
        /\ rows' = rows /\ job' = job /\ read' = [read EXCEPT ![w] = rows[job[w]]]
        /\ moving' = [moving EXCEPT ![w] = MoveTo("failed")]
    BY <1>6 DEF OverBudget, Ready, Is, Goes, floorVars
  <2>2. KeepsTheLifecycle(MoveTo("failed"), rows[job[w]])
    BY DEF KeepsTheLifecycle, MoveTo, Move
  <2>3. moving'[w] = MoveTo("failed") /\ pc'[w] = "writing" /\ read'[w] = rows[job[w]]
    BY <1>0, <2>1
  <2>4. Unfinished(rows[job[w]])
    BY <2>1 DEF OnTheJob, Grips
  <2> QED BY <2>1, <2>2, <2>3, <2>4 DEF Grips, OnTheJob, Alike
<1>7. CASE Work(w)
  <2>1. /\ pc[w] = "stepping" /\ pc' = [pc EXCEPT ![w] = "working"]
        /\ rows' = rows /\ job' = job /\ read' = read /\ read[w].stage \in DOMAIN Graph.stages
    BY <1>7 DEF Work, Ready, Is, Goes, floorVars
  <2>2. OnTheJob(w) /\ pc'[w] = "working"
    BY <1>0, <2>1 DEF OnTheJob
  <2>3. rows[job[w]].stage \in DOMAIN Graph.stages
    BY <2>1, <2>2 DEF AtItsStage
  <2> QED BY <2>1, <2>2, <2>3 DEF Grips, OnTheJob
<1>8. CASE Decide(w)
  <2> DEFINE m == Advance(Graph, rows[job[w]], made[w].result)
  <2>1. /\ pc[w] = "working" /\ pc' = [pc EXCEPT ![w] = "writing"]
        /\ rows' = rows /\ job' = job /\ read' = [read EXCEPT ![w] = rows[job[w]]]
        /\ moving' = [moving EXCEPT ![w] = m]
    BY <1>8 DEF Decide, Is, Goes, floorVars
  <2>2. /\ job[w] \in Runs /\ rows[job[w]] \in RowType /\ made[w].result \in ResultType
    BY <1>0, <2>1, ItsRow
  <2>3. Unfinished(rows[job[w]]) /\ rows[job[w]].stage \in DOMAIN Graph.stages
    BY <2>1 DEF OnTheJob, Grips
  <2>5. KeepsTheLifecycle(m, rows[job[w]])
    BY <2>2, <2>3, AdvanceKeepsTheLifecycle DEF RevisionsInv
  <2> HIDE DEF m
  <2>6. moving'[w] = m /\ pc'[w] = "writing" /\ read'[w] = rows[job[w]]
    BY <1>0, <2>1
  <2> QED BY <2>1, <2>3, <2>5, <2>6 DEF Grips, OnTheJob, Alike
<1>9. CASE LeaveSlot(w) \/ release(w)
  <2>1. \E p \in {"idle", "releasing"} : pc' = [pc EXCEPT ![w] = p]
    BY <1>9 DEF LeaveSlot, release, Goes
  <2> QED BY <1>0, <2>1 DEF Grips, OnTheJob
<1> QED BY <1>1, <1>2, <1>3, <1>4, <1>5, <1>6, <1>7, <1>8, <1>9 DEF Turn, Step

LEMMA LifeInit ==
  ASSUME Init
  PROVE  LifeInv
<1>1. \A w \in Workers : pc[w] = "idle"
  BY Zenon DEF Init, Actors
<1> QED BY <1>1, FloorInit DEF LifeInv, Grips, OnTheJob

LEMMA LifeStep ==
  ASSUME SlowTurns = FALSE, Advancers = {}, TypeInv, RevisionsInv, LifeInv, [Next]_vars
  PROVE  LifeInv'
<1>1. CASE UNCHANGED vars
  <2>1. /\ rows' = rows /\ pc' = pc /\ job' = job /\ read' = read /\ moving' = moving
    BY <1>1 DEF vars, floorVars, threadVars
  <2>2. \A w \in Workers : Grips(w)'
    BY <2>1 DEF LifeInv, Grips, OnTheJob
  <2> QED BY <2>2, FloorStep DEF LifeInv
<1>2. ASSUME Next, NEW w \in Workers
      PROVE  Grips(w)'
  <2>0. AtItsStage(w) /\ Claims /\ Grips(w)
    BY DEF LifeInv, FloorInv
  <2>1. CASE Turn(w)
    BY <2>0, <2>1, OwnGrips
  <2>2. ASSUME NEW v \in Workers, v # w, Turn(v), ~Turn(w)
        PROVE  Grips(w)'
    <3>1. Rests(w) /\ ~ApplyMove(w)
      BY <2>2, OnlyItself DEF Turn, Step
    <3>2. moving'[w] = moving[w]
      <4>1. moving' = moving \/ \E m : moving' = [moving EXCEPT ![v] = m]
        BY <2>2 DEF Turn, Step, Tick, claim, TooLate, EnterSlot, NoRoom, LeaveSlot, release, Forget,
             AlreadyFinished, PassOver, OverBudget, Work, Raise, Decide, ApplyMove
      <4> QED BY <2>2, <4>1 DEF TypeInv, TypeOK, Actors
    <3> QED BY <1>2, <2>0, <3>1, <3>2, GripsOfABystander
  <2>3. ASSUME ~Turn(w), (\E r \in Runs : Approve(r) \/ Expire(r)) \/ (\E o \in Owners : SetTeam(o))
        PROVE  Grips(w)'
    <3>1. Rests(w) /\ moving'[w] = moving[w]
      BY <2>3 DEF Approve, Expire, SetTeam, threadVars, Rests
    <3>2. ~ApplyMove(w)
      BY <2>3 DEF Turn, Step
    <3> QED BY <1>2, <2>0, <3>1, <3>2, GripsOfABystander
  <2>4. CASE Crash
    BY <2>4 DEF Crash, Grips, OnTheJob, Actors
  <2> QED BY <1>2, <2>1, <2>2, <2>3, <2>4 DEF Next
<1>3. FloorInv'
  BY FloorStep DEF LifeInv
<1> QED BY <1>1, <1>2, <1>3 DEF LifeInv

LEMMA WrittenOutcome ==
  ASSUME NEW row \in RowType, NEW old \in RowType, NEW m \in MoveType(Graph),
         NEW produced, NEW row2, row2 = Written(row, old, Applied(old, m, produced)),
         old.outcome = row.outcome
  PROVE  /\ IsTerminalMove(m) => row2.outcome = m.to
         /\ ~IsTerminalMove(m) => row2.outcome = row.outcome
<1> DEFINE new == Applied(old, m, produced)
<1>1. new.outcome = IF IsTerminalMove(m) THEN m.to ELSE old.outcome
  BY DEF Applied, RowType
<1> HIDE DEF new
<1>2. row2 = [f \in DOMAIN row |-> IF new[f] = old[f] THEN row[f] ELSE new[f]]
  BY DEF Written, new
<1>3. "outcome" \in DOMAIN row
  BY DEF RowType
<1> QED BY <1>1, <1>2, <1>3

LEMMA LifecycleInit ==
  ASSUME Init, NEW r \in Runs
  PROVE  Lifecycle(r)!Init
<1>1. rows[r] = NewRow
  BY DEF Init
<1>2. NewRow.outcome = "" /\ NewRow.held = FALSE /\ NewRow.revisions = 0
  BY DEF NewRow
<1> QED BY <1>1, <1>2 DEF Lifecycle!Init, Phase

\* What a write of w does to the run it is at.
LEMMA LifecycleMove ==
  ASSUME TypeInv, NEW w \in Workers, Grips(w), pc[w] = "writing", NEW r \in Runs, job[w] = r,
         rows'[r] = Written(rows[r], read[w], Applied(read[w], moving[w], made[w].result.produced))
  PROVE  [Lifecycle(r)!Next]_<<Phase(r), rows[r].revisions>>
<1> DEFINE m == moving[w]
           k == rows[r].revisions
<1>1. /\ rows[r] \in RowType /\ read[w] \in RowType /\ m \in MoveType(Graph)
  BY DEF TypeInv, TypeOK, Actors
<1>2. Unfinished(rows[r]) /\ Alike(read[w], rows[r]) /\ KeepsTheLifecycle(m, rows[r])
  BY DEF Grips, OnTheJob
<1>3. rows'[r].outcome = (IF IsTerminalMove(m) THEN m.to ELSE "")
  <2>1. rows[r].outcome = "" /\ read[w].outcome = ""
    BY <1>2 DEF Alike, Unfinished
  <2>2. /\ IsTerminalMove(m) => rows'[r].outcome = m.to
        /\ ~IsTerminalMove(m) => rows'[r].outcome = rows[r].outcome
    <3>1. read[w].outcome = rows[r].outcome
      BY <2>1
    <3> HIDE DEF m
    <3>2. rows'[r] = Written(rows[r], read[w], Applied(read[w], m, made[w].result.produced))
      BY DEF m
    <3> QED BY <1>1, <3>1, <3>2, WrittenOutcome
  <2> QED BY <2>1, <2>2
<1>4. rows'[r].revisions = m.revisions /\ rows'[r].held = m.held
  BY <1>1, <1>2, WrittenFields DEF Alike
<1>5. Phase(r) = "moving"
  BY <1>2 DEF Unfinished, Phase
<1>6. CASE IsTerminalMove(m)
  <2>1. Phase(r)' \in Lifecycle(r)!Outcome
    BY <1>3, <1>6 DEF Phase, IsTerminalMove, Finals, Lifecycle!Outcome
  <2>2. m.revisions \in {0, k} \cup ({k + 1} \cap Allowed)
    BY <1>2 DEF KeepsTheLifecycle
  <2>3. Lifecycle(r)!Finish
    BY <1>4, <1>5, <2>1, <2>2 DEF Lifecycle!Finish
  <2> QED BY <2>3 DEF Lifecycle!Next
<1>7. CASE ~IsTerminalMove(m)
  <2>1. Phase(r)' = IF m.held THEN "waiting" ELSE "moving"
    BY <1>3, <1>4, <1>7 DEF Phase
  <2>2. m.to # "failed"
    BY <1>7 DEF IsTerminalMove, Finals
  <2>3. CASE m.revisions = k
    <3>1. CASE m.held
      BY <1>4, <1>5, <2>1, <2>3, <3>1 DEF Lifecycle!Next, Lifecycle!Wait
    <3>2. CASE ~m.held
      BY <1>4, <1>5, <2>1, <2>3, <3>2
    <3> QED BY <3>1, <3>2
  <2>4. CASE m.revisions = k + 1 /\ m.revisions \in Allowed /\ m.held = FALSE
    BY <1>4, <1>5, <2>1, <2>4 DEF Lifecycle!Next, Lifecycle!SendBack
  <2> QED BY <1>2, <2>2, <2>3, <2>4 DEF KeepsTheLifecycle
<1> QED BY <1>6, <1>7

LEMMA LifecycleStep ==
  ASSUME Advancers = {}, TypeInv, LifeInv, Next, NEW r \in Runs
  PROVE  [Lifecycle(r)!Next]_<<Phase(r), rows[r].revisions>>
<1>1. CASE rows'[r] = rows[r]
  BY <1>1 DEF Phase
<1>2. ASSUME rows'[r] = [rows[r] EXCEPT !.approved = TRUE, !.held = FALSE]
      PROVE  [Lifecycle(r)!Next]_<<Phase(r), rows[r].revisions>>
  <2>1. rows[r] \in RowType
    BY DEF TypeInv, TypeOK
  <2>2. /\ rows'[r].revisions = rows[r].revisions /\ rows'[r].outcome = rows[r].outcome
        /\ rows'[r].held = FALSE
    BY <1>2, <2>1, ApprovedFields
  <2>3. Phase(r)' = Phase(r) \/ (Phase(r) = "waiting" /\ Phase(r)' = "moving")
    BY <2>2 DEF Phase
  <2> QED BY <2>2, <2>3 DEF Lifecycle!Next, Lifecycle!Resume
<1>3. ASSUME NEW x \in Actors, pc[x] = "writing", job[x] = r,
             rows'[r] = Written(rows[r], read[x],
                              Applied(read[x], moving[x], made[x].result.produced))
      PROVE  [Lifecycle(r)!Next]_<<Phase(r), rows[r].revisions>>
  <2>1. x \in Workers /\ Grips(x)
    BY DEF Actors, LifeInv
  <2> QED BY <1>3, <2>1, LifecycleMove
<1> QED BY <1>1, <1>2, <1>3, RowsChange, Zenon

(***************************************************************************)
(* Under the same conditions every run of the floor keeps what             *)
(* RunLifecycle promises, and with it what RunMachine keeps for one run at *)
(* one worker: between claim and release a worker's reading of the run's   *)
(* count, hold and outcome stays true, whatever people, other workers, and *)
(* a crash between any two commits do.                                     *)
(***************************************************************************)
THEOREM EveryRunHasALifecycle ==
  ASSUME SlowTurns = FALSE, Advancers = {}
  PROVE  Spec => LifecycleSpec
<1>1. Init => \A r \in Runs : Lifecycle(r)!Init
  BY LifecycleInit
<1>2. ASSUME TypeInv, LifeInv, [Next]_vars
      PROVE  [\A r \in Runs : [Lifecycle(r)!Next]_<<Phase(r), rows[r].revisions>>]_vars
  BY <1>2, LifecycleStep
<1>3. ASSUME TypeInv, RevisionsInv, LifeInv, [Next]_vars
      PROVE  LifeInv'
  BY <1>3, LifeStep
<1>4. Init => LifeInv
  BY LifeInit
<1> QED BY <1>1, <1>2, <1>3, <1>4, TypeInit, TypeStep, RevisionsHold, PTL DEF Spec, LifecycleSpec

-----------------------------------------------------------------------------
(* Every write is one whole step. *)

\* b is what a says of a run, or says so after an approval.
SameRow(a, b) ==
  /\ a.stage = b.stage /\ a.reason = b.reason /\ a.revisions = b.revisions
  /\ a.last_refusal = b.last_refusal /\ a.document = b.document
  /\ a.opt_in = b.opt_in /\ a.skip = b.skip /\ a.held = b.held /\ a.outcome = b.outcome
  /\ a.approved => b.approved

ToDo(row) == ~PlanNext(Graph, row).skipped /\ ~PlanNext(Graph, row).held

\* What step decides of a run it read as `old`, and what the stage produced.
Decision(old, m, produced) ==
  \/ ~ToDo(old) /\ m = PlanNext(Graph, old) /\ produced = {}
  \/ ToDo(old) /\ m = MoveTo("failed") /\ produced = {}
  \/ /\ ToDo(old) /\ old.stage \in DOMAIN Graph.stages
     /\ \E result \in ResultsOf(Graph.stages[old.stage]) :
          m = Advance(Graph, old, result) /\ produced = result.produced

ChosenFor(row, m, produced) == \E old \in RowType : SameRow(old, row) /\ Decision(old, m, produced)

LEMMA SameRows ==
  ASSUME NEW a, NEW b, SameRow(a, b)
  PROVE  /\ \A c : SameRow(b, c) => SameRow(a, c)
         /\ \A m, produced : ChosenFor(a, m, produced) => ChosenFor(b, m, produced)
<1>1. \A o : SameRow(o, a) => SameRow(o, b)
  BY DEF SameRow
<1>2. \A c : SameRow(b, c) => SameRow(a, c)
  BY DEF SameRow
<1> QED BY <1>1, <1>2 DEF ChosenFor

\* An approval takes no gate down that was open.
LEMMA ToDoStays ==
  ASSUME NEW a \in RowType, NEW b \in RowType, SameRow(a, b), ToDo(a)
  PROVE  ToDo(b)
<1> DEFINE s == Graph.stages[a.stage]
<1>1. /\ a.stage = b.stage /\ a.reason = b.reason /\ a.document = b.document
      /\ a.opt_in = b.opt_in /\ a.skip = b.skip /\ (a.approved => b.approved)
  BY DEF SameRow
<1>2. ShouldSkip(a.stage, s, a) <=> ShouldSkip(b.stage, s, b)
  BY <1>1 DEF ShouldSkip
<1>3. \A to, r : /\ Skipped(CarryTo(to, r)).skipped /\ Held(CarryTo(to, r)).held
                 /\ ~CarryTo(to, r).held /\ ~CarryTo(to, r).skipped
                 /\ ~MoveTo(to).held /\ ~MoveTo(to).skipped
  BY DEF Skipped, Held, CarryTo, MoveTo, Move
<1>4. CASE a.stage \in DOMAIN Graph.stages \ Graph.terminal
  <2>1. ~ShouldSkip(a.stage, s, a) /\ ~(s.approve /\ ~a.approved)
    BY <1>3, <1>4 DEF ToDo, PlanNext
  <2>2. PlanNext(Graph, b) = CarryTo(b.stage, b)
    BY <1>1, <1>2, <1>4, <2>1 DEF PlanNext
  <2> QED BY <1>3, <2>2 DEF ToDo
<1>5. CASE a.stage \notin DOMAIN Graph.stages \ Graph.terminal
  <2>1. PlanNext(Graph, b) \in {MoveTo(b.stage), MoveTo("failed")}
    BY <1>1, <1>5 DEF PlanNext
  <2> QED BY <1>3, <2>1 DEF ToDo
<1> QED BY <1>4, <1>5

LEMMA ApprovedIsSame ==
  ASSUME NEW row \in RowType, row.held = FALSE, NEW row2,
         row2 = row \/ row2 = [row EXCEPT !.approved = TRUE, !.held = FALSE]
  PROVE  SameRow(row, row2)
BY DEF RowType, SameRow

\* A row read before an approval differs from the row in that column only.
LEMMA SeenEarlier ==
  ASSUME NEW old \in RowType, NEW row \in RowType, SameRow(old, row)
  PROVE  [row EXCEPT !.approved = old.approved] = old
BY DEF RowType, SameRow

\* A commit on a row that was read before an approval leaves what apply_move makes of it.
LEMMA WrittenIsApplied ==
  ASSUME NEW old \in RowType, NEW row \in RowType, SameRow(old, row), NEW m \in MoveType(Graph),
         NEW produced \in SUBSET Sections
  PROVE  Written(row, old, Applied(old, m, produced)) = Applied(row, m, produced)
<1> DEFINE new == Applied(old, m, produced)
           then == Applied(row, m, produced)
<1>1. new \in RowType /\ then \in RowType
  BY AppliedType
<1>2. /\ new.stage = m.to /\ new.reason = m.reason /\ new.revisions = m.revisions
      /\ new.last_refusal = m.last_refusal /\ new.held = m.held
      /\ new.document = old.document \cup produced
      /\ new.outcome = IF IsTerminalMove(m) THEN m.to ELSE old.outcome
      /\ new.opt_in = old.opt_in /\ new.skip = old.skip /\ new.approved = old.approved
  BY DEF Applied, RowType
<1>3. /\ then.stage = m.to /\ then.reason = m.reason /\ then.revisions = m.revisions
      /\ then.last_refusal = m.last_refusal /\ then.held = m.held
      /\ then.document = row.document \cup produced
      /\ then.outcome = IF IsTerminalMove(m) THEN m.to ELSE row.outcome
      /\ then.opt_in = row.opt_in /\ then.skip = row.skip /\ then.approved = row.approved
  BY DEF Applied, RowType
<1> HIDE DEF new, then
<1>4. /\ new.stage = then.stage /\ new.reason = then.reason /\ new.revisions = then.revisions
      /\ new.last_refusal = then.last_refusal /\ new.held = then.held
      /\ new.document = then.document /\ new.outcome = then.outcome
      /\ new.opt_in = then.opt_in /\ new.skip = then.skip
  BY <1>2, <1>3 DEF SameRow
<1>5. \A f \in DOMAIN row : (IF new[f] = old[f] THEN row[f] ELSE new[f]) = then[f]
  <2>1. DOMAIN row = {"stage", "reason", "revisions", "last_refusal", "document", "opt_in",
                      "skip", "approved", "held", "outcome"}
    BY DEF RowType
  <2>2. new["approved"] = old["approved"] /\ row["approved"] = then["approved"]
    BY <1>2, <1>3
  <2>3. \A f \in DOMAIN row \ {"approved"} : new[f] = then[f] /\ old[f] = row[f]
    BY <1>4, <2>1 DEF SameRow
  <2> QED BY <2>2, <2>3
<1>6. then = [f \in DOMAIN row |-> then[f]]
  BY <1>1 DEF RowType
<1>7. Written(row, old, new) = [f \in DOMAIN row |-> then[f]]
  BY <1>5 DEF Written
<1> QED BY <1>6, <1>7 DEF new, then

LEMMA DecisionIsAStep ==
  ASSUME NEW row \in RowType, Unfinished(row), NEW m, NEW produced, ChosenFor(row, m, produced)
  PROVE  StepOf(row, Applied(row, m, produced))
<1>1. PICK old \in RowType : SameRow(old, row) /\ Decision(old, m, produced)
  BY DEF ChosenFor
<1>2. /\ old = [row EXCEPT !.approved = old.approved] /\ old.approved \in BOOLEAN
      /\ old.approved => row.approved
  <2>1. old.approved \in BOOLEAN /\ (old.approved => row.approved)
    BY <1>1 DEF RowType, SameRow
  <2> QED BY <1>1, <2>1, SeenEarlier
<1>3. Movable(row)
  BY DEF Movable, Unfinished
<1>4. IF PlanNext(Graph, old).skipped \/ PlanNext(Graph, old).held
      THEN Applied(row, m, produced) = Applied(row, PlanNext(Graph, old), {})
      ELSE \/ Applied(row, m, produced) = Applied(row, MoveTo("failed"), {})
           \/ /\ old.stage \in DOMAIN Graph.stages
              /\ \E result \in ResultsOf(Graph.stages[old.stage]) :
                   Applied(row, m, produced)
                     = Applied(row, Advance(Graph, old, result), result.produced)
  BY <1>1 DEF Decision, ToDo
<1> QED BY <1>2, <1>3, <1>4 DEF StepOf

-----------------------------------------------------------------------------
(* What a worker has decided, or is deciding, of the run it is at. *)

Chosen(w) ==
  /\ pc[w] \notin {"working", "writing", "leaving"} => made[w] = Nothing
  /\ OnTheJob(w) => SameRow(read[w], rows[job[w]])
  /\ pc[w] = "working" =>
       /\ ToDo(rows[job[w]])
       /\ made[w].result \in ResultsOf(Graph.stages[rows[job[w]].stage])
  /\ pc[w] = "writing" => ChosenFor(rows[job[w]], moving[w], made[w].result.produced)

WholeInv == LifeInv /\ \A w \in Workers : Chosen(w)

LEMMA ChosenByABystander ==
  ASSUME Advancers = {}, TypeInv, Claims, Next, NEW w \in Workers, Rests(w), moving'[w] = moving[w],
         ~ApplyMove(w), Grips(w), Chosen(w)
  PROVE  Chosen(w)'
<1>1. CASE OnTheJob(w)
  <2> DEFINE r == job[w]
  <2>1. InHand(w) /\ w \in Actors /\ pc[w] \notin {"idle", "claiming"}
    BY <1>1 DEF OnTheJob, InHand, Actors
  <2>2. r \in Runs /\ rows[r] \in RowType /\ rows[r].held = FALSE
    BY <1>1, <2>1, ItsRow DEF Grips, Unfinished
  <2>3. \A x \in Actors : pc[x] = "writing" /\ job[x] = r => x = w
    BY <2>1 DEF Claims, InHand, Actors
  <2>4. \/ rows'[r] = rows[r]
        \/ rows'[r] = [rows[r] EXCEPT !.approved = TRUE, !.held = FALSE]
    BY <2>2, <2>3, RowsChange
  <2>5. SameRow(rows[r], rows'[r])
    BY <2>2, <2>4, ApprovedIsSame
  <2>6. rows'[r] \in RowType
    BY <2>2, <2>4, ApprovedType
  <2>7. ToDo(rows[r]) => ToDo(rows'[r])
    BY <2>2, <2>5, <2>6, ToDoStays
  <2>8. SameRow(read[w], rows[r]) => SameRow(read[w], rows'[r])
    BY <2>5, SameRows
  <2>9. ChosenFor(rows[r], moving[w], made[w].result.produced)
          => ChosenFor(rows'[r], moving[w], made[w].result.produced)
    BY <2>5, SameRows
  <2>10. rows'[r].stage = rows[r].stage
    BY <2>5 DEF SameRow
  <2> HIDE DEF r
  <2>11. /\ pc'[w] = pc[w] /\ job'[w] = r /\ read'[w] = read[w] /\ made'[w] = made[w]
    BY DEF Rests, r
  <2>12. /\ pc[w] \notin {"working", "writing", "leaving"} => made[w] = Nothing
         /\ SameRow(read[w], rows[r])
         /\ pc[w] = "working" =>
              ToDo(rows[r]) /\ made[w].result \in ResultsOf(Graph.stages[rows[r].stage])
         /\ pc[w] = "writing" => ChosenFor(rows[r], moving[w], made[w].result.produced)
    BY <1>1 DEF Chosen, r
  <2> QED BY <2>7, <2>8, <2>9, <2>10, <2>11, <2>12 DEF Chosen, OnTheJob
<1>2. CASE ~OnTheJob(w)
  BY <1>2 DEF Rests, Chosen, OnTheJob
<1> QED BY <1>1, <1>2

LEMMA OwnChoice ==
  ASSUME TypeInv, NEW w \in Workers, Turn(w), Grips(w), Chosen(w)
  PROVE  Chosen(w)'
<1>0. /\ pc \in [Actors -> Places] /\ job \in [Actors -> Runs \cup {NoRun}]
      /\ read \in [Actors -> RowType] /\ moving \in [Actors -> MoveType(Graph)] /\ w \in Actors
      /\ made \in [Actors -> [at : Names(Graph) \cup {""}, result : ResultType]]
  BY DEF TypeInv, TypeOK, Actors
<1>00. \A row : SameRow(row, row)
  BY DEF SameRow
<1>01. Nothing.result.produced = {}
  BY DEF Nothing, Blocked, Result
<1>1. CASE Tick(w) \/ TooLate(w) \/ NoRoom(w) \/ claim(w) \/ release(w)
  <2>1. made' = made /\ pc[w] \in {"idle", "claiming", "claimed", "releasing"}
        /\ \E p \in {"idle", "claiming", "claimed", "releasing"} : pc' = [pc EXCEPT ![w] = p]
    BY <1>1 DEF Tick, TooLate, NoRoom, claim, release, Is, Goes
  <2> QED BY <1>0, <2>1 DEF Chosen, OnTheJob
<1>3. CASE EnterSlot(w)
  <2>1. /\ pc[w] = "claimed" /\ pc' = [pc EXCEPT ![w] = "stepping"] /\ made' = made
        /\ rows' = rows /\ job' = job /\ read' = [read EXCEPT ![w] = rows[job[w]]]
    BY <1>3 DEF EnterSlot, Is, Goes
  <2>2. read'[w] = rows[job[w]] /\ pc'[w] = "stepping"
    BY <1>0, <2>1
  <2> QED BY <1>00, <2>1, <2>2 DEF Chosen, OnTheJob
<1>4. CASE AlreadyFinished(w) \/ Raise(w) \/ ApplyMove(w)
  <2>1. pc' = [pc EXCEPT ![w] = "leaving"]
    BY <1>4 DEF AlreadyFinished, Raise, ApplyMove, Goes
  <2> QED BY <1>0, <2>1 DEF Chosen, OnTheJob
<1>5. ASSUME PassOver(w) \/ OverBudget(w)
      PROVE  Chosen(w)'
  <2>1. /\ pc[w] = "stepping" /\ pc' = [pc EXCEPT ![w] = "writing"]
        /\ rows' = rows /\ job' = job /\ made' = made
    BY <1>5 DEF PassOver, OverBudget, Ready, Is, Goes, floorVars
  <2>2. read'[w] = read[w] \/ read'[w] = rows[job[w]]
    <3>1. CASE PassOver(w)
      <4>1. PICK held \in BOOLEAN :
              read' = [read EXCEPT ![w] = IF held THEN @ ELSE rows[job[w]]]
        BY <3>1, Zenon DEF PassOver
      <4> QED BY <1>0, <4>1
    <3>2. CASE OverBudget(w)
      BY <1>0, <3>2 DEF OverBudget
    <3> QED BY <1>5, <3>1, <3>2
  <2>3. SameRow(read[w], rows[job[w]]) /\ made[w].result.produced = {}
    BY <1>01, <2>1 DEF Chosen, OnTheJob
  <2>4. Decision(read[w], moving'[w], {})
    <3>1. CASE PassOver(w)
      BY <1>0, <3>1 DEF PassOver, planned, Decision, ToDo
    <3>2. CASE OverBudget(w)
      BY <1>0, <3>2 DEF OverBudget, Ready, planned, Decision, ToDo
    <3> QED BY <1>5, <3>1, <3>2
  <2>5. ChosenFor(rows[job[w]], moving'[w], {})
    BY <1>0, <2>3, <2>4 DEF ChosenFor
  <2>6. SameRow(read'[w], rows[job[w]]) /\ pc'[w] = "writing"
    BY <1>0, <1>00, <2>1, <2>2, <2>3
  <2> QED BY <2>1, <2>3, <2>5, <2>6 DEF Chosen, OnTheJob
<1>6. CASE Work(w)
  <2>1. /\ pc[w] = "stepping" /\ pc' = [pc EXCEPT ![w] = "working"]
        /\ rows' = rows /\ job' = job /\ read' = read /\ ToDo(read[w])
    BY <1>6 DEF Work, Ready, Is, Goes, floorVars, planned, ToDo
  <2>2. PICK y \in ResultsOf(Graph.stages[read[w].stage]) :
          made' = [made EXCEPT ![w] = [at |-> read[w].stage, result |-> y]]
    BY <1>6 DEF Work
  <2>3. made'[w].result = y
    BY <1>0, <2>2
  <2>4. SameRow(read[w], rows[job[w]])
    BY <2>1 DEF Chosen, OnTheJob
  <2>5. rows[job[w]] \in RowType /\ read[w] \in RowType
    BY <1>0, <2>1, ItsRow
  <2>6. ToDo(rows[job[w]])
    BY <2>1, <2>4, <2>5, ToDoStays
  <2>7. read[w].stage = rows[job[w]].stage /\ pc'[w] = "working"
    BY <1>0, <2>1, <2>4 DEF SameRow
  <2> QED BY <2>1, <2>2, <2>3, <2>4, <2>6, <2>7 DEF Chosen, OnTheJob
<1>7. CASE Decide(w)
  <2> DEFINE m == Advance(Graph, rows[job[w]], made[w].result)
  <2>1. /\ pc[w] = "working" /\ pc' = [pc EXCEPT ![w] = "writing"]
        /\ rows' = rows /\ job' = job /\ made' = made
        /\ read' = [read EXCEPT ![w] = rows[job[w]]]
        /\ moving' = [moving EXCEPT ![w] = m]
    BY <1>7 DEF Decide, Is, Goes, floorVars
  <2>2. rows[job[w]] \in RowType
    BY <1>0, <2>1, ItsRow
  <2>3. /\ rows[job[w]].stage \in DOMAIN Graph.stages /\ ToDo(rows[job[w]])
        /\ made[w].result \in ResultsOf(Graph.stages[rows[job[w]].stage])
    BY <2>1 DEF Grips, Chosen
  <2>4. Decision(rows[job[w]], m, made[w].result.produced)
    BY <2>3 DEF Decision
  <2>5. ChosenFor(rows[job[w]], m, made[w].result.produced)
    BY <1>00, <2>2, <2>4 DEF ChosenFor
  <2> HIDE DEF m
  <2>6. moving'[w] = m /\ pc'[w] = "writing" /\ read'[w] = rows[job[w]]
    BY <1>0, <2>1
  <2> QED BY <1>00, <2>1, <2>5, <2>6 DEF Chosen, OnTheJob
<1>8. CASE LeaveSlot(w)
  <2>1. pc' = [pc EXCEPT ![w] = "releasing"] /\ made' = [made EXCEPT ![w] = Nothing]
    BY <1>8 DEF LeaveSlot, Goes, Forget
  <2> QED BY <1>0, <2>1 DEF Chosen, OnTheJob
<1> QED BY <1>1, <1>3, <1>4, <1>5, <1>6, <1>7, <1>8 DEF Turn, Step

LEMMA WholeInit ==
  ASSUME Init
  PROVE  WholeInv
<1>1. /\ pc = [x \in Actors |-> "idle"] /\ made = [x \in Actors |-> Nothing]
  BY Zenon DEF Init
<1> QED BY <1>1, LifeInit DEF WholeInv, Chosen, OnTheJob, Actors

LEMMA WholeStep ==
  ASSUME SlowTurns = FALSE, Advancers = {}, TypeInv, RevisionsInv, WholeInv, [Next]_vars
  PROVE  WholeInv'
<1>1. CASE UNCHANGED vars
  <2>1. /\ rows' = rows /\ pc' = pc /\ job' = job /\ read' = read /\ moving' = moving
        /\ made' = made
    BY <1>1 DEF vars, floorVars, threadVars
  <2>2. \A w \in Workers : Chosen(w)'
    BY <2>1 DEF WholeInv, Chosen, OnTheJob
  <2> QED BY <2>2, LifeStep DEF WholeInv
<1>2. ASSUME Next, NEW w \in Workers
      PROVE  Chosen(w)'
  <2>0. Claims /\ Grips(w) /\ Chosen(w)
    BY DEF WholeInv, LifeInv, FloorInv
  <2>1. CASE Turn(w)
    BY <2>0, <2>1, OwnChoice
  <2>2. ASSUME NEW v \in Workers, v # w, Turn(v), ~Turn(w)
        PROVE  Chosen(w)'
    <3>1. Rests(w) /\ ~ApplyMove(w)
      BY <2>2, OnlyItself DEF Turn, Step
    <3>2. moving'[w] = moving[w]
      <4>1. moving' = moving \/ \E m : moving' = [moving EXCEPT ![v] = m]
        BY <2>2 DEF Turn, Step, Tick, claim, TooLate, EnterSlot, NoRoom, LeaveSlot, release, Forget,
             AlreadyFinished, PassOver, OverBudget, Work, Raise, Decide, ApplyMove
      <4> QED BY <2>2, <4>1 DEF TypeInv, TypeOK, Actors
    <3> QED BY <1>2, <2>0, <3>1, <3>2, ChosenByABystander
  <2>3. ASSUME ~Turn(w), (\E r \in Runs : Approve(r) \/ Expire(r)) \/ (\E o \in Owners : SetTeam(o))
        PROVE  Chosen(w)'
    <3>1. Rests(w) /\ moving'[w] = moving[w]
      BY <2>3 DEF Approve, Expire, SetTeam, threadVars, Rests
    <3>2. ~ApplyMove(w)
      BY <2>3 DEF Turn, Step
    <3> QED BY <1>2, <2>0, <3>1, <3>2, ChosenByABystander
  <2>4. CASE Crash
    BY <2>4 DEF Crash, Chosen, OnTheJob, Actors
  <2> QED BY <1>2, <2>1, <2>2, <2>3, <2>4 DEF Next
<1>3. LifeInv'
  BY LifeStep DEF WholeInv
<1> QED BY <1>1, <1>2, <1>3 DEF WholeInv

LEMMA WholeMove ==
  ASSUME Advancers = {}, TypeInv, WholeInv, Next, NEW r \in Runs
  PROVE  \/ rows'[r] = rows[r]
         \/ /\ rows'[r] = [rows[r] EXCEPT !.approved = TRUE, !.held = FALSE]
            /\ approvals' = approvals + 1
         \/ StepOf(rows[r], rows'[r])
<1>1. ASSUME NEW x \in Actors, pc[x] = "writing", job[x] = r,
             rows'[r] = Written(rows[r], read[x],
                              Applied(read[x], moving[x], made[x].result.produced))
      PROVE  StepOf(rows[r], rows'[r])
  <2>1. Grips(x) /\ Chosen(x) /\ OnTheJob(x)
    BY <1>1 DEF Actors, WholeInv, LifeInv, OnTheJob
  <2>2. /\ rows[r] \in RowType /\ read[x] \in RowType /\ moving[x] \in MoveType(Graph)
        /\ made[x].result.produced \in SUBSET Sections
    BY <1>1, ItsRow
  <2>3. /\ Unfinished(rows[r]) /\ SameRow(read[x], rows[r])
        /\ ChosenFor(rows[r], moving[x], made[x].result.produced)
    BY <1>1, <2>1 DEF Grips, Chosen
  <2>4. rows'[r] = Applied(rows[r], moving[x], made[x].result.produced)
    BY <1>1, <2>2, <2>3, WrittenIsApplied
  <2> QED BY <2>2, <2>3, <2>4, DecisionIsAStep
<1> QED BY <1>1, RowsChange, Zenon

(***************************************************************************)
(* Where no turn outlasts STALE_AFTER_SECONDS and nobody moves runs by     *)
(* hand, each write to a run's row is one whole step of the machine, from  *)
(* the row as it stands when it is written, or one approval: the floor is  *)
(* as good as one that took each step at once.  Both conditions are needed *)
(* for the same reasons as in OneWorkerAtARun.                             *)
(***************************************************************************)
THEOREM EveryWriteIsAStep ==
  ASSUME SlowTurns = FALSE, Advancers = {}
  PROVE  Spec => StepsAreWhole
<1>1. ASSUME TypeInv, WholeInv, [Next]_vars
      PROVE  [\A r \in Runs :
                \/ rows'[r] = rows[r]
                \/ /\ rows'[r] = [rows[r] EXCEPT !.approved = TRUE, !.held = FALSE]
                   /\ approvals' = approvals + 1
                \/ StepOf(rows[r], rows'[r])]_vars
  BY <1>1, WholeMove
<1>2. ASSUME TypeInv, RevisionsInv, WholeInv, [Next]_vars
      PROVE  WholeInv'
  BY <1>2, WholeStep
<1>3. Init => WholeInv
  BY WholeInit
<1> QED BY <1>1, <1>2, <1>3, TypeInit, TypeStep, RevisionsHold, PTL DEF Spec, StepsAreWhole

-----------------------------------------------------------------------------
(* Caps. *)

Entered(t) == {w \in Workers : slot[w] = t}

CapInv ==
  /\ \A t \in Teams : in_flight[t] = Cardinality(Entered(t)) /\ in_flight[t] <= Cap[t]
  /\ \A w \in Workers : pc[w] \in {"idle", "claiming", "claimed", "releasing"} => slot[w] = ""

LEMMA EnteredIsFinite ==
  ASSUME NEW t
  PROVE  IsFiniteSet(Entered(t))
BY FloorAssumption, FS_Subset DEF Entered

\* No slot is entered or left.
LEMMA CapUntouched ==
  ASSUME CapInv, UNCHANGED <<in_flight, slot>>,
         \A w \in Workers : \/ pc'[w] = pc[w]
                            \/ pc[w] \in {"idle", "claiming", "claimed", "releasing"}
                            \/ pc'[w] \in {"working", "writing", "leaving"}
  PROVE  CapInv'
BY DEF CapInv, Entered

LEMMA CapStep ==
  ASSUME TypeInv, CapInv, Next
  PROVE  CapInv'
<1>0. /\ pc \in [Actors -> Places] /\ slot \in [Actors -> Teams \cup {""}]
      /\ in_flight \in [Teams -> Int] /\ "" \notin Teams
      /\ \A w \in Workers : w \in Actors
  BY FloorAssumption DEF TypeInv, TypeOK, Actors
<1>1. ASSUME NEW x \in Actors, Step(x)
      PROVE  CapInv'
  <2>1. /\ UNCHANGED <<in_flight, slot>>
        /\ \E p \in {"working", "writing", "leaving"} : pc' = [pc EXCEPT ![x] = p]
    BY <1>1 DEF Step, AlreadyFinished, PassOver, OverBudget, Work, Raise, Decide, ApplyMove,
                Goes, floorVars
  <2>2. \A w \in Workers : pc'[w] = pc[w] \/ pc'[w] \in {"working", "writing", "leaving"}
    BY <1>0, <2>1
  <2> QED BY <2>1, <2>2, CapUntouched
<1>2. ASSUME NEW w \in Workers, Tick(w) \/ claim(w) \/ TooLate(w) \/ NoRoom(w) \/ release(w)
      PROVE  CapInv'
  <2>1. /\ UNCHANGED <<in_flight, slot>> /\ pc[w] \in {"idle", "claiming", "claimed", "releasing"}
        /\ \E p : pc' = [pc EXCEPT ![w] = p]
    BY <1>2 DEF Tick, claim, TooLate, NoRoom, release, Is, Goes, floorVars
  <2>2. \A v \in Workers : pc'[v] = pc[v] \/ pc[v] \in {"idle", "claiming", "claimed", "releasing"}
    BY <1>0, <2>1
  <2> QED BY <2>1, <2>2, CapUntouched
<1>3. ASSUME NEW w \in Workers, EnterSlot(w)
      PROVE  CapInv'
  <2>0. PICK t : t = TeamOf(job[w])
    OBVIOUS
  <2>1. /\ pc[w] = "claimed" /\ pc' = [pc EXCEPT ![w] = "stepping"] /\ HasRoom(t)
        /\ \/ /\ Capped(t) /\ slot' = [slot EXCEPT ![w] = t]
              /\ in_flight' = [in_flight EXCEPT ![t] = @ + 1]
           \/ UNCHANGED <<slot, in_flight>>
    BY <1>3, <2>0 DEF EnterSlot, Is, Goes
  <2>2. slot[w] = "" /\ job[w] \in Runs
    <3>1. w \in Actors /\ pc[w] \notin {"idle", "claiming"}
      BY <1>0, <2>1
    <3> QED BY <2>1, <3>1, ItsRow DEF CapInv
  <2>3. t \in Teams \cup {""}
    BY <2>0, <2>2, FloorAssumption DEF TeamOf, TypeInv, TypeOK
  <2>4. CASE UNCHANGED <<slot, in_flight>>
    <3>1. \A v \in Workers : pc'[v] = pc[v] \/ pc[v] = "claimed"
      BY <1>0, <2>1
    <3> QED BY <2>4, <3>1, CapUntouched
  <2>5. CASE /\ Capped(t) /\ slot' = [slot EXCEPT ![w] = t]
             /\ in_flight' = [in_flight EXCEPT ![t] = @ + 1]
    <3>1. t \in Teams /\ in_flight[t] < Cap[t] /\ in_flight[t] \in Int /\ Cap[t] \in Nat
      BY <1>0, <2>1, <2>3, <2>5, FloorAssumption DEF Capped, HasRoom
    <3>2. Entered(t)' = Entered(t) \cup {w} /\ w \notin Entered(t)
      BY <1>0, <2>2, <2>5, <3>1 DEF Entered
    <3>3. \A u \in Teams : u # t => Entered(u)' = Entered(u)
      BY <1>0, <2>2, <2>5, <3>1 DEF Entered
    <3>4. Cardinality(Entered(t)') = Cardinality(Entered(t)) + 1
      BY <3>2, EnteredIsFinite, FS_AddElement
    <3>5. /\ in_flight'[t] = in_flight[t] + 1
          /\ \A u \in Teams : u # t => in_flight'[u] = in_flight[u]
      BY <1>0, <2>5, <3>1
    <3>6. in_flight'[t] = Cardinality(Entered(t)') /\ in_flight'[t] <= Cap[t]
      <4>1. in_flight[t] = Cardinality(Entered(t))
        BY <3>1 DEF CapInv
      <4>2. in_flight'[t] = Cardinality(Entered(t)')
        BY <3>4, <3>5, <4>1
      <4>3. in_flight'[t] <= Cap[t]
        BY <3>1, <3>5
      <4> QED BY <4>2, <4>3
    <3>7. \A u \in Teams : in_flight'[u] = Cardinality(Entered(u)') /\ in_flight'[u] <= Cap[u]
      BY <3>3, <3>5, <3>6 DEF CapInv
    <3>8. \A v \in Workers :
            pc'[v] \in {"idle", "claiming", "claimed", "releasing"} => slot'[v] = ""
      BY <1>0, <2>1, <2>5 DEF CapInv
    <3> QED BY <3>7, <3>8 DEF CapInv
  <2> QED BY <2>1, <2>4, <2>5
<1>4. ASSUME NEW w \in Workers, LeaveSlot(w)
      PROVE  CapInv'
  <2>0. PICK t : t = slot[w]
    OBVIOUS
  <2>1. /\ pc' = [pc EXCEPT ![w] = "releasing"] /\ slot' = [slot EXCEPT ![w] = ""]
        /\ in_flight' = IF t = "" THEN in_flight ELSE [in_flight EXCEPT ![t] = @ - 1]
    BY <1>4, <2>0 DEF LeaveSlot, LeftSlot, Goes
  <2>2. t \in Teams \cup {""}
    BY <1>0, <2>0
  <2>3. \A v \in Workers : pc'[v] \in {"idle", "claiming", "claimed", "releasing"} => slot'[v] = ""
    BY <1>0, <2>1 DEF CapInv
  <2>4. \A u \in Teams : u # t => Entered(u)' = Entered(u) /\ in_flight'[u] = in_flight[u]
    BY <1>0, <2>0, <2>1 DEF Entered
  <2>5. CASE t = ""
    BY <1>0, <2>3, <2>4, <2>5 DEF CapInv
  <2>6. CASE t \in Teams
    <3>1. Entered(t)' = Entered(t) \ {w} /\ w \in Entered(t)
      BY <1>0, <2>0, <2>1, <2>6 DEF Entered
    <3>2. Cardinality(Entered(t)') = Cardinality(Entered(t)) - 1
      BY <3>1, EnteredIsFinite, FS_RemoveElement
    <3>3. in_flight[t] \in Int /\ Cap[t] \in Nat /\ in_flight'[t] = in_flight[t] - 1
      BY <1>0, <2>1, <2>6, FloorAssumption
    <3>4. in_flight'[t] = Cardinality(Entered(t)') /\ in_flight'[t] <= Cap[t]
      <4>1. in_flight[t] = Cardinality(Entered(t)) /\ in_flight[t] <= Cap[t]
        BY <2>6 DEF CapInv
      <4>2. in_flight'[t] = Cardinality(Entered(t)')
        BY <3>2, <3>3, <4>1
      <4>3. in_flight'[t] <= Cap[t]
        BY <3>3, <4>1
      <4> QED BY <4>2, <4>3
    <3>5. \A u \in Teams : in_flight'[u] = Cardinality(Entered(u)') /\ in_flight'[u] <= Cap[u]
      BY <2>4, <3>4 DEF CapInv
    <3> QED BY <2>3, <3>5 DEF CapInv
  <2> QED BY <2>2, <2>5, <2>6
<1>5. ASSUME NEW a \in Advancers, (\E r \in Runs : AdvanceByHand(a, r)) \/ Answer(a)
      PROVE  CapInv'
  <2>1. UNCHANGED <<in_flight, slot>> /\ \E p : pc' = [pc EXCEPT ![a] = p]
    BY <1>5 DEF AdvanceByHand, Answer, Goes, floorVars
  <2>2. \A w \in Workers : pc'[w] = pc[w]
    BY <1>0, <2>1, FloorAssumption
  <2> QED BY <2>1, <2>2, CapUntouched
<1>6. ASSUME (\E r \in Runs : Approve(r) \/ Expire(r)) \/ (\E o \in Owners : SetTeam(o))
      PROVE  CapInv'
  BY <1>6, CapUntouched DEF Approve, Expire, SetTeam, threadVars
<1>7. ASSUME Crash
      PROVE  CapInv'
  <2>1. slot' = [x \in Actors |-> ""] /\ in_flight' = [t \in Teams |-> 0]
    BY <1>7 DEF Crash
  <2>2. \A t \in Teams : Entered(t)' = {} /\ in_flight'[t] = 0 /\ Cap[t] \in Nat
    BY <1>0, <2>1, FloorAssumption DEF Entered
  <2>3. \A w \in Workers : slot'[w] = ""
    BY <1>0, <2>1
  <2>4. Cardinality({}) = 0
    BY FS_EmptySet
  <2>5. \A t \in Teams : in_flight'[t] = Cardinality(Entered(t)') /\ in_flight'[t] <= Cap[t]
    BY <2>2, <2>4
  <2> QED BY <2>3, <2>5 DEF CapInv
<1>8. ASSUME NEW w \in Workers, Turn(w)
      PROVE  CapInv'
  BY <1>0, <1>1, <1>2, <1>3, <1>4, <1>8 DEF Turn
<1>9. ASSUME NEW a \in Advancers, ByHand(a)
      PROVE  CapInv'
  BY <1>1, <1>5, <1>9 DEF ByHand, Actors
<1> QED BY <1>6, <1>7, <1>8, <1>9 DEF Next

(***************************************************************************)
(* A team never has more turns in flight than its cap, and the number the  *)
(* cap is compared with is the number of turns that entered under it, for  *)
(* any number of workers, and with people who change teams meanwhile.      *)
(***************************************************************************)
THEOREM CapsAreRespected == Spec => []CapRespected
<1>1. Init => CapInv
  <2>1. ASSUME Init
        PROVE  slot = [x \in Actors |-> ""] /\ in_flight = [t \in Teams |-> 0]
    BY <2>1, Zenon DEF Init
  <2>2. ASSUME Init
        PROVE  /\ \A t \in Teams : Entered(t) = {} /\ in_flight[t] = 0 /\ Cap[t] \in Nat
               /\ \A w \in Workers : slot[w] = ""
    BY <2>1, <2>2, FloorAssumption DEF Entered, Actors
  <2>3. Cardinality({}) = 0
    BY FS_EmptySet
  <2>4. ASSUME Init, NEW t \in Teams
        PROVE  in_flight[t] = Cardinality(Entered(t)) /\ in_flight[t] <= Cap[t]
    <3>1. Entered(t) = {} /\ in_flight[t] = 0 /\ Cap[t] \in Nat
      BY <2>2, <2>4
    <3> QED BY <2>3, <3>1
  <2> QED BY <2>2, <2>4 DEF CapInv
<1>2. TypeInv /\ CapInv /\ [Next]_vars => CapInv'
  <2>1. CASE UNCHANGED vars
    BY <2>1 DEF vars, floorVars, threadVars, CapInv, Entered
  <2> QED BY <2>1, CapStep
<1>3. CapInv => CapRespected
  BY DEF CapInv, CapRespected, Entered
<1> QED BY <1>1, <1>2, <1>3, TypeInit, TypeStep, PTL DEF Spec
=============================================================================
