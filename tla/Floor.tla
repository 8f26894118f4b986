------------------------------- MODULE Floor -------------------------------
(***************************************************************************)
(* The factory floor: workers that claim a run, move it by one stage and   *)
(* give it back (pipeline/workers.py), people who move a run by hand       *)
(* (POST /runs/{id}/advance) and who approve held ones, the cap on a       *)
(* team's turns (concurrency.py), and the process going down.              *)
(*                                                                         *)
(* step (pipeline/runner.py) is opened up at its commits.  Between two     *)
(* commits of a session nothing is locked; after a commit the session      *)
(* reads the row again; and a write updates only the columns it changes.   *)
(* What the stages do is RunMachine's business: here a stage comes back    *)
(* with any result its kind can have.                                      *)
(***************************************************************************)
EXTENDS PipelineGraph, FiniteSets

CONSTANTS
  Graph,         \* the pipeline the runs are of
  Runs,          \* the runs, as numbers: the smaller is the older
  Workers,       \* the threads of the pool
  Advancers,     \* people who move runs by hand
  Owners, OwnerOf,   \* people, and whose run it is
  Teams, Cap,    \* teams, and their max_concurrency (0: unlimited)
  SlowTurns,     \* may a turn outlast STALE_AFTER_SECONDS?
  MaxCrashes,    \* bound: times the process goes down
  MaxApprovals   \* bound: approvals people give

Actors == Workers \cup Advancers

ASSUME GraphAssumption == GraphType(Graph) /\ WellFormed(Graph)

ASSUME FloorAssumption ==
  /\ Runs \subseteq Nat /\ IsFiniteSet(Runs) /\ IsFiniteSet(Workers)
  /\ Workers \cap Advancers = {} /\ "" \notin Actors
  /\ OwnerOf \in [Runs -> Owners] /\ Cap \in [Teams -> Nat] /\ "" \notin Teams
  /\ SlowTurns \in BOOLEAN /\ "spec" \in Sections
  /\ MaxCrashes \in Nat /\ MaxApprovals \in Nat

VARIABLES
  rows,        \* run -> what the machine reads and writes of its row
  claimed_by,  \* run -> the worker that claimed it, or ""
  stale,       \* run -> is that claim older than STALE_AFTER_SECONDS?
  team_id,     \* person -> their team, or ""
  in_flight,   \* team -> turns counted against its cap
  \* what each thread keeps while it works:
  pc,          \* where it is
  candidates,  \* the runs of its tick it has not tried yet
  job,         \* the run it is at
  slot,        \* the team whose count its turn is in, or ""
  read,        \* that run's row, as its session last read it
  made,        \* what the stage came back with
  moving,      \* the move it is about to write
  \* bounds:
  crashes, approvals

floorVars == <<rows, claimed_by, stale, team_id, in_flight>>
threadVars == <<pc, candidates, job, slot, read, made, moving>>
vars == <<floorVars, threadVars, crashes, approvals>>

-----------------------------------------------------------------------------
(* Rows. *)

NewRow ==
  [stage |-> Graph.first, reason |-> "", revisions |-> 0, last_refusal |-> "",
   document |-> {"spec"}, opt_in |-> {}, skip |-> {}, approved |-> FALSE,
   held |-> FALSE, outcome |-> ""]

\* Fault: every move is written down as the run's outcome.
AppliedForGood(row, m, produced) ==
  [row EXCEPT !.stage = m.to, !.reason = m.reason, !.revisions = m.revisions,
              !.last_refusal = m.last_refusal, !.held = m.held,
              !.document = @ \cup produced, !.outcome = m.to]

\* apply_move, on the row as the session read it.
Applied(row, m, produced) ==
  [row EXCEPT !.stage = m.to, !.reason = m.reason, !.revisions = m.revisions,
              !.last_refusal = m.last_refusal, !.held = m.held,
              !.document = @ \cup produced,
              !.outcome = IF IsTerminalMove(m) THEN m.to ELSE @]

\* Fault: the session writes the row as it knows it.
WrittenWhole(row, old, new) == new

\* What a commit leaves in the table: the columns the session changed.
Written(row, old, new) ==
  [f \in DOMAIN row |-> IF new[f] = old[f] THEN row[f] ELSE new[f]]

Movable(row) == row.outcome = "" /\ ~row.held

\* Fault: a claim nobody works on any more is never given up.
FreeUnlessTaken(r) == claimed_by[r] = ""

Free(r) == claimed_by[r] = "" \/ stale[r]

actionable == {r \in Runs : Movable(rows[r]) /\ Free(r)}

IsOldest(r, S) == r \in S /\ \A s \in S : r <= s

NoRun == -1

\* _cap_for: the team of the run's owner.
TeamOf(r) == team_id[OwnerOf[r]]

Capped(t) == t # "" /\ Cap[t] # 0

HasRoom(t) == Capped(t) => in_flight[t] < Cap[t]

-----------------------------------------------------------------------------
(* A worker's tick, up to the step. *)

Is(x, where) == pc[x] = where
Goes(x, where) == pc' = [pc EXCEPT ![x] = where]

Tick(w) ==
  /\ Is(w, "idle") /\ actionable # {}
  /\ candidates' = [candidates EXCEPT ![w] = actionable]
  /\ Goes(w, "claiming")
  /\ UNCHANGED <<floorVars, job, slot, read, made, moving, crashes, approvals>>

\* Fault: trust the list of candidates.
ClaimableAsListed(r) == TRUE

\* Fault: the WHERE clause forgets that the run may be waiting for somebody.
ClaimableThoughHeld(r) == rows[r].outcome = "" /\ Free(r)

\* The WHERE clause of claim.
Claimable(r) == Movable(rows[r]) /\ Free(r)

claim(w) ==
  /\ Is(w, "claiming")
  /\ \E r \in Runs :
       /\ IsOldest(r, candidates[w]) /\ Claimable(r)
       /\ claimed_by' = [claimed_by EXCEPT ![r] = w]
       /\ stale' = [stale EXCEPT ![r] = FALSE]
       /\ job' = [job EXCEPT ![w] = r]
  /\ candidates' = [candidates EXCEPT ![w] = {}]
  /\ Goes(w, "claimed")
  /\ UNCHANGED <<rows, team_id, in_flight, slot, read, made, moving, crashes, approvals>>

\* Somebody else got there first.
TooLate(w) ==
  /\ Is(w, "claiming")
  /\ \E r \in Runs :
       /\ IsOldest(r, candidates[w]) /\ ~Claimable(r)
       /\ candidates' = [candidates EXCEPT ![w] = @ \ {r}]
       /\ Goes(w, IF candidates[w] = {r} THEN "idle" ELSE "claiming")
  /\ UNCHANGED <<floorVars, job, slot, read, made, moving, crashes, approvals>>

\* slot, entered.
EnterSlot(w) ==
  LET t == TeamOf(job[w]) IN
  /\ Is(w, "claimed") /\ HasRoom(t)
  /\ IF Capped(t)
     THEN /\ slot' = [slot EXCEPT ![w] = t]
          /\ in_flight' = [in_flight EXCEPT ![t] = @ + 1]
     ELSE UNCHANGED <<slot, in_flight>>
  /\ read' = [read EXCEPT ![w] = rows[job[w]]]
  /\ Goes(w, "stepping")
  /\ UNCHANGED <<rows, claimed_by, stale, team_id, candidates, job, made, moving, crashes, approvals>>

\* ConcurrencyExceeded: the tick is over.
NoRoom(w) ==
  /\ Is(w, "claimed") /\ ~HasRoom(TeamOf(job[w]))
  /\ Goes(w, "releasing")
  /\ UNCHANGED <<floorVars, candidates, job, slot, read, made, moving, crashes, approvals>>

\* advance_run: no claim and no slot.  `drive` is this again after each step.
AdvanceByHand(a, r) ==
  /\ a \in Advancers /\ Is(a, "idle") /\ Movable(rows[r])
  /\ job' = [job EXCEPT ![a] = r]
  /\ read' = [read EXCEPT ![a] = rows[r]]
  /\ Goes(a, "stepping")
  /\ UNCHANGED <<floorVars, candidates, slot, made, moving, crashes, approvals>>

-----------------------------------------------------------------------------
(* step. *)

Nothing == [at |-> "", result |-> Blocked]

\* plan_next, of the row as it was read (run_state).
planned(x) == PlanNext(Graph, read[x])

\* Already finished when it was read: nothing is done.
AlreadyFinished(x) ==
  /\ Is(x, "stepping") /\ read[x].outcome # ""
  /\ Goes(x, "leaving")
  /\ UNCHANGED <<floorVars, candidates, job, slot, read, made, moving, crashes, approvals>>

(***************************************************************************)
(* Skipped or held.  The step record, or the audit record of a new hold,   *)
(* is committed first, so the row is read again before the move is         *)
(* written; a hold that is not new records nothing.                        *)
(***************************************************************************)
PassOver(x) ==
  /\ Is(x, "stepping") /\ read[x].outcome = ""
  /\ planned(x).skipped \/ planned(x).held
  /\ moving' = [moving EXCEPT ![x] = planned(x)]
  /\ read' = [read EXCEPT ![x] = IF planned(x).held /\ @.held THEN @ ELSE rows[job[x]]]
  /\ Goes(x, "writing")
  /\ UNCHANGED <<floorVars, candidates, job, slot, made, crashes, approvals>>

Ready(x) ==
  /\ Is(x, "stepping") /\ read[x].outcome = ""
  /\ ~planned(x).skipped /\ ~planned(x).held

\* What has been spent is not kept here: any step may find it too much.
OverBudget(x) ==
  /\ Ready(x)
  /\ moving' = [moving EXCEPT ![x] = MoveTo("failed")]
  /\ read' = [read EXCEPT ![x] = rows[job[x]]]
  /\ Goes(x, "writing")
  /\ UNCHANGED <<floorVars, candidates, job, slot, made, crashes, approvals>>

\* What a turn may come back with, from the stand-in or from a harness: what the stage
\* says it produces, or an error, or nothing for being over its budget.
TurnResults(s) == {Ok(s.produces), Error(s.produces), Error({}), Blocked}

\* What a stage may come back with.
ResultsOf(s) ==
  IF RunsATurn(s) THEN TurnResults(s)
  ELSE {Error({})}
    \cup (IF s.action = "watch_pull_request"
          THEN {Result("ok", "", e, {}) : e \in Events \cup {""}} ELSE {Ok({})})
    \cup (IF s.action = "commit_and_push" THEN {Refused(c) : c \in Complaints} ELSE {})

\* The turn or the action, for as long as it takes.
Work(x) ==
  /\ Ready(x) /\ read[x].stage \in DOMAIN Graph.stages
  /\ \E result \in ResultsOf(Graph.stages[read[x].stage]) :
       made' = [made EXCEPT ![x] = [at |-> read[x].stage, result |-> result]]
  /\ Goes(x, "working")
  /\ UNCHANGED <<floorVars, candidates, job, slot, read, moving, crashes, approvals>>

\* At a stage the graph does not have (an end of a name of its own), step raises.
Raise(x) ==
  /\ Ready(x) /\ read[x].stage \notin DOMAIN Graph.stages
  /\ Goes(x, "leaving")
  /\ UNCHANGED <<floorVars, candidates, job, slot, read, made, moving, crashes, approvals>>

\* The step is recorded and charged, the row read again, and the next stage decided.
Decide(x) ==
  /\ Is(x, "working")
  /\ read' = [read EXCEPT ![x] = rows[job[x]]]
  /\ moving' = [moving EXCEPT ![x] = Advance(Graph, rows[job[x]], made[x].result)]
  /\ Goes(x, "writing")
  /\ UNCHANGED <<floorVars, candidates, job, slot, made, crashes, approvals>>

ApplyMove(x) ==
  /\ Is(x, "writing")
  /\ rows' = [rows EXCEPT ![job[x]] =
                Written(@, read[x], Applied(read[x], moving[x], made[x].result.produced))]
  /\ Goes(x, "leaving")
  /\ UNCHANGED <<claimed_by, stale, team_id, in_flight, candidates, job, slot, read, made,
                 moving, crashes, approvals>>

-----------------------------------------------------------------------------
(* The end of a tick. *)

Forget(x) ==
  /\ read' = [read EXCEPT ![x] = NewRow]
  /\ made' = [made EXCEPT ![x] = Nothing]
  /\ moving' = [moving EXCEPT ![x] = MoveTo("failed")]

\* Fault: the count of the team its owner is in by now.
LeftSlotOfTheOwner(w) ==
  IF slot[w] = "" \/ TeamOf(job[w]) = "" THEN in_flight
  ELSE [in_flight EXCEPT ![TeamOf(job[w])] = @ - 1]

LeftSlot(w) == IF slot[w] = "" THEN in_flight ELSE [in_flight EXCEPT ![slot[w]] = @ - 1]

\* slot, left.
LeaveSlot(w) ==
  /\ w \in Workers /\ Is(w, "leaving")
  /\ in_flight' = LeftSlot(w)
  /\ slot' = [slot EXCEPT ![w] = ""]
  /\ Goes(w, "releasing") /\ Forget(w)
  /\ UNCHANGED <<rows, claimed_by, stale, team_id, candidates, job, crashes, approvals>>

\* release: the run's id is all it looks at.
release(w) ==
  /\ Is(w, "releasing")
  /\ claimed_by' = [claimed_by EXCEPT ![job[w]] = ""]
  /\ stale' = [stale EXCEPT ![job[w]] = FALSE]
  /\ Goes(w, "idle")
  /\ job' = [job EXCEPT ![w] = NoRun]
  /\ UNCHANGED <<rows, team_id, in_flight, candidates, slot, read, made, moving, crashes, approvals>>

Answer(a) ==
  /\ a \in Advancers /\ Is(a, "leaving")
  /\ Goes(a, "idle") /\ Forget(a)
  /\ job' = [job EXCEPT ![a] = NoRun]
  /\ UNCHANGED <<floorVars, candidates, slot, crashes, approvals>>

-----------------------------------------------------------------------------
(* People, time and failure. *)

Approve(r) ==
  /\ approvals < MaxApprovals /\ approvals' = approvals + 1
  /\ rows' = [rows EXCEPT ![r].approved = TRUE, ![r].held = FALSE]
  /\ UNCHANGED <<claimed_by, stale, team_id, in_flight, threadVars, crashes>>

\* set_user_team: somebody changes teams; turns that have begun are not touched.
SetTeam(o) ==
  /\ \E t \in (Teams \cup {""}) \ {team_id[o]} : team_id' = [team_id EXCEPT ![o] = t]
  /\ UNCHANGED <<rows, claimed_by, stale, in_flight, threadVars, crashes, approvals>>

InHand(w) == pc[w] \in {"claimed", "stepping", "working", "writing", "leaving", "releasing"}

\* Fifteen minutes pass; with SlowTurns even while the worker is at it.
Expire(r) ==
  /\ claimed_by[r] # "" /\ ~stale[r]
  /\ SlowTurns \/ ~\E w \in Workers : InHand(w) /\ job[w] = r
  /\ stale' = [stale EXCEPT ![r] = TRUE]
  /\ UNCHANGED <<rows, claimed_by, team_id, in_flight, threadVars, crashes, approvals>>

\* The process goes down and comes up: the tables are all that is left.
Crash ==
  /\ crashes < MaxCrashes /\ crashes' = crashes + 1
  /\ in_flight' = [t \in Teams |-> 0]
  /\ pc' = [x \in Actors |-> "idle"]
  /\ candidates' = [x \in Actors |-> {}]
  /\ job' = [x \in Actors |-> NoRun]
  /\ slot' = [x \in Actors |-> ""]
  /\ read' = [x \in Actors |-> NewRow]
  /\ made' = [x \in Actors |-> Nothing]
  /\ moving' = [x \in Actors |-> MoveTo("failed")]
  /\ UNCHANGED <<rows, claimed_by, stale, team_id, approvals>>

-----------------------------------------------------------------------------

Init ==
  /\ rows = [r \in Runs |-> NewRow]
  /\ claimed_by = [r \in Runs |-> ""] /\ stale = [r \in Runs |-> FALSE]
  /\ team_id \in [Owners -> Teams \cup {""}] /\ in_flight = [t \in Teams |-> 0]
  /\ pc = [x \in Actors |-> "idle"] /\ candidates = [x \in Actors |-> {}]
  /\ job = [x \in Actors |-> NoRun]
  /\ slot = [x \in Actors |-> ""]
  /\ read = [x \in Actors |-> NewRow]
  /\ made = [x \in Actors |-> Nothing]
  /\ moving = [x \in Actors |-> MoveTo("failed")]
  /\ crashes = 0 /\ approvals = 0

Step(x) ==
  AlreadyFinished(x) \/ PassOver(x) \/ OverBudget(x) \/ Work(x) \/ Raise(x) \/ Decide(x) \/ ApplyMove(x)

Turn(w) ==
  \/ Tick(w) \/ claim(w) \/ TooLate(w) \/ EnterSlot(w) \/ NoRoom(w)
  \/ Step(w) \/ LeaveSlot(w) \/ release(w)

ByHand(a) == (\E r \in Runs : AdvanceByHand(a, r)) \/ Step(a) \/ Answer(a)

Next ==
  \/ \E w \in Workers : Turn(w)
  \/ \E a \in Advancers : ByHand(a)
  \/ \E r \in Runs : Approve(r) \/ Expire(r)
  \/ \E o \in Owners : SetTeam(o)
  \/ Crash

\* The pool's threads run, and time passes; nobody has to do anything else.
Fairness == (\A w \in Workers : WF_vars(Turn(w))) /\ (\A r \in Runs : WF_vars(Expire(r)))

Spec == Init /\ [][Next]_vars /\ Fairness

-----------------------------------------------------------------------------
(* Properties. *)

\* How often the pipeline lets a run be sent back.
Allowed ==
  {0} \cup {k \in Nat : \E n \in DOMAIN Graph.stages :
             Graph.stages[n].on_refusal # "" /\ k <= Graph.stages[n].max_revisions}

RowType ==
  [stage : Names(Graph), reason : Reasons, revisions : Nat, last_refusal : Words,
   document : SUBSET Sections, opt_in : {{}}, skip : {{}}, approved : BOOLEAN,
   held : BOOLEAN, outcome : Finals \cup {""}]

Places == {"idle", "claiming", "claimed", "stepping", "working", "writing", "leaving", "releasing"}

\* Every variable has its type.
TypeOK ==
  /\ rows \in [Runs -> RowType]
  /\ claimed_by \in [Runs -> Workers \cup {""}] /\ stale \in [Runs -> BOOLEAN]
  /\ team_id \in [Owners -> Teams \cup {""}] /\ in_flight \in [Teams -> Int]
  /\ pc \in [Actors -> Places]
  /\ candidates \in [Actors -> SUBSET Runs] /\ job \in [Actors -> Runs \cup {NoRun}]
  /\ slot \in [Actors -> Teams \cup {""}]
  /\ read \in [Actors -> RowType]
  /\ made \in [Actors -> [at : Names(Graph) \cup {""}, result : ResultType]]
  /\ moving \in [Actors -> MoveType(Graph)]
  /\ crashes \in 0..MaxCrashes /\ approvals \in 0..MaxApprovals

OnTheJob(x) == pc[x] \in {"stepping", "working", "writing"}

(***************************************************************************)
(* A run is moved by one worker at a time: one run, one worktree.  Between *)
(* the list of candidates, the claim, the takeover of a stale claim and a  *)
(* release that looks at nothing but the run's id, no two of them work on  *)
(* the same run.                                                           *)
(***************************************************************************)
OneAtATime ==
  \A x, y \in Actors : x # y /\ OnTheJob(x) /\ OnTheJob(y) => job[x] # job[y]

(***************************************************************************)
(* No turn begins that takes a team past its cap, and the counter that is  *)
(* compared with the cap is the number of turns that entered under that    *)
(* team, through refused entries, people who change teams while their      *)
(* turns run, and a restart that begins at zero.                           *)
(***************************************************************************)
CapRespected ==
  \A t \in Teams :
    /\ in_flight[t] = Cardinality({w \in Workers : slot[w] = t})
    /\ in_flight[t] <= Cap[t]

(***************************************************************************)
(* What a stage came back with decides where the run goes from that stage: *)
(* the row is read again after the work, and still stands where the work   *)
(* was done, until the move is written.                                    *)
(***************************************************************************)
ResultsLandWhereTheyWereMade ==
  \A x \in Actors :
    pc[x] \in {"working", "writing"} /\ made[x].at # "" => rows[job[x]].stage = made[x].at

(***************************************************************************)
(* Only a person ends a wait.  Nothing a worker had read or decided before *)
(* the run was held, or before somebody approved it, clears a hold.        *)
(***************************************************************************)
OnlyAPersonEndsAHold ==
  [][\A r \in Runs : rows[r].held /\ ~rows'[r].held => approvals' = approvals + 1]_vars

(***************************************************************************)
(* An approval is not lost to a worker that read the row before it was     *)
(* given and writes it afterwards.                                         *)
(***************************************************************************)
ApprovalsLast == [][\A r \in Runs : rows[r].approved => rows'[r].approved]_vars

(***************************************************************************)
(* What one step makes of a row when nothing comes in between: the move    *)
(* that plan_next or advance has for it, with every column that goes with  *)
(* it.  Only the gate may have been looked at a moment before an approval. *)
(***************************************************************************)
StepOf(row, new) ==
  /\ Movable(row)
  /\ \E was \in BOOLEAN :
       LET old  == [row EXCEPT !.approved = was]
           plan == PlanNext(Graph, old)
       IN  /\ was => row.approved
           /\ IF plan.skipped \/ plan.held THEN new = Applied(row, plan, {})
              ELSE \/ new = Applied(row, MoveTo("failed"), {})
                   \/ /\ old.stage \in DOMAIN Graph.stages
                      /\ \E result \in ResultsOf(Graph.stages[old.stage]) :
                           new = Applied(row, Advance(Graph, old, result), result.produced)

(***************************************************************************)
(* Although a step commits two or three times, reads the row between the   *)
(* commits and writes only the columns it changed, each write to a row is  *)
(* one whole step from the row as it is then, or one approval: never half  *)
(* of one, and never a mixture of two.  So no write takes an approval      *)
(* back, and nothing but an approval ends a hold.                          *)
(***************************************************************************)
StepsAreWhole ==
  [][\A r \in Runs :
       \/ rows'[r] = rows[r]
       \/ /\ rows'[r] = [rows[r] EXCEPT !.approved = TRUE, !.held = FALSE]
          /\ approvals' = approvals + 1
       \/ StepOf(rows[r], rows'[r])]_vars

(***************************************************************************)
(* Even where two threads are at the same run, its count of revisions      *)
(* stays within what a stage of its pipeline allows.                       *)
(***************************************************************************)
RevisionsBounded == \A r \in Runs : rows[r].revisions \in Allowed

(***************************************************************************)
(* Nobody comes to a run that stands where its pipeline has no stage,      *)
(* where step would raise and the run stay first in line: a run gets to an *)
(* end only together with its outcome, whoever else writes to its row.     *)
(***************************************************************************)
NobodyRaises ==
  \A x \in Actors : Is(x, "stepping") /\ read[x].outcome = "" => read[x].stage \in DOMAIN Graph.stages

(***************************************************************************)
(* Every run is finished or waits for a person in the end: no crash, no    *)
(* claim left behind and no team at its cap strands it.                    *)
(***************************************************************************)
EveryRunComesToRest == \A r \in Runs : []<>~Movable(rows[r])

(***************************************************************************)
(* Seen from outside, each run keeps what RunLifecycle promises, whoever   *)
(* moves it and however often the process goes down.                       *)
(***************************************************************************)
Phase(r) ==
  IF rows[r].outcome # "" THEN rows[r].outcome
  ELSE IF rows[r].held THEN "waiting" ELSE "moving"

Lifecycle(r) ==
  INSTANCE RunLifecycle
    WITH Counts <- Allowed, phase <- Phase(r), sentBack <- rows[r].revisions
\* \A r \in Runs : Lifecycle(r)!Spec, in the form that TLC reads.
LifecycleSpec ==
  /\ \A r \in Runs : Lifecycle(r)!Init
  /\ [][\A r \in Runs : [Lifecycle(r)!Next]_<<Phase(r), rows[r].revisions>>]_vars

(***************************************************************************)
(* A tick that finds a team at its cap is to "let a run from another team  *)
(* through in the meantime" (tick): it does not end while a run of a team  *)
(* that has room is waiting for a worker.                                  *)
(***************************************************************************)
OtherTeamsGoThrough ==
  [][\A w \in Workers :
       Is(w, "claimed") /\ pc'[w] = "releasing" =>
         ~\E r \in actionable : HasRoom(TeamOf(r))]_vars
=============================================================================
