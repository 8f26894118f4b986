------------------------------- MODULE Budgets -------------------------------
(***************************************************************************)
(* Spend ceilings (budgets.py) and the two places a turn meets them        *)
(* (pipeline/runner.py): check_budget before it, charge after it.  Each    *)
(* reads the budgets, works on what it read, and commits: nothing is       *)
(* locked in between, and a commit writes the columns that differ from     *)
(* what its session read.  People create and delete budgets and change     *)
(* teams while turns are under way, and the process may go down.           *)
(* Several threads may be at one run: a claim keeps its workers apart, and *)
(* POST /advance steps it without one (routers/pipelines.py).              *)
(***************************************************************************)
EXTENDS Integers, FiniteSets, Functions

CONSTANTS
  Ids,           \* the ids budgets get, as numbers: the larger is the newer
  Requests,      \* what create_budget may be asked for
  Runs, Threads, \* the runs, and what steps them: workers, and requests to advance one
  RepoOf,        \* run -> its repository
  MaxRunUnits,   \* repository -> the ceiling on one run (0: unlimited)
  Teams, InitialTeam,  \* the teams ("" is having none), and run -> its actor's at first
  TurnUnits,     \* the most one turn may cost
  MaxTime, MaxTurns, MaxMoves, MaxDowns  \* bounds: clock, turns, changes of team, crashes

Blank == -1      \* a window_started_at of ""

ASSUME BudgetsAssumption ==
  /\ Ids \subseteq Nat /\ IsFiniteSet(Ids) /\ TurnUnits \in Nat
  /\ IsFiniteSet(Threads) /\ IsFiniteSet(Runs)
  /\ MaxRunUnits \in [Range(RepoOf) -> Nat] /\ DOMAIN RepoOf = Runs /\ "" \notin Teams
  /\ InitialTeam \in [Runs -> Teams \cup {""}]
  /\ \A q \in Requests : q.limit \in Int /\ q.window \in Int
  /\ MaxTime \in Nat /\ MaxTurns \in Nat /\ MaxMoves \in Nat /\ MaxDowns \in Nat

VARIABLES
  budgets,   \* id -> Budget row, of those that exist
  spent,     \* run -> units of its recorded steps
  team,      \* run -> its actor's team
  failed,    \* runs that a ceiling stopped
  born,      \* budgets made so far
  turn,      \* thread -> where it is, and what its session has read
  now,       \* the clock
  \* History, which the code does not keep:
  charged,   \* id -> time -> units charged with the clock at that time
  blurred,   \* budgets written over what another session wrote
  crowd,     \* run -> the most threads that were past its ceiling check at once
  came,      \* turns that came to other budgets with their person, checked against none
  \* bounds:
  turns, moves, downs

crowds == <<crowd, came>>
counters == <<turns, moves, downs>>
budgetVars ==
  <<budgets, spent, team, failed, born, turn, now, charged, blurred, crowds, counters>>

-----------------------------------------------------------------------------
(* Rows. *)

BudgetRow ==
  [scope : {"org", "team", "repo"}, scope_id : {q.scope_id : q \in Requests} \cup {""}, limit : Nat \ {0},
   used : Nat, window : Nat, started : Nat \cup {Blank}]

\* What create_budget refuses.
Acceptable(q) ==
  /\ q.scope \in {"org", "team", "repo"}
  /\ q.scope = "org" \/ q.scope_id # ""
  /\ q.limit > 0

\* Fault: the window is stored as it was asked for.
NewBudgetAsAsked(q) ==
  [scope |-> q.scope, scope_id |-> q.scope_id, limit |-> q.limit, used |-> 0,
   window |-> q.window, started |-> Blank]

\* What it stores: an org budget has no scope id, a negative window is a lifetime.
NewBudget(q) ==
  [scope |-> q.scope, scope_id |-> IF q.scope = "org" THEN "" ELSE q.scope_id,
   limit |-> q.limit, used |-> 0, window |-> IF q.window > 0 THEN q.window ELSE 0,
   started |-> Blank]

\* _roll, _elapsed: a window that has run out starts again, a lifetime never does.
Rolled(b, t) ==
  IF b.window > 0 /\ (b.started = Blank \/ t - b.started >= b.window)
  THEN [b EXCEPT !.used = 0, !.started = t] ELSE b

\* budgets_for: the org's, its repository's, and its actor's team's.
BudgetsFor(r) ==
  {i \in DOMAIN budgets :
     LET b == budgets[i] IN
     \/ b.scope = "org"
     \/ b.scope = "repo" /\ b.scope_id = RepoOf[r]
     \/ b.scope = "team" /\ team[r] # "" /\ b.scope_id = team[r]}

\* list_budgets, read by one session: the rows as they stand.
Loaded(r) == [i \in BudgetsFor(r) |-> budgets[i]]

\* Fault: the run's own ceiling is looked at when it is passed, not when it is reached.
PastRunCeiling(r) == MaxRunUnits[RepoOf[r]] > 0 /\ spent[r] > MaxRunUnits[RepoOf[r]]

\* spend_of against the repository's max_run_units.
AtRunCeiling(r) == MaxRunUnits[RepoOf[r]] > 0 /\ spent[r] >= MaxRunUnits[RepoOf[r]]

-----------------------------------------------------------------------------
(* A thread, and what its session holds. *)

Idle == [pc |-> "idle", run |-> 0, units |-> 0, took |-> 0, seen |-> <<>>]

\* The threads that are at a run, and those past its ceiling check whose turn has not
\* been written down: the others cannot see what it will cost.
AtRun(r) == {w \in Threads : turn[w].pc # "idle" /\ turn[w].run = r}
UnderWay(r) == {w \in AtRun(r) : turn[w].pc \in {"passed", "checking", "turn"}}

\* Fault: a budget is used up when its limit is passed, not when it is reached.
Overdrawn(w) ==
  {i \in DOMAIN turn[w].seen :
     LET b == Rolled(turn[w].seen[i], turn[w].took) IN b.used > b.limit}

\* The budgets that check_budget looks at: newest first, up to one that is used up.
Exhausted(w) ==
  {i \in DOMAIN turn[w].seen :
     LET b == Rolled(turn[w].seen[i], turn[w].took) IN b.used >= b.limit}
Examined(w) ==
  {i \in DOMAIN turn[w].seen : \A j \in Exhausted(w) : i >= j}

\* What a session makes of the rows it read: rolled, ...
AfterCheck(w) == [i \in Examined(w) |-> Rolled(turn[w].seen[i], turn[w].took)]

\* Fault: a charge forgets to look whether the window has run out.
AfterChargeUnrolled(w) ==
  [i \in DOMAIN turn[w].seen |->
     [turn[w].seen[i] EXCEPT !.used = @ + turn[w].units,
                             !.started = IF @ = Blank THEN turn[w].took ELSE @]]

\* ... and charged.
AfterCharge(w) ==
  [i \in DOMAIN turn[w].seen |->
     LET b == Rolled(turn[w].seen[i], turn[w].took) IN
     [b EXCEPT !.used = @ + turn[w].units,
               !.started = IF @ = Blank THEN turn[w].took ELSE @]]

\* The rows a commit writes, and the columns: those that differ from what was read.
Dirty(w, made) == {i \in DOMAIN made : made[i] # turn[w].seen[i]}
Written(w, made) ==
  [i \in DOMAIN budgets |->
     IF i \notin Dirty(w, made) THEN budgets[i]
     ELSE [budgets[i] EXCEPT
             !.used = IF made[i].used = turn[w].seen[i].used THEN @ ELSE made[i].used,
             !.started = IF made[i].started = turn[w].seen[i].started
                         THEN @ ELSE made[i].started]]

\* Rows that another session has written since this one read them.
Overtaken(w, made) ==
  {i \in Dirty(w, made) : i \in DOMAIN budgets /\ budgets[i] # turn[w].seen[i]}

\* A budget deleted in between makes the commit fail, and roll back.
Commits(w, made) == Dirty(w, made) \subseteq DOMAIN budgets

-----------------------------------------------------------------------------
(* The actions. *)

BudgetsInit ==
  /\ budgets = <<>>
  /\ spent = [r \in Runs |-> 0]
  /\ team = InitialTeam
  /\ failed = {}
  /\ born = 0
  /\ turn = [w \in Threads |-> Idle]
  /\ now = 0
  /\ charged = [i \in Ids |-> [t \in 0..MaxTime |-> 0]]
  /\ blurred = {}
  /\ crowd = [r \in Runs |-> 0] /\ came = 0
  /\ turns = 0 /\ moves = 0 /\ downs = 0

(***************************************************************************)
(* A thread takes up a run that is not over, by the row it reads then: a   *)
(* worker the run it has claimed, a request the run it names.              *)
(***************************************************************************)
Takes(w, r) ==
  /\ turn[w].pc = "idle" /\ r \notin failed
  /\ turns < MaxTurns
  /\ turn' = [turn EXCEPT ![w] = [Idle EXCEPT !.pc = "taken", !.run = r]]
  /\ turns' = turns + 1
  /\ UNCHANGED <<budgets, spent, team, failed, now, charged, blurred, crowds, born, moves, downs>>

(***************************************************************************)
(* check_budget adds up the run's steps (spend_of): at its own ceiling it  *)
(* is refused, the step is recorded and the run moved to failed.           *)
(***************************************************************************)
CheckCeiling(w) ==
  LET r == turn[w].run IN
  /\ turn[w].pc = "taken"
  /\ \/ /\ AtRunCeiling(r)
        /\ failed' = failed \cup {r} /\ turn' = [turn EXCEPT ![w] = Idle]
        /\ UNCHANGED crowd
     \/ /\ ~AtRunCeiling(r)
        /\ turn' = [turn EXCEPT ![w].pc = "passed"]
        /\ LET abreast == Cardinality(UnderWay(r)) + 1 IN
           crowd' = [crowd EXCEPT ![r] = IF @ < abreast THEN abreast ELSE @]
        /\ UNCHANGED failed
  /\ UNCHANGED <<budgets, spent, team, now, charged, blurred, came, born, counters>>

\* It takes the time, and reads the budgets.
CheckReads(w) ==
  /\ turn[w].pc = "passed"
  /\ turn' = [turn EXCEPT ![w] =
                [@ EXCEPT !.pc = "checking", !.took = now, !.seen = Loaded(turn[w].run)]]
  /\ UNCHANGED <<budgets, spent, team, failed, now, charged, blurred, crowds, born, counters>>

(***************************************************************************)
(* check_budget commits the windows it rolled.  With a budget used up it   *)
(* is the refusal's record_step that commits them, and the run fails; a    *)
(* commit that fails ends the tick with nothing written.                   *)
(***************************************************************************)
CheckWrites(w) ==
  LET made == AfterCheck(w) IN
  /\ turn[w].pc = "checking"
  /\ IF Commits(w, made)
     THEN /\ budgets' = Written(w, made)
          /\ blurred' = blurred \cup Overtaken(w, made)
          /\ IF Exhausted(w) = {}
             THEN /\ turn' = [turn EXCEPT ![w] = [Idle EXCEPT !.pc = "turn", !.run = turn[w].run]]
                  /\ UNCHANGED failed
             ELSE /\ turn' = [turn EXCEPT ![w] = Idle]
                  /\ failed' = failed \cup {turn[w].run}
     ELSE turn' = [turn EXCEPT ![w] = Idle] /\ UNCHANGED <<budgets, blurred, failed>>
  /\ UNCHANGED <<spent, team, now, charged, crowds, born, counters>>

\* The turn is over and record_step has written down what it cost; a turn that was
\* graded down, stopped or raised has cost 0 as far as anything here is told.
TurnEnds(w, u) ==
  /\ turn[w].pc = "turn"
  /\ spent' = [spent EXCEPT ![turn[w].run] = @ + u]
  /\ turn' = [turn EXCEPT ![w].pc = "metered", ![w].units = u]
  /\ UNCHANGED <<budgets, team, failed, now, charged, blurred, crowds, born, counters>>

\* charge reads, for the team the actor is in by now; a turn that cost nothing is done.
ChargeReads(w) ==
  /\ turn[w].pc = "metered"
  /\ turn' = [turn EXCEPT ![w] =
                IF @.units = 0 THEN Idle
                ELSE [@ EXCEPT !.pc = "charging", !.took = now, !.seen = Loaded(turn[w].run)]]
  /\ UNCHANGED <<budgets, spent, team, failed, now, charged, blurred, crowds, born, counters>>

(***************************************************************************)
(* charge commits, all its budgets at once.  When one of them is gone the  *)
(* commit fails, none is charged, and the stage will run again.            *)
(***************************************************************************)
ChargeWrites(w) ==
  LET made == AfterCharge(w) IN
  /\ turn[w].pc = "charging"
  /\ turn' = [turn EXCEPT ![w] = Idle]
  /\ IF Commits(w, made)
     THEN /\ budgets' = Written(w, made)
          /\ blurred' = blurred \cup Overtaken(w, made)
          /\ charged' = [i \in Ids |->
               IF i \in DOMAIN made
               THEN [charged[i] EXCEPT ![turn[w].took] = @ + turn[w].units]
               ELSE charged[i]]
     ELSE UNCHANGED <<budgets, blurred, charged>>
  /\ UNCHANGED <<spent, team, failed, now, crowds, born, counters>>

(***************************************************************************)
(* People: budgets made and removed, and a person changing teams           *)
(* (teams.py: set_user_team, and delete_team, which leaves them in none).  *)
(***************************************************************************)
CreateBudget(q) ==
  /\ born + 1 \in Ids /\ Acceptable(q)
  /\ born' = born + 1
  /\ budgets' = [i \in DOMAIN budgets \cup {born'} |->
                   IF i = born' THEN NewBudget(q) ELSE budgets[i]]
  /\ UNCHANGED <<spent, team, failed, turn, now, charged, blurred, crowds, counters>>

DeleteBudget(i) ==
  /\ i \in DOMAIN budgets
  /\ budgets' = [j \in DOMAIN budgets \ {i} |-> budgets[j]]
  /\ UNCHANGED <<spent, team, failed, turn, now, charged, blurred, crowds, born, counters>>

SetUserTeam(r, t) ==
  /\ moves < MaxMoves /\ t # team[r]
  /\ team' = [team EXCEPT ![r] = t]
  /\ moves' = moves + 1
  /\ came' = came + Cardinality(AtRun(r))
  /\ UNCHANGED <<budgets, spent, failed, turn, now, charged, blurred, crowd, born, turns, downs>>

Tick ==
  /\ now < MaxTime
  /\ now' = now + 1
  /\ UNCHANGED <<budgets, spent, team, failed, turn, charged, blurred, crowds, born, counters>>

\* The process goes down: what was committed is there, the turns are not.
Down ==
  /\ downs < MaxDowns /\ \E w \in Threads : turn[w] # Idle
  /\ downs' = downs + 1
  /\ turn' = [w \in Threads |-> Idle]
  /\ UNCHANGED <<budgets, spent, team, failed, now, charged, blurred, crowds, born, turns, moves>>

BudgetsNext ==
  \/ \E w \in Threads :
       \/ \E r \in Runs : Takes(w, r)
       \/ CheckCeiling(w)
       \/ CheckReads(w)
       \/ CheckWrites(w)
       \/ \E u \in 0..TurnUnits : TurnEnds(w, u)
       \/ ChargeReads(w)
       \/ ChargeWrites(w)
  \/ \E q \in Requests : CreateBudget(q)
  \/ \E i \in DOMAIN budgets : DeleteBudget(i)
  \/ \E r \in Runs, t \in Teams \cup {""} : SetUserTeam(r, t)
  \/ Tick
  \/ Down

BudgetsSpec == BudgetsInit /\ [][BudgetsNext]_budgetVars

-----------------------------------------------------------------------------
(* What holds. *)

(***************************************************************************)
(* The types of the variables.                                             *)
(***************************************************************************)
BudgetsTypeOK ==
  /\ DOMAIN budgets \subseteq Ids /\ \A i \in DOMAIN budgets : budgets[i] \in BudgetRow
  /\ spent \in [Runs -> Nat]
  /\ team \in [Runs -> Teams \cup {""}]
  /\ failed \subseteq Runs
  /\ \A w \in Threads :
       /\ turn[w].pc \in {"idle", "taken", "passed", "checking", "turn", "metered", "charging"}
       /\ turn[w].pc # "idle" => turn[w].run \in Runs
       /\ turn[w].units \in 0..TurnUnits /\ turn[w].took \in 0..MaxTime
       /\ DOMAIN turn[w].seen \subseteq Ids
       /\ \A i \in DOMAIN turn[w].seen : turn[w].seen[i] \in BudgetRow
  /\ now \in 0..MaxTime
  /\ charged \in [Ids -> [0..MaxTime -> Nat]]
  /\ blurred \subseteq Ids
  /\ crowd \in [Runs -> Nat] /\ came \in Nat
  /\ born \in Nat /\ turns \in 0..MaxTurns /\ moves \in 0..MaxMoves /\ downs \in 0..MaxDowns

Total(units) == FoldFunction(LAMBDA a, b : a + b, 0, units)

(***************************************************************************)
(* A budget's counter is what was charged to it in its present window, to  *)
(* the unit: through rolls decided by a check or by a charge, turns of     *)
(* several threads, deleted neighbours and crashes.  The exception is a    *)
(* budget two sessions had read at once and both wrote: `used` is added up *)
(* in Python and nothing is locked (charge), so there an update is lost.   *)
(* And no counter, of those either, says more than the recorded steps do,  *)
(* which are "the audited record of the same number" (charge).             *)
(***************************************************************************)
UsedIsWhatWasCharged ==
  \A i \in DOMAIN budgets :
    LET b == budgets[i] IN
    /\ i \notin blurred =>
         b.used = Total([t \in {u \in 0..MaxTime : b.window > 0 => u >= b.started}
                           |-> charged[i][t]])
    /\ b.used <=
         Total([r \in {x \in Runs : b.scope = "repo" => b.scope_id = RepoOf[x]} |-> spent[r]])

(***************************************************************************)
(* How far past its limit a budget can go, "checked before a stage,        *)
(* charged after it" (budgets.py): by the turns that were under way when   *)
(* the limit was reached, one a thread, and by the turns that came to it   *)
(* with their person's new team, after their check.                        *)
(***************************************************************************)
BurnBounded ==
  \A i \in DOMAIN budgets \ blurred :
    budgets[i].used < budgets[i].limit + TurnUnits * (Cardinality(Threads) + came)

(***************************************************************************)
(* A run goes past its repository's max_run_units by less than one turn    *)
(* for each thread that was ever past the check at the same time: by less  *)
(* than one turn while only its workers step it, whose claims keep them    *)
(* apart, and by one more for every request to advance it beside them.     *)
(* The ceiling is read from the steps, which no lost update can reach.     *)
(***************************************************************************)
RunCeilingHolds ==
  \A r \in Runs :
    MaxRunUnits[RepoOf[r]] > 0 =>
      spent[r] < MaxRunUnits[RepoOf[r]] + TurnUnits * crowd[r]
=============================================================================
