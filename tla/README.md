# open-refinery in TLA+

A formal model of open-refinery's software factory: the pipelines it runs tickets
through, the machine that moves one run from stage to stage, and the floor of workers
and people that move many. The modules are checked on small instances with TLC; what
matters most is proved for every instance with TLAPS.

All paths below are relative to `src/src/open_refinery/`.

## 1. The system

open-refinery takes a ticket and carries it to a pull request. A *pipeline* is a graph
of stages; a *run* is one ticket on its way through one pipeline, a row of a SQLite
table; *workers* (threads of the server) claim runs and move each by one stage at a
time; *people* approve held runs, move runs by hand, and merge or close the requests.

| Component | Keeps | Operations | Talks to | What is hard | What makes it correct |
|---|---|---|---|---|---|
| Pipeline graph: `pipeline/spec.py`, `graph.py` | nothing (pure functions) | `parse`, `should_skip`, `plan_next`, `advance` | called by the runner | one revision count shared by all refusal paths; what a move carries and what it resets; skips | revisions bounded and counted, no refusal repeated, ends have outcomes |
| Run machine: `pipeline/runner.py`, `store.py`, `document.py`, `contracts.py`, `agent.py`, `phases.py` | the `Run` row, its document, its steps | `start_run`, `step`, `apply_move`, `approve_run` | graph, actions, harness, budgets, audit | a check skipped for want of a section, holds, errors that continue | no diff pushed unchecked; a run comes to rest; it waits only on a person |
| Actions: `pipeline/actions.py`, `workspace.py`, `forge.py` | the worktree, the branch, the request | the five actions | git, a forge | a crash between git and the row; git commands whose failure nobody looks at; the forge changing under a watch | each effect once; what the person did is seen |
| Floor: `pipeline/workers.py`, `concurrency.py`, `routers/pipelines.py` | claims, in-flight counts, threads | `tick`, `claim`, `release`, `slot`, `POST advance`, `POST approve` | run machine, teams | two threads at one run; stale claims; rows read early and written late; caps; restarts | one worker at a run, results applied where they were made, approvals kept, caps kept, no run stranded |
| Teams: `teams.py` | a person's team, a team's cap | `set_user_team` | floor, budgets | a change of team during a turn | as the floor's |
| Budgets: `budgets.py` | `used` and the window of each budget | `check_budget`, `charge`, `create_budget`, `delete_budget` | runner, teams | a check before and a charge after a turn; concurrent charges; a window that rolls | no charge lost but where two writes cross; overshoot bounded by the turns under way |
| Audit chain: `store.py` (`SqlSink`, `purge_events`, `verify_chain`), `audit.py`, `provenance.py`, `evidence.py` | the chain, its head, checkpoints | `write`, `purge_events`, `verify_chain` | everybody writes | concurrent appends; two processes; a purge by time of a chain ordered by links | an honest log verifies; what is gone is on a receipt |
| Proposals: `approval_workflows.py`, `proposals.py` | proposals, the layer's workflow | `set_workflow`, `propose`, `review`, `resubmit` | policies, ladder, work items | two reviews at once; a crash inside the last one; payloads changed on resubmission | applied once, or once more for each crossing; a distinct signer per slot |
| Ladder: `ladder.py`, `routers/ladder.py` | a rule's rung and predicate | `add`, `move`, `disable`; `withheld`, `evaluate`, `gate` | proposals, middleware, actions | a move decided on a row read earlier; promotions past what a predicate sees | enforcement is taken away by those who have to sign for it; what stands at a rung is enforced there |
| Policies and packs: `policies.py`, `packs.py` | policies, their versions, standards, which packs are on | `decide`, `enforce`, `create_policy`, `delete_policy`, `enable_pack`, `disable_pack` | everybody asks | a policy and its version are two commits, a pack many; precedence of layers | the strictest layer decides; the versions tell the table; a pack is whole |
| People and agents: `users.py`, `authority.py`, `routers/roles.py`, `harnesses.py` | accounts, presets, device grants | `setup`, permissions, `device_start` … `device_poll`, registering, rotating, deleting | proposals, floor | guards read before they are written past; a poll again after a lost answer | somebody always manages users; a token is handed over once |
| Intake: `intake.py`, `trackers.py`, `work_items.py`, `integrations.py` | work items by external reference | `accept`, `sync_tracker`, `configure` | work items, run machine | deliveries repeated and concurrent; settings that change under a sync | one item and one run per ticket |
| Jobs: `jobs.py`, `scheduler.py`, `ingest.py` | jobs, `last_ingest_at` | `run_due_ingests`, `enqueue`, `run_job` | repositories | a restart while a job runs; a stamp committed later than its job; failures that the loop swallows | the cadence is kept; a job ends unless its thread is lost |
| Schema: `migrations.py` | tables, columns, `user_version` | `run_migrations`, `migrate_to`, `create_all`, the stamp | every process, at its start | statements and tables that commit one by one; stores of every age | the version tells the schema |
| Oversight, experiments, credentials, notifications, CLI, web, middleware | configuration | lookups, rendering | – | single-row writes | – |

## 2. The plan

In order of what the system's correctness rests on; all of it is done.

1. **PipelineGraph, PipelineTemplates, RunMachine** – the graph and one run.
2. **RunLifecycle** – what a run promises; RunMachine and Floor both implement it.
3. **Floor** – many runs, many threads, restarts.
4. **Proofs** – the safety of 1–3 for all instances.
5. **Delivery** – `prepare_workspace`, `commit_and_push`, `open_pull_request`, the
   snapshot and revert around a check: each git command and forge call a step of its
   own, with the process going down between them. With its proofs.
6. **Budgets** – `check_budget`, turn, `charge`, `_roll` by several sessions with their
   reads and commits apart. With its proofs.
7. **AuditLog** – `SqlSink.write`, `purge_events`, checkpoints, `verify_chain`; times
   taken before the lock. With its proofs.
8. **Proposals** – `propose`, `review`, `resubmit` with the applier's commit inside the
   review, and the ladder they and the owners move. With its proofs.
9. **Policies, Directory** – rules and who there is; with their proofs.
10. **Intake, Ingest, Migrations** – what comes in, what runs by itself, and what it is
    all stored in; with their proofs.
11. **PipelineShapes, RunProgress** – what the edges of a pipeline promise about every run
    of it, for the properties that not every graph keeps; and what each step of a run uses
    up.

What would come next: the middleware, as the place where the ladder, the policies and a
turn meet.

## 3. The modules

| Module | Models | Notes |
|---|---|---|
| `PipelineGraph` | `spec.py`: what `parse` accepts (`WellFormed`); `graph.py`: `ShouldSkip`, `PlanNext`, `Advance` | no variables; a stage, a result and a move are records with the fields of the code's dataclasses that steer anything |
| `PipelineShapes` | – | the edges that `RunMachine`'s and `Delivery`'s promises need of a pipeline, each read off a graph one edge at a time |
| `PipelineTemplates` | the four pipelines that ship | constants for the instances |
| `RunLifecycle` | the abstract run: moving, waiting, finished; sent back so often | refined by the next two |
| `RunMachine` | one run, a `step` at a time, with its worktree and its pull request | `step` is atomic |
| `RunProgress` | the measure that every step of a run brings down | a rank for each stage, given as a constant and tested on the graph |
| `Floor` | workers, people, caps, restarts over several runs | `step` is opened at its commits |
| `Delivery` | one run's worktree, index, branch, remote and request | the actions are opened at their git commands and forge calls |
| `Budgets` | budgets and the two places where a turn meets them | each session's read and commit apart; any threads at a run |
| `AuditLog` | the hash chain, its purges and receipts | sessions of two processes |
| `Proposals` | proposals with their chains, and the ladder of rules | an acceptance is two commits |
| `Policies` | how rules decide; policies, versions, packs | `decide` is an operator, the rest is state |
| `Directory` | people, presets, agents and device grants | guards read, then written past |
| `Intake` | tickets that become work items and runs | deliveries and syncs at once |
| `Ingest` | the scheduler's tick and its jobs | ticks and threads that fail |
| `Migrations` | every script, up and down, statement by statement | a table is the columns scripts add |
| `PipelineGraph_proofs`, `RunMachine_proofs`, `Floor_proofs`, `Delivery_proofs`, `Books_proofs`, `Governance_proofs`, `Directory_proofs`, `Intake_proofs` | – | lemmas and theorems; `Books_proofs` is about `Budgets` and `AuditLog`, `Governance_proofs` about `Policies` and `Proposals`, `Intake_proofs` about `Ingest`, `Intake` and `Migrations` |
| `MCRunMachine`, `MCFloor`, `MCDelivery`, `MCOffice`, `MCLadder` | – | the instances TLC checks |

Definitions keep the names of the functions they are, or of the steps of them (`claim`,
`release`, `actionable`, `planned`). Definitions under a comment
`Fault:` are what a plausible mistake would make of the definition after them; no
behaviour uses them. Each property is shown to fail when the fault is put in.

### PipelineGraph

A graph is `[first, terminal, stages]`. `Result` is what a stage came back with
(`ok`, `refused`, `error`, `blocked`; its words; the event a watch saw; the sections
produced). `Advance` follows `advance` branch by branch: blocked holds, a refusal takes
`_refusal_target`, an error fails or continues, `ok` follows `next` or, at a stage with
`outcomes`, the event. Words are compared only for equality, so they come from a small
set `Complaints`; a section is present or not, because `should_skip` asks for no more.

### RunMachine

`run` is the row. `tree` is the worktree (absent, clean, dirty). `forge` is the other
side: whether the diff was pushed, and what people did to the request. Four history
variables (`sentBack`, `checked`, `shipped`, `seen`) record what the properties speak
about and nothing reads them.

`Skip`, `Hold` and `OverBudget` are the returns of `step` before the work. `TurnAnswers`,
`TurnInterrupted` and `TurnFails` are the three ways a turn ends (`agent.run_phase` and
`_grade`); the five actions are those of `actions.py`, each with its failures. All of
them end in `Left`, which is `advance` and `apply_move`. `Approve`, `Decide` and
`Comment` are people.

The document is the set of its non-blank sections. What `Document.read` does to a
section whose text opens with a heading is modelled (`WithSections`, `Shapes`): the
section comes back blank. `Asked` says how the spec a run is started with may begin,
`Shapes` how an answer may. `run_machine` runs with answers of plain prose,
`headed_answer` with both, since the two differ in what can be promised; there the spec is
prose, so what goes wrong is a turn's own doing.

### Floor

A thread goes through `idle`, `claiming`, `claimed`, `stepping`, `working`, `writing`,
`leaving`, `releasing`: the commits of `tick` and `step` are the borders. `read` is the
row as the thread's session last read it (a commit expires it, so it is read again);
`Written` says what a commit leaves in the table: the columns the session changed.
`claim` is one conditional UPDATE. `release` looks only at the run's id. `Expire` is
fifteen minutes passing; with `SlowTurns` also while the worker is still at it.
`SetTeam` moves a person to another team, `Crash` loses every thread and the in-memory
counts. `AdvanceByHand` is the endpoint, with neither a claim nor a slot; `drive` is the
same again after each step. What a stage returns is any result of its kind
(`ResultsOf`), which includes everything RunMachine lets it return. `StepOf` says what one
whole step makes of a row; the property `StepsAreWhole` holds every write against it.

### Delivery

`tree`, `index`, `head` and `origin` are the worktree, what is staged in it, the run's
branch, and that branch on the remote; each is the set of edits that tell it from the
base. An edit may make a file git does not track (`NewFiles`) and may be one the gate
refuses (`Forbidden`). `pc` says how far the worker is with the stage. `create`,
`prepare_cmd`, `snapshot`, `revert_changes`, `commit`, `push`, `open_pr` are one command
or request each; `Examine` is `commit_and_push` down to the gate's verdict. A turn with
an editor may make its edits and undo any; a check has a shell and may do the same with
its own. `Crash` drops the worker where it is: the run is claimed again and its stage
begins anew. It stands too for an exception that leaves the step, such as a timeout
while an answer of the forge is read. `built` is history: what set-up and the turns that
may edit left behind; so is `cut`: that the process went down while a commit was on no
remote.

Most git commands run with `check=False`, and one that times out comes back as a failed
one that did not raise (`run`). Where the code goes on without a look at that, so does the
model: a diff that failed is taken for the diff (`Examine`), a snapshot, a checkout or a
clean that failed has done nothing (`snapshot`, `Reverted`), an `add` that was killed has
staged nothing, a commit that was killed may have been made and is taken for refused
(`commit`). `unheard` is history: which commands have come out so; `MaxUnheard` bounds how
many kinds of them, each any number of times. Left out: the local forge, which RunMachine
has.

### Sessions, in all the modules that follow

The rest of the server is request handlers on a SQLite store without locks. Each module
gives a handler two steps or more: one that reads and decides, and one for each commit.
What the session read is kept in its row (`seen`), and a commit writes the columns that
differ from it, so two requests on one row may lose each other's columns. A crash drops
every session where it is. History variables (`blurred`, `crossed`, `collided`, …) name
the rows on which two sessions crossed. Where nothing in the code prevents a crossing, a
property excepts exactly those rows, and claims everything of the others: the exception
is the part of the property a reader should look at first.

### Budgets

`turn[w]` is a thread's turn, from `check_budget` through the turn to `charge`; a thread
is a worker or a request to advance a run, and `Takes` lets any of them take up any run
that is not over by the row they read, though another is at it. `CheckCeiling` is the
run's own ceiling, `CheckReads` and `CheckWrites` the budgets. `Rolled` is `_roll` with
`_elapsed`. `check_budget` looks at budgets newest first and stops at one
that is used up (`Examined`), so it rolls only those it came to. `Written` is a commit:
column by column, so that one session's `used` may stand beside another's
`window_started_at`. A budget deleted in between makes the commit fail and roll back
(`Commits`). `charged` is history: what was charged when; so are `crowd`, the most threads
that were past a run's ceiling check at once, and `came`, the turns that came to other
budgets with their person's change of team.

### AuditLog

An event is stamped (`Stamp`), then linked under the lock of its process (`Link`), then
committed with the head (`Commit`), then told to others (`Announce`). `purge_events`
chooses its rows before the lock (`Choose`), looks at what will be left under it
(`Survey`), and deletes (`Cut`). A digest is the token of what it was made of.
`mishaps` is history: the four things after which `verify_chain` may not hold. Stores
from before the chain, and from before its key, are among the initial states
(`_backfill_chain`).

### Proposals

A proposal is an idea (`adopt`), something to be made (`create`: a policy or a work item,
whose payload is whole or lacks something) or a move on the ladder (`move`). `Applies` is
the applier's own commit, which takes the decision with it; `Finishes` is the second one.
A chain is what `_resolve_chain` gives when the proposal is made; `RemoveRole` may take a
role out of it later; two roles of one rank may come in either order (`ByRank`). A
predicate is known by what it sees, arguments or a diff. `crossings` counts, for each
proposal, the requests that wrote over what another had written since they read it.
`Withholding`, `Evaluated` and `Gated` are the rules that `withheld`, `evaluate` and
`gate` look at. `moved` are the proposals whose payload was rewritten, or whose rule
moved, after the precheck.

### Policies

`Decide` is `decide`: rules that match, the strict ones of the highest layer if there are
any, a denial among them over an allowance, and the mode where nothing matches.
`Creates`/`Records` and `Deletes`/`Removes` are the two commits of a policy and its
version, in their two orders. `EnableStarts` reads what the pack has; `EnableMakes` with
`Records` goes through its artifacts; `EnableEnds` is the last commit. Patterns are `*`
or an exact name.

### Directory

An account is a row with a kind, an owner and a key (`keys` counts tokens given out). A
permission is changed in two steps (`PutReads`, `PutWrites`). A device's grant goes
pending – approved – consumed; approving is three commits (`Mints`, `Adopts`, `Grants`),
polling two (`PollReads`, `PollWrites`). `Mints` reads the preset again after the guard has
looked at it, as `create_user` does. `handed` is what polls have returned; an answer
that was lost is a poll that comes again. `minted` is history: the tokens that agents were
made with for a device. Passwords, sessions and sign-in are left out.

### Intake

A session looks for the reference (`Looks`), files the item (`Files`), records it
(`Tells`) and starts a run if one is wanted (`Starting`); a sync does so for ticket after
ticket of a page the tracker lists. The integration's row is read again after each
commit, and may be gone (`Raises`). A reference is a kind and a key, as in the code, so
two trackers of a kind may share one. Those that are configured at first have a secret if
they start runs by themselves, as the handlers see to (`IntakeAssumption`).

### Ingest

A tick reads what is due once, and queues a job for each, every `create_job` committing
the stamp of the repository before it (`Enqueue`, `Stamped`); then the job's thread is
started (`StartsThread`). `TickFails` is a commit, or a start of a thread, that raises:
`_loop` swallows it, and the session's stamp is rolled back with it. `ThreadDies` is a
commit of `run_job` that raises. `Restart` loses tick and threads, jobs stay. What a job
reads is `surfaces` or `nothing`.

### Migrations

`MIGRATIONS` and `DOWNGRADES` are the scripts, each a sequence of statements; a table is
the columns that scripts add to it. `CreateAll` looks for the tables that are missing and
`CreateTable` commits them one by one, in SQLAlchemy's order. `Statement` commits one, or
fails as SQLite would (`Possible`); `SetVersion` comes after the script. A store begins
new, or as an older release left it. `ScriptsAssumption` says how the scripts are written,
which whoever adds one has to keep to: a column is added once, a way down drops what the
way up added and each column once, a table that is dropped is one that `create_all` builds
again and no script has altered. It is about given sequences, so TLC evaluates it
outright. An older release leaves the audit trail, and whatever the scripts still to come
alter unless `create_all` builds that (`MigrationsAssumption`).

## 4. The runs

| Run | Instance | Shows |
|---|---|---|
| `run_machine` | the four templates and `Refined` (an opt-in stage, a teardown); local and remote forge; every opt-in; skips `{}`, `{prove}`, all three checks; two complaints; one comment | types; revisions bounded and counted; no refusal repeated; nothing unchecked pushed; the run comes to rest, and every step of it uses something up; RunLifecycle (207,516 states) |
| `floor` | two workers, two runs of one owner, cap one, one approval, one crash | types; one worker at a run; caps; results applied where made; each write one whole step or one approval; no run where `step` would raise; RunLifecycle; every run comes to rest (261,112 states) |
| `floor_contended` | one worker, one person advancing by hand, slow turns, a crash, a pipeline with an end of another name | approvals kept and revisions bounded even so (294,604 states) |
| `plan_read` | `strict` | *violation*: the gate comes before the plan |
| `headed_answer` | `strict`, a spec of prose, answers that may open with a heading | *violation*: the `run` turn's answer blanks its section, and the checks are skipped |
| `merged_lands` | `ship-a-ticket` | *violation*: a merged request stays held |
| `by_hand` | one worker and one person at one run | *violation*: a result applied at a later stage |
| `other_teams` | two workers, three runs of two people | *violation*: a full team ends the tick |
| `delivery` | a pipeline with a check, the approve gate, a rework round; three kinds of edit; two crashes, one comment, one git command that fails unheard | types; a commit is of what was built; nothing forbidden is pushed; what people decide on is what was committed; a stage begun again finds no commit of its own unpushed – each but after the commands it names (1,058,669 states) |
| `unseen_file` | `quick-fix`, a new file the gate would refuse | *violation*: the gate does not see it |
| `office` | everything of `Budgets` to `Migrations`, one part to a behaviour (below) | types, and sixteen properties of the parts |
| `promoted` | two owners, one rule at the tool grant with a predicate over arguments | *violation*: promoted to the delivery gate, it stands there and nothing asks it |

**`office`.** The parts around the runs share no row that their properties are about, so
a behaviour opens one of them, the variable `open` says which, and TLC adds up their
states instead of multiplying them: about 1.1 million. Some parts are opened in two ways,
for the same reason. The parts, and what is shown of each:

| `open` | Instance | Properties |
|---|---|---|
| `budgets` | two threads, two runs, one with a ceiling; a budget of each scope, windows and a lifetime; of turns, changes of team and crashes three in all, with the budgets made four | `UsedIsWhatWasCharged`, `BurnBounded`, `RunCeilingHolds` |
| `audit` | two sessions of the server, one of a command; three events, two days; two purges, or one and a crash; new, unkeyed and unchained stores | `ChainVerifies`, `ReceiptsCoverWhatIsGone` |
| `proposals` | two leads and an agent, one proposal of any kind but a move's effect; chains configured and derived; a resubmission, a crash | `SignedByItsChain`, `AppliedOnce` |
| `ladder` | the same people, one rule, moves by proposals and by owners; a resubmission, or a move by hand, a crash or both | `DemotionsAreSigned`, with the two before |
| `packs` | two clerks, a pack of two artifacts and a standard, a delete, a crash | `PacksAreWhole`, `RecordsTellThePolicies` |
| `policies` | two clerks, three drafts of two layers, three policies, two deletes, a crash | `TheHighestLockDecides`, `RecordsTellThePolicies` |
| `people` | two people, presets that change, agents that people register | `SomebodyManagesUsers` |
| `devices` | two devices that ask for one handle, two polls at a time, a crash; or one, and a preset that changes | `TokensAreCollectedOnce` |
| `intake` | two trackers of one kind that both have a `#1`; deliveries, syncs, a change of settings; a crash with one item | `TakenInOnce` |
| `ingest` | two repositories, two jobs, two changes of cadence, three hours, one failure: of a tick, of a thread, or a restart | `IngestsKeepTheirPace` |
| `schema` | a new store, one of 2.4, one of 1.0; three openings, to versions 4, 17, 30 and the latest; a crash | `VersionTellsTheSchema` |

### The bounds

- `MaxComments = 1`: one comment draws one round of rework, after which every revision
  and refusal path is taken with a count carried over; a second adds only repetition.
- Two complaints: a repeated refusal and a different one.
- Two workers and two runs: every property of the floor is about two threads at one run
  or one thread and two runs of one team. The small pipeline has a held stage, a skipped
  stage, a turn and an action that refuses: every branch of a step.
- One approval and one crash: enough for an approval between any two steps of a worker,
  and for a claim to be left behind at any point.
- Delivery: one edit of each kind – to a tracked file, a new file the gate refuses, a
  check's, set-up's – since edits do not act on one another; two crashes, so that the
  stage a crash sent back can be cut short again. `CrashAt` leaves out `turned`, the
  place between a check's turn and its revert: a crash there leaves the check's edits in
  the worktree, the next snapshot stages them and `CommitsWhatWasBuilt` fails.
  `MaxUnheard = 1`: one git command fails unheard, as often as it may; each property names
  the commands that matter to it, one by one, so that two of them together excuse nothing
  that one would not. `unseen_file` has none, so that what it shows needs no failure.
- RunMachine and Floor keep no budgets: any step may be refused for want of budget. This
  allows more than the code does, so the invariants are not weaker for it. `Budgets`, in
  turn, lets any run take any turn.
- In `office`, two sessions at a part: every crossing is of two. Two people, sessions or
  workers that a part does not tell apart are the same two model values everywhere, and
  TLC takes them as symmetric (`Alike`); so are the two pollers. Clocks have two or three
  instants, enough for a window or a cadence to be over, and not to be.
- Three keys: two people and an agent, or one person, an agent and a rotation.
- Three events: a purge between two of them, and a fork of two on one.
- `schema` has one opener. Two that open an old store at once are in the module
  (`"together"`), and are excepted from `VersionTellsTheSchema`, so a second opener in the
  instance would add only states that it does not speak of.

### Fairness

RunMachine: `WF(Step)`. The pool's threads look for work for ever (`start_pool`), and a
run that is neither held nor finished is found. Nobody is assumed to approve, merge,
close or comment. Floor: `WF(Turn(w))` for each worker, for the same reason, and
`WF(Expire(r))`, which says that time passes. Delivery has RunMachine's `WF(Step)`;
no liveness property is checked of it. Approvals, changes of team, crashes and
advances by hand are not fair. Crashes and approvals are finitely many in an instance;
comments too. No action has strong fairness. `office` and `promoted` check safety alone,
and state no fairness: a request that nobody makes, or a tick that finds nothing due, is
not wrong. Deadlock is not checked in them, since their bounds end: the clock, the ids
and the requests run out. Deadlock elsewhere: `run_machine` and `floor` run
with TLC's deadlock check on, and `Approve` (RunMachine) and `SetTeam` (Floor) stay
enabled, so it says little there; the liveness properties say that nothing is stuck.

## 5. Where the code and its documents disagree

1. **The approve gate.** A stage with `approve` is held *on arrival* (`plan_next`). With
   the gate on `plan`, a person approves before the plan exists; the plan goes straight
   to `run`. `docs/FEATURES.md` and `docs/PLAN-3.0.md` put the gate after it. (`plan_read`)
2. **Headings in an answer.** `Document.read` splits at every line that opens with `## `.
   An answer that opens with one leaves its section blank, and stages that require it
   are skipped: in `strict`, after an approved plan, a `run` turn's own answer has the
   checks passed over and its edits pushed. (`headed_answer`)
3. **Merged requests.** A watch that finds the request untouched holds the run. A held
   run is neither claimed nor advanced, so nobody looks again until it is approved; a
   request merged meanwhile does not land by itself. (`merged_lands`)
4. **Twice does the work once.** `step`'s docstring promises this; two threads past its
   first line both do the work, and the second result is applied at the stage the first
   one moved the run to. Workers are kept apart by claims; `POST advance` takes none.
   (`by_hand`)
5. **Other teams.** A tick that meets a team at its cap returns, and the next tick starts
   with the same oldest run. (`other_teams`)
6. **New files.** The gate is handed `git diff <base>`, in which files git does not track
   do not appear; the commit begins with `git add -A`. A new file is before the gate
   only if a check's snapshot staged it, and `quick-fix` has no check. (`unseen_file`)

7. **Promotions.** A rule is promoted by one owner, since a promotion takes nothing away.
   `gate` passes over a rule whose predicate sees arguments, so a rule promoted from the
   tool grant to the delivery gate is enforced at neither. (`promoted`)

Others, met while modelling, without a run:

- Runs: `_grade`'s docstring says an objection becomes a refusal and takes the revision
  loop; it becomes an error. `step` looks at the gate, commits the record of the hold and
  then writes the hold: an approval given in between is on the row, and the run is held at
  that gate all the same, until it is approved once more (`StepOf` allows just this).
- Ends: `parse` takes any name for an end, `is_terminal_move` (`graph.py:61`) knows three.
  A run that comes to another end gets no outcome and stays actionable; `step` finds no
  stage and raises, the run is given back, and as the oldest it is taken again. A test
  (`tests/test_setup.py:63`) declares such a pipeline. `NobodyRaises` is proved of all
  others.
- Crashes: `commit_and_push` looks only at whether the worktree is dirty
  (`actions.py:83`). Begun again after a crash between the commit and the push, it finds
  nothing changed and fails the run; the commit is on no remote. `step`'s docstring and
  `docs/PLAN-3.0.md:843` say that the work is done once. `DoesTheWorkOnce` excepts exactly
  this, by the history variable `cut`.
- Failures nobody looks at: `diff` runs git with `check=False` and returns what it said
  (`workspace.py:167-169`). When the diff fails – a base that does not resolve, two minutes
  gone – the gate (`actions.py:90`) is handed git's complaint, finds nothing to refuse in
  it, and the content is committed and pushed. The same goes for the snapshot, the checkout
  and the clean around a check (`workspace.py:179`, `194-195`): a failed one leaves a check's
  edits in the worktree, to be committed. A commit that was made but killed in a later hook
  is taken for the hook's refusal (`actions.py:96-98`). `unheard` keeps these apart.
- Specs: `strict` sets `max_revisions` on `plan`, a key `_stage` does
  not read.
- Budgets: a run advanced by hand beside its worker has two turns past one check of its
  ceiling, and may pass it by both. A run refused for a spent window is failed for good,
  though the message says to wait for the window to roll (`budgets.py:153`). The window
  called rolling starts at the first use and is fixed from then on. A budget that is
  deleted while a charge is under way rolls the charge of all of them back, and the stage
  runs again.
- Audit: `_backfill_chain` links old events with the key and leaves `chain_algo` at the
  older construction, so a store from before the chain does not verify after its upgrade.
  An export of a chain that two processes forked carries one branch, or all of it, without
  a word.
- Proposals: `resubmit` skips the precheck that `propose` makes. A custom role that is
  deleted leaves proposals whose chain names it with a slot nobody can sign. An
  acceptance cut short between its two commits cannot be reviewed again (its next slot is
  past its chain). Two reviewers who accept the last slot at once both carry the change
  out (`approval_workflows.py:93-117`): two policies, two work items. A demotion by proposal
  needs the signers of the chain. A lead whom no role outranks gets the chain of the layer
  alone (`approval_workflows.py:61-62`), proposes the demotion and signs its one slot:
  enforcement is gone on one person's word, where `routers/ladder.py:7-10` and `81-83` say
  that it takes two. `DemotionsAreSigned` has this as its one case of a single person.
- Ladder: `add` refuses the first rung to a rule that withholds nothing, `move` does not.
  A disabled rule can be moved up, and enforces nothing there.
- Policies: `disable_pack` deletes its policies without tombstones, and a policy deleted
  between its insert and its first version has its tombstone come first: both stay
  in `policies_in_effect_at` for ever. A pack whose enabling was cut short is not
  completed by enabling it again.
- People: an agent that holds `manage:users` may take it from its owner and then be
  deleted, which leaves nobody who manages users. An agent may register another,
  whose owner is gone once the first is deleted. Two polls at once both return the token
  that `device_poll` says it never returns twice (`harnesses.py:156`). A preset that is
  widened after an approval's guard has read it gives the agent more than its approver
  holds (`users.py:180-181` reads it again).
- Intake: references are a kind and a key. GitHub keys are numbers, so two repositories of
  one kind of tracker collide and the second ticket is answered "already imported"
  (`intake.py:168`). The listing of GitHub's issues is of all states, so a sync takes in,
  and may start, closed ones. `OPENING` has no `create`, the action Linear sends.
- Jobs: what a scheduled charter job returns is stored on the job, where nothing reads it
  (`agent.py:124` reads afresh), although the scheduler's docstring says it keeps the
  harness current. A job whose thread is gone stays pending or running for ever: after a
  restart, a thread that could not be started, or a commit of its own that failed. `_loop`
  swallows whatever a tick raises (`scheduler.py:65-66`), and the stamp of the job before is
  rolled back unseen: that repository is read again at the next tick.
- Schema: a store made at 3.0 or later may be migrated down past version 23, and can then
  not be opened: the way up updates a table that it never had (`_missing_tables` looks
  only at what the scripts down would alter). A 1.0 store lacks two tables that
  `create_all` builds as they are now, and the script that adds their columns fails.
  A crash inside a script has the next opening fail; so has one while a new store is
  built, once it has its `events` table, by which `_init_schema` tells a new store.

## 6. What is proved

All theorems hold for every value of the constants that the modules' ASSUMEs allow: any
well-formed graphs, any number of runs, workers, people and teams.

**RunMachine** (`RunMachine_proofs`). `TypeCorrect`: `TypeOK` is inductive, given what
`Advance` and `PlanNext` return for a graph that `parse` accepted (lemmas of
`PipelineGraph_proofs`). `RevisionsStayBounded`: a count above zero was last raised by
some stage whose bound it respects; carrying a move never raises it. `RefusalsAreCounted`:
needs that a failed run does not move again, since only the move to `failed` may lose the
count. `NoRefusalIsRepeated`: `NoRefusalRepeated` alone is not inductive; the invariant
adds that the words on the row are those of the last refusal that sent the run back.
`EndsHaveOutcomes` assumes that every pipeline ends at exactly the three names the code
knows. `RunHasALifecycle`: every step maps to a step of RunLifecycle or a stutter.
`WhatShipsWasChecked` is `ShippedWorkWasChecked` for every pipeline with a certificate
(`ChecksEverything` of PipelineShapes): `sure` gives each stage sections that are there
whenever a run comes to it, `after` each check the stages that come only after it, and
both are tested one edge at a time. `MCRunMachine` assumes that the instance's pipelines,
those that ship among them, have such a certificate, and TLC evaluates that. The theorem
assumes `PlainAnswers`, too: an answer fills the section its stage is to produce.
`headed_answer` shows what becomes of the property without it, for a spec of prose. The
invariant `CheckedInv` says where the run stands against both certificates.

`RunsGoOn` is why a run comes to rest, as far as it can be proved. `Rank` gives each stage
a number, one for a request that was commented on and one for a request that was not, and
`RunsOut` says, edge by edge, that whatever leads on without a refusal leads down. Then
every step of a run stops it, counts one more refusal, of which `RevisionsStayBounded`
allows so many, or leads down in rank (`EveryStepGoesOn`): ranks and refusals left are
well-founded. What remains to `ComesToRest` is that `Step` is enabled while the run moves,
and fairness. The rank is a constant, `RankAssumption` its promise, and TLC evaluates it
for the pipelines that ship and for `Refined`.

**Floor** (`Floor_proofs`). `TypeCorrectOnTheFloor` adds to `TypeOK` that a thread past
its claim has a run (`HasAJob`). `ApprovalsAreKept`: a move does not touch the approved
column, so `Written` leaves it alone – whoever else is at the run.
`RevisionsStayBoundedOnTheFloor`: rows, rows as read and moves about to be written all
carry counts the pipeline allows, and a write takes its count from one of them.

`OneWorkerAtARun`, `ResultsLand` and `HoldsEndWithAnApproval` assume
`SlowTurns = FALSE` and `Advancers = {}`: turns end before their claims go stale, and
nobody advances by hand. Both are needed: `by_hand` refutes `ResultsLand...` without the
second. The invariant has two parts. `Claims`: whoever is at a run has its fresh claim,
so no one else can take it and `release` gives back only one's own. `AtItsStage`: while
a worker is at a run, the row differs from the row as it read it only by an approval
(`approved` set, `held` cleared), and the stage's result was made there; people are the
only others who write. Under the same two assumptions `EveryRunHasALifecycle` shows the
refinement: `LifeInv` adds what of that reading the abstract run is made of, its count, its
hold and its outcome, and that a move about to be written keeps to RunLifecycle's steps
from there.

`EveryWriteIsAStep` goes further, under the same two assumptions: each write is one whole
step of the machine from the row as it stands when it is written, or one approval. `step`
reads the row, commits, reads it again and writes only what it changed; the theorem says
that, all the same, the floor is as good as one on which steps are atomic, as they are in
RunMachine. That approvals are kept and holds end with one follows from it, where it
applies. The invariant `WholeInv` adds to `LifeInv` what each thread has `Chosen`: the move
that `plan_next` or `advance` has for the row as it now is, except that the gate may have
been looked at before an approval.

`NoRunIsBeyondItsStages` is about any number of threads at a run, with slow turns and
advances by hand: `step` never meets a run that stands where its pipeline has no stage.
A write brings an end and its outcome together, but it writes only the columns that
changed, so another thread's write might bring one without the other. `StandsInv` is what
excludes that: what a thread has read of a finished run is true of the row, since an
outcome is never taken back. The theorem assumes `KnownEnds`: that the pipeline ends at
names outcomes are written for. The pipeline of `floor_contended` does not, and the
property fails there.

`CapsAreRespected`: the counter of a team is the number of workers whose slot is of that
team, a cardinality that each entry and each exit changes by one; a refused entry
changes neither, a change of team touches no slot, and a restart empties both.

**Delivery** (`Delivery_proofs`). `TypeCorrectOfDelivery` adds to `TypeOK` that a worker in
the middle of something is at a stage, and at one that reverts if it took a snapshot
(`AtAStage`). `ChecksLeaveNoTrace` is `CommitsWhatWasBuilt` for every well-formed
pipeline, under the assumption that `turned` is not in `CrashAt`. The property alone is
not inductive, as it speaks only of commits; the invariant `HoldsWhatWasBuilt` says where
what was built is at every moment: in the worktree, except after a check's turn, when it
is in the index, where the snapshot put it. It holds until an add, a checkout or a clean
has failed unheard, which the property excepts.

`TheGateHolds` and `WhatIsWatchedIsPublished` are about shapes again. The gate reads what git
tracks, so a pipeline has to have a check that reverts, whose snapshot stages every file,
before each commit (`SeesEveryFile`). `strict` has, and so has the instance of
`delivery`; `quick-fix` has not, and `unseen_file` refutes the property for it.
`StagedInv` says at which stages every file is staged, `SureInv` what a run has in its
document there, on which it depends whether a check is skipped; both stand until a diff,
an add or a clean has failed unheard. The theorem says no more than that: nobody looks at
such a failure, and after a diff that failed the gate has seen nothing. For the second, a
pipeline opens only what it pushed and watches only what it opened
(`WatchesWhatItPushed`), which all four that ship do; `PublishedInv` says that between the
push and the last look at the request nothing commits.

`WorkIsDoneOnce` is `DoesTheWorkOnce`, for every pipeline whose commit stages fail their
run when they fail (`FailsUnpushed`, true of all that ship). A commit stage that finds
nothing to commit reports an error, and must not do so while its own commit is on no
remote. The invariant `PushedOrOver` says where such a commit may be: it is being pushed,
or its failed push is about to end the run or has ended it; or the process went down in one
of these places, which `cut` records, or the commit was taken for a refused one, which
`unheard` does. There are no others, so a crash anywhere else, however
often, costs nothing.

**Budgets** (`Books_proofs`). `BudgetsAreTyped` has the rows a session holds in its
invariant too. `CeilingIsKept` is `RunCeilingHolds` for any number of threads, any of them
at one run, and of budgets. By itself it is not inductive, since a turn adds to what was
spent: `CeilingInv` says that what was spent would stay below the bound if every turn that
is past the check came to its end at full cost. With its workers alone at a run, whose claims keep them apart (on
the floor the theorem `OneWorkerAtARun`), `crowd` is one. `TheBurnIsBounded` is `BurnBounded`:
`BurnInv` counts, for each budget, the threads that may still charge it and those that
came to it with a change of team (`came`), and says that it would stay below its bound if
all of them did. `CountersTell` is `UsedIsWhatWasCharged`, both halves: a counter that no two
sessions wrote over one another is the sum of the charges in its window (`ChargedInv`,
with `UnbornInv` for budgets that are still to be made), and no counter passes the
recorded steps of the runs that may be charged to it (`RecordedInv`). Both need that a row a
session has read is of a budget that was made, with a window that had begun when it took
the time (`SeenInv`).

**AuditLog** (`Books_proofs`). `AuditIsTyped` is of any sessions and processes; its
invariant `AuditInv` has the bounds that are spent one by one: events, purges, ids.
`NothingGoesUnreceipted` is `ReceiptsCoverWhatIsGone`: what one purge takes is what its
receipt, committed with it, says. `TheChainVerifies` is `ChainVerifies`. The property
speaks of a walk along the chain; the invariant says instead which event each link is to.
`Chain`: no two events follow the same one, one only has nothing before it or a gap that a
receipt explains, and the head is the hash of the last. `LockInv`: within a process one
session at a time is between reading the head and committing, and what it read is still
the head, unless a session of another process has committed since, which is the fork.
`ForkInv` is the other direction: a fork is in the chain for good, as long as nothing is
purged.

**Policies** (`Governance_proofs`). `TheTableDecides` is about `Decide` alone: it equates
the pool that `decide` computes with a case for each layer, for any policies.
`PacksStayWhole` is `PacksAreWhole`: `PackInv` says of the session that is enabling or
disabling a pack how much of it is there by how far it has come. For `TheRecordsTell`, the
invariant `RecordsInv` adds what makes the property last: a policy whose first version is
still to be written is there, or its absence is accounted for; one that is being removed
has its tombstone, or its absence is; and one that is both at once is remembered as
unfinished. What a new version does to what is in effect is a lemma of its own
(`InEffectIs`).

**Proposals** (`Governance_proofs`). `GovernanceIsTyped` is `ProposalsTypeOK`; the invariant
`GovernedInv` adds what a request under way holds and why it was let through: a review's
`seen` was pending and not signed by that person, a resubmission's was being revised, a
move's rung had something to carry it. What a request has read may be out of date, so of
the row as it is now only the kind, the chain and the proposer are known to be the same;
where a property needs more, it is of proposals on which no two requests crossed
(`NotCrossed`: the row is then what the request has read). `SignaturesCount` is
`SignedByItsChain`: each signature adds one person and one slot. `CarriedOutOnce` is
`AppliedOnce`: it needs that no chain is empty (`ChainsAre`), or a proposal would be used
up when it is made, and that nothing was made of an id that is not there. A change is
carried out by a request that read the proposal before its last signature; whichever comes
second has written over the first, and `crossings` has counted it.
`EnforcementIsVouchedFor` is `DemotionsAreSigned`; on its own it is not inductive, for it
says nothing of a proposal before it is carried out. `VouchedInv` adds that an agent's
proposal would raise its rule for as long as neither has changed (`Raises`), and rests on
the other two: the signers are as many as the slots, and a proposal that waits for its last
signature has not been carried out before.

**Directory** (`Directory_proofs`). `PermissionsAreNotLocked`: the invariant `ManagedInv`
adds that a request for somebody's permissions is never about the person who makes it, so
whoever takes the permission away still has it, or `strayed` says that they do not. It
needs, too, that nobody registers an agent or changes a permission before there is
anybody. `DevicesCollectOnce` needs a token's whole way: a request that minted it, the
grant, a poll that read it, what was handed over. The invariant says that all of these are
of the tokens `minted` for that device and no other, and that a token is
`Held` along one device's way only, and what each device's grant has handed over by its
status (`GrantInv`); `AgentsInv` says whose an account is while it is being registered.

**Intake** (`Intake_proofs`). `IntakeIsTyped` includes that an integration that starts
runs by itself has a secret; the code sees to it wherever it changes one, so the
assumption is only about those there were at first (`IntakeAssumption`).
`TicketsAreTakenInOnce` is `TakenInOnce`. `TakenInv` follows a ticket through all
sessions: its reference has one item at most, unless two looked at once (`OneOfARef`); a
session about to file it has found nothing among the items there were when it looked
(`NothingSeen`); an item has one run at most (`RunsOnce`); every item is in the trail, or
a session is about to put it there, or one ended before it could (`AllTold`).

**Ingest** (`Intake_proofs`). `TheCadenceIsKept`: `PaceInv`, the distance of two jobs of a
repository, follows from its stamp at the time it was found due, so the invariant adds
`TickInv` (what the tick has still to queue is of repositories whose jobs are all at least
a cadence old) and `StampInv` (the stamp is the time of the latest job but for the one the
tick still has to stamp, and those whose stamp was lost with a tick). `ThreadInv` says
which jobs have a thread, are about to get one, or have lost it.

**Migrations** (`Intake_proofs`). Both theorems are about the scripts there are, and use
of them only `ScriptsAssumption`, so they hold of any that keep to it. `SchemasAreTyped`:
what a process has still to run of its script adds only known columns. For
`TheVersionTells`, `TellsInv` says, unless one of the four things has happened that
`VersionTellsTheSchema` excepts, that one process at most is at the store, and that the
columns are those of the version, and of the script it is in the middle of as many as it
has run, up (`GoingUp`) or down (`GoingDown`), or of the tables it has built so far. The
lemmas are about a script alone: what its first j statements add is added for the first
time (`AddedOnce`, `NotYet`), and the way down takes away what the way up brought
(`Mirrored`, `ScriptUp`, `ScriptDown`). The theorem has two openers as well as one, and
installs that `office` does not have. It assumes of a store that is no new one that it has
its audit trail and whatever its pending scripts alter, unless `create_all` builds that.

## 7. What is only model-checked

- `ComesToRest`, `EveryRunComesToRest`: liveness under fairness is out of the prover's reach,
  as is ENABLED. Of the first, `RunsGoOn` proves the half that is about single steps.
- `TypesOK` of `office` as one formula. Its eight conjuncts are theorems, each of the
  specification of its part.
- What is assumed of given data, which TLC evaluates: `WellFormed` and `GraphType` of the
  pipelines, the certificates of their shapes, `ScriptsAssumption` of the thirty-three
  scripts.
- The three properties that a fault in the surroundings makes false, of which a theorem
  has the assumption that rules it out: see `WhatShipsWasChecked`, `TheGateHolds` and
  the floor's theorems above. The instances of the `violation` runs show that they are needed.

The other way about, two properties are proved and no run lists them: `StageAndOutcomeAgree`
(`EndsHaveOutcomes`), of which `NobodyRaises` is the part that other threads could break, and
`OnlyAPersonEndsAHold` (`HoldsEndWithAnApproval`), which `StepsAreWhole` implies.

No module that a theorem is about has a RECURSIVE operator, and no induction schema can be
used, as it takes an operator for a parameter. Sums (`SumOf`, by a fold of the library)
are therefore reasoned about by way of their least counterexample: the library's statement
of well-founded induction has one without an operator.

## 8. What is not modelled

Components with status `not_modelled` in `PROJECT.json`, with the reason for each: passwords,
sessions, one-time codes and encrypted credentials; oversight levels, experiments and
suggested improvements; notifications, the live feed, metrics and logs; the command line,
the web application and the seeds; the agent middleware, whose tool calls are inside a turn.

In the modelled ones: prompts, redaction, what tools a turn may call; the
steps and audit records a step writes, except for the re-reading of the row that their
commits bring about; an exception other than RunnerError in the middle of a tick, after
which the claim is released and the pool's loop goes on, as after `Raise`; the
worktree of a run that two threads work on at once. Of the ladder, capabilities (which
give a tool back) and the scopes of rules; what a predicate makes of a text is left out,
and a predicate is what it sees. Of policies, patterns other than `*` and an exact name,
and `scan_content`. Of the audit trail, queries, signed exports and auditors' grants; of
intake, what is told back to a tracker, and payloads beyond the ticket; of ingest, how a
file is read. The hazards these bring are in `PROJECT.json` with a note each.
