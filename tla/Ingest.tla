------------------------------- MODULE Ingest -------------------------------
(***************************************************************************)
(* Repositories whose own rules are read again on a cadence (scheduler.py) *)
(* and the jobs that do it (jobs.py).  A tick reads what is due and queues *)
(* a job for each: a commit of its own, which carries the stamp of the     *)
(* repository before it; the last stamp is committed with the tick.  A job *)
(* runs in a thread, and a thread does not outlive its process.  A tick    *)
(* that raises is swallowed, and its session rolled back with it.          *)
(***************************************************************************)
EXTENDS Integers, Sequences, FiniteSetsExt

CONSTANTS
  Repos,      \* the repositories, as numbers: the order in which they are read
  Intervals,  \* the cadences that may be set, in hours
  HostOf,     \* repository -> the kind of the integration it is read by; "": there is none
  MaxHours, MaxJobs, MaxRetimings, MaxFailures  \* bounds: clock, jobs, new cadences, failures

Never == -1   \* a last_ingest_at of ""

ASSUME IngestAssumption ==
  /\ Repos \subseteq Nat /\ Intervals \subseteq Int /\ DOMAIN HostOf = Repos
  /\ MaxHours \in Nat /\ MaxJobs \in Nat /\ MaxRetimings \in Nat /\ MaxFailures \in Nat

RepoRow == [interval : Nat, last : Nat \cup {Never}]
JobRow ==
  [repo : Repos, at : Nat, pace : Nat, result : {"", "surfaces", "nothing"},
   status : {"pending", "running", "done", "failed"}]

VARIABLES
  repos,      \* repository -> [interval, last], as its row has them
  jobs,       \* the Job rows, in order: the repository, the tick's time, the status
  tick,       \* the scheduler: what its session has still to queue, and to stamp
  running,    \* jobs that have a thread
  hour,       \* the clock
  \* History, which the code does not keep:
  unstamped,  \* jobs whose stamp was lost
  orphaned,   \* jobs whose thread was lost
  retimings, failures  \* bounds

ingestVars ==
  <<repos, jobs, tick, running, hour, unstamped, orphaned, retimings, failures>>

Asleep == [pc |-> "asleep", due |-> {}, at |-> 0, stamp |-> 0]

\* _due.
Due(r) ==
  /\ repos[r].interval > 0
  /\ repos[r].last = Never \/ hour - repos[r].last >= repos[r].interval

IngestInit ==
  /\ repos = [r \in Repos |-> [interval |-> 0, last |-> Never]]
  /\ jobs = <<>> /\ tick = Asleep /\ running = {} /\ hour = 0
  /\ unstamped = {} /\ orphaned = {} /\ retimings = 0 /\ failures = 0

\* set_ingest_schedule, update_repo: nothing below none.
SetIngestSchedule(r, hours) ==
  /\ retimings < MaxRetimings /\ retimings' = retimings + 1
  /\ repos' = [repos EXCEPT ![r].interval = IF hours > 0 THEN hours ELSE 0]
  /\ UNCHANGED <<jobs, tick, running, hour, unstamped, orphaned, failures>>

\* run_due_ingests: due_repos is read once.
TickReads ==
  /\ tick = Asleep /\ \E r \in Repos : Due(r)
  /\ tick' = [pc |-> "queueing", due |-> {[repo |-> r, pace |-> repos[r].interval] : r \in {q \in Repos : Due(q)}},
              at |-> hour, stamp |-> 0]
  /\ UNCHANGED <<repos, jobs, running, hour, unstamped, orphaned, retimings, failures>>

\* last_ingest_at of the job that was queued before, when the session next commits.
Stamped == IF tick.stamp = 0 THEN repos ELSE [repos EXCEPT ![jobs[tick.stamp].repo].last = tick.at]

\* enqueue, create_job: the job is committed, ...
Enqueue ==
  LET next == CHOOSE d \in tick.due : \A e \in tick.due : d.repo <= e.repo IN
  /\ tick.pc = "queueing" /\ tick.due # {} /\ Len(jobs) < MaxJobs
  /\ repos' = Stamped
  /\ jobs' = Append(jobs, [repo |-> next.repo, at |-> tick.at, pace |-> next.pace,
                         result |-> "", status |-> "pending"])
  /\ tick' = [tick EXCEPT !.pc = "starting", !.due = @ \ {next}, !.stamp = Len(jobs')]
  /\ UNCHANGED <<running, hour, unstamped, orphaned, retimings, failures>>

\* ... and then its thread is started.
StartsThread ==
  /\ tick.pc = "starting"
  /\ running' = running \cup {tick.stamp}
  /\ tick' = [tick EXCEPT !.pc = "queueing"]
  /\ UNCHANGED <<repos, jobs, hour, unstamped, orphaned, retimings, failures>>

\* Fault: the last repository of a tick is not stamped.
TickEndsUnstamped ==
  /\ tick.pc = "queueing" /\ tick.due = {}
  /\ tick' = Asleep
  /\ UNCHANGED <<repos, jobs, running, hour, unstamped, orphaned, retimings, failures>>

TickEnds ==
  /\ tick.pc = "queueing" /\ tick.due = {}
  /\ repos' = Stamped
  /\ tick' = Asleep
  /\ UNCHANGED <<jobs, running, hour, unstamped, orphaned, retimings, failures>>

\* run_job: running, in a session of its own, ...
JobStarts(j) ==
  /\ j \in running /\ jobs[j].status = "pending"
  /\ jobs' = [jobs EXCEPT ![j].status = "running"]
  /\ UNCHANGED <<repos, tick, running, hour, unstamped, orphaned, retimings, failures>>

READERS == {"github", "gitlab"}

\* charter, default_reader: what the repository says, as far as its host answers; a
\* repository that cannot be read says nothing, and raises nothing.
Charter(repo, answers) ==
  IF HostOf[repo] \in READERS /\ answers THEN "surfaces" ELSE "nothing"

\* ... and done, with what charter returned; or failed, with what the store raised.
JobEnds(j, status, answers) ==
  /\ j \in running /\ jobs[j].status = "running"
  /\ jobs' = [jobs EXCEPT ![j].status = status,
                          ![j].result = IF status = "done" THEN Charter(jobs[j].repo, answers) ELSE ""]
  /\ running' = running \ {j}
  /\ UNCHANGED <<repos, tick, hour, unstamped, orphaned, retimings, failures>>

HourPasses ==
  /\ hour < MaxHours /\ hour' = hour + 1
  /\ UNCHANGED <<repos, jobs, tick, running, unstamped, orphaned, retimings, failures>>

\* What the tick loses when it goes: the stamp it has not committed, and the job that it has
\* not started a thread for.
LostStamp == IF tick.stamp = 0 THEN {} ELSE {tick.stamp}
Unstarted == IF tick.pc = "starting" THEN {tick.stamp} ELSE {}

\* start_scheduler, _loop: a commit fails, or a thread cannot be started; the loop goes on.
TickFails ==
  /\ tick # Asleep /\ failures < MaxFailures /\ failures' = failures + 1
  /\ unstamped' = unstamped \cup LostStamp /\ orphaned' = orphaned \cup Unstarted
  /\ tick' = Asleep
  /\ UNCHANGED <<repos, jobs, running, hour, retimings>>

\* run_job: a commit that fails ends the thread, and leaves the row as it was.
ThreadDies(j) ==
  /\ j \in running /\ failures < MaxFailures /\ failures' = failures + 1
  /\ orphaned' = orphaned \cup {j} /\ running' = running \ {j}
  /\ UNCHANGED <<repos, jobs, tick, hour, unstamped, retimings>>

\* The server goes down: with it the tick, and every thread.
Restart ==
  /\ failures < MaxFailures /\ failures' = failures + 1
  /\ unstamped' = unstamped \cup LostStamp
  /\ orphaned' = orphaned \cup Unstarted \cup running
  /\ running' = {} /\ tick' = Asleep
  /\ UNCHANGED <<repos, jobs, hour, retimings>>

IngestNext ==
  \/ \E r \in Repos, hours \in Intervals : SetIngestSchedule(r, hours)
  \/ TickReads \/ Enqueue \/ StartsThread \/ TickEnds \/ TickFails
  \/ \E j \in DOMAIN jobs :
       JobStarts(j) \/ ThreadDies(j) \/ \E status \in {"done", "failed"}, answers \in BOOLEAN : JobEnds(j, status, answers)
  \/ HourPasses \/ Restart

IngestSpec == IngestInit /\ [][IngestNext]_ingestVars

-----------------------------------------------------------------------------
(* What holds. *)

\* The types of the rows and of what is remembered of them.
IngestTypeOK ==
  /\ repos \in [Repos -> RepoRow] /\ \A r \in Repos : repos[r].last <= hour
  /\ jobs \in Seq(JobRow) /\ \A j \in DOMAIN jobs : jobs[j].at <= hour
  /\ running \cup unstamped \cup orphaned \subseteq DOMAIN jobs
  /\ tick.pc \in {"asleep", "queueing", "starting"} /\ tick.stamp \in 0..Len(jobs)

(***************************************************************************)
(* A repository is read again no sooner than the cadence it had when it    *)
(* was found due, from one job to the next, and is stamped with the job it *)
(* last had.  A crash between the two loses the stamp, and so does a tick  *)
(* that raises, in silence; then the job comes again.  A job that is not   *)
(* over has a thread or is about to, unless the server went down, the      *)
(* tick failed before it started one, or the thread died of a commit:      *)
(* then it never ends, and nothing takes it up again.                      *)
(***************************************************************************)
IngestsKeepTheirPace ==
  /\ \A i, j \in DOMAIN jobs :
       i < j /\ jobs[i].repo = jobs[j].repo /\ i \notin unstamped
         => jobs[j].at - jobs[i].at >= jobs[j].pace
  /\ \A r \in Repos :
       LET mine == {j \in DOMAIN jobs : jobs[j].repo = r} IN
       mine # {} /\ Max(mine) # tick.stamp /\ Max(mine) \notin unstamped
         => repos[r].last = jobs[Max(mine)].at
  /\ \A j \in DOMAIN jobs :
       j \in running \cup Unstarted <=>
         jobs[j].status \in {"pending", "running"} /\ j \notin orphaned
=============================================================================
