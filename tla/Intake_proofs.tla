---------------------------- MODULE Intake_proofs ----------------------------
(***************************************************************************)
(* Proofs about Ingest, for any repositories, cadences and hosts, about    *)
(* Intake, for any trackers, tickets and sessions, and about Migrations,   *)
(* for any stores and whoever opens them.                                  *)
(***************************************************************************)
EXTENDS Ingest, Intake, Migrations, WellFoundedInduction, TLAPS

-----------------------------------------------------------------------------
(* Types. *)

DueRow == [repo : Repos, pace : Nat]
TickRow == [pc : {"asleep", "queueing", "starting"}, due : SUBSET DueRow, at : Nat, stamp : Nat]

TypeInv ==
  /\ hour \in Nat /\ repos \in [Repos -> RepoRow] /\ \A r \in Repos : repos[r].last <= hour
  /\ jobs \in Seq(JobRow) /\ \A j \in DOMAIN jobs : jobs[j].at <= hour
  /\ running \subseteq DOMAIN jobs /\ unstamped \subseteq DOMAIN jobs
  /\ orphaned \subseteq DOMAIN jobs
  /\ tick \in TickRow /\ tick.stamp <= Len(jobs)

LEMMA Assumed == Repos \subseteq Nat /\ \A hours \in Intervals : hours \in Int
BY Zenon, IngestAssumption

LEMMA JobAt ==
  ASSUME TypeInv
  PROVE  /\ Len(jobs) \in Nat /\ DOMAIN jobs = 1..Len(jobs)
         /\ \A j \in DOMAIN jobs :
              /\ jobs[j] \in JobRow /\ jobs[j].repo \in Repos /\ jobs[j].at \in Nat
                                   /\ jobs[j].pace \in Nat /\ jobs[j].at <= hour
<1>1. jobs \in Seq(JobRow) /\ \A j \in DOMAIN jobs : jobs[j].at <= hour
  BY DEF TypeInv
<1>2. \A row \in JobRow : row.repo \in Repos /\ row.at \in Nat /\ row.pace \in Nat
  BY DEF JobRow
<1>3. \A j \in DOMAIN jobs : jobs[j] \in JobRow
  BY <1>1
<1> QED BY <1>1, <1>2, <1>3

LEMMA RepoAt ==
  ASSUME TypeInv, NEW r \in Repos
  PROVE  /\ repos[r] \in RepoRow /\ repos[r].interval \in Nat /\ repos[r].last \in Nat \cup {Never}
         /\ repos[r].last <= hour
BY DEF TypeInv, RepoRow

LEMMA TickAt ==
  ASSUME TypeInv
  PROVE  /\ tick.pc \in {"asleep", "queueing", "starting"} /\ tick.due \subseteq DueRow
         /\ tick.at \in Nat /\ tick.stamp \in Nat /\ tick.stamp <= Len(jobs)
         /\ \A d \in tick.due : d.repo \in Repos /\ d.pace \in Nat
BY DEF TypeInv, TickRow, DueRow

\* What is due first.
First == CHOOSE d \in tick.due : \A e \in tick.due : d.repo <= e.repo

LEMMA FirstIsDue ==
  ASSUME TypeInv, tick.due # {}
  PROVE  First \in tick.due
<1> DEFINE T == {d.repo : d \in tick.due}
           R == OpToRel(<, Nat)
<1>1. T \subseteq Nat /\ T # {}
  BY TickAt, Assumed
<1>2. IsWellFoundedOn(R, Nat)
  BY NatLessThanWellFounded
<1>3. \A x, y \in Nat : y < x => <<y, x>> \in R
  BY DEF OpToRel
<1>a. PICK x \in T : \A y \in T : x <= y
  <2> HIDE DEF T, R
  <2>1. PICK x \in T : \A y \in T : <<y, x>> \notin R
    BY <1>1, <1>2, WFMin
  <2>2. \A y \in T : ~(y < x)
    BY <1>1, <1>3, <2>1
  <2>3. \A y \in T : x <= y
    BY <1>1, <2>2
  <2> QED BY <2>3
<1>4. PICK d \in tick.due : d.repo = x
  OBVIOUS
<1>5. \A e \in tick.due : d.repo <= e.repo
  BY <1>4, <1>a
<1> HIDE DEF T
<1> QED BY <1>4, <1>5 DEF First

\* What queueing a job leaves.
LEMMA EnqueueLeaves ==
  ASSUME TypeInv, Enqueue
  PROVE  /\ First \in tick.due /\ tick.pc = "queueing"
         /\ Len(jobs') = Len(jobs) + 1 /\ jobs' \in Seq(JobRow)
         /\ DOMAIN jobs' = DOMAIN jobs \cup {Len(jobs) + 1} /\ Len(jobs) + 1 \notin DOMAIN jobs
         /\ \A j \in DOMAIN jobs : jobs'[j] = jobs[j] /\ j < Len(jobs) + 1
         /\ jobs'[Len(jobs) + 1].repo = First.repo /\ jobs'[Len(jobs) + 1].at = tick.at
         /\ jobs'[Len(jobs) + 1].pace = First.pace /\ jobs'[Len(jobs) + 1].status = "pending"
         /\ tick' = [tick EXCEPT !.pc = "starting", !.due = tick.due \ {First}, !.stamp = Len(jobs) + 1]
         /\ repos' = Stamped /\ UNCHANGED <<running, hour, unstamped, orphaned>>
<1> DEFINE row == [repo |-> First.repo, at |-> tick.at, pace |-> First.pace, result |-> "", status |-> "pending"]
<1>1. /\ tick.pc = "queueing" /\ tick.due # {} /\ repos' = Stamped
      /\ UNCHANGED <<running, hour, unstamped, orphaned>>
      /\ jobs' = Append(jobs, row)
      /\ tick' = [tick EXCEPT !.pc = "starting", !.due = tick.due \ {First}, !.stamp = Len(jobs')]
  BY DEF Enqueue, First
<1>2. First \in tick.due
  BY <1>1, FirstIsDue
<1>3. First.repo \in Repos /\ First.pace \in Nat /\ tick.at \in Nat
  BY <1>2, TickAt
<1>4. row \in JobRow
  BY <1>3 DEF JobRow
<1>5. row.repo = First.repo /\ row.at = tick.at /\ row.pace = First.pace /\ row.status = "pending"
  OBVIOUS
<1>6. jobs \in Seq(JobRow)
  BY DEF TypeInv
<1> HIDE DEF row
<1>7. /\ Len(jobs') = Len(jobs) + 1 /\ jobs' \in Seq(JobRow)
      /\ DOMAIN jobs' = DOMAIN jobs \cup {Len(jobs) + 1} /\ Len(jobs) + 1 \notin DOMAIN jobs
      /\ \A j \in DOMAIN jobs : jobs'[j] = jobs[j] /\ j < Len(jobs) + 1
      /\ jobs'[Len(jobs) + 1] = row
  BY <1>1, <1>4, <1>6
<1> QED BY <1>1, <1>2, <1>5, <1>7

\* What a stamp does to a repository.
LEMMA StampedRepos ==
  ASSUME TypeInv
  PROVE  /\ Stamped \in [Repos -> RepoRow]
         /\ \A r \in Repos :
              Stamped[r].last = IF tick.stamp # 0 /\ r = jobs[tick.stamp].repo THEN tick.at ELSE repos[r].last
<1>1. repos \in [Repos -> RepoRow] /\ tick.at \in Nat
  BY TickAt DEF TypeInv
<1>2. \A row \in RepoRow :
        [row EXCEPT !.last = tick.at] \in RepoRow /\ [row EXCEPT !.last = tick.at].last = tick.at
  BY <1>1 DEF RepoRow
<1>3. CASE tick.stamp = 0
  BY <1>1, <1>3 DEF Stamped
<1>4. CASE tick.stamp # 0
  <2>1. Stamped = [repos EXCEPT ![jobs[tick.stamp].repo].last = tick.at]
    BY <1>4 DEF Stamped
  <2>2. \A r \in Repos :
          Stamped[r] = IF r = jobs[tick.stamp].repo THEN [repos[r] EXCEPT !.last = tick.at] ELSE repos[r]
    BY <1>1, <2>1
  <2>3. Stamped \in [Repos -> RepoRow]
    BY <1>1, <1>2, <2>1
  <2>4. ASSUME NEW r \in Repos
        PROVE  Stamped[r].last = IF r = jobs[tick.stamp].repo THEN tick.at ELSE repos[r].last
    <3>1. repos[r] \in RepoRow
      BY <1>1
    <3>2. [repos[r] EXCEPT !.last = tick.at].last = tick.at
      BY <1>2, <3>1
    <3> QED BY <2>2, <3>2
  <2> QED BY <1>4, <2>3, <2>4
<1> QED BY <1>3, <1>4

-----------------------------------------------------------------------------
(* How the tick, the stamps and the jobs go together. *)

\* The last job of its repository.
NoLater(j) == \A i \in DOMAIN jobs : jobs[i].repo = jobs[j].repo => i <= j

\* A tick is of one time, after which nothing was queued; what it has still to queue is of
\* repositories that were last read long enough before.
TickInv ==
  /\ tick.at <= hour /\ (tick.pc = "asleep" => tick = Asleep)
  /\ tick.stamp # 0 => tick.stamp = Len(jobs) /\ jobs[tick.stamp].at = tick.at
  /\ tick.pc # "asleep" => \A j \in DOMAIN jobs : jobs[j].at <= tick.at
  /\ tick.pc = "starting" => tick.stamp # 0
  /\ \A d, e \in tick.due : d.repo = e.repo => d = e
  /\ \A d \in tick.due, j \in DOMAIN jobs :
       jobs[j].repo = d.repo /\ j \notin unstamped => tick.at - jobs[j].at >= d.pace

\* A repository is stamped with its last job, and so with nothing earlier than another.
StampInv ==
  /\ \A j \in DOMAIN jobs :
       j \notin unstamped /\ j # tick.stamp => jobs[j].at <= repos[jobs[j].repo].last
  /\ \A j \in DOMAIN jobs :
       NoLater(j) /\ j \notin unstamped /\ j # tick.stamp => repos[jobs[j].repo].last = jobs[j].at
  /\ \A j \in DOMAIN jobs : \E k \in DOMAIN jobs : jobs[k].repo = jobs[j].repo /\ NoLater(k)

PaceInv ==
  \A i, j \in DOMAIN jobs :
    i < j /\ jobs[i].repo = jobs[j].repo /\ i \notin unstamped =>
      jobs[j].at - jobs[i].at >= jobs[j].pace

\* A job that has a thread is not the one that is about to get one.
ThreadInv ==
  /\ running \cap Unstarted = {}
  /\ \A j \in DOMAIN jobs :
       j \in running \cup Unstarted <=> jobs[j].status \in {"pending", "running"} /\ j \notin orphaned

Inv == TypeInv /\ TickInv /\ StampInv /\ PaceInv /\ ThreadInv

LEMMA InitInv == IngestInit => Inv
<1> SUFFICES ASSUME IngestInit PROVE Inv
  OBVIOUS
<1>1. /\ repos = [r \in Repos |-> [interval |-> 0, last |-> Never]] /\ jobs = <<>>
      /\ DOMAIN jobs = {}
      /\ Len(jobs) = 0 /\ hour = 0 /\ running = {} /\ unstamped = {} /\ orphaned = {}
      /\ tick = Asleep
  BY DEF IngestInit
<1>2. [interval |-> 0, last |-> Never] \in RepoRow /\ [interval |-> 0, last |-> Never].last = Never
  BY DEF RepoRow
<1>3. Never <= 0
  BY DEF Never
<1>4. repos \in [Repos -> RepoRow] /\ \A r \in Repos : repos[r].last <= hour
  BY <1>1, <1>2, <1>3
<1>5. Asleep \in TickRow /\ Asleep.stamp = 0 /\ Asleep.at = 0 /\ Asleep.due = {} /\ Asleep.pc = "asleep"
  BY DEF Asleep, TickRow
<1>6. TypeInv
  BY <1>1, <1>4, <1>5 DEF TypeInv
<1>7. TickInv
  BY <1>1, <1>5 DEF TickInv
<1> QED BY <1>1, <1>6, <1>7 DEF Inv, StampInv, PaceInv, ThreadInv, Unstarted

\* A step that queues nothing leaves which job is of which repository, and when.
SameJobs ==
  /\ DOMAIN jobs' = DOMAIN jobs /\ Len(jobs') = Len(jobs)
  /\ \A j \in DOMAIN jobs :
       jobs'[j].repo = jobs[j].repo /\ jobs'[j].at = jobs[j].at /\ jobs'[j].pace = jobs[j].pace

LEMMA NoLaterStays ==
  ASSUME SameJobs, NEW j \in DOMAIN jobs
  PROVE  NoLater(j)' <=> NoLater(j)
BY DEF SameJobs, NoLater

-----------------------------------------------------------------------------
(* Steps. *)

LEMMA StepSchedule ==
  ASSUME Inv, NEW r \in Repos, NEW hours \in Intervals, SetIngestSchedule(r, hours)
  PROVE  Inv'
<1>1. /\ repos' = [repos EXCEPT ![r].interval = IF hours > 0 THEN hours ELSE 0]
      /\ UNCHANGED <<jobs, tick, running, hour, unstamped, orphaned>>
  BY DEF SetIngestSchedule
<1>2. (IF hours > 0 THEN hours ELSE 0) \in Nat
  BY Assumed
<1>3. repos \in [Repos -> RepoRow]
  BY DEF Inv, TypeInv
<1>4. \A row \in RepoRow, n \in Nat : /\ [row EXCEPT !.interval = n] \in RepoRow
                                       /\ [row EXCEPT !.interval = n].last = row.last
  BY DEF RepoRow
<1>5. repos' \in [Repos -> RepoRow] /\ \A q \in Repos : repos'[q].last = repos[q].last
  <2> DEFINE n == IF hours > 0 THEN hours ELSE 0
  <2>1. \A q \in Repos : repos'[q] = IF q = r THEN [repos[q] EXCEPT !.interval = n] ELSE repos[q]
    BY <1>1, <1>3
  <2>2. n \in Nat
    BY <1>2
  <2>3. repos' = [repos EXCEPT ![r] = [repos[r] EXCEPT !.interval = n]]
    BY <1>1
  <2> HIDE DEF n
  <2> QED BY <1>3, <1>4, <2>1, <2>2, <2>3
<1>6. TypeInv'
  BY <1>1, <1>5 DEF Inv, TypeInv
<1>7. \A j \in DOMAIN jobs : jobs[j].repo \in Repos
  BY JobAt DEF Inv
<1>8. StampInv'
  BY <1>1, <1>5, <1>7 DEF Inv, StampInv, NoLater
<1> QED BY <1>1, <1>6, <1>8 DEF Inv, TickInv, PaceInv, ThreadInv, Unstarted

LEMMA StepHour ==
  ASSUME Inv, HourPasses
  PROVE  Inv'
<1>1. hour' = hour + 1 /\ UNCHANGED <<repos, jobs, tick, running, unstamped, orphaned>>
  BY DEF HourPasses
<1>2. hour \in Nat
  BY DEF Inv, TypeInv
<1>3. TypeInv'
  <2>1. \A r \in Repos : repos[r].last \in Int /\ repos[r].last <= hour
    BY RepoAt DEF Inv, Never
  <2>2. \A j \in DOMAIN jobs : jobs[j].at \in Nat /\ jobs[j].at <= hour
    BY JobAt DEF Inv
  <2> QED BY <1>1, <1>2, <2>1, <2>2 DEF Inv, TypeInv
<1>4. TickInv'
  <2>1. tick.at \in Nat /\ tick.at <= hour
    BY TickAt DEF Inv, TickInv
  <2> QED BY <1>1, <1>2, <2>1 DEF Inv, TickInv
<1> QED BY <1>1, <1>3, <1>4 DEF Inv, StampInv, NoLater, PaceInv, ThreadInv, Unstarted

LEMMA StepReads ==
  ASSUME Inv, TickReads
  PROVE  Inv'
<1> DEFINE Read == {[repo |-> r, pace |-> repos[r].interval] : r \in {q \in Repos : Due(q)}}
<1>1. /\ tick = Asleep /\ tick' = [pc |-> "queueing", due |-> Read, at |-> hour, stamp |-> 0]
      /\ UNCHANGED <<repos, jobs, running, hour, unstamped, orphaned>>
  BY DEF TickReads
<1>2. tick.stamp = 0 /\ hour \in Nat
  BY <1>1 DEF Asleep, Inv, TypeInv
<1>3. \A d \in Read :
        d \in DueRow /\ d.repo \in Repos /\ Due(d.repo) /\ d.pace = repos[d.repo].interval
  <2> SUFFICES ASSUME NEW r \in Repos, Due(r)
               PROVE  /\ [repo |-> r, pace |-> repos[r].interval] \in DueRow
                      /\ [repo |-> r, pace |-> repos[r].interval].repo = r
                      /\ [repo |-> r, pace |-> repos[r].interval].pace = repos[r].interval
    OBVIOUS
  <2>1. repos[r].interval \in Nat
    BY RepoAt DEF Inv
  <2> QED BY <2>1 DEF DueRow
<1>4. \A d, e \in Read : d.repo = e.repo => d = e
  OBVIOUS
<1> HIDE DEF Read
<1>5. tick' \in TickRow /\ tick'.pc = "queueing" /\ tick'.due = Read /\ tick'.at = hour /\ tick'.stamp = 0
  BY <1>1, <1>2, <1>3 DEF TickRow
<1>6. TypeInv'
  <2>1. 0 <= Len(jobs)
    BY JobAt DEF Inv
  <2> QED BY <1>1, <1>5, <2>1 DEF Inv, TypeInv
<1>7. ASSUME NEW d \in Read, NEW j \in DOMAIN jobs, jobs[j].repo = d.repo, j \notin unstamped
      PROVE  hour - jobs[j].at >= d.pace
  <2>1. jobs[j].at <= repos[d.repo].last
    <3>1. j # tick.stamp
      BY <1>2, JobAt DEF Inv
    <3> QED BY <1>7, <3>1 DEF Inv, StampInv
  <2>2. jobs[j].at \in Nat /\ repos[d.repo].last \in Nat \cup {Never} /\ repos[d.repo].interval \in Nat
    BY <1>3, JobAt, RepoAt DEF Inv
  <2>3. repos[d.repo].last # Never
    BY <2>1, <2>2 DEF Never
  <2>4. hour - repos[d.repo].last >= repos[d.repo].interval
    BY <1>3, <2>3 DEF Due
  <2>5. d.pace = repos[d.repo].interval
    BY <1>3
  <2> QED BY <1>2, <2>1, <2>2, <2>3, <2>4, <2>5
<1>8. TickInv'
  <2>1. \A j \in DOMAIN jobs : jobs[j].at <= hour
    BY JobAt DEF Inv
  <2> QED BY <1>1, <1>2, <1>4, <1>5, <1>7, <2>1 DEF TickInv
<1>9. StampInv'
  <2>1. \A j \in DOMAIN jobs : j # 0
    BY JobAt DEF Inv
  <2> QED BY <1>1, <1>2, <1>5, <2>1 DEF Inv, StampInv, NoLater
<1>10. Unstarted' = {} /\ Unstarted = {}
  BY <1>1, <1>5 DEF Unstarted, Asleep
<1> QED BY <1>1, <1>6, <1>8, <1>9, <1>10 DEF Inv, PaceInv, ThreadInv

\* The stamp that is due keeps what the stamps say, of the jobs there were.
LEMMA StampKeeps ==
  ASSUME Inv
  PROVE  /\ \A r \in Repos : Stamped[r].last <= hour
         /\ \A j \in DOMAIN jobs : j \notin unstamped => jobs[j].at <= Stamped[jobs[j].repo].last
         /\ \A j \in DOMAIN jobs :
              NoLater(j) /\ j \notin unstamped => Stamped[jobs[j].repo].last = jobs[j].at
<1>1. \A r \in Repos :
        Stamped[r].last = IF tick.stamp # 0 /\ r = jobs[tick.stamp].repo THEN tick.at ELSE repos[r].last
  BY StampedRepos DEF Inv
<1>2. /\ tick.at \in Nat /\ tick.at <= hour /\ hour \in Nat /\ tick.stamp \in Nat
      /\ tick.stamp # 0 => tick.stamp = Len(jobs) /\ jobs[tick.stamp].at = tick.at
  BY TickAt DEF Inv, TickInv, TypeInv
<1>3. \A r \in Repos : repos[r].last <= hour
  BY RepoAt DEF Inv
<1>4. Len(jobs) \in Nat /\ DOMAIN jobs = 1..Len(jobs) /\ \A j \in DOMAIN jobs :
                                                           jobs[j].repo \in Repos /\ jobs[j].at \in Nat
  BY JobAt DEF Inv
<1>5. tick.stamp # 0 => \A j \in DOMAIN jobs : jobs[j].at <= tick.at
  <2>1. tick.pc = "asleep" => tick.stamp = 0
    BY DEF Inv, TickInv, Asleep
  <2> QED BY <2>1, TickAt DEF Inv, TickInv
<1>6. ASSUME NEW j \in DOMAIN jobs, j \notin unstamped
      PROVE  jobs[j].at <= Stamped[jobs[j].repo].last
  <2>1. CASE tick.stamp # 0 /\ jobs[j].repo = jobs[tick.stamp].repo
    <3>1. Stamped[jobs[j].repo].last = tick.at
      BY <1>1, <1>4, <2>1
    <3> QED BY <1>5, <2>1, <3>1
  <2>2. CASE ~(tick.stamp # 0 /\ jobs[j].repo = jobs[tick.stamp].repo)
    <3>1. Stamped[jobs[j].repo].last = repos[jobs[j].repo].last
      BY <1>1, <1>4, <2>2
    <3>2. j # tick.stamp
      BY <1>4, <2>2
    <3> QED BY <1>6, <3>1, <3>2 DEF Inv, StampInv
  <2> QED BY <2>1, <2>2
<1>7. ASSUME NEW j \in DOMAIN jobs, NoLater(j), j \notin unstamped
      PROVE  Stamped[jobs[j].repo].last = jobs[j].at
  <2>1. CASE tick.stamp # 0 /\ jobs[j].repo = jobs[tick.stamp].repo
    <3>1. Stamped[jobs[j].repo].last = tick.at
      BY <1>1, <1>4, <2>1
    <3>2. tick.stamp \in DOMAIN jobs /\ tick.stamp = Len(jobs)
      BY <1>2, <1>4, <2>1
    <3>3. j = tick.stamp
      BY <1>4, <1>7, <2>1, <3>2 DEF NoLater
    <3> QED BY <1>2, <2>1, <3>1, <3>3
  <2>2. CASE ~(tick.stamp # 0 /\ jobs[j].repo = jobs[tick.stamp].repo)
    <3>1. Stamped[jobs[j].repo].last = repos[jobs[j].repo].last
      BY <1>1, <1>4, <2>2
    <3>2. j # tick.stamp
      BY <1>4, <2>2
    <3> QED BY <1>7, <3>1, <3>2 DEF Inv, StampInv
  <2> QED BY <2>1, <2>2
<1>8. \A r \in Repos : Stamped[r].last <= hour
  BY <1>1, <1>2, <1>3
<1> QED BY <1>6, <1>7, <1>8

LEMMA StepEnds ==
  ASSUME Inv, TickEnds
  PROVE  Inv'
<1>1. repos' = Stamped /\ tick' = Asleep /\ UNCHANGED <<jobs, running, hour, unstamped, orphaned>>
  BY DEF TickEnds
<1>2. Asleep \in TickRow /\ Asleep.stamp = 0 /\ Asleep.at = 0 /\ Asleep.due = {} /\ Asleep.pc = "asleep"
  BY DEF Asleep, TickRow
<1>3. TypeInv'
  <2>1. repos' \in [Repos -> RepoRow] /\ \A r \in Repos : repos'[r].last <= hour
    BY <1>1, StampedRepos, StampKeeps DEF Inv
  <2>2. 0 <= Len(jobs)
    BY JobAt DEF Inv
  <2> QED BY <1>1, <1>2, <2>1, <2>2 DEF Inv, TypeInv
<1>4. TickInv'
  <2>1. 0 <= hour
    BY DEF Inv, TypeInv
  <2> QED BY <1>1, <1>2, <2>1 DEF TickInv
<1>5. StampInv'
  BY <1>1, StampKeeps DEF Inv, StampInv, NoLater
<1>6. Unstarted' = {} /\ Unstarted = {}
  BY <1>1, <1>2 DEF TickEnds, Unstarted
<1> QED BY <1>1, <1>3, <1>4, <1>5, <1>6 DEF Inv, PaceInv, ThreadInv

LEMMA StepEnqueue ==
  ASSUME Inv, Enqueue
  PROVE  Inv'
<1>0. PICK n : n = Len(jobs) + 1
  OBVIOUS
<1>1. /\ First \in tick.due /\ tick.pc = "queueing"
      /\ Len(jobs') = n /\ jobs' \in Seq(JobRow) /\ DOMAIN jobs' = DOMAIN jobs \cup {n}
      /\ n \notin DOMAIN jobs
      /\ \A j \in DOMAIN jobs : jobs'[j] = jobs[j] /\ j < n
      /\ jobs'[n].repo = First.repo /\ jobs'[n].at = tick.at
      /\ jobs'[n].pace = First.pace /\ jobs'[n].status = "pending"
      /\ tick' = [tick EXCEPT !.pc = "starting", !.due = tick.due \ {First}, !.stamp = n]
      /\ repos' = Stamped /\ UNCHANGED <<running, hour, unstamped, orphaned>>
  BY <1>0, EnqueueLeaves DEF Inv
<1>2. n \in Nat /\ n # 0
  BY <1>0, JobAt DEF Inv
<1>a. \A j \in DOMAIN jobs : jobs[j].repo \in Repos /\ jobs[j].at \in Nat /\ j \in Nat
  BY JobAt DEF Inv
<1>3. /\ tick' \in TickRow /\ tick'.pc = "starting" /\ tick'.due = tick.due \ {First}
      /\ tick'.at = tick.at
      /\ tick'.stamp = n
  <2>1. tick \in TickRow
    BY DEF Inv, TypeInv
  <2> QED BY <1>1, <1>2, <2>1 DEF TickRow
<1>4. tick.at \in Nat /\ tick.at <= hour /\ hour \in Nat
  BY TickAt DEF Inv, TickInv, TypeInv
<1>5. TypeInv'
  <2>1. repos' \in [Repos -> RepoRow] /\ \A r \in Repos : repos'[r].last <= hour
    BY <1>1, StampedRepos, StampKeeps DEF Inv
  <2>2. \A j \in DOMAIN jobs' : jobs'[j].at <= hour
    BY <1>1, <1>4, JobAt DEF Inv
  <2>3. running' \subseteq DOMAIN jobs' /\ unstamped' \subseteq DOMAIN jobs' /\ orphaned' \subseteq DOMAIN jobs'
    BY <1>1 DEF Inv, TypeInv
  <2>4. n <= Len(jobs')
    BY <1>1, <1>2
  <2>5. hour' \in Nat
    BY <1>1, <1>4
  <2> QED BY <1>1, <1>3, <2>1, <2>2, <2>3, <2>4, <2>5 DEF TypeInv
<1>6. TickInv'
  <2>1. \A j \in DOMAIN jobs' : jobs'[j].at <= tick.at
    BY <1>1, <1>4 DEF Inv, TickInv
  <2>2. \A d, e \in tick'.due : d.repo = e.repo => d = e
    BY <1>3 DEF Inv, TickInv
  <2>3. \A d \in tick'.due, j \in DOMAIN jobs' :
          jobs'[j].repo = d.repo /\ j \notin unstamped' => tick'.at - jobs'[j].at >= d.pace
    <3> SUFFICES ASSUME NEW d \in tick'.due, NEW j \in DOMAIN jobs', jobs'[j].repo = d.repo,
                        j \notin unstamped
                 PROVE  tick.at - jobs'[j].at >= d.pace
      BY <1>1, <1>3
    <3>1. d \in tick.due /\ d # First
      BY <1>3
    <3>2. j # n
      BY <1>1, <3>1 DEF Inv, TickInv
    <3> QED BY <1>1, <3>1, <3>2 DEF Inv, TickInv
  <2>4. tick'.at <= hour' /\ tick'.pc = "starting"
    BY <1>1, <1>3, <1>4
  <2>5. tick'.stamp = Len(jobs') /\ tick'.stamp # 0 /\ jobs'[tick'.stamp].at = tick'.at
    BY <1>1, <1>2, <1>3
  <2>6. \A j \in DOMAIN jobs' : jobs'[j].at <= tick'.at
    BY <1>3, <2>1
  <2> QED BY <2>2, <2>3, <2>4, <2>5, <2>6 DEF TickInv
<1>7. StampInv'
  <2>1. \A j \in DOMAIN jobs : NoLater(j)' => NoLater(j)
    BY <1>1 DEF NoLater
  <2>2. NoLater(n)'
    <3>1. \A i \in DOMAIN jobs' : i <= n
      BY <1>1, <1>2, <1>a
    <3> QED BY <3>1 DEF NoLater
  <2>3. ASSUME NEW j \in DOMAIN jobs'
        PROVE  \E k \in DOMAIN jobs' : jobs'[k].repo = jobs'[j].repo /\ NoLater(k)'
    <3>1. CASE jobs'[j].repo = First.repo
      BY <1>1, <2>2, <3>1
    <3>2. CASE jobs'[j].repo # First.repo
      <4>1. j \in DOMAIN jobs /\ jobs'[j] = jobs[j]
        BY <1>1, <3>2
      <4>2. PICK k \in DOMAIN jobs : jobs[k].repo = jobs[j].repo /\ NoLater(k)
        BY <4>1 DEF Inv, StampInv
      <4>3. jobs'[k] = jobs[k] /\ k \in DOMAIN jobs'
        BY <1>1
      <4>4. NoLater(k)'
        <5> SUFFICES ASSUME NEW i \in DOMAIN jobs', jobs'[i].repo = jobs'[k].repo PROVE i <= k
          BY DEF NoLater
        <5>1. i \in DOMAIN jobs /\ jobs'[i] = jobs[i]
          BY <1>1, <3>2, <4>1, <4>2, <4>3
        <5> QED BY <4>2, <4>3, <5>1 DEF NoLater
      <4> QED BY <4>1, <4>2, <4>3, <4>4
    <3> QED BY <3>1, <3>2
  <2>4. \A j \in DOMAIN jobs' : j # n => j \in DOMAIN jobs /\ jobs'[j] = jobs[j]
    BY <1>1
  <2>5. \A j \in DOMAIN jobs' :
          j \notin unstamped' /\ j # tick'.stamp => jobs'[j].at <= repos'[jobs'[j].repo].last
    BY <1>1, <1>3, <2>4, StampKeeps
  <2>6. \A j \in DOMAIN jobs' :
          NoLater(j)' /\ j \notin unstamped' /\ j # tick'.stamp =>
            repos'[jobs'[j].repo].last = jobs'[j].at
    BY <1>1, <1>3, <2>1, <2>4, StampKeeps
  <2> QED BY <2>3, <2>5, <2>6 DEF StampInv
<1>8. PaceInv'
  <2> SUFFICES ASSUME NEW i \in DOMAIN jobs', NEW j \in DOMAIN jobs', i < j,
                      jobs'[i].repo = jobs'[j].repo,
                      i \notin unstamped
               PROVE  jobs'[j].at - jobs'[i].at >= jobs'[j].pace
    BY <1>1 DEF PaceInv
  <2>1. i \in DOMAIN jobs /\ jobs'[i] = jobs[i]
    BY <1>1, <1>2, <1>a
  <2>2. CASE j = n
    <3>1. jobs[i].repo = First.repo
      BY <1>1, <2>1, <2>2
    <3>2. tick.at - jobs[i].at >= First.pace
      BY <1>1, <2>1, <3>1 DEF Inv, TickInv
    <3> QED BY <1>1, <2>1, <2>2, <3>2
  <2>3. CASE j # n
    <3>1. j \in DOMAIN jobs /\ jobs'[j] = jobs[j]
      BY <1>1, <2>3
    <3> QED BY <2>1, <3>1 DEF Inv, PaceInv
  <2> QED BY <2>2, <2>3
<1>9. ThreadInv'
  <2>1. n \notin orphaned /\ n \notin running
    BY <1>1 DEF Inv, TypeInv
  <2>2. Unstarted = {} /\ Unstarted' = {n}
    BY <1>1, <1>3 DEF Unstarted
  <2> QED BY <1>1, <2>1, <2>2 DEF Inv, ThreadInv
<1> QED BY <1>5, <1>6, <1>7, <1>8, <1>9 DEF Inv

\* A job that starts or ends keeps all but its status and its result.
LEMMA OneJob ==
  ASSUME Inv, NEW i \in DOMAIN jobs, NEW row \in JobRow, jobs' = [jobs EXCEPT ![i] = row],
         row.repo = jobs[i].repo, row.at = jobs[i].at, row.pace = jobs[i].pace
  PROVE  SameJobs /\ jobs' \in Seq(JobRow) /\ \A j \in DOMAIN jobs :
                                                jobs'[j] = IF j = i THEN row ELSE jobs[j]
<1>1. jobs \in Seq(JobRow)
  BY DEF Inv, TypeInv
<1> QED BY <1>1 DEF SameJobs

LEMMA StepStarts ==
  ASSUME Inv, NEW j \in DOMAIN jobs, JobStarts(j)
  PROVE  Inv'
<1> DEFINE row == [jobs[j] EXCEPT !.status = "running"]
<1>1. /\ j \in running /\ jobs' = [jobs EXCEPT ![j] = row]
      /\ UNCHANGED <<repos, tick, running, hour, unstamped, orphaned>>
  BY DEF JobStarts
<1>2. /\ row \in JobRow /\ row.repo = jobs[j].repo /\ row.at = jobs[j].at /\ row.pace = jobs[j].pace
      /\ row.status = "running"
  <2>1. jobs[j] \in JobRow
    BY JobAt DEF Inv
  <2> QED BY <2>1 DEF JobRow
<1> HIDE DEF row
<1>3. SameJobs /\ jobs' \in Seq(JobRow) /\ \A i \in DOMAIN jobs :
                                             jobs'[i] = IF i = j THEN row ELSE jobs[i]
  BY <1>1, <1>2, OneJob
<1>4. TypeInv'
  BY <1>1, <1>3 DEF Inv, TypeInv, SameJobs
<1>5. TickInv'
  <2>1. tick.stamp # 0 => tick.stamp \in DOMAIN jobs
    BY JobAt, TickAt DEF Inv
  <2> QED BY <1>1, <1>3, <2>1 DEF Inv, TickInv, SameJobs
<1>6. StampInv'
  <2>1. /\ DOMAIN jobs' = DOMAIN jobs
        /\ \A i \in DOMAIN jobs :
             jobs'[i].repo = jobs[i].repo /\ jobs'[i].at = jobs[i].at /\ (NoLater(i)' <=> NoLater(i))
    BY <1>3, NoLaterStays DEF SameJobs
  <2>2. repos' = repos /\ tick' = tick /\ unstamped' = unstamped
    BY <1>1
  <2> QED BY <2>1, <2>2 DEF Inv, StampInv
<1>7. PaceInv'
  BY <1>1, <1>3 DEF Inv, PaceInv, SameJobs
<1>8. ThreadInv'
  BY <1>1, <1>2, <1>3 DEF Inv, ThreadInv, SameJobs, Unstarted
<1> QED BY <1>4, <1>5, <1>6, <1>7, <1>8 DEF Inv

LEMMA StepJobEnds ==
  ASSUME Inv, NEW j \in DOMAIN jobs, NEW status \in {"done", "failed"}, NEW answers \in BOOLEAN,
         JobEnds(j, status, answers)
  PROVE  Inv'
<1> DEFINE result == IF status = "done" THEN Charter(jobs[j].repo, answers) ELSE ""
           row == [jobs[j] EXCEPT !.status = status, !.result = result]
<1>1. /\ jobs' = [jobs EXCEPT ![j] = row] /\ running' = running \ {j}
      /\ UNCHANGED <<repos, tick, hour, unstamped, orphaned>>
  BY DEF JobEnds
<1>2. result \in {"", "surfaces", "nothing"}
  BY DEF Charter
<1> HIDE DEF result
<1>3. /\ row \in JobRow /\ row.repo = jobs[j].repo /\ row.at = jobs[j].at /\ row.pace = jobs[j].pace
      /\ row.status = status
  <2>1. jobs[j] \in JobRow
    BY JobAt DEF Inv
  <2> QED BY <1>2, <2>1 DEF JobRow
<1> HIDE DEF row
<1>4. SameJobs /\ jobs' \in Seq(JobRow) /\ \A i \in DOMAIN jobs :
                                             jobs'[i] = IF i = j THEN row ELSE jobs[i]
  BY <1>1, <1>3, OneJob
<1>5. TypeInv'
  BY <1>1, <1>4 DEF Inv, TypeInv, SameJobs
<1>6. TickInv'
  <2>1. tick.stamp # 0 => tick.stamp \in DOMAIN jobs
    BY JobAt, TickAt DEF Inv
  <2> QED BY <1>1, <1>4, <2>1 DEF Inv, TickInv, SameJobs
<1>7. StampInv'
  <2> USE DEF SameJobs
  <2>1. \A i \in DOMAIN jobs : NoLater(i)' <=> NoLater(i)
    BY <1>4, NoLaterStays
  <2>2. \A i \in DOMAIN jobs' : i \notin unstamped' /\ i # tick'.stamp =>
          jobs'[i].at <= repos'[jobs'[i].repo].last
    BY <1>1, <1>4 DEF Inv, StampInv
  <2>3. \A i \in DOMAIN jobs' : NoLater(i)' /\ i \notin unstamped' /\ i # tick'.stamp =>
          repos'[jobs'[i].repo].last = jobs'[i].at
    BY <1>1, <1>4, <2>1 DEF Inv, StampInv
  <2>4. \A i \in DOMAIN jobs' : \E k \in DOMAIN jobs' : jobs'[k].repo = jobs'[i].repo /\ NoLater(k)'
    BY <1>1, <1>4, <2>1 DEF Inv, StampInv
  <2> QED BY <2>2, <2>3, <2>4 DEF StampInv
<1>8. PaceInv'
  BY <1>1, <1>4 DEF Inv, PaceInv, SameJobs
<1>9. ThreadInv'
  <2>1. j \in running
    BY DEF JobEnds
  <2>2. j \notin Unstarted /\ Unstarted' = Unstarted
    BY <1>1, <2>1 DEF Inv, ThreadInv, Unstarted
  <2> QED BY <1>1, <1>3, <1>4, <2>2 DEF Inv, ThreadInv, SameJobs
<1> QED BY <1>5, <1>6, <1>7, <1>8, <1>9 DEF Inv

\* The tick is lost, and with it some of the threads.
LEMMA TickIsLost ==
  ASSUME Inv, NEW lost \in SUBSET running,
         unstamped' = unstamped \cup LostStamp, orphaned' = orphaned \cup Unstarted \cup lost,
         running' = running \ lost, tick' = Asleep, UNCHANGED <<repos, jobs, hour>>
  PROVE  Inv'
<1>1. /\ Asleep \in TickRow /\ Asleep.stamp = 0 /\ Asleep.at = 0 /\ Asleep.due = {}
      /\ Asleep.pc = "asleep"
  BY DEF Asleep, TickRow
<1>2. /\ tick.stamp # 0 => tick.stamp \in DOMAIN jobs
      /\ tick.pc = "starting" => tick.stamp # 0
  BY JobAt, TickAt DEF Inv, TickInv
<1>3. LostStamp \subseteq DOMAIN jobs /\ Unstarted \subseteq DOMAIN jobs
  BY <1>2 DEF LostStamp, Unstarted
<1>4. TypeInv'
  <2>1. 0 <= Len(jobs)
    BY JobAt DEF Inv
  <2> QED BY <1>1, <1>3, <2>1 DEF Inv, TypeInv
<1>5. TickInv'
  <2>1. 0 <= hour
    BY DEF Inv, TypeInv
  <2> QED BY <1>1, <2>1 DEF TickInv
<1>6. \A j \in DOMAIN jobs : j \notin unstamped' => j \notin unstamped /\ j # tick.stamp
  <2>1. \A j \in DOMAIN jobs : j # 0
    BY JobAt DEF Inv
  <2> QED BY <2>1 DEF LostStamp
<1>7. StampInv'
  BY <1>6 DEF Inv, StampInv, NoLater
<1>8. PaceInv'
  BY <1>6 DEF Inv, PaceInv
<1>9. ThreadInv'
  <2>1. Unstarted' = {}
    BY <1>1 DEF Unstarted
  <2> QED BY <2>1 DEF Inv, ThreadInv
<1> QED BY <1>4, <1>5, <1>7, <1>8, <1>9 DEF Inv

LEMMA StepRestart ==
  ASSUME Inv, Restart
  PROVE  Inv'
BY TickIsLost DEF Restart

LEMMA StepTickFails ==
  ASSUME Inv, TickFails
  PROVE  Inv'
<1>1. orphaned' = orphaned \cup Unstarted \cup {} /\ running' = running \ {}
  BY DEF TickFails
<1> QED BY <1>1, TickIsLost DEF TickFails

LEMMA StepThread ==
  ASSUME Inv, StartsThread
  PROVE  Inv'
<1>1. /\ tick.pc = "starting" /\ running' = running \cup {tick.stamp}
      /\ tick' = [tick EXCEPT !.pc = "queueing"]
      /\ UNCHANGED <<repos, jobs, hour, unstamped, orphaned>>
  BY DEF StartsThread
<1>2. /\ tick \in TickRow /\ tick.stamp \in DOMAIN jobs
  BY <1>1, JobAt, TickAt DEF Inv, TickInv, TypeInv
<1>3. /\ tick' \in TickRow /\ tick'.pc = "queueing" /\ tick'.due = tick.due /\ tick'.at = tick.at
      /\ tick'.stamp = tick.stamp
  BY <1>1, <1>2 DEF TickRow
<1>4. TypeInv'
  BY <1>1, <1>2, <1>3 DEF Inv, TypeInv
<1>5. TickInv'
  BY <1>1, <1>3 DEF Inv, TickInv
<1>6. StampInv' /\ PaceInv'
  BY <1>1, <1>3 DEF Inv, StampInv, NoLater, PaceInv
<1>7. ThreadInv'
  <2>1. Unstarted = {tick.stamp} /\ Unstarted' = {}
    BY <1>1, <1>3 DEF Unstarted
  <2> QED BY <1>1, <2>1 DEF Inv, ThreadInv
<1> QED BY <1>4, <1>5, <1>6, <1>7 DEF Inv

LEMMA StepThreadDies ==
  ASSUME Inv, NEW j \in DOMAIN jobs, ThreadDies(j)
  PROVE  Inv'
<1>1. /\ j \in running /\ orphaned' = orphaned \cup {j} /\ running' = running \ {j}
      /\ UNCHANGED <<repos, jobs, tick, hour, unstamped>>
  BY DEF ThreadDies
<1>2. TypeInv' /\ TickInv' /\ StampInv' /\ PaceInv'
  BY <1>1 DEF Inv, TypeInv, TickInv, StampInv, NoLater, PaceInv
<1>3. ThreadInv'
  BY <1>1 DEF Inv, ThreadInv, Unstarted
<1> QED BY <1>2, <1>3 DEF Inv

LEMMA AlwaysInv == IngestSpec => []Inv
<1>1. Inv /\ [IngestNext]_ingestVars => Inv'
  <2> SUFFICES ASSUME Inv, [IngestNext]_ingestVars PROVE Inv'
    OBVIOUS
  <2>1. CASE IngestNext
    BY <2>1, StepSchedule, StepReads, StepEnqueue, StepEnds, StepStarts, StepJobEnds, StepHour,
       StepRestart, StepTickFails, StepThread, StepThreadDies
       DEF IngestNext
  <2>2. CASE UNCHANGED ingestVars
    BY <2>2 DEF ingestVars, Inv, TypeInv, TickInv, StampInv, NoLater, PaceInv, ThreadInv, Unstarted
  <2> QED BY <2>1, <2>2
<1> QED BY <1>1, InitInv, PTL DEF IngestSpec

-----------------------------------------------------------------------------
(* What holds. *)

\* Repositories, jobs and the tick have their types, and nothing is of a time to come.
THEOREM IngestIsTyped == IngestSpec => []IngestTypeOK
<1>1. Inv => IngestTypeOK
  <2> SUFFICES ASSUME Inv PROVE IngestTypeOK
    OBVIOUS
  <2>1. tick.stamp \in 0..Len(jobs) /\ tick.pc \in {"asleep", "queueing", "starting"}
    BY TickAt, JobAt DEF Inv
  <2> QED BY <2>1 DEF Inv, TypeInv, IngestTypeOK
<1> QED BY <1>1, AlwaysInv, PTL

(***************************************************************************)
(* The cadence is kept from one job of a repository to the next: a tick    *)
(* finds due only what was stamped long enough ago, and a repository's     *)
(* stamp is the time of its last job - however often ticks, changes of     *)
(* cadence, restarts and failures come between.  A tick that is lost, by a *)
(* crash or in silence, loses the one stamp it holds, and the job it has   *)
(* not started; a thread that dies leaves one job, and no stamp.           *)
(***************************************************************************)
THEOREM TheCadenceIsKept == IngestSpec => []IngestsKeepTheirPace
<1>1. Inv => IngestsKeepTheirPace
  <2> SUFFICES ASSUME Inv PROVE IngestsKeepTheirPace
    OBVIOUS
  <2>1. ASSUME NEW r \in Repos, {j \in DOMAIN jobs : jobs[j].repo = r} # {},
               Max({j \in DOMAIN jobs : jobs[j].repo = r}) # tick.stamp,
               Max({j \in DOMAIN jobs : jobs[j].repo = r}) \notin unstamped
        PROVE  repos[r].last = jobs[Max({j \in DOMAIN jobs : jobs[j].repo = r})].at
    <3> DEFINE mine == {j \in DOMAIN jobs : jobs[j].repo = r}
               m == Max(mine)
    <3>1. PICK k \in mine : NoLater(k)
      BY <2>1 DEF Inv, StampInv
    <3>2. \A i \in mine : k >= i
      BY <3>1, JobAt DEF NoLater, Inv
    <3>3. m \in mine /\ \A i \in mine : m >= i
      BY <3>1, <3>2 DEF Max
    <3>4. NoLater(m)
      BY <3>3, JobAt DEF NoLater, Inv
    <3> QED BY <2>1, <3>3, <3>4 DEF Inv, StampInv
  <2> QED BY <2>1 DEF Inv, PaceInv, ThreadInv, IngestsKeepTheirPace
<1> QED BY <1>1, AlwaysInv, PTL

-----------------------------------------------------------------------------
(* Sessions that take tickets in, with n items filed so far. *)

Taken(n) ==
  [pc : {"syncing", "filing", "filed", "told"}, how : {"receiving", "syncing"}, from : Integrations,
   ticket : Tickets \cup {""}, place : Places, auto : BOOLEAN, todo : SUBSET Tickets,
   seen : 0..n, item : 0..n]
DeskRow(n) == {NoOne} \cup Taken(n)

\* One that has yet to look.
Asking(n) ==
  [pc : {"receiving", "syncing"}, how : {"receiving", "syncing"}, from : Integrations,
   ticket : Tickets \cup {""}, place : Places \cup {""}, auto : BOOLEAN, todo : SUBSET Tickets,
   seen : 0..n, item : 0..n]

IntakeInv ==
  /\ IntakeTypeOK
  /\ desk \in [Desks -> DeskRow(Len(items))]
  /\ \A s \in Desks : /\ desk[s].pc # "idle" => desk[s].todo \subseteq TicketsOf[desk[s].from]
                      /\ desk[s].pc = "filing" => desk[s].ticket \in TicketsOf[desk[s].from]

LEMMA IntakeConstants ==
  /\ \A i \in Integrations : /\ TicketsOf[i] \subseteq Tickets
                             /\ Configured[i] \in IntegrationRow
                             /\ Configured[i].autostart => Configured[i].secret
  /\ DOMAIN Configured = Integrations
<1>1. /\ TicketsOf \in [Integrations -> SUBSET Tickets]
      /\ Configured \in [Integrations -> IntegrationRow]
      /\ \A i \in Integrations : Configured[i].autostart => Configured[i].secret
  BY Zenon, IntakeAssumption
<1> QED BY <1>1

LEMMA NoOneIs == NoOne.pc = "idle"
BY DEF NoOne

\* What is at hand.
LEMMA AtHand ==
  ASSUME IntakeInv
  PROVE  /\ items \in Seq(ItemRow) /\ Len(items) \in Nat /\ DOMAIN items = 1..Len(items)
         /\ desk \in [Desks -> DeskRow(Len(items))]
         /\ recorded \subseteq DOMAIN items /\ dropped \subseteq DOMAIN items
         /\ turnedAway \subseteq Tickets /\ DOMAIN integrations \subseteq Integrations
         /\ \A i \in DOMAIN integrations :
              integrations[i] \in IntegrationRow /\ (integrations[i].autostart => integrations[i].secret)
         /\ \A n \in DOMAIN items : items[n] \in ItemRow
BY DEF IntakeInv, IntakeTypeOK

LEMMA RowsAtHand ==
  ASSUME NEW n \in Nat, NEW w \in DeskRow(n)
  PROVE  /\ w.pc # "idle" => w \in Taken(n)
         /\ w.pc = "idle" => w = NoOne
         /\ w.pc \in {"idle", "syncing", "filing", "filed", "told"}
<1>1. CASE w = NoOne
  BY <1>1 DEF NoOne
<1>2. CASE w \in Taken(n)
  BY <1>2 DEF Taken
<1> QED BY <1>1, <1>2 DEF DeskRow

LEMMA TakenIs ==
  ASSUME NEW n \in Nat, NEW w \in Taken(n)
  PROVE  /\ w.from \in Integrations /\ w.place \in Places /\ w.auto \in BOOLEAN
         /\ w.todo \subseteq Tickets /\ w.seen \in 0..n /\ w.item \in 0..n /\ w \in DeskRow(n)
         /\ w.ticket \in Tickets \cup {""} /\ w.how \in {"receiving", "syncing"}
BY DEF Taken, DeskRow

LEMMA AskingIs ==
  ASSUME NEW n \in Nat, NEW w \in Asking(n)
  PROVE  /\ w.from \in Integrations /\ w.auto \in BOOLEAN /\ w.todo \in SUBSET Tickets
         /\ w.item \in 0..n /\ w.how \in {"receiving", "syncing"}
BY DEF Asking

LEMMA MoreItems ==
  ASSUME NEW n \in Nat, NEW w \in DeskRow(n)
  PROVE  w \in DeskRow(n + 1)
<1>1. 0..n \subseteq 0..(n + 1)
  OBVIOUS
<1> QED BY <1>1 DEF DeskRow, Taken

\* A session goes on, with the items as they are.
LEMMA DeskGoesOn ==
  ASSUME IntakeInv, NEW s \in Desks, NEW c, desk' = [desk EXCEPT ![s] = c]
  PROVE  desk'[s] = c /\ \A t \in Desks : t # s => desk'[t] = desk[t]
BY AtHand

LEMMA DeskKeepsTypes ==
  ASSUME IntakeInv, NEW s \in Desks, NEW c \in DeskRow(Len(items)),
         desk' = [desk EXCEPT ![s] = c],
         c.pc # "idle" => c.todo \subseteq TicketsOf[c.from],
         c.pc = "filing" => c.ticket \in TicketsOf[c.from],
         integrations' = integrations, items' \in Seq(ItemRow), Len(items') = Len(items),
         recorded' \subseteq DOMAIN items, dropped' \subseteq DOMAIN items, turnedAway' \subseteq Tickets
  PROVE  IntakeInv'
<1>1. desk'[s] = c /\ \A t \in Desks : t # s => desk'[t] = desk[t]
  BY DeskGoesOn
<1>2. desk' \in [Desks -> DeskRow(Len(items'))]
  BY AtHand
<1>3. DOMAIN items' = DOMAIN items
  BY AtHand
<1>4. IntakeTypeOK'
  BY <1>3, AtHand DEF IntakeTypeOK
<1> QED BY <1>1, <1>2, <1>4 DEF IntakeInv

LEMMA InitIntake == IntakeInit => IntakeInv
<1> SUFFICES ASSUME IntakeInit PROVE IntakeInv
  OBVIOUS
<1>1. /\ integrations = Configured /\ items = <<>> /\ desk = [s \in Desks |-> NoOne]
      /\ recorded = {} /\ dropped = {} /\ turnedAway = {}
  BY DEF IntakeInit
<1>2. items \in Seq(ItemRow)
  BY <1>1
<1>3. desk \in [Desks -> DeskRow(Len(items))] /\ \A s \in Desks : desk[s].pc = "idle"
  BY <1>1 DEF DeskRow, NoOne
<1> QED BY <1>1, <1>2, <1>3, IntakeConstants DEF IntakeInv, IntakeTypeOK

-----------------------------------------------------------------------------
(* Tickets are taken in once. *)

HalfTaken(s) == desk[s].pc \in {"filed", "told"}

\* Tickets that have been taken in, or that nothing tells from one that has.
Recognised == {t \in Tickets : \E i \in Integrations : t \in TicketsOf[i] /\ Found(Ref(i, t))}

(***************************************************************************)
(* TakenInOnce, and what makes it last: who is about to file found nothing *)
(* among the items there were when it looked; an item that is half taken   *)
(* in is one session's, has no run yet, and once it is told it is on the   *)
(* trail.                                                                  *)
(***************************************************************************)
OneOfARef ==
  \A m, n \in DOMAIN items : items[m].ref = items[n].ref => m = n \/ items[n].ref \in raced
NothingSeen ==
  \A s \in Desks : desk[s].pc = "filing" =>
    \A n \in 1..desk[s].seen : items[n].ref # Ref(desk[s].from, desk[s].ticket)
HalvesAreOnes ==
  /\ \A s \in Desks : HalfTaken(s) => desk[s].item \in DOMAIN items /\ items[desk[s].item].runs = 0
  /\ \A s \in Desks : desk[s].pc = "told" => desk[s].item \in recorded
  /\ \A s, t \in Desks : HalfTaken(s) /\ HalfTaken(t) /\ desk[s].item = desk[t].item => s = t
RunsOnce == \A n \in DOMAIN items : items[n].runs <= 1 /\ (items[n].runs = 1 => n \in recorded)
AllTold ==
  \A n \in DOMAIN items :
    n \in recorded \cup dropped \/ \E s \in Desks : desk[s].pc = "filed" /\ desk[s].item = n

TakenInv ==
  OneOfARef /\ NothingSeen /\ HalvesAreOnes /\ RunsOnce /\ AllTold /\ turnedAway \subseteq Recognised

\* What a session may come to hold by looking.
Sits(c) ==
  /\ c \in DeskRow(Len(items)) /\ c.pc \in {"idle", "syncing", "filing"}
  /\ c.pc # "idle" => c.todo \subseteq TicketsOf[c.from]
  /\ c.pc = "filing" => /\ c.ticket \in TicketsOf[c.from]
                        /\ \A n \in 1..c.seen : items[n].ref # Ref(c.from, c.ticket)

LEMMA SitsKeeps ==
  ASSUME IntakeInv, TakenInv, NEW s \in Desks, NEW c, desk' = [desk EXCEPT ![s] = c], Sits(c),
         ~HalfTaken(s), turnedAway' \subseteq Recognised,
         UNCHANGED <<integrations, items, recorded, raced, dropped>>
  PROVE  IntakeInv' /\ TakenInv'
<1>1. desk'[s] = c /\ \A t \in Desks : t # s => desk'[t] = desk[t]
  BY DeskGoesOn
<1>2. Recognised \subseteq Tickets /\ Recognised' = Recognised
  BY DEF Recognised, Found
<1>3. IntakeInv'
  BY <1>2, AtHand, DeskKeepsTypes DEF Sits
<1>4. \A t \in Desks : /\ HalfTaken(t)' => t # s /\ HalfTaken(t) /\ desk'[t] = desk[t]
                       /\ HalfTaken(t) => desk'[t] = desk[t]
  BY <1>1 DEF HalfTaken, Sits
<1>5. HalvesAreOnes' /\ AllTold'
  BY <1>4 DEF TakenInv, HalvesAreOnes, AllTold, HalfTaken
<1>6. NothingSeen'
  BY <1>1 DEF TakenInv, NothingSeen, Sits
<1> QED BY <1>2, <1>3, <1>5, <1>6 DEF TakenInv, OneOfARef, RunsOnce

\* Someone who looks files the ticket next, or turns it away.
LEMMA LooksDo ==
  ASSUME IntakeInv, TakenInv, NEW s \in Desks, NEW w, NEW t, NEW place \in Places,
         w \in Asking(Len(items)),
         w.pc = "syncing" => w \in Taken(Len(items)),
         w.todo \subseteq TicketsOf[w.from], t \in TicketsOf[w.from],
         Looks(s, w, t, place)
  PROVE  /\ \E c : desk' = [desk EXCEPT ![s] = c] /\ Sits(c)
         /\ turnedAway' \subseteq Recognised
<1>0. Len(items) \in Nat /\ DOMAIN items = 1..Len(items) /\ turnedAway \subseteq Recognised
  BY AtHand DEF TakenInv
<1>1. w.from \in Integrations /\ t \in Tickets
  BY <1>0, AskingIs, IntakeConstants
<1>2. CASE Found(Ref(w.from, t))
  <2>1. turnedAway' = turnedAway \cup {t} /\ t \in Recognised
    BY <1>1, <1>2 DEF Looks, Recognised
  <2> DEFINE c == IF w.pc = "syncing" THEN w ELSE NoOne
  <2>2. desk' = [desk EXCEPT ![s] = c]
    BY <1>2 DEF Looks
  <2>3. Sits(c)
    BY DEF Sits, DeskRow, NoOne
  <2> QED BY <1>0, <2>1, <2>2, <2>3
<1>3. CASE ~Found(Ref(w.from, t))
  <2> DEFINE c == [w EXCEPT !.pc = "filing", !.ticket = t, !.place = place, !.seen = Len(items)]
  <2>1. desk' = [desk EXCEPT ![s] = c] /\ turnedAway' = turnedAway
    BY <1>3 DEF Looks
  <2>a. c = [w EXCEPT !.pc = "filing", !.ticket = t, !.place = place, !.seen = Len(items)]
    OBVIOUS
  <2> HIDE DEF c
  <2>2. /\ c \in Taken(Len(items)) /\ c.pc = "filing" /\ c.ticket = t /\ c.from = w.from
        /\ c.todo = w.todo /\ c.seen = Len(items)
    <3>0. DOMAIN w = {"pc", "how", "from", "ticket", "place", "auto", "todo", "seen", "item"}
      BY DEF Asking
    <3>1. Len(items) \in 0..Len(items)
      BY <1>0
    <3>2. c \in Taken(Len(items))
      BY <1>1, <3>1, <2>a DEF Taken, Asking
    <3>3. c.pc = "filing" /\ c.ticket = t /\ c.seen = Len(items)
      BY <2>a, <3>0
    <3>4. c.from = w.from /\ c.todo = w.todo
      BY <2>a, <3>0
    <3> QED BY <3>2, <3>3, <3>4
  <2>3. \A n \in 1..Len(items) : items[n].ref # Ref(w.from, t)
    BY <1>0, <1>3 DEF Found
  <2> HIDE DEF c
  <2>4. Sits(c)
    BY <2>2, <2>3 DEF Sits, DeskRow
  <2> QED BY <1>0, <2>1, <2>4
<1> QED BY <1>2, <1>3

LEMMA TakingIs ==
  ASSUME NEW n \in Nat, NEW how \in {"receiving", "syncing"}, NEW i \in Integrations,
         NEW auto \in BOOLEAN, NEW todo \in SUBSET Tickets
  PROVE  Taking(how, i, auto, todo) \in Asking(n)
<1>1. 0 \in 0..n
  OBVIOUS
<1> QED BY <1>1 DEF Taking, Asking

LEMMA ReceiveTakes ==
  ASSUME IntakeInv, TakenInv, NEW s \in Desks, NEW i \in Integrations, NEW t \in Tickets,
         Receive(s, i, t)
  PROVE  IntakeInv' /\ TakenInv'
<1> DEFINE w == Taking("receiving", i, FALSE, {})
<1>1. /\ desk[s] = NoOne /\ i \in DOMAIN integrations /\ t \in TicketsOf[i]
      /\ integrations[i].place # "" /\ Looks(s, w, t, integrations[i].place)
      /\ UNCHANGED <<integrations, items, recorded, raced, dropped>>
  BY DEF Receive
<1>2. integrations[i].place \in Places
  BY <1>1, AtHand DEF IntegrationRow
<1>a. w \in Asking(Len(items))
  <2>1. Len(items) \in Nat
    BY AtHand
  <2> QED BY <2>1, TakingIs
<1>b. w.pc = "receiving" /\ w.from = i /\ w.todo = {}
  BY DEF Taking
<1>3. w \in Asking(Len(items)) /\ w.pc = "receiving" /\ w.from = i /\ w.todo = {}
  BY <1>a, <1>b
<1> HIDE DEF w
<1>4. /\ \E c : desk' = [desk EXCEPT ![s] = c] /\ Sits(c)
      /\ turnedAway' \subseteq Recognised
  BY <1>1, <1>2, <1>3, LooksDo
<1>5. ~HalfTaken(s)
  BY <1>1, NoOneIs DEF HalfTaken
<1> QED BY <1>1, <1>4, <1>5, SitsKeeps

LEMMA SyncStartsTakes ==
  ASSUME IntakeInv, TakenInv, NEW s \in Desks, NEW i \in Integrations, NEW place \in Places,
         NEW told \in {"", "yes", "no"}, NEW listed \in Listings(i),
         SyncStarts(s, i, place, told, listed)
  PROVE  IntakeInv' /\ TakenInv'
<1> DEFINE auto == IF told = "" THEN integrations[i].autostart ELSE told = "yes"
           w == Taking("syncing", i, auto, listed)
           c == [w EXCEPT !.place = place]
<1>1. /\ desk[s] = NoOne /\ i \in DOMAIN integrations /\ desk' = [desk EXCEPT ![s] = c]
      /\ UNCHANGED <<integrations, items, recorded, turnedAway, raced, dropped>>
  BY DEF SyncStarts
<1>2. auto \in BOOLEAN /\ listed \in SUBSET Tickets /\ listed \subseteq TicketsOf[i]
  <2>1. integrations[i].autostart \in BOOLEAN
    BY <1>1, AtHand DEF IntegrationRow
  <2> QED BY <2>1, IntakeConstants DEF Listings
<1> HIDE DEF auto
<1>a. w \in Asking(Len(items))
  <2>1. Len(items) \in Nat
    BY AtHand
  <2> QED BY <1>2, <2>1, TakingIs
<1>b. w.pc = "syncing" /\ w.from = i /\ w.todo = listed
  BY DEF Taking
<1>3. w \in Asking(Len(items)) /\ w.pc = "syncing" /\ w.from = i /\ w.todo = listed
  BY <1>a, <1>b
<1> HIDE DEF w
<1>4. c \in Taken(Len(items)) /\ c.pc = "syncing" /\ c.from = i /\ c.todo = listed
  BY <1>3 DEF Taken, Asking
<1> HIDE DEF c
<1>5. Sits(c)
  BY <1>2, <1>4 DEF Sits, DeskRow
<1>6. ~HalfTaken(s) /\ turnedAway' \subseteq Recognised
  BY <1>1, NoOneIs DEF HalfTaken, TakenInv
<1> QED BY <1>1, <1>5, <1>6, SitsKeeps

LEMMA SyncLooksTakes ==
  ASSUME IntakeInv, TakenInv, NEW s \in Desks, NEW t \in Tickets, SyncLooks(s, t)
  PROVE  IntakeInv' /\ TakenInv'
<1> DEFINE w == desk[s]
           v == [w EXCEPT !.todo = @ \ {t}]
<1>1. /\ w.pc = "syncing" /\ t \in w.todo
      /\ Looks(s, v, t, w.place) \/ (desk' = [desk EXCEPT ![s] = NoOne] /\ turnedAway' = turnedAway)
      /\ UNCHANGED <<integrations, items, recorded, raced, dropped>>
  BY DEF SyncLooks
<1>2. w \in Taken(Len(items)) /\ w.todo \subseteq TicketsOf[w.from] /\ w.place \in Places
  <2>1. w \in Taken(Len(items))
    BY <1>1, AtHand, RowsAtHand
  <2> QED BY <1>1, <2>1, AtHand, TakenIs DEF IntakeInv
<1>3. ~HalfTaken(s)
  BY <1>1 DEF HalfTaken
<1> HIDE DEF w
<1>4. v \in Taken(Len(items)) /\ v.pc = "syncing" /\ v.from = w.from /\ v.todo = w.todo \ {t}
  BY <1>1, <1>2 DEF Taken
<1>5. v \in Asking(Len(items))
  BY <1>1, <1>2 DEF Taken, Asking
<1> HIDE DEF v
<1>6. CASE Looks(s, v, t, w.place)
  <2>1. /\ \E c : desk' = [desk EXCEPT ![s] = c] /\ Sits(c)
        /\ turnedAway' \subseteq Recognised
    BY <1>1, <1>2, <1>4, <1>5, <1>6, LooksDo
  <2> QED BY <1>1, <1>3, <2>1, SitsKeeps
<1>7. CASE desk' = [desk EXCEPT ![s] = NoOne] /\ turnedAway' = turnedAway
  <2>1. Sits(NoOne) /\ turnedAway' \subseteq Recognised
    BY <1>7 DEF Sits, NoOne, DeskRow, TakenInv
  <2> QED BY <1>1, <1>3, <1>7, <2>1, SitsKeeps
<1> QED BY <1>1, <1>6, <1>7

LEMMA SyncEndsTakes ==
  ASSUME IntakeInv, TakenInv, NEW s \in Desks, SyncEnds(s)
  PROVE  IntakeInv' /\ TakenInv'
<1>1. /\ desk[s].pc = "syncing" /\ desk' = [desk EXCEPT ![s] = NoOne]
      /\ UNCHANGED <<integrations, items, recorded, turnedAway, raced, dropped>>
  BY DEF SyncEnds
<1>2. Sits(NoOne) /\ turnedAway' \subseteq Recognised /\ ~HalfTaken(s)
  BY <1>1 DEF Sits, NoOne, DeskRow, TakenInv, HalfTaken
<1> QED BY <1>1, <1>2, SitsKeeps

\* Where a session is that has filed, or is about to.
LEMMA AtDesk ==
  ASSUME IntakeInv, NEW s \in Desks, desk[s].pc # "idle"
  PROVE  /\ desk[s] \in Taken(Len(items)) /\ desk[s].from \in Integrations
         /\ desk[s].todo \subseteq TicketsOf[desk[s].from]
         /\ DOMAIN desk[s] = {"pc", "how", "from", "ticket", "place", "auto", "todo", "seen", "item"}
<1>1. desk[s] \in Taken(Len(items))
  BY AtHand, RowsAtHand
<1>2. DOMAIN desk[s] = {"pc", "how", "from", "ticket", "place", "auto", "todo", "seen", "item"}
  BY <1>1 DEF Taken
<1> QED BY <1>1, <1>2, AtHand, TakenIs DEF IntakeInv

LEMMA FilesTakes ==
  ASSUME IntakeInv, TakenInv, NEW s \in Desks, Files(s)
  PROVE  IntakeInv' /\ TakenInv'
<1> DEFINE w == desk[s]
           ref == Ref(w.from, w.ticket)
           row == [ref |-> ref, ticket |-> w.ticket, place |-> w.place, runs |-> 0]
           n == Len(items)
           c == [w EXCEPT !.pc = "filed", !.item = Len(items')]
<1>1. /\ w.pc = "filing" /\ items' = Append(items, row)
      /\ raced' = raced \cup (IF \E k \in (w.seen + 1)..n : items[k].ref = ref THEN {ref} ELSE {})
      /\ desk' = [desk EXCEPT ![s] = c]
      /\ UNCHANGED <<integrations, recorded, turnedAway, dropped>>
  BY DEF Files
<1>2. /\ w \in Taken(n) /\ w.from \in Integrations /\ w.todo \subseteq TicketsOf[w.from]
      /\ DOMAIN w = {"pc", "how", "from", "ticket", "place", "auto", "todo", "seen", "item"}
  BY <1>1, AtDesk
<1>3. w.ticket \in TicketsOf[w.from] /\ w.ticket \in Tickets /\ w.place \in Places /\ w.seen \in 0..n
  <2>1. w.ticket \in TicketsOf[w.from] /\ n \in Nat
    BY <1>1, AtHand DEF IntakeInv
  <2> QED BY <1>2, <2>1, TakenIs, IntakeConstants
<1>4. row \in ItemRow /\ row.ref = ref /\ row.runs = 0
  BY <1>2, <1>3 DEF ItemRow, Ref
<1>5. /\ items \in Seq(ItemRow) /\ n \in Nat /\ DOMAIN items = 1..n
      /\ desk \in [Desks -> DeskRow(n)] /\ recorded \subseteq 1..n /\ dropped \subseteq 1..n
  BY AtHand
<1> HIDE DEF row
<1>6. /\ items' \in Seq(ItemRow) /\ Len(items') = n + 1 /\ DOMAIN items' = 1..(n + 1)
      /\ items'[n + 1] = row /\ \A k \in 1..n : items'[k] = items[k]
  BY <1>1, <1>4, <1>5
<1>7. desk'[s] = c /\ \A t \in Desks : t # s => desk'[t] = desk[t]
  BY <1>1, DeskGoesOn
<1>8. /\ c \in Taken(n + 1) /\ c.pc = "filed" /\ c.item = n + 1
      /\ c.from = w.from /\ c.todo = w.todo
  <2>1. n + 1 \in 0..(n + 1) /\ 0..n \subseteq 0..(n + 1)
    BY <1>5
  <2>2. c \in Taken(n + 1)
    BY <1>2, <1>6, <2>1 DEF Taken
  <2>3. c.pc = "filed" /\ c.item = n + 1 /\ c.from = w.from
    BY <1>2, <1>6
  <2>4. c.todo = w.todo
    BY <1>2
  <2> QED BY <2>2, <2>3, <2>4
<1> HIDE DEF c, n
<1>9. desk' \in [Desks -> DeskRow(n + 1)]
  <2>1. \A t \in Desks : desk'[t] \in DeskRow(n + 1)
    BY <1>5, <1>7, <1>8, MoreItems DEF DeskRow
  <2> QED BY <1>1, <1>5, <2>1
<1>10. IntakeInv'
  <2>1. IntakeTypeOK'
    <3>1. 1..n \subseteq 1..(n + 1)
      BY <1>5
    <3> QED BY <1>1, <1>5, <1>6, <3>1, AtHand DEF IntakeTypeOK
  <2>2. ASSUME NEW t \in Desks
        PROVE  /\ desk'[t].pc # "idle" => desk'[t].todo \subseteq TicketsOf[desk'[t].from]
               /\ desk'[t].pc = "filing" => desk'[t].ticket \in TicketsOf[desk'[t].from]
    BY <1>2, <1>7, <1>8 DEF IntakeInv
  <2> QED BY <1>6, <1>9, <2>1, <2>2 DEF IntakeInv
<1>11. \A k \in 1..w.seen : items[k].ref # ref
  BY <1>1 DEF TakenInv, NothingSeen
<1>12. OneOfARef'
  <2>1. ASSUME NEW k \in 1..n, items[k].ref = ref PROVE ref \in raced'
    <3>1. k \in (w.seen + 1)..n
      BY <1>3, <1>5, <1>11, <2>1
    <3> QED BY <1>1, <2>1, <3>1
  <2>2. ASSUME NEW k \in 1..n, NEW m \in 1..n, items[k].ref = items[m].ref
        PROVE  k = m \/ items[m].ref \in raced'
    BY <1>1, <1>5, <2>2 DEF TakenInv, OneOfARef
  <2>3. \A k \in 1..(n + 1) : k = n + 1 \/ k \in 1..n
    BY <1>5
  <2>4. \A k \in 1..n : items'[k].ref = items[k].ref
    BY <1>6
  <2>5. items'[n + 1].ref = ref
    BY <1>4, <1>6
  <2> HIDE DEF ref, w
  <2>6. ASSUME NEW k \in 1..(n + 1), NEW m \in 1..(n + 1), items'[k].ref = items'[m].ref
        PROVE  k = m \/ items'[m].ref \in raced'
    BY <2>1, <2>2, <2>3, <2>4, <2>5, <2>6
  <2> QED BY <1>6, <2>6 DEF OneOfARef
<1>13. NothingSeen'
  <2>1. ASSUME NEW t \in Desks, desk'[t].pc = "filing", NEW k \in 1..desk'[t].seen
        PROVE  items'[k].ref # Ref(desk'[t].from, desk'[t].ticket)
    <3>1. t # s /\ desk'[t] = desk[t]
      BY <1>7, <1>8, <2>1
    <3>2. desk[t].seen \in 0..n
      BY <1>5, <2>1, <3>1, AtDesk, TakenIs DEF n
    <3>3. k \in 1..n
      BY <1>5, <2>1, <3>1, <3>2
    <3> QED BY <1>6, <2>1, <3>1, <3>3 DEF TakenInv, NothingSeen
  <2> QED BY <2>1 DEF NothingSeen
<1>14. HalvesAreOnes'
  <2>1. \A t \in Desks : /\ t # s => (HalfTaken(t)' <=> HalfTaken(t)) /\ desk'[t] = desk[t]
                         /\ t # s /\ HalfTaken(t) => desk[t].item \in 1..n
    BY <1>5, <1>7 DEF HalfTaken, TakenInv, HalvesAreOnes
  <2>2. desk'[s].item = n + 1 /\ n + 1 \notin 1..n /\ n + 1 \in 1..(n + 1) /\ desk'[s].pc = "filed"
    BY <1>5, <1>7, <1>8
  <2>3. \A t \in Desks : HalfTaken(t)' => /\ desk'[t].item \in DOMAIN items'
                                          /\ items'[desk'[t].item].runs = 0
    <3>1. \A t \in Desks : t # s /\ HalfTaken(t) => items[desk[t].item].runs = 0
      BY DEF TakenInv, HalvesAreOnes
    <3>2. 1..n \subseteq 1..(n + 1)
      BY <1>5
    <3> QED BY <1>4, <1>6, <2>1, <2>2, <3>1, <3>2
  <2>4. \A t \in Desks : desk'[t].pc = "told" => desk'[t].item \in recorded'
    BY <1>1, <1>7, <2>2 DEF TakenInv, HalvesAreOnes
  <2>5. ASSUME NEW t \in Desks, NEW u \in Desks, HalfTaken(t)', HalfTaken(u)',
               desk'[t].item = desk'[u].item
        PROVE  t = u
    BY <2>1, <2>2, <2>5 DEF TakenInv, HalvesAreOnes
  <2> QED BY <2>3, <2>4, <2>5 DEF HalvesAreOnes
<1>15. RunsOnce' /\ AllTold'
  <2>1. \A k \in 1..(n + 1) : k = n + 1 \/ k \in 1..n
    BY <1>5
  <2>2. RunsOnce'
    <3>1. \A k \in 1..n : items[k].runs <= 1 /\ (items[k].runs = 1 => k \in recorded)
      BY <1>5 DEF TakenInv, RunsOnce
    <3> QED BY <1>1, <1>4, <1>6, <2>1, <3>1 DEF RunsOnce
  <2>3. ASSUME NEW k \in 1..n
        PROVE  k \in recorded' \cup dropped' \/ \E t \in Desks :
                                                  desk'[t].pc = "filed" /\ desk'[t].item = k
    <3>1. CASE k \in recorded \cup dropped
      BY <1>1, <3>1
    <3>2. ASSUME NEW t \in Desks, desk[t].pc = "filed", desk[t].item = k
          PROVE  desk'[t].pc = "filed" /\ desk'[t].item = k
      BY <1>1, <1>7, <3>2
    <3> QED BY <1>5, <3>1, <3>2 DEF TakenInv, AllTold
  <2>4. desk'[s].pc = "filed" /\ desk'[s].item = n + 1
    BY <1>7, <1>8
  <2> QED BY <1>6, <2>1, <2>2, <2>3, <2>4 DEF AllTold
<1>16. turnedAway' \subseteq Recognised'
  <2>1. \A r : Found(r) => Found(r)'
    <3>1. 1..n \subseteq 1..(n + 1)
      BY <1>5
    <3> QED BY <1>5, <1>6, <3>1 DEF Found
  <2>2. Recognised \subseteq Recognised'
    BY <2>1 DEF Recognised
  <2> QED BY <1>1, <2>2 DEF TakenInv
<1> QED BY <1>10, <1>12, <1>13, <1>14, <1>15, <1>16 DEF TakenInv

LEMMA RaisesTakes ==
  ASSUME IntakeInv, TakenInv, NEW s \in Desks, Raises(s)
  PROVE  IntakeInv' /\ TakenInv'
<1>1. /\ HalfTaken(s) /\ dropped' = dropped \cup {desk[s].item}
      /\ desk' = [desk EXCEPT ![s] = NoOne]
      /\ UNCHANGED <<integrations, items, recorded, turnedAway, raced>>
  BY DEF Raises, HalfTaken
<1>2. desk[s].item \in DOMAIN items
  BY <1>1 DEF TakenInv, HalvesAreOnes
<1>3. desk'[s] = NoOne /\ \A t \in Desks : t # s => desk'[t] = desk[t]
  BY <1>1, DeskGoesOn
<1>4. IntakeInv'
  <2>1. NoOne \in DeskRow(Len(items)) /\ dropped' \subseteq DOMAIN items
    BY <1>1, <1>2, AtHand DEF DeskRow
  <2> QED BY <1>1, <2>1, NoOneIs, AtHand, DeskKeepsTypes
<1>5. \A t \in Desks : (t # s => desk'[t] = desk[t]) /\ (desk'[t].pc # "idle" => t # s)
  BY <1>3, NoOneIs
<1>6. NothingSeen' /\ HalvesAreOnes'
  BY <1>1, <1>5 DEF TakenInv, NothingSeen, HalvesAreOnes, HalfTaken
<1>7. AllTold'
  BY <1>1, <1>5 DEF TakenInv, AllTold
<1>8. turnedAway' \subseteq Recognised'
  BY <1>1 DEF TakenInv, Recognised, Found
<1> QED BY <1>1, <1>4, <1>6, <1>7, <1>8 DEF TakenInv, OneOfARef, RunsOnce

LEMMA TellsTakes ==
  ASSUME IntakeInv, TakenInv, NEW s \in Desks, Tells(s)
  PROVE  IntakeInv' /\ TakenInv'
<1> DEFINE w == desk[s]
           c == [w EXCEPT !.pc = "told"]
<1>1. /\ w.pc = "filed" /\ recorded' = recorded \cup {w.item}
      /\ UNCHANGED <<integrations, items, turnedAway, raced, dropped>>
      /\ desk' = [desk EXCEPT ![s].pc = "told"]
  BY DEF Tells
<1>2. /\ w \in Taken(Len(items)) /\ w.todo \subseteq TicketsOf[w.from]
      /\ DOMAIN w = {"pc", "how", "from", "ticket", "place", "auto", "todo", "seen", "item"}
  BY <1>1, AtDesk
<1>3. desk' = [desk EXCEPT ![s] = c]
  BY <1>1, AtHand
<1>4. w.item \in DOMAIN items
  BY <1>1 DEF TakenInv, HalvesAreOnes, HalfTaken
<1>5. c \in DeskRow(Len(items))
  BY <1>2 DEF DeskRow, Taken
<1>6. c.pc = "told" /\ c.item = w.item /\ c.from = w.from
  BY <1>2
<1>7. c.todo = w.todo
  BY <1>2
<1> HIDE DEF c
<1>8. desk'[s] = c /\ \A t \in Desks : t # s => desk'[t] = desk[t]
  BY <1>3, DeskGoesOn
<1>9. IntakeInv'
  <2>1. recorded' \subseteq DOMAIN items
    BY <1>1, <1>4, AtHand
  <2> QED BY <1>1, <1>2, <1>3, <1>5, <1>6, <1>7, <2>1, AtHand, DeskKeepsTypes
<1>10. \A t \in Desks : /\ HalfTaken(t)' <=> HalfTaken(t)
                        /\ desk'[t].item = desk[t].item
                        /\ t # s => desk'[t] = desk[t]
  BY <1>1, <1>6, <1>8 DEF HalfTaken
<1>11. HalvesAreOnes'
  BY <1>1, <1>6, <1>8, <1>10 DEF TakenInv, HalvesAreOnes
<1>12. NothingSeen'
  BY <1>1, <1>6, <1>8 DEF TakenInv, NothingSeen
<1>13. RunsOnce' /\ AllTold'
  <2>1. \A n \in DOMAIN items : n \in recorded => n \in recorded'
    BY <1>1
  <2>2. ASSUME NEW n \in DOMAIN items
        PROVE  n \in recorded' \cup dropped' \/ \E t \in Desks :
                                                  desk'[t].pc = "filed" /\ desk'[t].item = n
    <3>1. ASSUME NEW t \in Desks, desk[t].pc = "filed", desk[t].item = n
          PROVE  n \in recorded' \/ (desk'[t].pc = "filed" /\ desk'[t].item = n)
      BY <1>1, <1>8, <3>1
    <3> QED BY <1>1, <3>1 DEF TakenInv, AllTold
  <2> QED BY <1>1, <2>1, <2>2 DEF TakenInv, RunsOnce, AllTold
<1>14. turnedAway' \subseteq Recognised'
  BY <1>1 DEF TakenInv, Recognised, Found
<1> QED BY <1>1, <1>9, <1>11, <1>12, <1>13, <1>14 DEF TakenInv, OneOfARef

LEMMA StartingTakes ==
  ASSUME IntakeInv, TakenInv, NEW s \in Desks, Starting(s)
  PROVE  IntakeInv' /\ TakenInv'
<1> DEFINE w == desk[s]
           c == IF w.how = "syncing" THEN [w EXCEPT !.pc = "syncing"] ELSE NoOne
           starts == Wanted(w) /\ WorkflowOf(w.from) \in Workflows
<1>1. /\ w.pc = "told"
      /\ items' = IF starts THEN [items EXCEPT ![w.item].runs = @ + 1] ELSE items
      /\ desk' = [desk EXCEPT ![s] = c]
      /\ UNCHANGED <<integrations, recorded, turnedAway, raced, dropped>>
  BY DEF Starting
<1>2. /\ w \in Taken(Len(items)) /\ w.todo \subseteq TicketsOf[w.from]
      /\ DOMAIN w = {"pc", "how", "from", "ticket", "place", "auto", "todo", "seen", "item"}
  BY <1>1, AtDesk
<1>3. w.item \in DOMAIN items /\ items[w.item].runs = 0 /\ w.item \in recorded
  BY <1>1 DEF TakenInv, HalvesAreOnes, HalfTaken
<1>4. /\ items \in Seq(ItemRow) /\ Len(items) \in Nat /\ DOMAIN items = 1..Len(items)
      /\ \A n \in DOMAIN items : items[n] \in ItemRow
  BY AtHand
<1> HIDE DEF starts
<1>5. /\ items' \in Seq(ItemRow) /\ Len(items') = Len(items) /\ DOMAIN items' = DOMAIN items
      /\ \A n \in DOMAIN items : /\ items'[n].ref = items[n].ref
                                 /\ n # w.item => items'[n] = items[n]
      /\ items'[w.item].runs \in {0, 1}
  <2>1. CASE ~starts
    BY <1>1, <1>3, <1>4, <2>1
  <2>2. CASE starts
    <3> DEFINE row == [items[w.item] EXCEPT !.runs = @ + 1]
    <3>1. items' = [items EXCEPT ![w.item] = row]
      BY <1>1, <1>3, <2>2
    <3>2. row \in ItemRow /\ row.ref = items[w.item].ref /\ row.runs = 1
      <4>1. /\ items[w.item] \in ItemRow /\ items[w.item].runs = 0
            /\ DOMAIN items[w.item] = {"ref", "ticket", "place", "runs"}
        BY <1>3, <1>4 DEF ItemRow
      <4>2. row \in ItemRow
        BY <4>1 DEF ItemRow
      <4>3. row.ref = items[w.item].ref
        BY <4>1
      <4>4. row.runs = 1
        BY <4>1
      <4> QED BY <4>2, <4>3, <4>4
    <3> HIDE DEF row
    <3> QED BY <1>3, <1>4, <3>1, <3>2
  <2> QED BY <2>1, <2>2
<1>6. /\ c \in DeskRow(Len(items)) /\ c.pc \in {"idle", "syncing"}
      /\ c.pc # "idle" => c.todo \subseteq TicketsOf[c.from]
  <2>1. CASE w.how = "syncing"
    <3>1. c = [w EXCEPT !.pc = "syncing"]
      BY <2>1
    <3>2. c \in DeskRow(Len(items))
      BY <1>2, <3>1 DEF DeskRow, Taken
    <3>3. c.pc = "syncing" /\ c.from = w.from
      BY <1>2, <3>1
    <3>4. c.todo = w.todo
      BY <1>2, <3>1
    <3> HIDE DEF c
    <3> QED BY <1>2, <3>2, <3>3, <3>4
  <2>2. CASE w.how # "syncing"
    <3>1. c = NoOne /\ NoOne \in DeskRow(Len(items))
      BY <2>2 DEF DeskRow
    <3> HIDE DEF c
    <3> QED BY <3>1, NoOneIs
  <2> QED BY <2>1, <2>2
<1> HIDE DEF c
<1>7. desk'[s] = c /\ \A t \in Desks : t # s => desk'[t] = desk[t]
  BY <1>1, DeskGoesOn
<1>8. IntakeInv'
  <2>1. c.pc = "filing" => c.ticket \in TicketsOf[c.from]
    BY <1>6
  <2> QED BY <1>1, <1>5, <1>6, <2>1, AtHand, DeskKeepsTypes
<1>9. \A t \in Desks : HalfTaken(t)' => /\ t # s /\ HalfTaken(t) /\ desk'[t] = desk[t]
                                        /\ desk[t].item # w.item
  BY <1>1, <1>6, <1>7 DEF HalfTaken, TakenInv, HalvesAreOnes
<1>10. HalvesAreOnes'
  <2>1. \A t \in Desks : HalfTaken(t)' => /\ desk'[t].item \in DOMAIN items'
                                          /\ items'[desk'[t].item].runs = 0
    BY <1>5, <1>9 DEF TakenInv, HalvesAreOnes
  <2>2. \A t \in Desks : desk'[t].pc = "told" => HalfTaken(t)'
    BY DEF HalfTaken
  <2>3. \A t \in Desks : desk'[t].pc = "told" => desk'[t].item \in recorded'
    BY <1>1, <1>9, <2>2 DEF TakenInv, HalvesAreOnes
  <2> QED BY <1>9, <2>1, <2>3 DEF TakenInv, HalvesAreOnes
<1>11. NothingSeen'
  <2>1. ASSUME NEW t \in Desks, desk'[t].pc = "filing", NEW k \in 1..desk'[t].seen
        PROVE  items'[k].ref # Ref(desk'[t].from, desk'[t].ticket)
    <3>1. t # s /\ desk'[t] = desk[t]
      BY <1>6, <1>7, <2>1
    <3>2. desk[t].seen \in 0..Len(items)
      BY <1>4, <2>1, <3>1, AtDesk, TakenIs
    <3>3. k \in DOMAIN items
      BY <1>4, <2>1, <3>1, <3>2
    <3> QED BY <1>5, <2>1, <3>1, <3>3 DEF TakenInv, NothingSeen
  <2> QED BY <2>1 DEF NothingSeen
<1>12. OneOfARef'
  BY <1>1, <1>5 DEF TakenInv, OneOfARef
<1>13. RunsOnce'
  BY <1>1, <1>3, <1>5 DEF TakenInv, RunsOnce
<1>14. AllTold'
  <2>1. ASSUME NEW t \in Desks, desk[t].pc = "filed" PROVE desk'[t] = desk[t]
    BY <1>1, <1>7, <2>1
  <2> QED BY <1>1, <1>5, <2>1 DEF TakenInv, AllTold
<1>15. turnedAway' \subseteq Recognised'
  BY <1>1, <1>5 DEF TakenInv, Recognised, Found
<1> QED BY <1>8, <1>10, <1>11, <1>12, <1>13, <1>14, <1>15 DEF TakenInv

LEMMA SettingsTake ==
  ASSUME IntakeInv, TakenInv,
         (\E i \in Integrations :
            \/ DeleteIntegration(i)
            \/ \E place \in Places \cup {""}, workflow \in Names, auto \in {"", "yes", "no"},
                  rotate \in BOOLEAN : Configure(i, place, workflow, auto, rotate))
         \/ UNCHANGED intakeVars
  PROVE  IntakeInv' /\ TakenInv'
<1>1. UNCHANGED <<items, desk, recorded, turnedAway, raced, dropped>>
  <2>1. \A i \in Integrations :
          DeleteIntegration(i) => UNCHANGED <<items, desk, recorded, turnedAway, raced, dropped>>
    BY DEF DeleteIntegration
  <2>2. ASSUME NEW i \in Integrations, NEW place \in Places \cup {""}, NEW workflow \in Names,
               NEW auto \in {"", "yes", "no"}, NEW rotate \in BOOLEAN,
               Configure(i, place, workflow, auto, rotate)
        PROVE  UNCHANGED <<items, desk, recorded, turnedAway, raced, dropped>>
    BY <2>2 DEF Configure
  <2>3. CASE UNCHANGED intakeVars
    BY <2>3 DEF intakeVars
  <2> QED BY <2>1, <2>2, <2>3
<1>2. /\ DOMAIN integrations' \subseteq Integrations
      /\ \A i \in DOMAIN integrations' :
           integrations'[i] \in IntegrationRow /\ (integrations'[i].autostart => integrations'[i].secret)
  <2>1. ASSUME NEW i \in Integrations, DeleteIntegration(i)
        PROVE  /\ DOMAIN integrations' \subseteq DOMAIN integrations
               /\ \A j \in DOMAIN integrations' : integrations'[j] = integrations[j]
    BY <2>1 DEF DeleteIntegration
  <2>2. ASSUME NEW i \in Integrations, NEW place \in Places \cup {""}, NEW workflow \in Names,
               NEW auto \in {"", "yes", "no"}, NEW rotate \in BOOLEAN,
               Configure(i, place, workflow, auto, rotate)
        PROVE  /\ DOMAIN integrations' \subseteq Integrations
               /\ \A j \in DOMAIN integrations' :
                    /\ integrations'[j] \in IntegrationRow
                    /\ integrations'[j].autostart => integrations'[j].secret
    <3> DEFINE old == integrations[i]
               new == [old EXCEPT !.place = IF place = "" THEN @ ELSE place,
                                  !.workflow = IF workflow = "" THEN @ ELSE workflow,
                                  !.autostart = IF auto = "" THEN @ ELSE auto = "yes",
                                  !.secret = @ \/ rotate \/ auto = "yes"]
    <3>1. i \in DOMAIN integrations /\ integrations' = [integrations EXCEPT ![i] = new]
      BY <2>2 DEF Configure
    <3>2. old \in IntegrationRow /\ (old.autostart => old.secret)
      BY <3>1, AtHand
    <3>3. new \in IntegrationRow
      BY <3>2 DEF IntegrationRow
    <3>4. new.autostart => new.secret
      BY <3>2 DEF IntegrationRow
    <3> HIDE DEF new
    <3> QED BY <3>1, <3>3, <3>4, AtHand
  <2>3. CASE UNCHANGED intakeVars
    BY <2>3, AtHand DEF intakeVars
  <2>4. ASSUME NEW i \in Integrations, DeleteIntegration(i)
        PROVE  /\ DOMAIN integrations' \subseteq Integrations
               /\ \A j \in DOMAIN integrations' :
                    /\ integrations'[j] \in IntegrationRow
                    /\ integrations'[j].autostart => integrations'[j].secret
    BY <2>1, <2>4, AtHand
  <2> QED BY <2>2, <2>3, <2>4
<1>3. IntakeInv'
  BY <1>1, <1>2, AtHand DEF IntakeInv, IntakeTypeOK
<1>4. turnedAway' \subseteq Recognised'
  BY <1>1 DEF TakenInv, Recognised, Found
<1> QED BY <1>1, <1>3, <1>4
        DEF TakenInv, OneOfARef, NothingSeen, HalvesAreOnes, HalfTaken, RunsOnce, AllTold

LEMMA OutageTakes ==
  ASSUME IntakeInv, TakenInv, Outage
  PROVE  IntakeInv' /\ TakenInv'
<1>1. /\ dropped' = dropped \cup {desk[s].item : s \in {d \in Desks : desk[d].pc \in {"filed", "told"}}}
      /\ desk' = [s \in Desks |-> NoOne]
      /\ UNCHANGED <<integrations, items, recorded, turnedAway, raced>>
  BY DEF Outage
<1>2. \A s \in Desks : desk'[s] = NoOne /\ desk'[s].pc = "idle"
  BY <1>1, NoOneIs
<1>3. dropped' \subseteq DOMAIN items
  BY <1>1, AtHand DEF TakenInv, HalvesAreOnes, HalfTaken
<1>4. IntakeInv'
  <2>1. desk' \in [Desks -> DeskRow(Len(items'))]
    BY <1>1 DEF DeskRow
  <2>2. IntakeTypeOK'
    BY <1>1, <1>3, AtHand DEF IntakeTypeOK
  <2> QED BY <1>2, <2>1, <2>2 DEF IntakeInv
<1>5. NothingSeen' /\ HalvesAreOnes'
  BY <1>2 DEF NothingSeen, HalvesAreOnes, HalfTaken
<1>6. AllTold'
  <2>1. \A s \in Desks : desk[s].pc = "filed" => desk[s].item \in dropped'
    BY <1>1
  <2> QED BY <1>1, <2>1 DEF TakenInv, AllTold
<1>7. turnedAway' \subseteq Recognised'
  BY <1>1 DEF TakenInv, Recognised, Found
<1> QED BY <1>1, <1>4, <1>5, <1>6, <1>7 DEF TakenInv, OneOfARef, RunsOnce

LEMMA AlwaysTaken == IntakeSpec => [](IntakeInv /\ TakenInv)
<1>1. IntakeInit => IntakeInv /\ TakenInv
  <2> SUFFICES ASSUME IntakeInit PROVE IntakeInv /\ TakenInv
    OBVIOUS
  <2>1. /\ items = <<>> /\ turnedAway = {} /\ \A s \in Desks : desk[s].pc = "idle"
    BY NoOneIs DEF IntakeInit
  <2>2. DOMAIN items = {}
    BY <2>1
  <2> QED BY <2>1, <2>2, InitIntake
          DEF TakenInv, OneOfARef, NothingSeen, HalvesAreOnes, HalfTaken, RunsOnce, AllTold
<1>2. IntakeInv /\ TakenInv /\ [IntakeNext]_intakeVars => IntakeInv' /\ TakenInv'
  <2> SUFFICES ASSUME IntakeInv, TakenInv, [IntakeNext]_intakeVars PROVE IntakeInv' /\ TakenInv'
    OBVIOUS
  <2>1. CASE UNCHANGED intakeVars
    BY <2>1, SettingsTake
  <2>2. CASE IntakeNext
    BY <2>2, ReceiveTakes, SyncStartsTakes, SyncLooksTakes, SyncEndsTakes, FilesTakes, RaisesTakes,
       TellsTakes, StartingTakes, SettingsTake, OutageTakes DEF IntakeNext
  <2> QED BY <2>1, <2>2
<1> QED BY <1>1, <1>2, PTL DEF IntakeSpec

\* Integrations, items and what is remembered of them have their types, and what starts
\* by itself has a secret.
THEOREM IntakeIsTyped == IntakeSpec => []IntakeTypeOK
<1>1. IntakeInv => IntakeTypeOK
  BY DEF IntakeInv
<1> QED BY <1>1, AlwaysTaken, PTL

(***************************************************************************)
(* A ticket is taken in once, for any trackers, tickets and sessions, and  *)
(* whatever is configured or deleted meanwhile, unless two sessions looked *)
(* at once or one ended between its commits.                               *)
(***************************************************************************)
THEOREM TicketsAreTakenInOnce == IntakeSpec => []TakenInOnce
<1>1. IntakeInv /\ TakenInv => TakenInOnce
  <2> SUFFICES ASSUME IntakeInv, TakenInv PROVE TakenInOnce
    OBVIOUS
  <2>1. ASSUME NEW t \in turnedAway
        PROVE  \E n \in DOMAIN items :
                 \/ items[n].ticket = t
                 \/ \E i \in Integrations : t \in TicketsOf[i] /\ Ref(i, t) = items[n].ref
    BY DEF TakenInv, Recognised, Found
  <2> QED BY <2>1 DEF TakenInv, OneOfARef, RunsOnce, AllTold, TakenInOnce
<1> QED BY <1>1, AlwaysTaken, PTL

-----------------------------------------------------------------------------
(* The scripts. *)

LEMMA Scripts ==
  /\ Latest \in Nat /\ DOMAIN MIGRATIONS = 1..Latest /\ DOMAIN DOWNGRADES = 1..Latest
  /\ \A i \in 1..Latest : MIGRATIONS[i] \in Seq(Statements) /\ DOWNGRADES[i] \in Seq(Statements)
<1>1. /\ MIGRATIONS \in Seq(Seq(Statements)) /\ DOWNGRADES \in Seq(Seq(Statements))
      /\ Len(DOWNGRADES) = Latest
  BY ScriptsAssumption, Zenon
<1>2. \A s \in Seq(Seq(Statements)) :
        Len(s) \in Nat /\ DOMAIN s = 1..Len(s) /\ \A i \in 1..Len(s) : s[i] \in Seq(Statements)
  OBVIOUS
<1> QED BY <1>1, <1>2 DEF Latest

LEMMA SameStatement ==
  ASSUME NEW s \in Statements, NEW u \in Statements,
         s.op = u.op, s.table = u.table, s.column = u.column
  PROVE  s = u
<1>1. /\ s = [op |-> s.op, table |-> s.table, column |-> s.column]
      /\ u = [op |-> u.op, table |-> u.table, column |-> u.column]
  BY DEF Statements
<1> QED BY <1>1

\* What the scripts keep to, as the proofs use it.
LEMMA UpScripts ==
  ASSUME NEW i \in 1..Latest, NEW j \in DOMAIN MIGRATIONS[i]
  PROVE  /\ MIGRATIONS[i][j] \in Statements
         /\ MIGRATIONS[i][j].op \in {"add", "touch"}
         /\ MIGRATIONS[i][j].op = "add" =>
              /\ \A k \in 1..Latest : \A l \in DOMAIN MIGRATIONS[k] :
                   MIGRATIONS[k][l] = MIGRATIONS[i][j] => k = i /\ l = j
              /\ \E l \in DOMAIN DOWNGRADES[i] :
                   DropsAt(i, l, MIGRATIONS[i][j].table, MIGRATIONS[i][j].column)
<1>1. MIGRATIONS[i][j] \in Statements
  BY Scripts
<1> QED BY <1>1, ScriptsAssumption, Zenon

LEMMA DownScripts ==
  ASSUME NEW i \in 1..Latest, NEW j \in DOMAIN DOWNGRADES[i]
  PROVE  /\ DOWNGRADES[i][j] \in Statements
         /\ \/ /\ DOWNGRADES[i][j].op = "drop"
               /\ \A l \in DOMAIN DOWNGRADES[i] : DOWNGRADES[i][l] = DOWNGRADES[i][j] => l = j
               /\ \E l \in DOMAIN MIGRATIONS[i] :
                    AddsAt(i, l, DOWNGRADES[i][j].table, DOWNGRADES[i][j].column)
            \/ /\ DOWNGRADES[i][j].op = "drop table"
               /\ DOWNGRADES[i][j].table \in ModelTables \ {"events"}
               /\ \A k \in 1..Latest : \A l \in DOMAIN MIGRATIONS[k] :
                    MIGRATIONS[k][l].op = "add" => MIGRATIONS[k][l].table # DOWNGRADES[i][j].table
<1>1. DOWNGRADES[i][j] \in Statements
  BY Scripts
<1> QED BY <1>1, ScriptsAssumption, Zenon

\* Script i adds column c of table t, by its statement j.
AddedBy(i, j, t, c) ==
  j \in DOMAIN MIGRATIONS[i] /\ MIGRATIONS[i][j].op = "add"
  /\ MIGRATIONS[i][j].table = t /\ MIGRATIONS[i][j].column = c

LEMMA ShapeIs ==
  ASSUME NEW T, NEW v, NEW t, NEW c
  PROVE  <<t, c>> \in ShapeAt(T, v) <=> t \in T /\ \E i \in 1..v : \E j : AddedBy(i, j, t, c)
<1>1. \A u : <<t, c>> \in ColumnsAt(u, v)
               <=> u = t /\ \E i \in 1..v : \E j : AddedBy(i, j, t, c)
  BY DEF ColumnsAt, AddedBy
<1>2. <<t, c>> \in ShapeAt(T, v) <=> \E u \in T : <<t, c>> \in ColumnsAt(u, v)
  BY DEF ShapeAt
<1> QED BY <1>1, <1>2

\* A shape is made of pairs.
LEMMA ShapesArePairs ==
  ASSUME NEW T, NEW v, NEW x \in ShapeAt(T, v)
  PROVE  x[1] \in T /\ x = <<x[1], x[2]>>
BY DEF ShapeAt, ColumnsAt

LEMMA SameShape ==
  ASSUME NEW T, NEW v, NEW S,
         \A x \in S : x = <<x[1], x[2]>>,
         \A t, c : <<t, c>> \in S <=> <<t, c>> \in ShapeAt(T, v)
  PROVE  S = ShapeAt(T, v)
BY ShapesArePairs

LEMMA ShapeOfNone ==
  ASSUME NEW v
  PROVE  ShapeAt({}, v) = {}
BY DEF ShapeAt

LEMMA ShapeOfBoth ==
  ASSUME NEW T, NEW U, NEW v
  PROVE  ShapeAt(T \cup U, v) = ShapeAt(T, v) \cup ShapeAt(U, v)
BY DEF ShapeAt

LEMMA ShapesGrow ==
  ASSUME NEW T, NEW v \in 0..Latest
  PROVE  ShapeAt(T, v) \subseteq ShapeAt(T, Latest)
<1> SUFFICES ASSUME NEW x \in ShapeAt(T, v) PROVE x \in ShapeAt(T, Latest)
  OBVIOUS
<1>1. x = <<x[1], x[2]>>
  BY ShapesArePairs
<1>2. <<x[1], x[2]>> \in ShapeAt(T, v)
  BY <1>1
<1>3. PICK i \in 1..v : \E j : AddedBy(i, j, x[1], x[2])
  BY <1>2, ShapeIs
<1>4. i \in 1..Latest /\ x[1] \in T
  BY <1>2, ShapeIs, Scripts
<1>5. <<x[1], x[2]>> \in ShapeAt(T, Latest)
  BY <1>3, <1>4, ShapeIs
<1> QED BY <1>1, <1>5

\* A statement that adds adds once, and its column is no part of an earlier shape.
LEMMA AddedOnce ==
  ASSUME NEW i \in 1..Latest, NEW k \in 1..Latest, NEW j, NEW l, NEW t, NEW c,
         AddedBy(i, j, t, c), AddedBy(k, l, t, c)
  PROVE  i = k /\ j = l
<1>1. MIGRATIONS[i][j] \in Statements /\ MIGRATIONS[k][l] \in Statements
  BY Scripts DEF AddedBy
<1>2. MIGRATIONS[i][j] = MIGRATIONS[k][l]
  BY <1>1, SameStatement DEF AddedBy
<1>3. MIGRATIONS[i][j].op = "add" /\ j \in DOMAIN MIGRATIONS[i] /\ l \in DOMAIN MIGRATIONS[k]
  BY DEF AddedBy
<1> QED BY <1>2, <1>3, UpScripts

LEMMA NotYet ==
  ASSUME NEW v \in 0..(Latest - 1), NEW j, NEW t, NEW c, AddedBy(v + 1, j, t, c), NEW T
  PROVE  <<t, c>> \notin ShapeAt(T, v)
<1> SUFFICES ASSUME <<t, c>> \in ShapeAt(T, v) PROVE FALSE
  OBVIOUS
<1>1. PICK i \in 1..v : \E l : AddedBy(i, l, t, c)
  BY ShapeIs
<1>2. PICK l : AddedBy(i, l, t, c)
  BY <1>1
<1>3. i \in 1..Latest /\ v + 1 \in 1..Latest /\ i # v + 1
  BY Scripts
<1> QED BY <1>2, <1>3, AddedOnce

\* The columns that the first d statements of a script add, or drop.
DoneBy(script, d, op) ==
  {<<script[j].table, script[j].column>> : j \in {k \in 1..d : script[k].op = op}}

LEMMA DoneIs ==
  ASSUME NEW script, NEW d, NEW op, NEW t, NEW c
  PROVE  <<t, c>> \in DoneBy(script, d, op)
           <=> \E j \in 1..d : script[j].op = op /\ script[j].table = t /\ script[j].column = c
BY DEF DoneBy

LEMMA DoneArePairs ==
  ASSUME NEW script, NEW d, NEW op, NEW x \in DoneBy(script, d, op)
  PROVE  x = <<x[1], x[2]>>
BY DEF DoneBy

LEMMA DoneNothing ==
  ASSUME NEW script, NEW op
  PROVE  DoneBy(script, 0, op) = {}
BY DEF DoneBy

LEMMA OneMoreDone ==
  ASSUME NEW script, NEW d \in Nat, NEW op
  PROVE  /\ script[d + 1].op = op =>
              DoneBy(script, d + 1, op)
                = DoneBy(script, d, op) \cup {<<script[d + 1].table, script[d + 1].column>>}
         /\ script[d + 1].op # op => DoneBy(script, d + 1, op) = DoneBy(script, d, op)
<1>1. 1..(d + 1) = 1..d \cup {d + 1}
  OBVIOUS
<1> DEFINE f(j) == <<script[j].table, script[j].column>>
<1>2. \A D : DoneBy(script, D, op) = {f(j) : j \in {k \in 1..D : script[k].op = op}}
  BY DEF DoneBy
<1> HIDE DEF f
<1>3. CASE script[d + 1].op = op
  <2>1. {k \in 1..(d + 1) : script[k].op = op} = {k \in 1..d : script[k].op = op} \cup {d + 1}
    BY <1>1, <1>3
  <2>2. DoneBy(script, d + 1, op) = DoneBy(script, d, op) \cup {f(d + 1)}
    BY <1>2, <2>1
  <2> QED BY <1>3, <2>2 DEF f
<1>4. CASE script[d + 1].op # op
  <2>1. {k \in 1..(d + 1) : script[k].op = op} = {k \in 1..d : script[k].op = op}
    BY <1>1, <1>4
  <2> QED BY <1>2, <1>4, <2>1
<1> QED BY <1>3, <1>4

\* A script that has run to its end takes the shape of one version to that of the next.
LEMMA ScriptUp ==
  ASSUME NEW v \in 0..(Latest - 1), NEW T,
         \A j \in DOMAIN MIGRATIONS[v + 1] :
           MIGRATIONS[v + 1][j].op = "add" => MIGRATIONS[v + 1][j].table \in T
  PROVE  ShapeAt(T, v) \cup DoneBy(MIGRATIONS[v + 1], Len(MIGRATIONS[v + 1]), "add")
           = ShapeAt(T, v + 1)
<1> DEFINE script == MIGRATIONS[v + 1]
           done == DoneBy(script, Len(script), "add")
<1>1. v + 1 \in 1..Latest /\ 1..(v + 1) = 1..v \cup {v + 1}
  BY Scripts
<1>2. DOMAIN script = 1..Len(script)
  BY <1>1, Scripts
<1>3. \A t, c : <<t, c>> \in done <=> \E j : AddedBy(v + 1, j, t, c)
  <2> TAKE t, c
  <2>1. <<t, c>> \in done
          <=> \E j \in 1..Len(script) :
                script[j].op = "add" /\ script[j].table = t /\ script[j].column = c
    BY DoneIs
  <2> QED BY <1>2, <2>1 DEF AddedBy
<1>4. ASSUME NEW t, NEW c
      PROVE  <<t, c>> \in ShapeAt(T, v) \cup done <=> <<t, c>> \in ShapeAt(T, v + 1)
  <2>1. \A j : AddedBy(v + 1, j, t, c) => t \in T
    BY DEF AddedBy
  <2>2. <<t, c>> \in ShapeAt(T, v) <=> t \in T /\ \E i \in 1..v : \E j : AddedBy(i, j, t, c)
    BY ShapeIs
  <2>3. <<t, c>> \in ShapeAt(T, v + 1)
          <=> t \in T /\ \E i \in 1..(v + 1) : \E j : AddedBy(i, j, t, c)
    BY ShapeIs
  <2> HIDE DEF done
  <2> QED BY <1>1, <1>3, <2>1, <2>2, <2>3
<1>5. \A x \in ShapeAt(T, v) \cup done : x = <<x[1], x[2]>>
  BY ShapesArePairs, DoneArePairs
<1> HIDE DEF done
<1>6. ShapeAt(T, v) \cup done = ShapeAt(T, v + 1)
  BY <1>4, <1>5, SameShape
<1> QED BY <1>6 DEF done

\* A script's way down drops what the script adds.
LEMMA Mirrored ==
  ASSUME NEW i \in 1..Latest, NEW t, NEW c
  PROVE  (\E j : AddedBy(i, j, t, c))
           <=> \E l \in DOMAIN DOWNGRADES[i] :
                 DOWNGRADES[i][l].op = "drop" /\ DOWNGRADES[i][l].table = t /\ DOWNGRADES[i][l].column = c
<1>1. ASSUME NEW j, AddedBy(i, j, t, c)
      PROVE  \E l \in DOMAIN DOWNGRADES[i] :
                DOWNGRADES[i][l].op = "drop" /\ DOWNGRADES[i][l].table = t /\ DOWNGRADES[i][l].column = c
  <2>1. \E l \in DOMAIN DOWNGRADES[i] : DropsAt(i, l, t, c)
    BY <1>1, UpScripts DEF AddedBy
  <2> QED BY <2>1 DEF DropsAt
<1>2. ASSUME NEW l \in DOMAIN DOWNGRADES[i], DOWNGRADES[i][l].op = "drop",
             DOWNGRADES[i][l].table = t, DOWNGRADES[i][l].column = c
      PROVE  \E j : AddedBy(i, j, t, c)
  <2>1. \E j \in DOMAIN MIGRATIONS[i] : AddsAt(i, j, t, c)
    BY <1>2, DownScripts
  <2> QED BY <2>1 DEF AddsAt, AddedBy
<1> QED BY <1>1, <1>2

LEMMA ScriptDown ==
  ASSUME NEW v \in 1..Latest, NEW T
  PROVE  ShapeAt(T, v) \ DoneBy(DOWNGRADES[v], Len(DOWNGRADES[v]), "drop") = ShapeAt(T, v - 1)
<1> DEFINE script == DOWNGRADES[v]
           done == DoneBy(script, Len(script), "drop")
<1>1. 1..v = 1..(v - 1) \cup {v} /\ v - 1 \in 0..(Latest - 1) /\ (v - 1) + 1 = v
  BY Scripts
<1>2. DOMAIN script = 1..Len(script)
  BY Scripts
<1>3. \A t, c : <<t, c>> \in done <=> \E j : AddedBy(v, j, t, c)
  <2> TAKE t, c
  <2>1. <<t, c>> \in done
          <=> \E j \in 1..Len(script) :
                script[j].op = "drop" /\ script[j].table = t /\ script[j].column = c
    BY DoneIs
  <2>2. (\E j : AddedBy(v, j, t, c))
          <=> \E l \in DOMAIN script :
                script[l].op = "drop" /\ script[l].table = t /\ script[l].column = c
    BY Mirrored
  <2> QED BY <1>2, <2>1, <2>2
<1>4. ASSUME NEW t, NEW c
      PROVE  <<t, c>> \in ShapeAt(T, v) \ done <=> <<t, c>> \in ShapeAt(T, v - 1)
  <2>1. \A j : AddedBy(v, j, t, c) => <<t, c>> \notin ShapeAt(T, v - 1)
    BY <1>1, NotYet
  <2>2. <<t, c>> \in ShapeAt(T, v) <=> t \in T /\ \E i \in 1..v : \E j : AddedBy(i, j, t, c)
    BY ShapeIs
  <2>3. <<t, c>> \in ShapeAt(T, v - 1)
          <=> t \in T /\ \E i \in 1..(v - 1) : \E j : AddedBy(i, j, t, c)
    BY ShapeIs
  <2> HIDE DEF done
  <2> QED BY <1>1, <1>3, <2>1, <2>2, <2>3
<1>5. \A x \in ShapeAt(T, v) \ done : x = <<x[1], x[2]>>
  BY ShapesArePairs
<1> HIDE DEF done
<1>6. ShapeAt(T, v) \ done = ShapeAt(T, v - 1)
  BY <1>4, <1>5, SameShape
<1> QED BY <1>6 DEF done

-----------------------------------------------------------------------------
(* Types. *)

Goals == Targets \cup {Latest}
Script == [does : Seq(Statements), reaches : 0..Latest]

OpenerType ==
  {Shut}
    \cup [pc : {"opening"}, fresh : BOOLEAN, to : Goals]
    \cup [pc : {"building"}, missing : SUBSET ModelTables, fresh : BOOLEAN, to : Goals]
    \cup [pc : {"going"}, to : Goals]
    \cup [pc : {"running"}, left : Seq(Script), to : Goals \cup {Nowhere}, whole : Seq(Statements)]

\* What is left to a process adds no column that no script adds.
Known(w) ==
  w.pc = "running" =>
    \A k \in 1..Len(w.left) : \A j \in 1..Len(w.left[k].does) :
      w.left[k].does[j].op = "add" =>
        <<w.left[k].does[j].table, w.left[k].does[j].column>>
          \in ShapeAt({w.left[k].does[j].table}, Latest)

SchemaTypeInv ==
  /\ MigrationsTypeOK
  /\ opener \in [Openers -> OpenerType]
  /\ \A o \in Openers : Known(opener[o])

\* The kinds of work, told apart by where it is.
LEMMA AtIt ==
  ASSUME NEW w \in OpenerType
  PROVE  /\ w = Shut \/ w.pc # "shut"
         /\ w.pc \in {"shut", "opening", "building", "going", "running"}
         /\ w.pc = "opening" => w \in [pc : {"opening"}, fresh : BOOLEAN, to : Goals]
         /\ w.pc = "building" =>
              w \in [pc : {"building"}, missing : SUBSET ModelTables, fresh : BOOLEAN, to : Goals]
         /\ w.pc = "going" => w \in [pc : {"going"}, to : Goals]
         /\ w.pc = "running" =>
              w \in [pc : {"running"}, left : Seq(Script), to : Goals \cup {Nowhere},
                     whole : Seq(Statements)]
BY DEF OpenerType, Shut

LEMMA ScriptsAreTyped ==
  ASSUME NEW v \in 0..Latest, NEW to \in 0..Latest
  PROVE  /\ v <= to => Upwards(v, to) \in Seq(Script) /\ Len(Upwards(v, to)) = to - v
         /\ to <= v => Downwards(v, to) \in Seq(Script) /\ Len(Downwards(v, to)) = v - to
         /\ \A k \in 1..(to - v) :
              Upwards(v, to)[k] = [does |-> MIGRATIONS[v + k], reaches |-> v + k]
         /\ \A k \in 1..(v - to) :
              Downwards(v, to)[k] = [does |-> DOWNGRADES[v + 1 - k], reaches |-> v - k]
<1>1. Latest \in Nat
  BY Scripts
<1>2. CASE v <= to
  <2>1. \A k \in 1..(to - v) : v + k \in 1..Latest
    BY <1>1, <1>2
  <2>2. \A k \in 1..(to - v) : [does |-> MIGRATIONS[v + k], reaches |-> v + k] \in Script
    BY <1>1, <2>1, Scripts DEF Script
  <2>3. to - v \in Nat
    BY <1>1, <1>2
  <2> DEFINE n == to - v
             s == [k \in 1..n |-> [does |-> MIGRATIONS[v + k], reaches |-> v + k]]
  <2>4. s \in [1..n -> Script]
    BY <2>2
  <2>5. s = Upwards(v, to)
    BY DEF Upwards
  <2>6. \A k \in 1..n : s[k] = [does |-> MIGRATIONS[v + k], reaches |-> v + k]
    OBVIOUS
  <2> HIDE DEF s
  <2>7. s \in Seq(Script) /\ Len(s) = n
    BY <2>3, <2>4
  <2>8. v = to => 1..(v - to) = {}
    BY <1>1
  <2>9. v # to => 1..(v - to) = {} /\ ~(to <= v)
    BY <1>1, <1>2
  <2>10. v = to => Downwards(v, to) = <<>>
    BY <2>8 DEF Downwards
  <2>11. v = to => Downwards(v, to) \in Seq(Script) /\ Len(Downwards(v, to)) = v - to
    BY <2>10
  <2> QED BY <2>5, <2>6, <2>7, <2>8, <2>9, <2>11
<1>3. CASE to < v
  <2>1. \A k \in 1..(v - to) : v + 1 - k \in 1..Latest /\ v - k \in 0..Latest
    BY <1>1, <1>3
  <2>2. \A k \in 1..(v - to) : [does |-> DOWNGRADES[v + 1 - k], reaches |-> v - k] \in Script
    BY <1>1, <2>1, Scripts DEF Script
  <2>3. v - to \in Nat
    BY <1>1, <1>3
  <2> DEFINE n == v - to
             s == [k \in 1..n |-> [does |-> DOWNGRADES[v + 1 - k], reaches |-> v - k]]
  <2>4. s \in [1..n -> Script]
    BY <2>2
  <2>5. s = Downwards(v, to)
    BY DEF Downwards
  <2>6. \A k \in 1..n : s[k] = [does |-> DOWNGRADES[v + 1 - k], reaches |-> v - k]
    OBVIOUS
  <2> HIDE DEF s
  <2>7. s \in Seq(Script) /\ Len(s) = n
    BY <2>3, <2>4
  <2>8. 1..(to - v) = {} /\ ~(v <= to)
    BY <1>1, <1>3
  <2> QED BY <2>5, <2>6, <2>7, <2>8
<1> QED BY <1>1, <1>2, <1>3

RunningType ==
  [pc : {"running"}, left : Seq(Script), to : Goals \cup {Nowhere}, whole : Seq(Statements)]

\* What has run of the first script, when one more statement has.
LEMMA OneStatementOn ==
  ASSUME NEW w \in RunningType, w.left # <<>>, Head(w.left).does # <<>>,
         NEW w2, w2 = [w EXCEPT !.left[1].does = Tail(@)]
  PROVE  /\ w2 \in RunningType /\ w2.whole = w.whole /\ w2.to = w.to
         /\ Len(w2.left) = Len(w.left) /\ Len(w.left) \in Nat \ {0} /\ Head(w.left) = w.left[1]
         /\ w2.left[1].does = Tail(w.left[1].does) /\ w2.left[1].reaches = w.left[1].reaches
         /\ w.left[1].does \in Seq(Statements) /\ w.left[1].does # <<>>
         /\ \A k \in 2..Len(w.left) : w2.left[k] = w.left[k]
<1> DEFINE left == w.left
           first == left[1]
           left2 == [left EXCEPT ![1] = [first EXCEPT !.does = Tail(first.does)]]
<1>1. left \in Seq(Script) /\ Len(left) \in Nat \ {0} /\ Head(left) = first
  BY DEF RunningType
<1>2. first \in Script /\ first.does \in Seq(Statements) /\ first.does # <<>>
  <2>1. first \in Script
    BY <1>1
  <2>2. Head(w.left).does = first.does
    BY <1>1
  <2> QED BY <2>1, <2>2 DEF Script
<1>3. w2 = [w EXCEPT !.left = left2]
  OBVIOUS
<1>4. [first EXCEPT !.does = Tail(first.does)] \in Script
  <2>1. Tail(first.does) \in Seq(Statements)
    BY <1>2
  <2> QED BY <1>2, <2>1 DEF Script
<1>5. [first EXCEPT !.does = Tail(first.does)].does = Tail(first.does)
      /\ [first EXCEPT !.does = Tail(first.does)].reaches = first.reaches
  BY <1>2 DEF Script
<1> HIDE DEF first
<1>6. left2 \in Seq(Script) /\ Len(left2) = Len(left)
      /\ left2[1] = [first EXCEPT !.does = Tail(first.does)] /\ \A k \in 2..Len(left) :
                                                                  left2[k] = left[k]
  BY <1>1, <1>4
<1> HIDE DEF left, left2
<1>7. w2.left = left2 /\ w2.pc = w.pc /\ w2.to = w.to /\ w2.whole = w.whole /\ w2 \in RunningType
  BY <1>3, <1>6 DEF RunningType
<1> QED BY <1>1, <1>2, <1>5, <1>6, <1>7 DEF left, first

\* ... and when the script is done.
LEMMA OneScriptOn ==
  ASSUME NEW w \in RunningType, w.left # <<>>
  PROVE  /\ Tail(w.left) \in Seq(Script) /\ Len(Tail(w.left)) = Len(w.left) - 1
         /\ Len(w.left) \in Nat \ {0} /\ Head(w.left) = w.left[1] /\ w.left[1] \in Script
         /\ \A k \in 1..(Len(w.left) - 1) : Tail(w.left)[k] = w.left[k + 1]
BY DEF RunningType

\* What Executes makes of scripts.
LEMMA Executing ==
  ASSUME NEW scripts \in Seq(Script), NEW then \in Goals \cup {Nowhere}, NEW w,
         w = [pc |-> "running", left |-> scripts, to |-> then,
              whole |-> IF scripts = <<>> THEN <<>> ELSE Head(scripts).does]
  PROVE  /\ w \in RunningType /\ w.left = scripts /\ w.to = then
         /\ scripts # <<>> => w.whole = scripts[1].does
<1> DEFINE whole == IF scripts = <<>> THEN <<>> ELSE Head(scripts).does
<1>1. scripts # <<>> => Head(scripts) = scripts[1] /\ scripts[1] \in Script
  OBVIOUS
<1>2. whole \in Seq(Statements)
  BY <1>1 DEF Script
<1>3. scripts # <<>> => whole = scripts[1].does
  BY <1>1
<1> HIDE DEF whole
<1>4. w = [pc |-> "running", left |-> scripts, to |-> then, whole |-> whole]
  BY DEF whole
<1> QED BY <1>2, <1>3, <1>4 DEF RunningType

LEMMA AddsAreKnown ==
  ASSUME NEW i \in 1..Latest, NEW j \in 1..Len(MIGRATIONS[i]), MIGRATIONS[i][j].op = "add"
  PROVE  <<MIGRATIONS[i][j].table, MIGRATIONS[i][j].column>>
           \in ShapeAt({MIGRATIONS[i][j].table}, Latest)
<1>1. j \in DOMAIN MIGRATIONS[i]
  BY Scripts
<1>2. AddedBy(i, j, MIGRATIONS[i][j].table, MIGRATIONS[i][j].column)
  BY <1>1 DEF AddedBy
<1> QED BY <1>2, ShapeIs

LEMMA UpwardsAreKnown ==
  ASSUME NEW v \in 0..Latest, NEW to \in 0..Latest, NEW w, w \in RunningType,
         \/ v <= to /\ w.left = Upwards(v, to)
         \/ to <= v /\ w.left = Downwards(v, to)
  PROVE  Known(w)
<1>1. CASE v <= to /\ w.left = Upwards(v, to)
  <2>1. ASSUME NEW k \in 1..Len(w.left)
        PROVE  v + k \in 1..Latest /\ w.left[k].does = MIGRATIONS[v + k]
    <3>1. Len(w.left) = to - v /\ Latest \in Nat
      BY <1>1, Scripts, ScriptsAreTyped
    <3>4. \A n \in 1..(to - v) : Upwards(v, to)[n] = [does |-> MIGRATIONS[v + n], reaches |-> v + n]
      BY ScriptsAreTyped, Zenon
    <3>2. w.left[k] = [does |-> MIGRATIONS[v + k], reaches |-> v + k]
      BY <1>1, <3>1, <3>4
    <3>3. v + k \in 1..Latest
      BY <1>1, <3>1
    <3> QED BY <3>2, <3>3
  <2> QED BY <2>1, AddsAreKnown DEF Known
<1>2. CASE to <= v /\ w.left = Downwards(v, to)
  <2>1. ASSUME NEW k \in 1..Len(w.left)
        PROVE  v + 1 - k \in 1..Latest /\ w.left[k].does = DOWNGRADES[v + 1 - k]
    <3>1. Len(w.left) = v - to /\ Latest \in Nat
      BY <1>2, Scripts, ScriptsAreTyped
    <3>4. \A n \in 1..(v - to) :
            Downwards(v, to)[n] = [does |-> DOWNGRADES[v + 1 - n], reaches |-> v - n]
      BY ScriptsAreTyped, Zenon
    <3>2. w.left[k] = [does |-> DOWNGRADES[v + 1 - k], reaches |-> v - k]
      BY <1>2, <3>1, <3>4
    <3>3. v + 1 - k \in 1..Latest
      BY <1>2, <3>1
    <3> QED BY <3>2, <3>3
  <2>2. \A i \in 1..Latest : \A j \in 1..Len(DOWNGRADES[i]) : DOWNGRADES[i][j].op # "add"
    <3>1. \A i \in 1..Latest : DOMAIN DOWNGRADES[i] = 1..Len(DOWNGRADES[i])
      BY Scripts
    <3> QED BY <3>1, DownScripts
  <2> QED BY <2>1, <2>2 DEF Known
<1> QED BY <1>1, <1>2

LEMMA OpenerMoves ==
  ASSUME SchemaTypeInv, NEW o \in Openers, NEW w \in OpenerType, Known(w),
         opener' = [opener EXCEPT ![o] = w]
  PROVE  /\ opener' \in [Openers -> OpenerType]
         /\ \A p \in Openers : Known(opener'[p])
         /\ \A p \in Openers :
              opener'[p].pc \in {"shut", "opening", "building", "going", "running"}
<1>1. opener' \in [Openers -> OpenerType]
  BY DEF SchemaTypeInv
<1>2. \A p \in Openers : Known(opener'[p])
  BY DEF SchemaTypeInv
<1> QED BY <1>1, <1>2, AtIt

LEMMA SchemaTypeInit ==
  ASSUME MigrationsInit
  PROVE  SchemaTypeInv
<1>1. PICK install \in Installs :
        /\ tables = install.tables /\ version = install.version
        /\ columns = ShapeAt(install.tables, install.version)
  BY DEF MigrationsInit
<1>2. install.version \in 0..Latest /\ install.tables \subseteq ModelTables \cup RetiredTables
  BY MigrationsAssumption
<1>3. columns \subseteq ShapeAt(tables, Latest)
  BY <1>1, <1>2, ShapesGrow
<1>4. Shut \in OpenerType /\ Shut.pc = "shut"
  BY DEF OpenerType, Shut
<1>5. /\ opener = [p \in Openers |-> Shut] /\ refused = {} /\ broken = FALSE /\ spoilt = {}
  BY Zenon DEF MigrationsInit
<1>6. opener \in [Openers -> OpenerType] /\ \A p \in Openers : opener[p] = Shut
  BY <1>4, <1>5
<1> QED BY <1>1, <1>2, <1>3, <1>4, <1>5, <1>6 DEF SchemaTypeInv, MigrationsTypeOK, Known

LEMMA SchemaTypeStep ==
  ASSUME SchemaTypeInv, NEW o \in Openers,
         \/ \E to \in Targets \cup {Latest} : Opens(o, to)
         \/ CreateAll(o) \/ CreateTable(o) \/ StampLatest(o) \/ RunMigrations(o) \/ MigrateTo(o)
         \/ Statement(o) \/ SetVersion(o) \/ Opened(o) \/ Kill(o)
  PROVE  SchemaTypeInv'
<1> DEFINE w == opener[o]
<1>0. /\ w \in OpenerType /\ Known(w) /\ Shut \in OpenerType /\ Known(Shut)
      /\ Latest \in Nat /\ Latest \in 0..Latest /\ Targets \subseteq 0..Latest
  <2>1. w \in OpenerType /\ Known(w)
    BY DEF SchemaTypeInv
  <2>2. Shut.pc = "shut" /\ Shut \in OpenerType
    BY DEF Shut, OpenerType
  <2>3. Known(Shut)
    BY <2>2 DEF Known
  <2> QED BY <2>1, <2>2, <2>3, Scripts, MigrationsAssumption
<1>00. /\ tables \subseteq ModelTables \cup RetiredTables /\ version \in 0..Latest
       /\ columns \subseteq ShapeAt(tables, Latest)
       /\ refused \subseteq Targets /\ broken \in BOOLEAN
       /\ spoilt \subseteq {"together", "late", "gone", "killed"}
  BY DEF SchemaTypeInv, MigrationsTypeOK
\* What is left to show of a step that leaves the tables as they are.
<1>a. ASSUME NEW w2 \in OpenerType, Known(w2), opener' = [opener EXCEPT ![o] = w2],
             UNCHANGED <<tables, columns>>, version' \in 0..Latest,
             refused' \subseteq Targets, broken' \in BOOLEAN,
             spoilt' \subseteq {"together", "late", "gone", "killed"}
      PROVE  SchemaTypeInv'
  BY <1>a, <1>00, OpenerMoves DEF SchemaTypeInv, MigrationsTypeOK
<1>1. ASSUME NEW to \in Targets \cup {Latest}, Opens(o, to)
      PROVE  SchemaTypeInv'
  <2> DEFINE w2 == [pc |-> "opening", fresh |-> "events" \notin tables, to |-> to]
  <2>1. w2 \in OpenerType /\ Known(w2)
    BY DEF OpenerType, Goals, Known
  <2>2. /\ opener' = [opener EXCEPT ![o] = w2]
        /\ UNCHANGED <<tables, columns, version, refused, broken>>
        /\ spoilt' \subseteq spoilt \cup {"together"}
    BY <1>1 DEF Opens
  <2> HIDE DEF w2
  <2> QED BY <1>00, <1>a, <2>1, <2>2
<1>2. CASE CreateAll(o)
  <2> DEFINE w2 == [pc |-> "building", missing |-> ModelTables \ tables, fresh |-> w.fresh, to |-> w.to]
  <2>1. /\ w.pc = "opening" /\ opener' = [opener EXCEPT ![o] = w2]
        /\ UNCHANGED <<tables, columns, version, refused, broken, spoilt>>
    BY <1>2 DEF CreateAll
  <2>2. w \in [pc : {"opening"}, fresh : BOOLEAN, to : Goals]
    BY <1>0, <2>1, AtIt
  <2>3. w2 \in OpenerType /\ Known(w2)
    BY <2>2 DEF OpenerType, Known
  <2> HIDE DEF w2
  <2> QED BY <1>00, <1>a, <2>1, <2>3
<1>2b. CASE CreateTable(o)
  <2>1. PICK t \in w.missing :
          /\ w.pc = "building"
          /\ \/ /\ broken' = TRUE /\ opener' = [opener EXCEPT ![o] = Shut]
                /\ UNCHANGED <<tables, columns, spoilt>>
             \/ /\ tables' = tables \cup {t} /\ columns' = columns \cup ShapeAt({t}, Latest)
                /\ opener' = [opener EXCEPT ![o].missing = @ \ {t}]
                /\ spoilt' \subseteq spoilt \cup {"late"} /\ UNCHANGED broken
          /\ UNCHANGED <<version, refused>>
    BY <1>2b DEF CreateTable
  <2>2. w \in [pc : {"building"}, missing : SUBSET ModelTables, fresh : BOOLEAN, to : Goals]
    BY <1>0, <2>1, AtIt
  <2> DEFINE w2 == [w EXCEPT !.missing = @ \ {t}]
  <2>3. w2 \in OpenerType /\ Known(w2)
    <3>1. w2 \in [pc : {"building"}, missing : SUBSET ModelTables, fresh : BOOLEAN, to : Goals]
      BY <2>2
    <3>2. w2.pc # "running"
      BY <2>2
    <3> HIDE DEF w2
    <3> QED BY <3>1, <3>2 DEF OpenerType, Known
  <2>4. CASE opener' = [opener EXCEPT ![o] = Shut] /\ broken' = TRUE /\ UNCHANGED <<tables, columns, spoilt>>
    BY <1>0, <1>00, <1>a, <2>1, <2>4
  <2>5. CASE /\ tables' = tables \cup {t} /\ columns' = columns \cup ShapeAt({t}, Latest)
             /\ opener' = [opener EXCEPT ![o].missing = @ \ {t}]
             /\ spoilt' \subseteq spoilt \cup {"late"} /\ UNCHANGED broken
    <3>1. columns' \subseteq ShapeAt(tables', Latest)
      BY <1>00, <2>5, ShapeOfBoth
    <3>2. tables' \subseteq ModelTables \cup RetiredTables
      BY <1>00, <2>2, <2>5
    <3>3. opener' = [opener EXCEPT ![o] = w2]
      BY <2>5
    <3> HIDE DEF w2
    <3>4. /\ opener' \in [Openers -> OpenerType] /\ \A p \in Openers : Known(opener'[p])
          /\ \A p \in Openers :
                opener'[p].pc \in {"shut", "opening", "building", "going", "running"}
      BY <2>3, <3>3, OpenerMoves
    <3> QED BY <1>00, <2>1, <2>5, <3>1, <3>2, <3>4 DEF SchemaTypeInv, MigrationsTypeOK
  <2> QED BY <2>1, <2>4, <2>5
<1>3. CASE StampLatest(o)
  <2> DEFINE w2 == [pc |-> "going", to |-> w.to]
  <2>1. /\ w.pc = "building" /\ w.missing = {} /\ w.fresh
        /\ opener' = [opener EXCEPT ![o] = w2] /\ version' = Latest
        /\ UNCHANGED <<tables, columns, refused, broken, spoilt>>
    BY <1>3 DEF StampLatest, Built
  <2>2. w \in [pc : {"building"}, missing : SUBSET ModelTables, fresh : BOOLEAN, to : Goals]
    BY <1>0, <2>1, AtIt
  <2>3. w2 \in OpenerType /\ Known(w2)
    BY <2>2 DEF OpenerType, Known
  <2> HIDE DEF w2
  <2> QED BY <1>0, <1>00, <1>a, <2>1, <2>3
<1>4. CASE RunMigrations(o)
  <2>1. /\ w.pc = "building" /\ w.missing = {} /\ ~w.fresh
        /\ Executes(o, Upwards(version, Latest), w.to)
        /\ UNCHANGED <<tables, columns, version, refused, broken, spoilt>>
    BY <1>4 DEF RunMigrations, Built
  <2>2. w \in [pc : {"building"}, missing : SUBSET ModelTables, fresh : BOOLEAN, to : Goals]
    BY <1>0, <2>1, AtIt
  <2>3. Upwards(version, Latest) \in Seq(Script)
    BY <1>0, <1>00, ScriptsAreTyped
  <2> DEFINE s == Upwards(version, Latest)
             w2 == [pc |-> "running", left |-> s, to |-> w.to,
                    whole |-> IF s = <<>> THEN <<>> ELSE Head(s).does]
  <2>4. opener' = [opener EXCEPT ![o] = w2]
    BY <2>1 DEF Executes
  <2>5. w2 \in RunningType /\ w2.left = s
    BY <2>2, <2>3, Executing
  <2> HIDE DEF w2
  <2>6. Known(w2)
    BY <1>0, <1>00, <2>5, UpwardsAreKnown
  <2>7. w2 \in OpenerType
    BY <2>5 DEF OpenerType, RunningType
  <2> QED BY <1>00, <1>a, <2>1, <2>4, <2>6, <2>7
<1>5. CASE MigrateTo(o)
  <2> DEFINE to == w.to
             s == IF to < version THEN Downwards(version, to) ELSE Upwards(version, to)
             w2 == [pc |-> "running", left |-> s, to |-> Nowhere,
                    whole |-> IF s = <<>> THEN <<>> ELSE Head(s).does]
  <2>1. /\ w.pc = "going" /\ UNCHANGED <<tables, columns, version, broken>>
        /\ \/ /\ to < version /\ refused' = refused \cup {to} /\ opener' = [opener EXCEPT ![o] = Shut]
              /\ UNCHANGED spoilt
           \/ /\ opener' = [opener EXCEPT ![o] = w2] /\ spoilt' \subseteq spoilt \cup {"gone"}
              /\ UNCHANGED refused
    BY <1>5 DEF MigrateTo, Executes
  <2>2. w \in [pc : {"going"}, to : Goals]
    BY <1>0, <2>1, AtIt
  <2>3. to \in Goals /\ to \in 0..Latest /\ (to < version => to \in Targets)
    <3>1. to \in Goals
      BY <2>2
    <3> HIDE DEF to
    <3> QED BY <1>0, <1>00, <3>1 DEF Goals
  <2>4. s \in Seq(Script)
    <3> HIDE DEF to
    <3>1. (to < version => to <= version) /\ (~(to < version) => version <= to)
      BY <1>0, <1>00, <2>3
    <3>2. /\ to <= version => Downwards(version, to) \in Seq(Script)
          /\ version <= to => Upwards(version, to) \in Seq(Script)
      BY <1>00, <2>3, ScriptsAreTyped
    <3> QED BY <3>1, <3>2
  <2>5. w2 \in RunningType /\ w2.left = s
    <3>1. Nowhere \in Goals \cup {Nowhere}
      OBVIOUS
    <3> HIDE DEF s
    <3> QED BY <2>4, <3>1, Executing
  <2>6. w2 \in OpenerType /\ Known(w2)
    <3>1. \/ to <= version /\ s = Downwards(version, to)
          \/ version <= to /\ s = Upwards(version, to)
      BY <1>0, <1>00, <2>3
    <3> HIDE DEF w2, s, to
    <3>2. Known(w2)
      BY <1>00, <2>3, <2>5, <3>1, UpwardsAreKnown
    <3> QED BY <2>5, <3>2 DEF OpenerType, RunningType
  <2> HIDE DEF w2, s, to
  <2>7. CASE opener' = [opener EXCEPT ![o] = w2] /\ spoilt' \subseteq spoilt \cup {"gone"}
              /\ UNCHANGED refused
    BY <1>00, <1>a, <2>1, <2>6, <2>7
  <2>8. CASE to < version /\ refused' = refused \cup {to} /\ opener' = [opener EXCEPT ![o] = Shut]
              /\ UNCHANGED spoilt
    BY <1>0, <1>00, <1>a, <2>1, <2>3, <2>8
  <2> QED BY <2>1, <2>7, <2>8
<1>6. CASE SetVersion(o)
  <2> DEFINE s == Tail(w.left)
             w2 == [pc |-> "running", left |-> s, to |-> w.to,
                    whole |-> IF s = <<>> THEN <<>> ELSE Head(s).does]
  <2>1. /\ w.pc = "running" /\ w.left # <<>> /\ version' = Head(w.left).reaches
        /\ opener' = [opener EXCEPT ![o] = w2]
        /\ UNCHANGED <<tables, columns, refused, broken, spoilt>>
    BY <1>6 DEF SetVersion, Executes
  <2>2. w \in RunningType
    BY <1>0, <2>1, AtIt DEF RunningType
  <2>3. /\ s \in Seq(Script) /\ Len(s) = Len(w.left) - 1 /\ Len(w.left) \in Nat \ {0}
        /\ Head(w.left) = w.left[1] /\ w.left[1] \in Script
        /\ \A k \in 1..(Len(w.left) - 1) : s[k] = w.left[k + 1]
    BY <2>1, <2>2, OneScriptOn
  <2>4. w.to \in Goals \cup {Nowhere}
    BY <2>2 DEF RunningType
  <2>5. w2 \in RunningType /\ w2.left = s
    <3> HIDE DEF s
    <3> QED BY <2>3, <2>4, Executing
  <2> HIDE DEF w2, s
  <2>6. Known(w2)
    <3>1. \A k \in 1..Len(s) : k + 1 \in 1..Len(w.left) /\ s[k] = w.left[k + 1]
      BY <2>3
    <3> QED BY <1>0, <2>1, <2>5, <3>1 DEF Known
  <2>7. version' \in 0..Latest
    BY <2>1, <2>3 DEF Script
  <2>8. w2 \in OpenerType
    BY <2>5 DEF OpenerType, RunningType
  <2> QED BY <1>00, <1>a, <2>1, <2>6, <2>7, <2>8
<1>7. CASE Opened(o)
  <2> DEFINE w2 == IF w.to \in {Nowhere, version} THEN Shut ELSE [pc |-> "going", to |-> w.to]
  <2>1. /\ w.pc = "running" /\ opener' = [opener EXCEPT ![o] = w2]
        /\ UNCHANGED <<tables, columns, version, refused, broken, spoilt>>
    BY <1>7 DEF Opened
  <2>2. w \in RunningType
    BY <1>0, <2>1, AtIt DEF RunningType
  <2>3. w.to \in Goals \cup {Nowhere}
    BY <2>2 DEF RunningType
  <2>4. w2 \in OpenerType /\ Known(w2)
    BY <1>0, <2>3 DEF OpenerType, Known
  <2> HIDE DEF w2
  <2> QED BY <1>00, <1>a, <2>1, <2>4
<1>8. CASE Kill(o)
  <2>1. /\ opener' = [opener EXCEPT ![o] = Shut] /\ spoilt' \subseteq spoilt \cup {"killed"}
        /\ UNCHANGED <<tables, columns, version, refused, broken>>
    BY <1>8 DEF Kill
  <2> QED BY <1>0, <1>00, <1>a, <2>1
<1>9. CASE Statement(o)
  <2> DEFINE s == Head(Head(w.left).does)
             w2 == [w EXCEPT !.left[1].does = Tail(@)]
  <2>1. /\ w.pc = "running" /\ w.left # <<>> /\ Head(w.left).does # <<>>
        /\ UNCHANGED <<version, refused, spoilt>>
        /\ \/ /\ Possible(s)
              /\ columns' = CASE s.op = "add" -> columns \cup {<<s.table, s.column>>}
                              [] s.op = "drop" -> columns \ {<<s.table, s.column>>}
                              [] s.op = "drop table" -> {c \in columns : c[1] # s.table}
                              [] OTHER -> columns
              /\ tables' = IF s.op = "drop table" THEN tables \ {s.table} ELSE tables
              /\ opener' = [opener EXCEPT ![o].left[1].does = Tail(@)]
              /\ UNCHANGED broken
           \/ /\ broken' = TRUE /\ opener' = [opener EXCEPT ![o] = Shut]
              /\ UNCHANGED <<tables, columns>>
    BY <1>9 DEF Statement
  <2>2. w \in RunningType
    BY <1>0, <2>1, AtIt DEF RunningType
  <2>3. /\ w2 \in RunningType
        /\ Len(w2.left) = Len(w.left) /\ Len(w.left) \in Nat \ {0} /\ Head(w.left) = w.left[1]
        /\ w2.left[1].does = Tail(w.left[1].does)
        /\ w.left[1].does \in Seq(Statements) /\ w.left[1].does # <<>>
        /\ \A k \in 2..Len(w.left) : w2.left[k] = w.left[k]
    BY <2>1, <2>2, OneStatementOn
  <2>4. CASE broken' = TRUE /\ opener' = [opener EXCEPT ![o] = Shut] /\ UNCHANGED <<tables, columns>>
    BY <1>0, <1>00, <1>a, <2>1, <2>4
  <2>5. CASE /\ Possible(s)
             /\ columns' = CASE s.op = "add" -> columns \cup {<<s.table, s.column>>}
                              [] s.op = "drop" -> columns \ {<<s.table, s.column>>}
                              [] s.op = "drop table" -> {c \in columns : c[1] # s.table}
                              [] OTHER -> columns
             /\ tables' = IF s.op = "drop table" THEN tables \ {s.table} ELSE tables
             /\ opener' = [opener EXCEPT ![o].left[1].does = Tail(@)]
             /\ UNCHANGED broken
    <3>1. opener' = [opener EXCEPT ![o] = w2]
      BY <2>5
    <3>2. s = w.left[1].does[1] /\ 1 \in 1..Len(w.left[1].does) /\ 1 \in 1..Len(w.left)
      BY <2>3
    <3> HIDE DEF w2
    <3>3. Known(w2)
      <4> SUFFICES ASSUME NEW k \in 1..Len(w2.left), NEW j \in 1..Len(w2.left[k].does),
                          w2.left[k].does[j].op = "add"
                   PROVE  <<w2.left[k].does[j].table, w2.left[k].does[j].column>>
                            \in ShapeAt({w2.left[k].does[j].table}, Latest)
        BY DEF Known
      <4>1. CASE k = 1
        <5>1. j + 1 \in 1..Len(w.left[1].does) /\ w2.left[1].does[j] = w.left[1].does[j + 1]
          <6> DEFINE does == w.left[1].does
          <6>1. does \in Seq(Statements) /\ does # <<>> /\ j \in 1..Len(Tail(does))
            BY <2>3, <4>1
          <6>2. w2.left[1].does[j] = Tail(does)[j]
            BY <2>3
          <6> HIDE DEF does
          <6>3. j + 1 \in 1..Len(does) /\ Tail(does)[j] = does[j + 1]
            BY <6>1
          <6> QED BY <6>2, <6>3 DEF does
        <5> QED BY <1>0, <2>1, <3>2, <4>1, <5>1 DEF Known
      <4>2. CASE k # 1
        <5>1. k \in 2..Len(w.left) /\ k \in 1..Len(w.left)
          BY <2>3, <4>2
        <5> QED BY <1>0, <2>1, <2>3, <5>1 DEF Known
      <4> QED BY <4>1, <4>2
    <3>4. w2 \in OpenerType
      BY <2>3 DEF OpenerType, RunningType
    <3>5. /\ opener' \in [Openers -> OpenerType] /\ \A p \in Openers : Known(opener'[p])
          /\ \A p \in Openers :
                opener'[p].pc \in {"shut", "opening", "building", "going", "running"}
      BY <3>1, <3>3, <3>4, OpenerMoves
    <3>6. s.op = "add" => <<s.table, s.column>> \in ShapeAt({s.table}, Latest)
      BY <1>0, <2>1, <3>2 DEF Known
    <3>7. s \in Statements
      BY <2>3, <3>2
    <3> HIDE DEF s
    <3>8. columns' \subseteq ShapeAt(tables', Latest) /\ tables' \subseteq ModelTables \cup RetiredTables
      <4>1. CASE s.op = "add"
        <5>1. s.table \in tables
          BY <2>5, <4>1 DEF Possible
        <5>2. tables \cup {s.table} = tables
          BY <5>1
        <5>3. <<s.table, s.column>> \in ShapeAt(tables, Latest)
          BY <3>6, <4>1, <5>2, ShapeOfBoth
        <5> QED BY <1>00, <2>5, <4>1, <5>3
      <4>2. CASE s.op \in {"drop", "touch"}
        BY <1>00, <2>5, <4>2
      <4>3. CASE s.op = "drop table"
        <5>1. tables' = tables \ {s.table} /\ columns' = {c \in columns : c[1] # s.table}
          BY <2>5, <4>3
        <5>2. ASSUME NEW c \in columns, c[1] # s.table
              PROVE  c \in ShapeAt(tables \ {s.table}, Latest)
          <6>1. c \in ShapeAt(tables, Latest) /\ c[1] \in tables /\ c = <<c[1], c[2]>>
            BY <1>00, ShapesArePairs
          <6>2. <<c[1], c[2]>> \in ShapeAt(tables, Latest)
            BY <6>1
          <6>3. c[1] \in tables \ {s.table}
            BY <5>2, <6>1
          <6>4. <<c[1], c[2]>> \in ShapeAt(tables \ {s.table}, Latest)
            BY <6>2, <6>3, ShapeIs
          <6> QED BY <6>1, <6>4
        <5> QED BY <1>00, <5>1, <5>2
      <4> QED BY <3>7, <4>1, <4>2, <4>3 DEF Statements
    <3> QED BY <1>00, <2>1, <2>5, <3>5, <3>8 DEF SchemaTypeInv, MigrationsTypeOK
  <2> QED BY <2>1, <2>4, <2>5
<1> QED BY <1>1, <1>2, <1>2b, <1>3, <1>4, <1>5, <1>6, <1>7, <1>8, <1>9

(***************************************************************************)
(* The schema and what is remembered of it have their types, whatever      *)
(* stores and processes there are: no script adds a column to a table that *)
(* is gone, and a version is always one there is a script for.             *)
(***************************************************************************)
THEOREM SchemasAreTyped == MigrationsSpec => []MigrationsTypeOK
<1>1. SchemaTypeInv /\ [MigrationsNext]_schemaVars => SchemaTypeInv'
  <2>1. CASE UNCHANGED schemaVars
    BY <2>1 DEF schemaVars, SchemaTypeInv, MigrationsTypeOK
  <2> QED BY <2>1, SchemaTypeStep, Zenon DEF MigrationsNext
<1>2. SchemaTypeInv => MigrationsTypeOK
  BY DEF SchemaTypeInv
<1> QED BY <1>1, <1>2, SchemaTypeInit, PTL DEF MigrationsSpec

\* Whatever the scripts above a version alter is there, or create_all builds it.
WayUp(v, T) ==
  \A i \in (v + 1)..Latest : \A j \in DOMAIN MIGRATIONS[i] :
    MIGRATIONS[i][j].table \in T \cup ModelTables

\* Of the script, all but its first d statements are left to do.
Remains(does, script, d) ==
  /\ d \in 0..Len(script) /\ Len(does) = Len(script) - d
  /\ \A j \in 1..Len(does) : does[j] = script[d + j]

\* A process on its way up from version v, and what it has made of the columns C.
GoingUp(w, T, C, v) ==
  /\ ModelTables \subseteq T /\ WayUp(v, T) /\ v + Len(w.left) = Latest
  /\ \A k \in 1..Len(w.left) :
       /\ w.left[k].reaches = v + k
       /\ k > 1 => w.left[k].does = MIGRATIONS[v + k]
  /\ w.left = <<>> => C = ShapeAt(T, v)
  /\ w.left # <<>> =>
       /\ w.whole = MIGRATIONS[v + 1]
       /\ \E d \in 0..Len(w.whole) :
            /\ Remains(w.left[1].does, w.whole, d)
            /\ C = ShapeAt(T, v) \cup DoneBy(w.whole, d, "add")

\* The tables that scripts drop columns of, on the way down from v, n of them, are there.
DropsAreThere(v, n, T) ==
  \A i \in (v - n + 1)..v : \A j \in DOMAIN DOWNGRADES[i] :
    DOWNGRADES[i][j].op = "drop" => DOWNGRADES[i][j].table \in T

\* The same on its way down.
GoingDown(w, T, C, v) ==
  /\ w.to = Nowhere /\ Len(w.left) <= v
  /\ WayUp(v - Len(w.left), T) /\ DropsAreThere(v, Len(w.left), T)
  /\ \A k \in 1..Len(w.left) :
       /\ w.left[k].reaches = v - k
       /\ k > 1 => w.left[k].does = DOWNGRADES[v + 1 - k]
  /\ w.left = <<>> => C = ShapeAt(T, v)
  /\ w.left # <<>> =>
       /\ w.whole = DOWNGRADES[v]
       /\ \E d \in 0..Len(w.whole) :
            /\ Remains(w.left[1].does, w.whole, d)
            /\ C = ShapeAt(T, v) \ DoneBy(w.whole, d, "drop")

\* A store that nobody has begun to change: one without the audit trail is taken for new.
Rested(T, C, v) ==
  IF "events" \in T THEN C = ShapeAt(T, v) /\ WayUp(v, T)
                    ELSE C = ShapeAt(T, Latest) /\ T \subseteq ModelTables

AtWork(w, T, C, v) ==
  /\ w.pc = "opening" => Rested(T, C, v) /\ w.fresh = ("events" \notin T)
  /\ w.pc = "building" =>
       /\ w.missing = ModelTables \ T
       /\ w.fresh => C = ShapeAt(T, Latest) /\ T \subseteq ModelTables
       /\ ~w.fresh => "events" \in T /\ C = ShapeAt(T, v) /\ WayUp(v, T)
  /\ w.pc = "going" => v = Latest /\ C = ShapeAt(T, v)
  /\ w.pc = "running" => (GoingUp(w, T, C, v) \/ GoingDown(w, T, C, v))

-----------------------------------------------------------------------------

LEMMA WayUpFrom ==
  ASSUME NEW T, NEW v \in 0..Latest, NEW n \in 0..v, WayUp(n, T)
  PROVE  WayUp(v, T)
<1>1. \A i \in (v + 1)..Latest : i \in (n + 1)..Latest
  BY Scripts
<1> QED BY <1>1 DEF WayUp

LEMMA RemainsNext ==
  ASSUME NEW does \in Seq(Statements), NEW script \in Seq(Statements), NEW d,
         Remains(does, script, d), does # <<>>
  PROVE  /\ d \in Nat /\ d + 1 \in 1..Len(script) /\ does[1] = script[d + 1]
         /\ Remains(Tail(does), script, d + 1)
<1>1. /\ d \in 0..Len(script) /\ Len(does) = Len(script) - d /\ Len(does) \in Nat \ {0}
      /\ Len(script) \in Nat /\ \A j \in 1..Len(does) : does[j] = script[d + j]
  BY DEF Remains
<1>2. /\ Len(Tail(does)) = Len(does) - 1
      /\ \A j \in 1..(Len(does) - 1) : Tail(does)[j] = does[j + 1]
  OBVIOUS
<1>3. d \in Nat /\ d + 1 \in 1..Len(script) /\ does[1] = script[d + 1] /\ d + 1 \in 0..Len(script)
  BY <1>1
<1>4. ASSUME NEW j \in 1..(Len(does) - 1)
      PROVE  Tail(does)[j] = script[(d + 1) + j]
  <2>1. j + 1 \in 1..Len(does) /\ d + (j + 1) = (d + 1) + j
    BY <1>1
  <2> QED BY <1>1, <1>2, <2>1
<1> QED BY <1>1, <1>2, <1>3, <1>4 DEF Remains

LEMMA RemainsNone ==
  ASSUME NEW script \in Seq(Statements), NEW d, Remains(<<>>, script, d)
  PROVE  d = Len(script)
BY DEF Remains

LEMMA RemainsAll ==
  ASSUME NEW script \in Seq(Statements)
  PROVE  0 \in 0..Len(script) /\ Remains(script, script, 0)
BY DEF Remains

-----------------------------------------------------------------------------
(* The way up. *)

\* w2 is w with its next statement s done.
OneOn(w, w2, s) ==
  /\ w \in RunningType /\ w2 \in RunningType /\ w2.whole = w.whole /\ w2.to = w.to
  /\ w.left # <<>> /\ w.left[1].does # <<>> /\ s = w.left[1].does[1]
  /\ Len(w2.left) = Len(w.left) /\ w2.left[1].does = Tail(w.left[1].does)
  /\ w2.left[1].reaches = w.left[1].reaches
  /\ \A k \in 2..Len(w.left) : w2.left[k] = w.left[k]

LEMMA StatementUp ==
  ASSUME NEW T, NEW C, NEW v \in 0..Latest, NEW w, GoingUp(w, T, C, v),
         NEW w2, NEW s, OneOn(w, w2, s)
  PROVE  /\ s.op \in {"add", "touch"} /\ s.table \in T
         /\ s.op = "add" => /\ <<s.table, s.column>> \notin C
                            /\ GoingUp(w2, T, C \cup {<<s.table, s.column>>}, v)
         /\ s.op = "touch" => GoingUp(w2, T, C, v)
<1> DEFINE script == MIGRATIONS[v + 1]
           does == w.left[1].does
<1>0. /\ w \in RunningType /\ w2 \in RunningType /\ w2.whole = w.whole /\ w2.to = w.to
      /\ w.left # <<>> /\ w.left[1].does # <<>> /\ s = w.left[1].does[1]
      /\ Len(w2.left) = Len(w.left) /\ w2.left[1].does = Tail(w.left[1].does)
      /\ w2.left[1].reaches = w.left[1].reaches
      /\ \A k \in 2..Len(w.left) : w2.left[k] = w.left[k]
  BY DEF OneOn
<1>1. /\ w.left \in Seq(Script) /\ w2.left \in Seq(Script) /\ Len(w.left) \in Nat \ {0}
      /\ Latest \in Nat
  BY <1>0, Scripts DEF RunningType
<1>2. /\ ModelTables \subseteq T /\ WayUp(v, T) /\ v + Len(w.left) = Latest
      /\ \A k \in 1..Len(w.left) :
           w.left[k].reaches = v + k /\ (k > 1 => w.left[k].does = MIGRATIONS[v + k])
      /\ w.whole = script
  BY <1>0 DEF GoingUp
<1>3. v \in 0..(Latest - 1) /\ v + 1 \in 1..Latest /\ v + 1 \in (v + 1)..Latest
  BY <1>1, <1>2
<1>4. does \in Seq(Statements) /\ script \in Seq(Statements) /\ does # <<>>
  <2>1. w.left[1] \in Script
    BY <1>1
  <2> QED BY <1>0, <1>3, <2>1, Scripts DEF Script
<1>5. PICK d \in 0..Len(script) :
        Remains(does, script, d) /\ C = ShapeAt(T, v) \cup DoneBy(script, d, "add")
  BY <1>0, <1>2 DEF GoingUp
<1> HIDE DEF does
<1>6. d \in Nat /\ d + 1 \in 1..Len(script) /\ s = script[d + 1] /\ Remains(Tail(does), script, d + 1)
  <2>1. s = does[1]
    BY <1>0 DEF does
  <2> QED BY <1>4, <1>5, <2>1, RemainsNext
<1>7. d + 1 \in DOMAIN MIGRATIONS[v + 1]
  BY <1>4, <1>6
<1>8. s.op \in {"add", "touch"} /\ s.table \in T
  <2>1. s.op \in {"add", "touch"}
    BY <1>3, <1>6, <1>7, UpScripts
  <2>2. s.table \in T \cup ModelTables
    BY <1>2, <1>3, <1>6, <1>7 DEF WayUp
  <2> QED BY <1>2, <2>1, <2>2
\* One statement further, with the columns it has made.
<1>9. ASSUME NEW C2, C2 = ShapeAt(T, v) \cup DoneBy(script, d + 1, "add")
      PROVE  GoingUp(w2, T, C2, v)
  <2>1. w2.left # <<>> /\ w2.left[1].does = Tail(does) /\ d + 1 \in 0..Len(script) /\ w2.whole = script
    BY <1>0, <1>1, <1>2, <1>6 DEF does
  <2>2. ASSUME NEW k \in 1..Len(w2.left)
        PROVE  w2.left[k].reaches = v + k /\ (k > 1 => w2.left[k].does = MIGRATIONS[v + k])
    <3>1. k = 1 \/ (k \in 2..Len(w.left) /\ k \in 1..Len(w.left))
      BY <1>0, <1>1
    <3>2. 1 \in 1..Len(w.left)
      BY <1>1
    <3> QED BY <1>0, <1>2, <3>1, <3>2
  <2>3. \E n \in 0..Len(w2.whole) :
            /\ Remains(w2.left[1].does, w2.whole, n)
            /\ C2 = ShapeAt(T, v) \cup DoneBy(w2.whole, n, "add")
    BY <1>6, <1>9, <2>1
  <2> HIDE DEF script
  <2> QED BY <1>0, <1>2, <2>1, <2>2, <2>3 DEF GoingUp, script
<1>10. ASSUME s.op = "add"
       PROVE  /\ <<s.table, s.column>> \notin C
              /\ GoingUp(w2, T, C \cup {<<s.table, s.column>>}, v)
  <2>1. AddedBy(v + 1, d + 1, s.table, s.column)
    BY <1>6, <1>7, <1>10 DEF AddedBy
  <2>2. <<s.table, s.column>> \notin ShapeAt(T, v)
    BY <1>3, <2>1, NotYet
  <2>3. <<s.table, s.column>> \notin DoneBy(script, d, "add")
    <3> SUFFICES ASSUME <<s.table, s.column>> \in DoneBy(script, d, "add") PROVE FALSE
      OBVIOUS
    <3>1. PICK j \in 1..d : script[j].op = "add" /\ script[j].table = s.table
                              /\ script[j].column = s.column
      BY DoneIs
    <3>2. j \in DOMAIN MIGRATIONS[v + 1] /\ j # d + 1
      BY <1>4, <1>6, <3>1
    <3>3. AddedBy(v + 1, j, s.table, s.column)
      BY <3>1, <3>2 DEF AddedBy
    <3> QED BY <1>3, <2>1, <3>2, <3>3, AddedOnce
  <2>4. DoneBy(script, d + 1, "add") = DoneBy(script, d, "add") \cup {<<s.table, s.column>>}
    <3> HIDE DEF script
    <3>1. script[d + 1].op = "add"
      BY <1>6, <1>10
    <3>2. DoneBy(script, d + 1, "add")
            = DoneBy(script, d, "add") \cup {<<script[d + 1].table, script[d + 1].column>>}
      BY <1>6, <3>1, OneMoreDone
    <3> QED BY <1>6, <3>2
  <2> HIDE DEF script
  <2>5. C \cup {<<s.table, s.column>>} = ShapeAt(T, v) \cup DoneBy(script, d + 1, "add")
    BY <1>5, <2>4
  <2> QED BY <1>5, <1>9, <2>2, <2>3, <2>5
<1>11. ASSUME s.op = "touch"
       PROVE  GoingUp(w2, T, C, v)
  <2>1. DoneBy(script, d + 1, "add") = DoneBy(script, d, "add")
    BY <1>6, <1>11, OneMoreDone
  <2> QED BY <1>5, <1>9, <2>1
<1> QED BY <1>8, <1>10, <1>11

LEMMA ScriptDoneUp ==
  ASSUME NEW T, NEW C, NEW v \in 0..Latest, NEW w \in RunningType, GoingUp(w, T, C, v),
         w.left # <<>>, w.left[1].does = <<>>,
         NEW w2 \in RunningType, w2.left = Tail(w.left), w2.left # <<>> =>
           w2.whole = w2.left[1].does
  PROVE  /\ w.left[1].reaches = v + 1 /\ v + 1 \in 0..Latest
         /\ GoingUp(w2, T, C, v + 1)
<1> DEFINE script == MIGRATIONS[v + 1]
<1>1. /\ Tail(w.left) \in Seq(Script) /\ Len(Tail(w.left)) = Len(w.left) - 1
      /\ Len(w.left) \in Nat \ {0} /\ \A k \in 1..(Len(w.left) - 1) :
                                        Tail(w.left)[k] = w.left[k + 1]
      /\ Latest \in Nat
  BY OneScriptOn, Scripts
<1>2. /\ ModelTables \subseteq T /\ WayUp(v, T) /\ v + Len(w.left) = Latest
      /\ \A k \in 1..Len(w.left) :
           w.left[k].reaches = v + k /\ (k > 1 => w.left[k].does = MIGRATIONS[v + k])
      /\ w.whole = script
  BY DEF GoingUp
<1>3. v \in 0..(Latest - 1) /\ v + 1 \in 1..Latest /\ v + 1 \in 0..Latest /\ 1 \in 1..Len(w.left)
  BY <1>1, <1>2
<1>4. script \in Seq(Statements) /\ DOMAIN script = 1..Len(script)
  BY <1>3, Scripts
<1>5. C = ShapeAt(T, v + 1)
  <2>1. PICK d \in 0..Len(script) :
          Remains(<<>>, script, d) /\ C = ShapeAt(T, v) \cup DoneBy(script, d, "add")
    BY <1>2 DEF GoingUp
  <2>2. d = Len(script)
    BY <1>4, <2>1, RemainsNone
  <2>3. \A j \in DOMAIN MIGRATIONS[v + 1] : MIGRATIONS[v + 1][j].table \in T
    <3>1. v + 1 \in (v + 1)..Latest
      BY <1>3
    <3> QED BY <1>2, <3>1 DEF WayUp
  <2>4. ShapeAt(T, v) \cup DoneBy(MIGRATIONS[v + 1], Len(MIGRATIONS[v + 1]), "add")
          = ShapeAt(T, v + 1)
    BY <1>3, <2>3, ScriptUp
  <2> QED BY <2>1, <2>2, <2>4
<1>6. WayUp(v + 1, T)
  <2>1. v \in 0..(v + 1)
    BY <1>3
  <2> QED BY <1>2, <1>3, <2>1, WayUpFrom
<1>7. (v + 1) + Len(w2.left) = Latest
  <2> DEFINE n == Len(w.left)
             m == Len(w2.left)
  <2>1. m = n - 1 /\ n \in Nat /\ v + n = Latest /\ v \in Nat
    BY <1>1, <1>2
  <2> HIDE DEF m, n
  <2>2. (v + 1) + m = Latest
    BY <2>1
  <2> QED BY <2>2 DEF m
<1>8. ASSUME NEW k \in 1..Len(w2.left)
      PROVE  w2.left[k].reaches = (v + 1) + k /\ w2.left[k].does = MIGRATIONS[(v + 1) + k]
  <2>1. k + 1 \in 1..Len(w.left) /\ k + 1 > 1 /\ w2.left[k] = w.left[k + 1]
        /\ v + (k + 1) = (v + 1) + k
    BY <1>1
  <2> QED BY <1>2, <2>1
<1>9. w2.left # <<>> =>
        /\ w2.whole = MIGRATIONS[(v + 1) + 1] /\ w2.left[1].does = w2.whole
        /\ w2.whole \in Seq(Statements)
  <2>1. w2.left # <<>> => 1 \in 1..Len(w2.left)
    BY <1>1
  <2>2. w2.whole \in Seq(Statements)
    BY DEF RunningType
  <2> QED BY <1>8, <2>1, <2>2
<1>10. w2.left # <<>> =>
         \E d \in 0..Len(w2.whole) :
            /\ Remains(w2.left[1].does, w2.whole, d)
            /\ C = ShapeAt(T, v + 1) \cup DoneBy(w2.whole, d, "add")
  <2>1. DoneBy(w2.whole, 0, "add") = {}
    BY DoneNothing
  <2>2. C = ShapeAt(T, v + 1) \cup DoneBy(w2.whole, 0, "add")
    BY <1>5, <2>1
  <2> QED BY <1>9, <2>2, RemainsAll
<1>11. w.left[1].reaches = v + 1
  BY <1>2, <1>3
<1> QED BY <1>2, <1>3, <1>5, <1>6, <1>7, <1>8, <1>9, <1>10, <1>11 DEF GoingUp

LEMMA StartUp ==
  ASSUME NEW T, NEW C, NEW v \in 0..Latest, NEW w \in RunningType, w.left = Upwards(v, Latest),
         w.left # <<>> => w.whole = w.left[1].does,
         ModelTables \subseteq T, WayUp(v, T), C = ShapeAt(T, v)
  PROVE  GoingUp(w, T, C, v)
<1>1. /\ Latest \in 0..Latest /\ v <= Latest /\ Latest \in Nat
  BY Scripts
<1>2. /\ Len(w.left) = Latest - v
      /\ \A k \in 1..(Latest - v) : w.left[k] = [does |-> MIGRATIONS[v + k], reaches |-> v + k]
  <2>1. \A k \in 1..(Latest - v) :
          Upwards(v, Latest)[k] = [does |-> MIGRATIONS[v + k], reaches |-> v + k]
    BY <1>1, ScriptsAreTyped, Zenon
  <2>2. Len(Upwards(v, Latest)) = Latest - v
    BY <1>1, ScriptsAreTyped
  <2> QED BY <2>1, <2>2
<1>3. v + Len(w.left) = Latest
  BY <1>1, <1>2
<1>4. \A k \in 1..Len(w.left) : w.left[k].reaches = v + k /\ w.left[k].does = MIGRATIONS[v + k]
  BY <1>2
<1>5. w.left # <<>> =>
        /\ w.whole = MIGRATIONS[v + 1] /\ w.left[1].does = w.whole
        /\ w.whole \in Seq(Statements)
  <2>1. w.left # <<>> => 1 \in 1..Len(w.left)
    BY DEF RunningType
  <2>2. w.whole \in Seq(Statements)
    BY DEF RunningType
  <2> QED BY <1>4, <2>1, <2>2
<1>6. w.left # <<>> =>
        \E d \in 0..Len(w.whole) :
            /\ Remains(w.left[1].does, w.whole, d)
            /\ C = ShapeAt(T, v) \cup DoneBy(w.whole, d, "add")
  <2>1. DoneBy(w.whole, 0, "add") = {}
    BY DoneNothing
  <2>2. C = ShapeAt(T, v) \cup DoneBy(w.whole, 0, "add")
    BY <2>1
  <2> QED BY <1>5, <2>2, RemainsAll
<1> QED BY <1>3, <1>4, <1>5, <1>6 DEF GoingUp

-----------------------------------------------------------------------------
(* The way down. *)

LEMMA ScriptsUpTo ==
  ASSUME NEW v \in 0..Latest
  PROVE  \A k \in 1..v : k \in 1..Latest
BY Scripts

\* A table that is dropped is none that scripts have altered.
LEMMA UnalteredTables ==
  ASSUME NEW T, NEW v \in 0..Latest, NEW t, NEW i \in 1..Latest, NEW j \in DOMAIN DOWNGRADES[i],
         DOWNGRADES[i][j].op = "drop table", DOWNGRADES[i][j].table = t
  PROVE  /\ t \in ModelTables \ {"events"} /\ ShapeAt(T \ {t}, v) = ShapeAt(T, v)
         /\ \A k \in 1..Latest : \A l \in DOMAIN DOWNGRADES[k] :
              DOWNGRADES[k][l].op = "drop" => DOWNGRADES[k][l].table # t
<1>1. /\ t \in ModelTables \ {"events"}
      /\ \A k \in 1..Latest : \A l \in DOMAIN MIGRATIONS[k] :
           MIGRATIONS[k][l].op = "add" => MIGRATIONS[k][l].table # t
  <2>1. DOWNGRADES[i][j].op # "drop"
    OBVIOUS
  <2> QED BY <2>1, DownScripts
<1>2. \A k \in 1..Latest : \A l, c : ~AddedBy(k, l, t, c)
  BY <1>1 DEF AddedBy
<1>3. ASSUME NEW k \in 1..Latest, NEW l \in DOMAIN DOWNGRADES[k], DOWNGRADES[k][l].op = "drop",
             DOWNGRADES[k][l].table = t
      PROVE  FALSE
  <2>1. \E j2 : AddedBy(k, j2, t, DOWNGRADES[k][l].column)
    BY <1>3, Mirrored
  <2> QED BY <1>2, <2>1
<1>4. \A u, c : <<u, c>> \in ShapeAt(T, v) <=> <<u, c>> \in ShapeAt(T \ {t}, v)
  <2> TAKE u, c
  <2>1. \A k \in 1..v : k \in 1..Latest
    BY ScriptsUpTo
  <2>2. u = t => ~(\E k \in 1..v : \E l : AddedBy(k, l, u, c))
    BY <1>2, <2>1
  <2>3. /\ <<u, c>> \in ShapeAt(T, v) <=> u \in T /\ \E k \in 1..v : \E l : AddedBy(k, l, u, c)
        /\ <<u, c>> \in ShapeAt(T \ {t}, v)
             <=> u \in T \ {t} /\ \E k \in 1..v : \E l : AddedBy(k, l, u, c)
    BY ShapeIs
  <2> QED BY <2>2, <2>3
<1>5. ShapeAt(T, v) = ShapeAt(T \ {t}, v)
  <2>1. \A x \in ShapeAt(T, v) : x = <<x[1], x[2]>>
    BY ShapesArePairs
  <2> QED BY <1>4, <2>1, SameShape
<1> QED BY <1>1, <1>3, <1>5

\* The columns that go with a table.
Without(C, t) == {c \in C : c[1] # t}

LEMMA StatementDown ==
  ASSUME NEW T, NEW C, NEW v \in 0..Latest, NEW w, GoingDown(w, T, C, v),
         NEW w2, NEW s, OneOn(w, w2, s)
  PROVE  \/ /\ s.op = "drop" /\ s.table \in T /\ <<s.table, s.column>> \in C
            /\ GoingDown(w2, T, C \ {<<s.table, s.column>>}, v)
         \/ /\ s.op = "drop table" /\ s.table \in ModelTables \ {"events"}
            /\ GoingDown(w2, T \ {s.table}, Without(C, s.table), v)
<1> DEFINE script == DOWNGRADES[v]
           does == w.left[1].does
           n == Len(w.left)
<1>0. /\ w \in RunningType /\ w2 \in RunningType /\ w2.whole = w.whole /\ w2.to = w.to
      /\ w.left # <<>> /\ w.left[1].does # <<>> /\ s = w.left[1].does[1]
      /\ Len(w2.left) = Len(w.left) /\ w2.left[1].does = Tail(w.left[1].does)
      /\ w2.left[1].reaches = w.left[1].reaches
      /\ \A k \in 2..Len(w.left) : w2.left[k] = w.left[k]
  BY DEF OneOn
<1>1. w.left \in Seq(Script) /\ w2.left \in Seq(Script) /\ n \in Nat \ {0} /\ Latest \in Nat
  BY <1>0, Scripts DEF RunningType
<1>2. /\ w.to = Nowhere /\ n <= v /\ WayUp(v - n, T) /\ DropsAreThere(v, n, T)
      /\ \A k \in 1..n :
           w.left[k].reaches = v - k /\ (k > 1 => w.left[k].does = DOWNGRADES[v + 1 - k])
      /\ w.whole = script
  BY <1>0 DEF GoingDown
<1>3. v \in 1..Latest /\ v \in (v - n + 1)..v /\ v - n \in 0..Latest
  BY <1>1, <1>2
<1>4. does \in Seq(Statements) /\ script \in Seq(Statements) /\ does # <<>>
  <2>1. w.left[1] \in Script
    BY <1>1
  <2> QED BY <1>0, <1>3, <2>1, Scripts DEF Script
<1>5. PICK d \in 0..Len(script) :
        Remains(does, script, d) /\ C = ShapeAt(T, v) \ DoneBy(script, d, "drop")
  BY <1>0, <1>2 DEF GoingDown
<1> HIDE DEF does
<1>6. d \in Nat /\ d + 1 \in 1..Len(script) /\ s = script[d + 1] /\ Remains(Tail(does), script, d + 1)
  <2>1. s = does[1]
    BY <1>0 DEF does
  <2> QED BY <1>4, <1>5, <2>1, RemainsNext
<1>7. d + 1 \in DOMAIN DOWNGRADES[v]
  BY <1>4, <1>6
<1>8. /\ s.op \in {"drop", "drop table"}
      /\ s.op = "drop" => \A l \in DOMAIN DOWNGRADES[v] : DOWNGRADES[v][l] = s => l = d + 1
  <2> DEFINE m == d + 1
  <2>1. m \in DOMAIN DOWNGRADES[v] /\ s = DOWNGRADES[v][m]
    BY <1>6, <1>7
  <2> HIDE DEF m, script
  <2>2. \/ /\ DOWNGRADES[v][m].op = "drop"
           /\ \A l \in DOMAIN DOWNGRADES[v] : DOWNGRADES[v][l] = DOWNGRADES[v][m] => l = m
        \/ DOWNGRADES[v][m].op = "drop table"
    BY <1>3, <2>1, DownScripts, Zenon
  <2>3. m = d + 1
    BY DEF m
  <2> QED BY <2>1, <2>2, <2>3
\* One statement further, with the tables and the columns it leaves.
<1>9. ASSUME NEW T2, NEW C2, C2 = ShapeAt(T2, v) \ DoneBy(script, d + 1, "drop"),
             WayUp(v - n, T2), DropsAreThere(v, n, T2)
      PROVE  GoingDown(w2, T2, C2, v)
  <2>1. /\ w2.left # <<>> /\ w2.left[1].does = Tail(does) /\ d + 1 \in 0..Len(script)
        /\ w2.whole = script /\ Len(w2.left) = n /\ w2.to = Nowhere
    BY <1>0, <1>1, <1>2, <1>6 DEF does
  <2>2. ASSUME NEW k \in 1..n
        PROVE  w2.left[k].reaches = v - k /\ (k > 1 => w2.left[k].does = DOWNGRADES[v + 1 - k])
    <3>1. k = 1 \/ (k \in 2..n /\ k \in 1..n)
      BY <1>1
    <3>2. 1 \in 1..n
      BY <1>1
    <3> QED BY <1>0, <1>2, <3>1, <3>2
  <2>3. \E m \in 0..Len(w2.whole) :
            /\ Remains(w2.left[1].does, w2.whole, m)
            /\ C2 = ShapeAt(T2, v) \ DoneBy(w2.whole, m, "drop")
    BY <1>6, <1>9, <2>1
  <2> HIDE DEF script, n
  <2> QED BY <1>0, <1>2, <1>9, <2>1, <2>2, <2>3 DEF GoingDown, script
<1>10. ASSUME s.op = "drop"
       PROVE  /\ s.table \in T /\ <<s.table, s.column>> \in C
              /\ GoingDown(w2, T, C \ {<<s.table, s.column>>}, v)
  <2>1. s.table \in T
    BY <1>2, <1>3, <1>6, <1>7, <1>10 DEF DropsAreThere
  <2>2. \E j : AddedBy(v, j, s.table, s.column)
    <3>1. \E l \in DOMAIN DOWNGRADES[v] :
            /\ DOWNGRADES[v][l].op = "drop" /\ DOWNGRADES[v][l].table = s.table
            /\ DOWNGRADES[v][l].column = s.column
      BY <1>6, <1>7, <1>10
    <3> QED BY <1>3, <3>1, Mirrored
  <2>3. <<s.table, s.column>> \in ShapeAt(T, v)
    <3>1. v \in 1..v
      BY <1>3
    <3> QED BY <2>1, <2>2, <3>1, ShapeIs
  <2>4. <<s.table, s.column>> \notin DoneBy(script, d, "drop")
    <3> SUFFICES ASSUME <<s.table, s.column>> \in DoneBy(script, d, "drop") PROVE FALSE
      OBVIOUS
    <3>1. PICK j \in 1..d : script[j].op = "drop" /\ script[j].table = s.table
                              /\ script[j].column = s.column
      BY DoneIs
    <3>2. j \in DOMAIN DOWNGRADES[v] /\ j # d + 1
      BY <1>4, <1>6, <3>1
    <3>3. script[j] \in Statements /\ s \in Statements
      BY <1>4, <1>6, <1>7, <3>2
    <3>4. script[j] = s
      BY <1>10, <3>1, <3>3, SameStatement
    <3> QED BY <1>8, <1>10, <3>2, <3>4
  <2>5. DoneBy(script, d + 1, "drop") = DoneBy(script, d, "drop") \cup {<<s.table, s.column>>}
    <3> HIDE DEF script
    <3>1. script[d + 1].op = "drop"
      BY <1>6, <1>10
    <3>2. DoneBy(script, d + 1, "drop")
            = DoneBy(script, d, "drop") \cup {<<script[d + 1].table, script[d + 1].column>>}
      BY <1>6, <3>1, OneMoreDone
    <3> QED BY <1>6, <3>2
  <2> HIDE DEF script
  <2>6. C \ {<<s.table, s.column>>} = ShapeAt(T, v) \ DoneBy(script, d + 1, "drop")
    BY <1>5, <2>5
  <2> QED BY <1>2, <1>5, <1>9, <2>1, <2>3, <2>4, <2>6
<1>11. ASSUME s.op = "drop table"
       PROVE  /\ s.table \in ModelTables \ {"events"}
              /\ GoingDown(w2, T \ {s.table}, Without(C, s.table), v)
  <2> DEFINE t == s.table
             T2 == T \ {t}
  <2>1. /\ t \in ModelTables \ {"events"} /\ ShapeAt(T2, v) = ShapeAt(T, v)
        /\ \A k \in 1..Latest : \A l \in DOMAIN DOWNGRADES[k] :
             DOWNGRADES[k][l].op = "drop" => DOWNGRADES[k][l].table # t
    <3> DEFINE m == d + 1
    <3>1. m \in DOMAIN DOWNGRADES[v] /\ DOWNGRADES[v][m].op = "drop table"
          /\ DOWNGRADES[v][m].table = t
      BY <1>6, <1>7, <1>11
    <3> HIDE DEF m, t, script
    <3> QED BY <1>3, <3>1, UnalteredTables DEF T2
  <2>2. Without(C, t) = C
    <3>1. \A c \in C : c \in ShapeAt(T2, v)
      BY <1>5, <2>1
    <3>2. \A c \in C : c[1] \in T2
      BY <3>1, ShapesArePairs
    <3> QED BY <3>2 DEF Without
  <2>3. DoneBy(script, d + 1, "drop") = DoneBy(script, d, "drop")
    <3> HIDE DEF script
    <3>1. script[d + 1].op # "drop"
      BY <1>6, <1>11
    <3> QED BY <1>6, <3>1, OneMoreDone
  <2>4. WayUp(v - n, T2)
    <3>1. T2 \cup ModelTables = T \cup ModelTables
      BY <2>1
    <3> HIDE DEF T2
    <3> QED BY <1>2, <3>1 DEF WayUp
  <2>5. DropsAreThere(v, n, T2)
    <3> SUFFICES ASSUME NEW i \in (v - n + 1)..v, NEW j \in DOMAIN DOWNGRADES[i],
                        DOWNGRADES[i][j].op = "drop"
                 PROVE  DOWNGRADES[i][j].table \in T2
      BY DEF DropsAreThere
    <3>1. DOWNGRADES[i][j].table \in T
      BY <1>2 DEF DropsAreThere
    <3>2. i \in 1..Latest
      BY <1>1, <1>2, <1>3
    <3> QED BY <2>1, <3>1, <3>2
  <2> HIDE DEF script, T2, t
  <2>6. Without(C, t) = ShapeAt(T2, v) \ DoneBy(script, d + 1, "drop")
    BY <1>5, <2>1, <2>2, <2>3
  <2>7. GoingDown(w2, T2, Without(C, t), v)
    BY <1>9, <2>4, <2>5, <2>6
  <2> QED BY <2>1, <2>7 DEF t, T2
<1> QED BY <1>8, <1>10, <1>11

LEMMA ScriptDoneDown ==
  ASSUME NEW T, NEW C, NEW v \in 0..Latest, NEW w \in RunningType, GoingDown(w, T, C, v),
         w.left # <<>>, w.left[1].does = <<>>,
         NEW w2 \in RunningType, w2.left = Tail(w.left), w2.to = w.to,
         w2.left # <<>> => w2.whole = w2.left[1].does
  PROVE  /\ w.left[1].reaches = v - 1 /\ v - 1 \in 0..Latest
         /\ GoingDown(w2, T, C, v - 1)
<1> DEFINE script == DOWNGRADES[v]
           n == Len(w.left)
<1>1. /\ Tail(w.left) \in Seq(Script) /\ Len(Tail(w.left)) = n - 1
      /\ n \in Nat \ {0} /\ \A k \in 1..(n - 1) : Tail(w.left)[k] = w.left[k + 1]
      /\ Latest \in Nat
  BY OneScriptOn, Scripts
<1>2. /\ w.to = Nowhere /\ n <= v /\ WayUp(v - n, T) /\ DropsAreThere(v, n, T)
      /\ \A k \in 1..n :
           w.left[k].reaches = v - k /\ (k > 1 => w.left[k].does = DOWNGRADES[v + 1 - k])
      /\ w.whole = script
  BY DEF GoingDown
<1>3. /\ v \in 1..Latest /\ v - 1 \in 0..Latest /\ 1 \in 1..n /\ Len(w2.left) = n - 1
      /\ Len(w2.left) <= v - 1 /\ (v - 1) - Len(w2.left) = v - n
  <2>1. Len(w2.left) = n - 1
    BY <1>1
  <2>2. n \in Nat \ {0} /\ n <= v /\ Latest \in Nat
    BY <1>1, <1>2
  <2> DEFINE m == Len(w2.left)
  <2>3. m = n - 1
    BY <2>1
  <2> HIDE DEF n, m
  <2>4. /\ v \in 1..Latest /\ v - 1 \in 0..Latest /\ 1 \in 1..n
        /\ m <= v - 1 /\ (v - 1) - m = v - n
    BY <2>2, <2>3
  <2> QED BY <2>3, <2>4 DEF m
<1>4. script \in Seq(Statements)
  BY <1>3, Scripts
<1>5. C = ShapeAt(T, v - 1)
  <2>1. PICK d \in 0..Len(script) :
          Remains(<<>>, script, d) /\ C = ShapeAt(T, v) \ DoneBy(script, d, "drop")
    BY <1>2 DEF GoingDown
  <2>2. d = Len(script)
    BY <1>4, <2>1, RemainsNone
  <2> QED BY <1>3, <2>1, <2>2, ScriptDown
<1>6. DropsAreThere(v - 1, Len(w2.left), T)
  <2>1. ((v - 1) - Len(w2.left) + 1)..(v - 1) \subseteq (v - n + 1)..v
    <3> DEFINE m == Len(w2.left)
    <3>1. n \in Nat \ {0} /\ n <= v /\ m = n - 1 /\ v \in Nat
      BY <1>1, <1>2, <1>3
    <3> HIDE DEF n, m
    <3>2. ((v - 1) - m + 1)..(v - 1) \subseteq (v - n + 1)..v
      BY <3>1
    <3> QED BY <3>2 DEF m
  <2> QED BY <1>2, <2>1 DEF DropsAreThere
<1>7. WayUp((v - 1) - Len(w2.left), T)
  BY <1>2, <1>3
<1>8. ASSUME NEW k \in 1..Len(w2.left)
      PROVE  w2.left[k].reaches = (v - 1) - k /\ w2.left[k].does = DOWNGRADES[(v - 1) + 1 - k]
  <2>1. n \in Nat \ {0} /\ k \in 1..(n - 1) /\ v \in Nat
    BY <1>1, <1>3
  <2>2. w2.left[k] = w.left[k + 1]
    BY <1>1, <2>1
  <2> HIDE DEF n
  <2>3. k + 1 \in 1..n /\ k + 1 > 1
        /\ v - (k + 1) = (v - 1) - k /\ v + 1 - (k + 1) = (v - 1) + 1 - k
    BY <2>1
  <2> QED BY <1>2, <2>2, <2>3
<1>9. w2.left # <<>> =>
        /\ w2.whole = DOWNGRADES[v - 1] /\ w2.left[1].does = w2.whole
        /\ w2.whole \in Seq(Statements)
  <2>1. w2.left # <<>> => 1 \in 1..Len(w2.left)
    BY <1>1
  <2>2. w2.whole \in Seq(Statements)
    BY DEF RunningType
  <2>3. (v - 1) + 1 - 1 = v - 1
    BY <1>3
  <2> QED BY <1>8, <2>1, <2>2, <2>3
<1>10. w2.left # <<>> =>
         \E d \in 0..Len(w2.whole) :
            /\ Remains(w2.left[1].does, w2.whole, d)
            /\ C = ShapeAt(T, v - 1) \ DoneBy(w2.whole, d, "drop")
  <2>1. DoneBy(w2.whole, 0, "drop") = {}
    BY DoneNothing
  <2>2. C = ShapeAt(T, v - 1) \ DoneBy(w2.whole, 0, "drop")
    BY <1>5, <2>1
  <2> QED BY <1>9, <2>2, RemainsAll
<1>11. w.left[1].reaches = v - 1
  BY <1>2, <1>3
<1> QED BY <1>2, <1>3, <1>5, <1>6, <1>7, <1>8, <1>9, <1>10, <1>11 DEF GoingDown

LEMMA StartDown ==
  ASSUME NEW T, NEW C, NEW v \in 0..Latest, NEW to \in 0..v, NEW w \in RunningType,
         w.left = Downwards(v, to), w.left # <<>> => w.whole = w.left[1].does, w.to = Nowhere,
         WayUp(to, T), DropsAreThere(v, v - to, T), C = ShapeAt(T, v)
  PROVE  GoingDown(w, T, C, v)
<1>1. to \in 0..Latest /\ to <= v /\ Latest \in Nat
  BY Scripts
<1>2. /\ Len(w.left) = v - to
      /\ \A k \in 1..(v - to) : w.left[k] = [does |-> DOWNGRADES[v + 1 - k], reaches |-> v - k]
  <2>1. \A k \in 1..(v - to) :
          Downwards(v, to)[k] = [does |-> DOWNGRADES[v + 1 - k], reaches |-> v - k]
    BY <1>1, ScriptsAreTyped, Zenon
  <2>2. Len(Downwards(v, to)) = v - to
    BY <1>1, ScriptsAreTyped
  <2> QED BY <2>1, <2>2
<1>3. Len(w.left) <= v /\ v - Len(w.left) = to
  BY <1>1, <1>2
<1>4. \A k \in 1..Len(w.left) : w.left[k].reaches = v - k /\ w.left[k].does = DOWNGRADES[v + 1 - k]
  <2> SUFFICES ASSUME NEW k \in 1..Len(w.left)
               PROVE  w.left[k].reaches = v - k /\ w.left[k].does = DOWNGRADES[v + 1 - k]
    OBVIOUS
  <2>1. w.left[k] = [does |-> DOWNGRADES[v + 1 - k], reaches |-> v - k]
    BY <1>2
  <2> QED BY <2>1
<1>5. w.left # <<>> =>
        /\ w.whole = DOWNGRADES[v] /\ w.left[1].does = w.whole
        /\ w.whole \in Seq(Statements)
  <2>1. w.left # <<>> => 1 \in 1..Len(w.left)
    BY DEF RunningType
  <2>2. w.whole \in Seq(Statements)
    BY DEF RunningType
  <2>3. v + 1 - 1 = v
    OBVIOUS
  <2> QED BY <1>4, <2>1, <2>2, <2>3
<1>6. w.left # <<>> =>
        \E d \in 0..Len(w.whole) :
            /\ Remains(w.left[1].does, w.whole, d)
            /\ C = ShapeAt(T, v) \ DoneBy(w.whole, d, "drop")
  <2>1. DoneBy(w.whole, 0, "drop") = {}
    BY DoneNothing
  <2>2. C = ShapeAt(T, v) \ DoneBy(w.whole, 0, "drop")
    BY <2>1
  <2> QED BY <1>5, <2>2, RemainsAll
<1> QED BY <1>2, <1>3, <1>4, <1>5, <1>6 DEF GoingDown

\* Where nothing is missing on the way down to a version, there is a way up from it again.
LEMMA WayBack ==
  ASSUME NEW T, NEW to \in 0..Latest, DropsAreThere(Latest, Latest - to, T),
         \A i \in (to + 1)..Latest : \A j \in DOMAIN MIGRATIONS[i] :
           MIGRATIONS[i][j].op = "touch" => MIGRATIONS[i][j].table \in T
  PROVE  WayUp(to, T)
<1> SUFFICES ASSUME NEW i \in (to + 1)..Latest, NEW j \in DOMAIN MIGRATIONS[i]
             PROVE  MIGRATIONS[i][j].table \in T
  BY DEF WayUp
<1>1. i \in 1..Latest /\ i \in (Latest - (Latest - to) + 1)..Latest
  BY Scripts
<1>2. CASE MIGRATIONS[i][j].op = "touch"
  BY <1>2
<1>3. CASE MIGRATIONS[i][j].op = "add"
  <2>1. AddedBy(i, j, MIGRATIONS[i][j].table, MIGRATIONS[i][j].column)
    BY <1>3 DEF AddedBy
  <2>2. PICK l \in DOMAIN DOWNGRADES[i] :
          DOWNGRADES[i][l].op = "drop" /\ DOWNGRADES[i][l].table = MIGRATIONS[i][j].table
    BY <1>1, <2>1, Mirrored
  <2> QED BY <1>1, <2>2 DEF DropsAreThere
<1> QED BY <1>1, <1>2, <1>3, UpScripts

-----------------------------------------------------------------------------
(***************************************************************************)
(* Unless it is spoilt: one process at a time is at the store, and the     *)
(* columns are those of the version and of what it has run of its script.  *)
(***************************************************************************)
TellsInv ==
  spoilt = {} =>
    /\ broken = FALSE
    /\ \A o \in Openers : opener[o].pc \in {"going", "running"} => "events" \in tables
    /\ \A o \in Openers : \A p \in Openers \ {o} : opener[o] = Shut \/ opener[p] = Shut
    /\ (\A o \in Openers : opener[o] = Shut) => Rested(tables, columns, version)
    /\ \A o \in Openers : opener[o] # Shut => AtWork(opener[o], tables, columns, version)

\* The one that moves is the one that is at it.
LEMMA OneIsAtIt ==
  ASSUME SchemaTypeInv, NEW o \in Openers, NEW w2, opener' = [opener EXCEPT ![o] = w2],
         \A p \in Openers \ {o} : opener[p] = Shut,
         broken' = FALSE, w2 = Shut \/ w2.pc = "opening" \/ w2.pc = "building" \/ "events" \in tables',
         w2 = Shut => Rested(tables', columns', version'),
         w2 # Shut => AtWork(w2, tables', columns', version')
  PROVE  TellsInv'
<1>1. \A p \in Openers : opener'[p] = IF p = o THEN w2 ELSE opener[p]
  BY DEF SchemaTypeInv
<1>2. opener'[o] = w2 /\ \A p \in Openers \ {o} : opener'[p] = Shut
  BY <1>1
<1>3. \A p \in Openers : \A q \in Openers \ {p} : opener'[p] = Shut \/ opener'[q] = Shut
  BY <1>2
<1>4. (\A p \in Openers : opener'[p] = Shut) => Rested(tables', columns', version')
  BY <1>2
<1>5. \A p \in Openers : opener'[p] # Shut => AtWork(opener'[p], tables', columns', version')
  BY <1>2
<1>6. Shut.pc = "shut"
  BY DEF Shut
<1>7. \A p \in Openers : opener'[p].pc \in {"going", "running"} => "events" \in tables'
  BY <1>2, <1>6
<1> QED BY <1>3, <1>4, <1>5, <1>7 DEF TellsInv

LEMMA TellsInit ==
  ASSUME MigrationsInit
  PROVE  TellsInv
<1>1. PICK install \in Installs :
        /\ tables = install.tables /\ version = install.version
        /\ columns = ShapeAt(install.tables, install.version)
  BY DEF MigrationsInit
<1>2. \/ install.tables = {}
      \/ /\ "events" \in install.tables
         /\ \A i \in (install.version + 1)..Latest : \A j \in DOMAIN MIGRATIONS[i] :
              MIGRATIONS[i][j].table \in install.tables \cup ModelTables
  BY MigrationsAssumption
<1>3. broken = FALSE /\ opener = [p \in Openers |-> Shut]
  BY Zenon DEF MigrationsInit
<1>4. Rested(tables, columns, version)
  <2>1. CASE install.tables = {}
    <3>1. tables = {} /\ columns = ShapeAt({}, version)
      BY <1>1, <2>1
    <3>2. columns = ShapeAt(tables, Latest)
      BY <3>1, ShapeOfNone
    <3> QED BY <3>1, <3>2 DEF Rested
  <2>2. CASE install.tables # {}
    BY <1>1, <1>2, <2>2 DEF Rested, WayUp
  <2> QED BY <2>1, <2>2
<1>5. \A p \in Openers : opener[p] = Shut /\ opener[p].pc = "shut"
  BY <1>3 DEF Shut
<1> QED BY <1>1, <1>2, <1>3, <1>4, <1>5 DEF TellsInv

LEMMA TellsStep ==
  ASSUME SchemaTypeInv, TellsInv, NEW o \in Openers,
         \/ \E to \in Targets \cup {Latest} : Opens(o, to)
         \/ CreateAll(o) \/ CreateTable(o) \/ StampLatest(o) \/ RunMigrations(o) \/ MigrateTo(o)
         \/ Statement(o) \/ SetVersion(o) \/ Opened(o) \/ Kill(o)
  PROVE  TellsInv'
<1> DEFINE w == opener[o]
<1> SUFFICES ASSUME spoilt' = {} PROVE TellsInv'
  BY DEF TellsInv
<1>0. /\ w \in OpenerType /\ Shut.pc = "shut" /\ Latest \in Nat /\ Targets \subseteq 0..Latest
      /\ tables \subseteq ModelTables \cup RetiredTables /\ version \in 0..Latest
      /\ columns \subseteq ShapeAt(tables, Latest)
  <2>1. w \in OpenerType
    BY DEF SchemaTypeInv
  <2>2. Shut.pc = "shut"
    BY DEF Shut
  <2> QED BY <2>1, <2>2, Scripts, MigrationsAssumption DEF SchemaTypeInv, MigrationsTypeOK
\* What held before.
<1>a. ASSUME spoilt = {}
      PROVE  /\ broken = FALSE /\ (w.pc \in {"going", "running"} => "events" \in tables)
             /\ \A p \in Openers \ {o} : opener[o] = Shut \/ opener[p] = Shut
             /\ (\A p \in Openers : opener[p] = Shut) => Rested(tables, columns, version)
             /\ w # Shut => AtWork(w, tables, columns, version)
  BY <1>a DEF TellsInv
<1>b. ASSUME spoilt = {}, w.pc # "shut"
      PROVE  /\ broken = FALSE /\ (w.pc \in {"going", "running"} => "events" \in tables)
             /\ \A p \in Openers \ {o} : opener[p] = Shut
             /\ AtWork(w, tables, columns, version)
  <2>1. w # Shut
    BY <1>0, <1>b
  <2> QED BY <1>a, <1>b, <2>1
\* Nothing is done to the tables by one that goes on to something else.
<1>c. ASSUME spoilt = {}, w.pc # "shut", NEW w2, opener' = [opener EXCEPT ![o] = w2],
             broken' = broken, tables' = tables,
             w2 = Shut \/ w2.pc = "building" \/ "events" \in tables,
             w2 = Shut => Rested(tables', columns', version'),
             w2 # Shut => AtWork(w2, tables', columns', version')
      PROVE  TellsInv'
  <2>1. broken' = FALSE /\ (w2 = Shut \/ w2.pc = "building" \/ "events" \in tables')
        /\ \A p \in Openers \ {o} : opener[p] = Shut
    BY <1>b, <1>c
  <2> QED BY <1>c, <2>1, OneIsAtIt
<1>1. ASSUME NEW to \in Targets \cup {Latest}, Opens(o, to)
      PROVE  TellsInv'
  <2> DEFINE w2 == [pc |-> "opening", fresh |-> "events" \notin tables, to |-> to]
  <2>1. /\ opener' = [opener EXCEPT ![o] = w2] /\ UNCHANGED <<tables, columns, version, broken>>
        /\ opener[o] = Shut /\ spoilt = {}
        /\ ~(\E p \in Openers \ {o} : opener[p] # Shut)
    BY <1>1 DEF Opens
  <2>2. \A p \in Openers : opener[p] = Shut
    BY <2>1
  <2>3. broken = FALSE /\ Rested(tables, columns, version)
    BY <1>a, <2>1, <2>2
  <2>4. w2.pc = "opening" /\ w2.fresh = ("events" \notin tables)
    OBVIOUS
  <2> HIDE DEF w2
  <2>5. w2 # Shut /\ AtWork(w2, tables', columns', version')
    BY <1>0, <2>1, <2>3, <2>4 DEF AtWork
  <2> QED BY <2>1, <2>2, <2>3, <2>4, <2>5, OneIsAtIt
<1>2. CASE CreateAll(o)
  <2> DEFINE w2 == [pc |-> "building", missing |-> ModelTables \ tables, fresh |-> w.fresh, to |-> w.to]
  <2>1. /\ w.pc = "opening" /\ opener' = [opener EXCEPT ![o] = w2]
        /\ UNCHANGED <<tables, columns, version, broken>> /\ spoilt = {}
    BY <1>2 DEF CreateAll
  <2>2. Rested(tables, columns, version) /\ w.fresh = ("events" \notin tables)
    BY <1>b, <2>1 DEF AtWork
  <2>3. w2.pc = "building" /\ w2.missing = ModelTables \ tables /\ w2.fresh = w.fresh
    OBVIOUS
  <2> HIDE DEF w2
  <2>4. w2 # Shut
    BY <1>0, <2>3
  <2>5. w.fresh => columns = ShapeAt(tables, Latest) /\ tables \subseteq ModelTables
    BY <2>2 DEF Rested
  <2>6. ~w.fresh => "events" \in tables /\ columns = ShapeAt(tables, version) /\ WayUp(version, tables)
    BY <2>2 DEF Rested
  <2>7. AtWork(w2, tables', columns', version')
    BY <2>1, <2>3, <2>5, <2>6 DEF AtWork
  <2> QED BY <1>c, <2>1, <2>3, <2>4, <2>7
<1>2b. CASE CreateTable(o)
  <2>1. PICK t \in w.missing :
          /\ w.pc = "building" /\ version' = version /\ spoilt = {}
          /\ t \notin tables =>
               /\ tables' = tables \cup {t} /\ columns' = columns \cup ShapeAt({t}, Latest)
               /\ opener' = [opener EXCEPT ![o].missing = @ \ {t}] /\ broken' = broken
               /\ ~w.fresh => ShapeAt({t}, Latest) = ShapeAt({t}, version)
    BY <1>2b DEF CreateTable
  <2>2. w \in [pc : {"building"}, missing : SUBSET ModelTables, fresh : BOOLEAN, to : Goals]
    BY <1>0, <2>1, AtIt
  <2>3. /\ broken = FALSE /\ \A p \in Openers \ {o} : opener[p] = Shut
        /\ w.missing = ModelTables \ tables
        /\ w.fresh => columns = ShapeAt(tables, Latest) /\ tables \subseteq ModelTables
        /\ ~w.fresh =>
             "events" \in tables /\ columns = ShapeAt(tables, version) /\ WayUp(version, tables)
    BY <1>b, <2>1 DEF AtWork
  <2> DEFINE w2 == [w EXCEPT !.missing = @ \ {t}]
  <2>4. w2.pc = "building" /\ w2.missing = w.missing \ {t} /\ w2.fresh = w.fresh
    BY <2>1, <2>2
  <2>5. /\ tables' = tables \cup {t} /\ columns' = columns \cup ShapeAt({t}, Latest)
        /\ opener' = [opener EXCEPT ![o] = w2] /\ broken' = broken
        /\ ~w.fresh => ShapeAt({t}, Latest) = ShapeAt({t}, version)
    BY <2>1, <2>3
  <2> HIDE DEF w2
  <2>6. w2 # Shut /\ w2.missing = ModelTables \ tables'
    BY <1>0, <2>3, <2>4, <2>5
  <2>7. ASSUME w.fresh
        PROVE  columns' = ShapeAt(tables', Latest) /\ tables' \subseteq ModelTables
    <3>1. ShapeAt(tables \cup {t}, Latest) = ShapeAt(tables, Latest) \cup ShapeAt({t}, Latest)
      BY ShapeOfBoth
    <3> QED BY <2>1, <2>3, <2>5, <2>7, <3>1
  <2>8. ASSUME ~w.fresh
        PROVE  "events" \in tables' /\ columns' = ShapeAt(tables', version) /\ WayUp(version, tables')
    <3>1. ShapeAt(tables \cup {t}, version) = ShapeAt(tables, version) \cup ShapeAt({t}, version)
      BY ShapeOfBoth
    <3>2. WayUp(version, tables')
      BY <2>3, <2>5, <2>8 DEF WayUp
    <3> QED BY <2>3, <2>5, <2>8, <3>1, <3>2
  <2>9. AtWork(w2, tables', columns', version')
    BY <2>1, <2>4, <2>6, <2>7, <2>8 DEF AtWork
  <2> QED BY <2>3, <2>4, <2>5, <2>6, <2>9, OneIsAtIt
<1>3. CASE StampLatest(o)
  <2> DEFINE w2 == [pc |-> "going", to |-> w.to]
  <2>1. /\ w.pc = "building" /\ w.missing = {} /\ w.fresh
        /\ opener' = [opener EXCEPT ![o] = w2] /\ version' = Latest
        /\ UNCHANGED <<tables, columns, broken>> /\ spoilt = {}
    BY <1>3 DEF StampLatest, Built
  <2>2. columns = ShapeAt(tables, Latest) /\ "events" \in tables
    <3>1. w.missing = ModelTables \ tables /\ columns = ShapeAt(tables, Latest)
      BY <1>b, <2>1 DEF AtWork
    <3> QED BY <2>1, <3>1 DEF ModelTables
  <2>3. w2.pc = "going"
    OBVIOUS
  <2> HIDE DEF w2
  <2>4. w2 # Shut /\ AtWork(w2, tables', columns', version')
    BY <1>0, <2>1, <2>2, <2>3 DEF AtWork
  <2> QED BY <1>c, <2>1, <2>2, <2>4
<1>4. CASE RunMigrations(o)
  <2>1. /\ w.pc = "building" /\ w.missing = {} /\ ~w.fresh
        /\ Executes(o, Upwards(version, Latest), w.to)
        /\ UNCHANGED <<tables, columns, version, broken>> /\ spoilt = {}
    BY <1>4 DEF RunMigrations, Built
  <2>2. w \in [pc : {"building"}, missing : SUBSET ModelTables, fresh : BOOLEAN, to : Goals]
    BY <1>0, <2>1, AtIt
  <2>3. Upwards(version, Latest) \in Seq(Script)
    <3>1. Latest \in 0..Latest /\ version <= Latest
      BY <1>0
    <3> QED BY <1>0, <3>1, ScriptsAreTyped
  <2> DEFINE s == Upwards(version, Latest)
             w2 == [pc |-> "running", left |-> s, to |-> w.to,
                    whole |-> IF s = <<>> THEN <<>> ELSE Head(s).does]
  <2>4. opener' = [opener EXCEPT ![o] = w2]
    BY <2>1 DEF Executes
  <2>5. w2 \in RunningType /\ w2.left = s /\ (s # <<>> => w2.whole = s[1].does)
    BY <2>2, <2>3, Executing
  <2>6. /\ columns = ShapeAt(tables, version) /\ ModelTables \subseteq tables
        /\ WayUp(version, tables) /\ "events" \in tables
    <3>1. /\ w.missing = ModelTables \ tables
          /\ "events" \in tables /\ columns = ShapeAt(tables, version) /\ WayUp(version, tables)
      BY <1>b, <2>1 DEF AtWork
    <3> QED BY <2>1, <3>1
  <2> HIDE DEF w2
  <2>7. GoingUp(w2, tables, columns, version)
    BY <1>0, <2>5, <2>6, StartUp
  <2>8. w2 # Shut /\ AtWork(w2, tables', columns', version')
    <3>1. w2.pc = "running"
      BY <2>5 DEF RunningType
    <3> QED BY <1>0, <2>1, <2>7, <3>1 DEF AtWork
  <2> QED BY <1>c, <2>1, <2>4, <2>6, <2>8
<1>5. CASE MigrateTo(o)
  <2> DEFINE to == w.to
             s == IF to < version THEN Downwards(version, to) ELSE Upwards(version, to)
             w2 == [pc |-> "running", left |-> s, to |-> Nowhere,
                    whole |-> IF s = <<>> THEN <<>> ELSE Head(s).does]
  <2>1. /\ w.pc = "going" /\ UNCHANGED <<tables, columns, version, broken>>
        /\ \/ opener' = [opener EXCEPT ![o] = Shut] /\ UNCHANGED spoilt
           \/ /\ opener' = [opener EXCEPT ![o] = w2] /\ spoilt = {}
              /\ to < version =>
                   MissingTables(Downwards(version, to)) = {} /\ ~NoWayBack(to)
    BY <1>5 DEF MigrateTo, Executes
  <2>2. spoilt = {}
    BY <2>1
  <2>3. version = Latest /\ columns = ShapeAt(tables, version) /\ "events" \in tables
    BY <1>b, <2>1, <2>2 DEF AtWork
  <2>4. w \in [pc : {"going"}, to : Goals]
    BY <1>0, <2>1, AtIt
  <2>5. to \in Goals /\ to \in 0..Latest
    <3>1. to \in Goals
      BY <2>4
    <3> HIDE DEF to
    <3> QED BY <1>0, <3>1 DEF Goals
  <2>6. s \in Seq(Script) /\ s = Downwards(version, to) /\ to \in 0..version
    <3> HIDE DEF to
    <3>1. to <= version /\ to \in 0..version /\ (~(to < version) => to = version)
      BY <1>0, <2>3, <2>5
    <3>2. Downwards(version, to) \in Seq(Script)
      BY <1>0, <2>5, <3>1, ScriptsAreTyped
    <3>3. to = version => Upwards(version, to) = Downwards(version, to)
      BY <1>0 DEF Upwards, Downwards
    <3> QED BY <3>1, <3>2, <3>3
  <2>7. w2 \in RunningType /\ w2.left = s /\ w2.to = Nowhere /\ (s # <<>> => w2.whole = s[1].does)
    <3>1. Nowhere \in Goals \cup {Nowhere}
      OBVIOUS
    <3> HIDE DEF s
    <3> QED BY <2>6, <3>1, Executing
  <2>8. WayUp(Latest, tables)
    BY <1>0 DEF WayUp
  <2>9. CASE opener' = [opener EXCEPT ![o] = Shut]
    <3>1. Rested(tables', columns', version')
      BY <2>1, <2>3, <2>8 DEF Rested
    <3> QED BY <1>c, <2>1, <2>2, <2>9, <3>1
  <2>10. CASE /\ opener' = [opener EXCEPT ![o] = w2]
              /\ to < version => MissingTables(Downwards(version, to)) = {} /\ ~NoWayBack(to)
    <3> HIDE DEF w2, s, to
    <3>1. ASSUME to < version
          PROVE  /\ DropsAreThere(version, version - to, tables)
                 /\ \A i \in (to + 1)..Latest : \A j \in DOMAIN MIGRATIONS[i] :
                      MIGRATIONS[i][j].op = "touch" => MIGRATIONS[i][j].table \in tables
      <4>1. MissingTables(Downwards(version, to)) = {} /\ ~NoWayBack(to)
        BY <2>10, <3>1
      <4>2. ASSUME NEW i \in (version - (version - to) + 1)..version,
                   NEW j \in DOMAIN DOWNGRADES[i],
                   DOWNGRADES[i][j].op = "drop"
            PROVE  DOWNGRADES[i][j].table \in tables
        <5> DEFINE k == version + 1 - i
        <5>1. i \in 1..Latest /\ k \in 1..(version - to) /\ version + 1 - k = i
          BY <1>0, <2>5, <2>6
        <5> HIDE DEF k
        <5>2. /\ Len(Downwards(version, to)) = version - to
              /\ Downwards(version, to) \in Seq(Script)
          <6>1. to <= version
            BY <2>6
          <6> QED BY <1>0, <2>5, <6>1, ScriptsAreTyped
        <5>3. Downwards(version, to)[k] = [does |-> DOWNGRADES[i], reaches |-> version - k]
          <6>1. \A n \in 1..(version - to) :
                  Downwards(version, to)[n] = [does |-> DOWNGRADES[version + 1 - n], reaches |-> version - n]
            BY <1>0, <2>5, ScriptsAreTyped, Zenon
          <6> QED BY <5>1, <6>1
        <5>4. k \in DOMAIN Downwards(version, to) /\ Downwards(version, to)[k].does = DOWNGRADES[i]
          BY <5>1, <5>2, <5>3
        <5>5. DOWNGRADES[i][j].table \in ModelTables \cup RetiredTables
          <6>1. DOWNGRADES[i][j] \in Statements
            BY <5>1, DownScripts
          <6> QED BY <6>1 DEF Statements
        <5>6. DOWNGRADES[i][j].op \in {"add", "drop"}
          BY <4>2
        <5> QED BY <4>1, <5>4, <5>5, <5>6 DEF MissingTables
      <4>3. DropsAreThere(version, version - to, tables)
        BY <4>2 DEF DropsAreThere
      <4> QED BY <4>1, <4>3 DEF NoWayBack
    <3>2. DropsAreThere(version, version - to, tables) /\ WayUp(to, tables)
      <4>1. CASE to < version
        BY <2>3, <2>5, <3>1, <4>1, WayBack
      <4>2. CASE ~(to < version)
        <5>1. to = version /\ version - to = 0
          BY <1>0, <2>5, <2>6, <4>2
        <5>2. \A i \in (version - 0 + 1)..version : FALSE
          BY <1>0
        <5> QED BY <2>3, <2>8, <5>1, <5>2 DEF DropsAreThere
      <4> QED BY <4>1, <4>2
    <3>3. GoingDown(w2, tables, columns, version)
      BY <1>0, <2>3, <2>6, <2>7, <3>2, StartDown
    <3>4. w2 # Shut /\ AtWork(w2, tables', columns', version')
      <4>1. w2.pc = "running"
        BY <2>7 DEF RunningType
      <4> QED BY <1>0, <2>1, <3>3, <4>1 DEF AtWork
    <3> QED BY <1>c, <2>1, <2>2, <2>3, <2>10, <3>4
  <2> QED BY <2>1, <2>9, <2>10
<1>6. CASE SetVersion(o)
  <2> DEFINE s == Tail(w.left)
             w2 == [pc |-> "running", left |-> s, to |-> w.to,
                    whole |-> IF s = <<>> THEN <<>> ELSE Head(s).does]
  <2>1. /\ w.pc = "running" /\ w.left # <<>> /\ Head(w.left).does = <<>>
        /\ version' = Head(w.left).reaches /\ opener' = [opener EXCEPT ![o] = w2]
        /\ UNCHANGED <<tables, columns, broken>> /\ spoilt = {}
    BY <1>6 DEF SetVersion, Executes
  <2>2. w \in RunningType
    BY <1>0, <2>1, AtIt DEF RunningType
  <2>3. /\ s \in Seq(Script) /\ Head(w.left) = w.left[1]
        /\ w.to \in Goals \cup {Nowhere}
    BY <2>1, <2>2, OneScriptOn DEF RunningType
  <2>4. /\ w2 \in RunningType /\ w2.left = s /\ w2.to = w.to
        /\ (s # <<>> => w2.whole = s[1].does)
    <3> HIDE DEF s
    <3> QED BY <2>3, Executing
  <2>5. /\ GoingUp(w, tables, columns, version) \/ GoingDown(w, tables, columns, version)
        /\ "events" \in tables
    BY <1>b, <2>1 DEF AtWork
  <2>6. w2.pc = "running" /\ w2 # Shut
    BY <1>0, <2>4 DEF RunningType
  <2> HIDE DEF w2
  <2>7. GoingUp(w2, tables, columns, version') \/ GoingDown(w2, tables, columns, version')
    <3>1. version' = w.left[1].reaches /\ w.left[1].does = <<>>
      BY <2>1, <2>3
    <3>2. CASE GoingUp(w, tables, columns, version)
      <4>1. w.left[1].reaches = version + 1 /\ GoingUp(w2, tables, columns, version + 1)
        BY <1>0, <2>1, <2>2, <2>4, <3>1, <3>2, ScriptDoneUp
      <4> QED BY <3>1, <4>1
    <3>3. CASE GoingDown(w, tables, columns, version)
      <4>1. w.left[1].reaches = version - 1 /\ GoingDown(w2, tables, columns, version - 1)
        BY <1>0, <2>1, <2>2, <2>4, <3>1, <3>3, ScriptDoneDown
      <4> QED BY <3>1, <4>1
    <3> QED BY <2>5, <3>2, <3>3
  <2>8. AtWork(w2, tables', columns', version')
    BY <2>1, <2>6, <2>7 DEF AtWork
  <2> QED BY <1>c, <2>1, <2>5, <2>6, <2>8
<1>7. CASE Opened(o)
  <2> DEFINE w2 == IF w.to \in {Nowhere, version} THEN Shut ELSE [pc |-> "going", to |-> w.to]
  <2>1. /\ w.pc = "running" /\ w.left = <<>> /\ opener' = [opener EXCEPT ![o] = w2]
        /\ UNCHANGED <<tables, columns, version, broken>> /\ spoilt = {}
    BY <1>7 DEF Opened
  <2>2. Len(w.left) = 0
    BY <2>1
  <2>3. /\ GoingUp(w, tables, columns, version) \/ GoingDown(w, tables, columns, version)
        /\ "events" \in tables
    BY <1>b, <2>1 DEF AtWork
  <2>4. columns = ShapeAt(tables, version) /\ WayUp(version, tables)
    <3>1. version - 0 = version /\ version + 0 = version
      BY <1>0
    <3> QED BY <2>1, <2>2, <2>3, <3>1 DEF GoingUp, GoingDown
  <2>5. w.to # Nowhere => version = Latest
    <3>1. version + 0 = version
      BY <1>0
    <3> QED BY <2>2, <2>3, <3>1 DEF GoingUp, GoingDown
  <2>6. w2 = Shut \/ (w2.pc = "going" /\ version = Latest)
    BY <2>5
  <2> HIDE DEF w2
  <2>7. w2 = Shut => Rested(tables', columns', version')
    BY <2>1, <2>3, <2>4 DEF Rested
  <2>8. w2 # Shut => AtWork(w2, tables', columns', version')
    BY <2>1, <2>4, <2>6 DEF AtWork
  <2> QED BY <1>c, <2>1, <2>3, <2>7, <2>8
<1>8. CASE Kill(o)
  <2>1. /\ w # Shut /\ opener' = [opener EXCEPT ![o] = Shut]
        /\ UNCHANGED <<tables, columns, version, broken>> /\ spoilt = {}
        /\ ~(w.pc = "building" /\ w.fresh /\ "events" \in tables)
        /\ ~(w.pc = "running" /\ Begun(w))
    BY <1>8 DEF Kill
  <2>2. w.pc # "shut"
    BY <1>0, <2>1, AtIt
  <2>3. w.pc \in {"opening", "building", "going", "running"}
    BY <1>0, <2>1, <2>2, AtIt
  <2>4. /\ AtWork(w, tables, columns, version)
        /\ w.pc \in {"going", "running"} => "events" \in tables
    BY <1>b, <2>1, <2>2
  <2>5. CASE w.pc = "opening"
    <3>1. Rested(tables, columns, version)
      BY <2>4, <2>5 DEF AtWork
    <3> QED BY <1>c, <2>1, <2>2, <3>1
  <2>6. CASE w.pc = "building"
    <3>1. Rested(tables, columns, version)
      BY <2>1, <2>4, <2>6 DEF AtWork, Rested
    <3> QED BY <1>c, <2>1, <2>2, <3>1
  <2>7. CASE w.pc = "going"
    <3>1. WayUp(Latest, tables)
      BY <1>0 DEF WayUp
    <3>2. Rested(tables, columns, version)
      BY <2>4, <2>7, <3>1 DEF AtWork, Rested
    <3> QED BY <1>c, <2>1, <2>2, <3>2
  <2>8. CASE w.pc = "running"
    <3>1. w \in RunningType
      BY <1>0, <2>8, AtIt DEF RunningType
    <3>2. GoingUp(w, tables, columns, version) \/ GoingDown(w, tables, columns, version)
      BY <2>4, <2>8 DEF AtWork
    <3>3. WayUp(version, tables)
      <4>1. CASE GoingUp(w, tables, columns, version)
        BY <4>1 DEF GoingUp
      <4>2. CASE GoingDown(w, tables, columns, version)
        <5>1. WayUp(version - Len(w.left), tables) /\ Len(w.left) <= version
          BY <4>2 DEF GoingDown
        <5>2. version - Len(w.left) \in 0..version
          BY <1>0, <3>1, <5>1 DEF RunningType
        <5> QED BY <1>0, <5>1, <5>2, WayUpFrom
      <4> QED BY <3>2, <4>1, <4>2
    <3>4. CASE w.left = <<>>
      <4>1. Rested(tables, columns, version)
        BY <2>4, <2>8, <3>2, <3>3, <3>4 DEF GoingUp, GoingDown, Rested
      <4> QED BY <1>c, <2>1, <2>2, <4>1
    <3>5. CASE w.left # <<>>
      <4>1. /\ Head(w.left) = w.left[1] /\ ~(Len(w.left[1].does) < Len(w.whole))
            /\ Len(w.whole) \in Nat
        <5>1. Head(w.left) = w.left[1] /\ Len(w.whole) \in Nat
          BY <3>1 DEF RunningType
        <5>2. ~(Len(Head(w.left).does) < Len(w.whole))
          BY <2>1, <2>8, <3>5 DEF Begun
        <5> QED BY <5>1, <5>2
      <4>2. \A d \in 0..Len(w.whole) : Remains(w.left[1].does, w.whole, d) => d = 0
        BY <4>1 DEF Remains
      <4>3. \E op \in {"add", "drop"} :
              \/ columns = ShapeAt(tables, version) \cup DoneBy(w.whole, 0, op)
              \/ columns = ShapeAt(tables, version) \ DoneBy(w.whole, 0, op)
        BY <3>2, <3>5, <4>2 DEF GoingUp, GoingDown
      <4>4. columns = ShapeAt(tables, version)
        <5>1. \A op : DoneBy(w.whole, 0, op) = {}
          BY DoneNothing
        <5> QED BY <4>3, <5>1
      <4>5. Rested(tables, columns, version)
        BY <2>4, <2>8, <3>3, <4>4 DEF Rested
      <4> QED BY <1>c, <2>1, <2>2, <4>5
    <3> QED BY <3>4, <3>5
  <2> QED BY <2>3, <2>5, <2>6, <2>7, <2>8
<1>9. CASE Statement(o)
  <2> DEFINE s == Head(Head(w.left).does)
             w2 == [w EXCEPT !.left[1].does = Tail(@)]
  <2>1. /\ w.pc = "running" /\ w.left # <<>> /\ Head(w.left).does # <<>>
        /\ version' = version /\ spoilt = {}
        /\ \/ /\ columns' = CASE s.op = "add" -> columns \cup {<<s.table, s.column>>}
                              [] s.op = "drop" -> columns \ {<<s.table, s.column>>}
                              [] s.op = "drop table" -> {c \in columns : c[1] # s.table}
                              [] OTHER -> columns
              /\ tables' = IF s.op = "drop table" THEN tables \ {s.table} ELSE tables
              /\ opener' = [opener EXCEPT ![o].left[1].does = Tail(@)]
              /\ broken' = broken
           \/ ~Possible(s)
    BY <1>9 DEF Statement
  <2>2. w \in RunningType
    BY <1>0, <2>1, AtIt DEF RunningType
  <2>3. /\ w2 \in RunningType /\ w2.whole = w.whole /\ w2.to = w.to
        /\ Len(w2.left) = Len(w.left) /\ Head(w.left) = w.left[1]
        /\ w2.left[1].does = Tail(w.left[1].does) /\ w2.left[1].reaches = w.left[1].reaches
        /\ w.left[1].does \in Seq(Statements) /\ w.left[1].does # <<>>
        /\ \A k \in 2..Len(w.left) : w2.left[k] = w.left[k]
    BY <2>1, <2>2, OneStatementOn
  <2>4. OneOn(w, w2, s)
    <3>1. s = w.left[1].does[1]
      BY <2>3
    <3> HIDE DEF w2, s
    <3> QED BY <2>1, <2>2, <2>3, <3>1 DEF OneOn
  <2>5. /\ GoingUp(w, tables, columns, version) \/ GoingDown(w, tables, columns, version)
        /\ broken = FALSE /\ "events" \in tables
        /\ \A p \in Openers \ {o} : opener[p] = Shut
    BY <1>b, <2>1 DEF AtWork
  <2>6. opener' = [opener EXCEPT ![o].left[1].does = Tail(@)] => opener' = [opener EXCEPT ![o] = w2]
    OBVIOUS
  <2>7. w2.pc = "running" /\ w2 # Shut
    BY <1>0, <2>3 DEF RunningType
  <2> HIDE DEF w2, s
  <2>8. CASE GoingUp(w, tables, columns, version)
    <3>1. /\ s.op \in {"add", "touch"} /\ s.table \in tables
          /\ s.op = "add" => /\ <<s.table, s.column>> \notin columns
                             /\ GoingUp(w2, tables, columns \cup {<<s.table, s.column>>}, version)
          /\ s.op = "touch" => GoingUp(w2, tables, columns, version)
      BY <1>0, <2>4, <2>8, StatementUp
    <3>2. Possible(s)
      BY <3>1 DEF Possible
    <3>3. /\ tables' = tables /\ broken' = broken /\ opener' = [opener EXCEPT ![o] = w2]
          /\ GoingUp(w2, tables', columns', version')
      BY <2>1, <2>6, <3>1, <3>2
    <3>4. AtWork(w2, tables', columns', version')
      BY <2>7, <3>3 DEF AtWork
    <3> QED BY <1>c, <2>1, <2>5, <2>7, <3>3, <3>4
  <2>9. CASE GoingDown(w, tables, columns, version)
    <3>1. \/ /\ s.op = "drop" /\ s.table \in tables /\ <<s.table, s.column>> \in columns
             /\ GoingDown(w2, tables, columns \ {<<s.table, s.column>>}, version)
          \/ /\ s.op = "drop table" /\ s.table \in ModelTables \ {"events"}
             /\ GoingDown(w2, tables \ {s.table}, Without(columns, s.table), version)
      BY <1>0, <2>4, <2>9, StatementDown
    <3>2. Possible(s)
      BY <3>1 DEF Possible
    <3>3. /\ broken' = FALSE /\ "events" \in tables'
          /\ opener' = [opener EXCEPT ![o] = w2]
          /\ GoingDown(w2, tables', columns', version')
      BY <2>1, <2>5, <2>6, <3>1, <3>2 DEF Without
    <3>4. AtWork(w2, tables', columns', version')
      BY <2>7, <3>3 DEF AtWork
    <3> QED BY <2>5, <2>7, <3>3, <3>4, OneIsAtIt
  <2> QED BY <2>5, <2>8, <2>9
<1> QED BY <1>1, <1>2, <1>2b, <1>3, <1>4, <1>5, <1>6, <1>7, <1>8, <1>9

(***************************************************************************)
(* Whenever nobody is at it, the version tells the schema to the column,   *)
(* and no script has failed in the middle, unless one of four things has   *)
(* happened: whatever stores there are, whoever opens them, whatever       *)
(* version is asked for and however often processes go down between        *)
(* scripts, between the tables of an old store, or before a new one has    *)
(* its audit trail.                                                        *)
(***************************************************************************)
THEOREM TheVersionTells == MigrationsSpec => []VersionTellsTheSchema
<1>1. SchemaTypeInv /\ TellsInv /\ [MigrationsNext]_schemaVars => (SchemaTypeInv /\ TellsInv)'
  <2>1. CASE UNCHANGED schemaVars
    BY <2>1 DEF schemaVars, SchemaTypeInv, MigrationsTypeOK, TellsInv
  <2> QED BY <2>1, SchemaTypeStep, TellsStep, Zenon DEF MigrationsNext
<1>2. TellsInv => VersionTellsTheSchema
  BY DEF TellsInv, VersionTellsTheSchema, Rested
<1> QED BY <1>1, <1>2, SchemaTypeInit, TellsInit, PTL DEF MigrationsSpec
=============================================================================
