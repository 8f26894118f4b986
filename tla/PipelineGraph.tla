--------------------------- MODULE PipelineGraph ---------------------------
(***************************************************************************)
(* The stage graph of src/open_refinery/pipeline: what a pipeline is       *)
(* (spec.py), and where a run of it goes next (graph.py).  Everything here *)
(* is a pure operator, as everything in those two files is a pure          *)
(* function; the modules that have state extend this one.                  *)
(*                                                                         *)
(* A stage name, a section name and a refusal's words are strings, with "" *)
(* for "none", as in the code.  A graph is a record                        *)
(*   first, terminal, stages (a function from stage names to stages).      *)
(* A run is any record that has at least the fields of RunState.           *)
(***************************************************************************)
EXTENDS Integers

CONSTANTS
  Sections,     \* the section names a run document can have
  Complaints    \* what the delivery gate or a commit hook may say

Outcomes == {"ok", "refused", "error", "blocked"}
Events   == {"merge", "close", "comment"}
Reasons  == {"", "revision", "rework"}
Words    == Complaints \cup {""}
Finals   == {"landed", "closed", "failed"}
Actions  == {"prepare_workspace", "commit_and_push", "open_pull_request",
             "watch_pull_request", "teardown"}

-----------------------------------------------------------------------------
(* Stages and graphs: spec.py. *)

(***************************************************************************)
(* A stage with every optional key left out; a declared stage is written   *)
(* [Bare EXCEPT ...].                                                      *)
(***************************************************************************)
Bare ==
  [phase |-> "", action |-> "", next |-> "",
   requires |-> {}, produces |-> {}, skip_when |-> {},
   optional |-> FALSE, opt_in |-> FALSE, approve |-> FALSE,
   on_refusal |-> "", max_revisions |-> 2, stop_when_identical |-> TRUE,
   on_error |-> "fail", contract |-> "", revert_changes |-> FALSE,
   outcomes |-> [e \in {} |-> ""]]

RunsATurn(s) == s.phase # ""

\* Every stage a stage can lead to, by any edge.
Destinations(s) ==
  ({s.next, s.on_refusal} \cup {s.outcomes[e] : e \in DOMAIN s.outcomes}) \ {""}

\* What _stage refuses to build a stage from.
StageOK(s) ==
  /\ (s.phase = "") # (s.action = "")
  /\ s.action \in Actions \cup {""}
  /\ s.on_error \in {"fail", "continue"}
  /\ DOMAIN s.outcomes \subseteq Events
  /\ ~(s.optional /\ s.opt_in)

\* The stages reachable from the first one by any edge.
Reachable(g) ==
  LET Closed(S) == /\ {g.first} \ g.terminal \subseteq S
                   /\ \A n \in S : Destinations(g.stages[n]) \ g.terminal \subseteq S
  IN  {n \in DOMAIN g.stages : \A S \in SUBSET DOMAIN g.stages : Closed(S) => n \in S}

\* What parse refuses to build a graph from.
WellFormed(g) ==
  /\ g.first \in DOMAIN g.stages
  /\ \A n \in DOMAIN g.stages :
       LET s == g.stages[n] IN
       /\ StageOK(s)
       /\ Destinations(s) # {}
       /\ Destinations(s) \subseteq DOMAIN g.stages \cup g.terminal
       /\ s.contract # "" => RunsATurn(s)
  /\ Reachable(g) = DOMAIN g.stages

-----------------------------------------------------------------------------
(* What a stage came back with, and where the run goes: graph.py. *)

Result(outcome, reason, event, produced) ==
  [outcome |-> outcome, reason |-> reason, event |-> event, produced |-> produced]

Ok(produced)    == Result("ok", "", "", produced)
Refused(words)  == Result("refused", words, "", {})
Error(produced) == Result("error", "", "", produced)
Blocked         == Result("blocked", "", "", {})

Move(to, revisions, reason, last_refusal) ==
  [to |-> to, revisions |-> revisions, reason |-> reason, last_refusal |-> last_refusal,
   skipped |-> FALSE, held |-> FALSE]

Held(m)    == [m EXCEPT !.held = TRUE]
Skipped(m) == [m EXCEPT !.skipped = TRUE]

\* Move(to, why): every other field at its default.
MoveTo(to) == Move(to, 0, "", "")

\* Fault: the last refusal's words are not carried.
CarryWithoutWords(to, run) == Move(to, run.revisions, run.reason, "")

\* Move(to, why, **carry): what the run already carries goes with it.
CarryTo(to, run) == Move(to, run.revisions, run.reason, run.last_refusal)

\* Fault: a failure is not an end.
IsTerminalMoveButFailed(m) == m.to \in Finals \ {"failed"}

IsTerminalMove(m) == m.to \in Finals

NextOf(s) == IF s.next = "" THEN "failed" ELSE s.next

(***************************************************************************)
(* should_skip: on a reason the stage skips on; not asked for; turned off  *)
(* for this run; or missing a section it requires.                         *)
(***************************************************************************)
ShouldSkip(name, s, run) ==
  \/ run.reason # "" /\ run.reason \in s.skip_when
  \/ s.opt_in /\ name \notin run.opt_in
  \/ s.optional /\ name \in run.skip
  \/ ~(s.requires \subseteq run.document)

(***************************************************************************)
(* plan_next: on arrival at a stage, skip it, hold it for a person, or go  *)
(* ahead.                                                                  *)
(***************************************************************************)
PlanNext(g, run) ==
  LET here == run.stage
      s    == g.stages[here]
  IN  IF here \in g.terminal THEN MoveTo(here)
      ELSE IF here \notin DOMAIN g.stages THEN MoveTo("failed")
      ELSE IF ShouldSkip(here, s, run) THEN Skipped(CarryTo(NextOf(s), run))
      ELSE IF s.approve /\ ~run.approved THEN Held(CarryTo(here, run))
      ELSE CarryTo(here, run)

\* A refusal that fails the run keeps the count and the words, not the reason.
RefusedForGood(run, result) == Move("failed", run.revisions, "", result.reason)

SentBack(s, run, result) ==
  Move(s.on_refusal, run.revisions + 1, "revision", result.reason)

Repeats(s, run, result) ==
  s.stop_when_identical /\ result.reason # "" /\ result.reason = run.last_refusal

\* Fault: one revision too many.
AfterRefusalOffByOne(s, run, result) ==
  IF s.on_refusal = "" \/ run.revisions > s.max_revisions \/ Repeats(s, run, result)
  THEN RefusedForGood(run, result)
  ELSE SentBack(s, run, result)

\* _refusal_target, and what advance does when there is none.
AfterRefusal(s, run, result) ==
  IF s.on_refusal = "" \/ run.revisions >= s.max_revisions \/ Repeats(s, run, result)
  THEN RefusedForGood(run, result)
  ELSE SentBack(s, run, result)

\* Fault: a stage whose check failed is passed over.
AfterErrorContinuing(s, run) == CarryTo(NextOf(s), run)

\* Fault: a failure sends the run back as a refusal does, and is not counted.
AfterErrorSentBack(s, run) ==
  CarryTo(IF s.on_refusal # "" THEN s.on_refusal
          ELSE IF s.on_error = "fail" THEN "failed" ELSE NextOf(s), run)

AfterError(s, run) == CarryTo(IF s.on_error = "fail" THEN "failed" ELSE NextOf(s), run)

ReasonOf(event) == IF event = "comment" THEN "rework" ELSE ""

\* Fault: a round of rework starts counting afresh.
AfterEventAfresh(s, run, result) ==
  IF result.event \in DOMAIN s.outcomes
  THEN Move(s.outcomes[result.event], 0, ReasonOf(result.event), run.last_refusal)
  ELSE Held(CarryTo(run.stage, run))

\* A stage that watches a pull request branches on what the human did.
AfterEvent(s, run, result) ==
  IF result.event \in DOMAIN s.outcomes
  THEN Move(s.outcomes[result.event], run.revisions, ReasonOf(result.event), run.last_refusal)
  ELSE Held(CarryTo(run.stage, run))

(***************************************************************************)
(* advance: where the run goes after `result` at its current stage.        *)
(***************************************************************************)
Advance(g, run, result) ==
  LET here == run.stage
      s    == g.stages[here]
  IN  CASE here \in g.terminal -> MoveTo(here)
        [] here \notin DOMAIN g.stages \cup g.terminal -> MoveTo("failed")
        [] here \in DOMAIN g.stages \ g.terminal ->
             CASE result.outcome = "blocked" -> Held(CarryTo(here, run))
               [] result.outcome = "refused" -> AfterRefusal(s, run, result)
               [] result.outcome = "error"   -> AfterError(s, run)
               [] result.outcome = "ok"      ->
                    IF s.outcomes # [e \in {} |-> ""]
                    THEN AfterEvent(s, run, result)
                    ELSE Move(NextOf(s), run.revisions, "", run.last_refusal)

-----------------------------------------------------------------------------
(* Types, for the modules that have state. *)

StageType(N) ==
  [phase : STRING, action : STRING, next : N \cup {""},
   requires : SUBSET Sections, produces : SUBSET Sections, skip_when : SUBSET Reasons,
   optional : BOOLEAN, opt_in : BOOLEAN, approve : BOOLEAN,
   on_refusal : N \cup {""}, max_revisions : Int, stop_when_identical : BOOLEAN,
   on_error : {"fail", "continue"}, contract : STRING, revert_changes : BOOLEAN,
   outcomes : UNION {[E -> N] : E \in SUBSET Events}]

Names(g) == DOMAIN g.stages \cup g.terminal \cup {"failed"}

MoveType(g) ==
  [to : Names(g), revisions : Nat, reason : Reasons, last_refusal : Words,
   skipped : BOOLEAN, held : BOOLEAN]

ResultType ==
  [outcome : Outcomes, reason : Words, event : Events \cup {""}, produced : SUBSET Sections]

GraphType(g) == \A n \in DOMAIN g.stages : g.stages[n] \in StageType(Names(g))
=============================================================================
