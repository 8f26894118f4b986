---------------------------- MODULE RunProgress ----------------------------
(***************************************************************************)
(* Why a run cannot go on for ever by itself: what each step of it uses    *)
(* up.  The code keeps no such measure; the graphs that ship have one.     *)
(***************************************************************************)
EXTENDS RunMachine, PipelineShapes

CONSTANT Rank   \* pipeline name -> stage -> whether it was commented on -> rank

ASSUME RankAssumption == \A p \in DOMAIN Pipelines : RunsOut(Pipelines[p], Rank[p])

\* The rank of stage n of pipeline p; a name that is no stage comes after them all.
RankAt(p, n, commented) ==
  IF n \in DOMAIN Pipelines[p].stages THEN Rank[p][n][commented] ELSE 0

RankNow == RankAt(run.pipeline, run.stage, forge.commented)

(***************************************************************************)
(* Every step of a run stops it (an end, or a hold), or counts one more    *)
(* refusal, of which there are only so many (RevisionsBounded), or leads   *)
(* down in rank.  What errors, skips, rework and a request opened again    *)
(* lead to is never a way round: only a person's comment, and an approval, *)
(* give a run more to do.                                                  *)
(***************************************************************************)
GoesOn ==
  \/ ~Moving'
  \/ run'.revisions > run.revisions
  \/ run'.revisions = run.revisions /\ RankNow' < RankNow

EveryStepGoesOn == [][Step => GoesOn]_vars
=============================================================================
