------------------------------ MODULE MCFloor ------------------------------
(***************************************************************************)
(* Floor on a small pipeline that has everything a step can do: a stage    *)
(* that is held for a person, one that is skipped, a turn, and an action   *)
(* that sends the run back.                                                *)
(***************************************************************************)
EXTENDS Floor, TLC

Small ==
  [first |-> "build", terminal |-> {"landed", "closed", "failed"},
   stages |->
     "build"  :> [Bare EXCEPT !.phase = "run", !.next = "commit", !.skip_when = {"revision"}] @@
     "commit" :> [Bare EXCEPT !.action = "commit_and_push", !.next = "landed",
                              !.approve = TRUE, !.on_refusal = "build", !.max_revisions = 1,
                              !.stop_when_identical = FALSE]]

\* The same, with an end of another name, which no outcome is written for.
Shelved == [Small EXCEPT !.terminal = @ \cup {"shelved"}, !.stages["commit"].next = "shelved"]

TwoTeamsRuns == [r \in Runs |-> IF \E s \in Runs : s > r THEN "ana" ELSE "ben"]
OnesRuns == [r \in Runs |-> "ana"]
CapOne   == [t \in Teams |-> 1]
=============================================================================
