---------------------------- MODULE RunLifecycle ----------------------------
(***************************************************************************)
(* What a run promises the people watching it, whatever its pipeline and   *)
(* however many workers move it:                                           *)
(*   - it is moving, waiting on a person, or finished;                     *)
(*   - it only waits when it says so, and only a person ends the wait;     *)
(*   - a gate sends it back only as often as its pipeline counts;          *)
(*   - once it has an outcome it has that outcome for good.                *)
(* RunMachine (one run, one stage at a time) and Floor (workers that claim *)
(* runs, crash and take each other's claims over) both implement this.     *)
(***************************************************************************)
EXTENDS Naturals

CONSTANT Counts      \* the numbers of revisions its pipeline allows

VARIABLES phase,      \* "moving", "waiting", or the outcome
          sentBack    \* how often a gate has sent the run back

Outcome == {"landed", "closed", "failed"}

Init == phase = "moving" /\ sentBack = 0

Wait == phase = "moving" /\ phase' = "waiting" /\ UNCHANGED sentBack

Resume == phase = "waiting" /\ phase' = "moving" /\ UNCHANGED sentBack

SendBack ==
  /\ phase = "moving" /\ sentBack + 1 \in Counts
  /\ sentBack' = sentBack + 1
  /\ UNCHANGED phase

\* A run refused for want of budget is filed with its count at zero, and a gate may
\* send a run back to an end.
Finish ==
  /\ phase = "moving" /\ phase' \in Outcome
  /\ sentBack' \in {0, sentBack} \cup ({sentBack + 1} \cap Counts)

Next == Wait \/ Resume \/ SendBack \/ Finish

Spec == Init /\ [][Next]_<<phase, sentBack>>
=============================================================================
