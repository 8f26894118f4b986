--------------------------- MODULE PipelineShapes ---------------------------
(***************************************************************************)
(* What the edges of a pipeline say of every run of it.  Four promises     *)
(* are kept by the pipelines that ship, and not by every pipeline parse    *)
(* lets through: that a diff is pushed only when it was checked, that the  *)
(* gate saw every file of it, that people see what was committed, and that *)
(* a run comes to an end of its own.                                       *)
(* Each shape below can be read off a graph, one edge at a time.           *)
(***************************************************************************)
EXTENDS PipelineGraph

\* The stages of g with an action.
Doing(g, action) == {n \in DOMAIN g.stages : g.stages[n].action = action}

\* An edge of g from stage m to stage d.
Edge(g, m, d) == d \in Destinations(g.stages[m])

(***************************************************************************)
(* Nothing a run can be makes it pass over the stage, if its document has  *)
(* at least these sections.                                                *)
(***************************************************************************)
NeverSkipped(s, sections) ==
  s.skip_when = {} /\ ~s.optional /\ ~s.opt_in /\ s.requires \subseteq sections

\* The sections a run that leaves stage s for another one has surely gained there.
Adds(s, sections) ==
  IF RunsATurn(s) /\ s.on_error = "fail" /\ NeverSkipped(s, sections) THEN s.produces ELSE {}

\* Wherever a run stands, its document has the sections `sure` names for that stage.
Surely(g, sure) ==
  /\ sure \in [DOMAIN g.stages -> SUBSET Sections]
  /\ sure[g.first] \subseteq {"spec"}
  /\ \A m, d \in DOMAIN g.stages :
       Edge(g, m, d) => sure[d] \subseteq sure[m] \cup Adds(g.stages[m], sure[m])

(***************************************************************************)
(* n is a check that a run passes on its way to every commit, and only by  *)
(* passing it: `after` are the stages that come between it and the commit, *)
(* none of which edits, and the only other way into them is from n.  A run *)
(* may have turned n off, or not asked for it, when it was started.        *)
(***************************************************************************)
ChecksCommits(g, sure, n, after) ==
  /\ g.stages[n].skip_when = {} /\ g.stages[n].requires \subseteq sure[n]
  /\ g.stages[n].on_error = "fail" /\ g.stages[n].phase # "run"
  /\ Doing(g, "commit_and_push") \subseteq after /\ after \subseteq DOMAIN g.stages
  /\ g.first \notin after
  /\ \A m \in after : g.stages[m].phase # "run"
  /\ \A m, d \in DOMAIN g.stages : Edge(g, m, d) /\ d \in after => m = n \/ m \in after

\* Every check of the pipeline is one; `after` names the stages that follow each.
ChecksEverything(g, sure, after) ==
  /\ Surely(g, sure)
  /\ \A n \in DOMAIN g.stages : g.stages[n].contract # "" => ChecksCommits(g, sure, n, after[n])

\* A stage that leaves the worktree's files alone.
Reads(s) == s.phase \notin {"run", "prove"} /\ s.action # "prepare_workspace"

(***************************************************************************)
(* The stages in `covered`, the commits among them, only read, and are     *)
(* reached only from each other or from a check that reverts its changes   *)
(* and is never passed over: its snapshot stages every file there is.      *)
(***************************************************************************)
SeesEveryFile(g, sure, covered) ==
  /\ Surely(g, sure)
  /\ Doing(g, "commit_and_push") \subseteq covered /\ covered \subseteq DOMAIN g.stages
  /\ g.first \notin covered /\ \A n \in covered : Reads(g.stages[n])
  /\ \A m, d \in DOMAIN g.stages : Edge(g, m, d) /\ d \in covered =>
       \/ m \in covered
       \/ /\ RunsATurn(g.stages[m]) /\ g.stages[m].revert_changes
          /\ NeverSkipped(g.stages[m], sure[m])

(***************************************************************************)
(* A run comes to a stage that watches the request only by opening one,    *)
(* and to the stage that opens it only by committing and pushing.          *)
(***************************************************************************)
WatchesWhatItPushed(g) ==
  LET commits  == Doing(g, "commit_and_push")
      opens    == Doing(g, "open_pull_request")
      watches  == Doing(g, "watch_pull_request")
  IN  /\ g.first \notin opens \cup watches
      /\ \A m, d \in DOMAIN g.stages : Edge(g, m, d) =>
           /\ d \in opens => m \in commits
           /\ d \in watches => m \in opens \cup watches
      /\ \A n \in commits \cup opens :
           g.stages[n].on_error = "fail" /\ NeverSkipped(g.stages[n], {})
      /\ \A n \in commits : g.stages[n].on_refusal \notin opens

(***************************************************************************)
(* The stages of g run out: every edge that a run may take without being   *)
(* refused leads down in rank.  The rank of a stage depends on whether the *)
(* request has a comment on it: only then does the edge back for rework    *)
(* open, and a run that opens its request again starts without one.        *)
(***************************************************************************)
RunsOut(g, rank) ==
  /\ rank \in [DOMAIN g.stages -> [BOOLEAN -> Nat \ {0}]]
  /\ \A m, d \in DOMAIN g.stages : d \notin Finals =>
       LET s         == g.stages[m]
           Reopens   == s.action = "open_pull_request"
           Passes    == ~Reopens \/ s.on_error = "continue" \/ ~NeverSkipped(s, {})
           Down(b,c) == rank[d][c] < rank[m][b]
       IN  /\ d = s.next => \A b \in BOOLEAN : (Passes => Down(b, b)) /\ (Reopens => Down(b, FALSE))
           /\ \A e \in DOMAIN s.outcomes : d = s.outcomes[e] =>
                Down(TRUE, TRUE) /\ (e # "comment" => Down(FALSE, FALSE))
=============================================================================
