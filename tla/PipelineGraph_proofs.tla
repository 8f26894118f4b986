------------------------ MODULE PipelineGraph_proofs ------------------------
(***************************************************************************)
(* What plan_next and advance return, for every graph and every run.       *)
(***************************************************************************)
EXTENDS PipelineShapes, TLAPS

(***************************************************************************)
(* No stage of a well-formed graph has the name of one of its ends: a      *)
(* stage that does is reachable by no edge, and parse refuses orphans.     *)
(***************************************************************************)
LEMMA StagesAreNotEnds ==
  ASSUME NEW g, WellFormed(g)
  PROVE  DOMAIN g.stages \cap g.terminal = {}
<1> DEFINE K == DOMAIN g.stages \ g.terminal
<1>1. K \in SUBSET DOMAIN g.stages
  OBVIOUS
<1>2. {g.first} \ g.terminal \subseteq K
  BY DEF WellFormed
<1>3. \A n \in K : Destinations(g.stages[n]) \ g.terminal \subseteq K
  BY DEF WellFormed
<1>4. DOMAIN g.stages \subseteq K
  <2> SUFFICES ASSUME NEW n \in DOMAIN g.stages PROVE n \in K
    OBVIOUS
  <2>1. n \in Reachable(g)
    BY DEF WellFormed
  <2> QED BY <1>1, <1>2, <1>3, <2>1 DEF Reachable
<1> QED BY <1>4

-----------------------------------------------------------------------------
(* plan_next and advance return moves of the graph they were given. *)

LEMMA MoveFields ==
  ASSUME NEW to, NEW revisions, NEW reason, NEW last_refusal
  PROVE  /\ Move(to, revisions, reason, last_refusal).to = to
         /\ Move(to, revisions, reason, last_refusal).revisions = revisions
         /\ Move(to, revisions, reason, last_refusal).reason = reason
         /\ Move(to, revisions, reason, last_refusal).last_refusal = last_refusal
         /\ Move(to, revisions, reason, last_refusal).held = FALSE
         /\ Move(to, revisions, reason, last_refusal).skipped = FALSE
BY DEF Move

LEMMA MoveTyped ==
  ASSUME NEW g, NEW to \in Names(g), NEW revisions \in Nat, NEW reason \in Reasons,
         NEW last_refusal \in Words
  PROVE  Move(to, revisions, reason, last_refusal) \in MoveType(g)
BY DEF Move, MoveType

\* A move marked as held or skipped is the same move otherwise.
LEMMA MarkedMove ==
  ASSUME NEW g, NEW m \in MoveType(g)
  PROVE  /\ Held(m) \in MoveType(g) /\ Skipped(m) \in MoveType(g)
         /\ Held(m).revisions = m.revisions /\ Held(m).last_refusal = m.last_refusal
         /\ Skipped(m).revisions = m.revisions /\ Skipped(m).last_refusal = m.last_refusal
<1>1. Held(m) \in MoveType(g)
  BY DEF Held, MoveType
<1>2. Skipped(m) \in MoveType(g)
  BY DEF Skipped, MoveType
<1>3. QED
  BY <1>1, <1>2 DEF Held, Skipped, MoveType

LEMMA NextOfType ==
  ASSUME NEW g, GraphType(g), NEW n \in DOMAIN g.stages
  PROVE  NextOf(g.stages[n]) \in Names(g)
BY DEF NextOf, GraphType, StageType, Names

\* What these operators need to know of a run that stands somewhere in graph g.
At(g, r) ==
  /\ r.stage \in Names(g)
  /\ r.revisions \in Nat /\ r.reason \in Reasons /\ r.last_refusal \in Words
  /\ r.approved \in BOOLEAN

\* m keeps the count and the last refusal's words of run r.
Keeps(m, r) == m.revisions = r.revisions /\ m.last_refusal = r.last_refusal

LEMMA CarryToTyped ==
  ASSUME NEW g, NEW r, At(g, r), NEW to \in Names(g)
  PROVE  /\ CarryTo(to, r) \in MoveType(g) /\ Keeps(CarryTo(to, r), r)
         /\ Held(CarryTo(to, r)) \in MoveType(g) /\ Keeps(Held(CarryTo(to, r)), r)
         /\ Skipped(CarryTo(to, r)) \in MoveType(g) /\ Keeps(Skipped(CarryTo(to, r)), r)
<1>1. CarryTo(to, r) \in MoveType(g)
  BY MoveTyped DEF At, CarryTo
<1>2. Keeps(CarryTo(to, r), r)
  BY DEF CarryTo, Keeps, Move
<1> DEFINE c == CarryTo(to, r)
<1> HIDE DEF c
<1>3. c \in MoveType(g) /\ Keeps(c, r)
  BY <1>1, <1>2 DEF c
<1>4. /\ Held(c) \in MoveType(g) /\ Keeps(Held(c), r)
      /\ Skipped(c) \in MoveType(g) /\ Keeps(Skipped(c), r)
  BY <1>3, MarkedMove DEF Keeps
<1> QED BY <1>3, <1>4 DEF c

LEMMA PlanNextType ==
  ASSUME NEW g, GraphType(g), NEW r, At(g, r)
  PROVE  /\ PlanNext(g, r) \in MoveType(g)
         /\ r.stage \in DOMAIN g.stages \ g.terminal => Keeps(PlanNext(g, r), r)
         /\ r.stage \notin DOMAIN g.stages \ g.terminal =>
              PlanNext(g, r) \in {MoveTo(r.stage), MoveTo("failed")}
<1> DEFINE s == g.stages[r.stage]
<1>1. \A to \in Names(g) : MoveTo(to) \in MoveType(g)
  BY MoveTyped DEF MoveTo, Reasons, Words
<1>2. CASE r.stage \in DOMAIN g.stages \ g.terminal
  <2>1. PlanNext(g, r) \in {Skipped(CarryTo(NextOf(s), r)), Held(CarryTo(r.stage, r)),
                            CarryTo(r.stage, r)}
    BY <1>2 DEF PlanNext
  <2> QED BY <1>2, <2>1, CarryToTyped, NextOfType DEF At
<1>3. CASE r.stage \notin DOMAIN g.stages \ g.terminal
  <2>1. PlanNext(g, r) \in {MoveTo(r.stage), MoveTo("failed")}
    BY <1>3 DEF PlanNext
  <2> QED BY <1>1, <1>3, <2>1 DEF At, Names
<1> QED BY <1>2, <1>3

\* What advance needs to know of a result.
Came(x) == x.outcome \in Outcomes /\ x.reason \in Words

\* A move that sends run r back from a stage, as often as the stage allows.
SendsBack(m, s, r, x) ==
  /\ m.revisions = r.revisions + 1 /\ m.revisions <= s.max_revisions
  /\ s.on_refusal # "" /\ m.last_refusal = x.reason /\ m.held = FALSE
  /\ ~Repeats(s, r, x)

\* A move that fails run r over a refusal.
GivesUp(m, r) == m.to = "failed" /\ m.revisions = r.revisions

LEMMA OneMore ==
  ASSUME NEW a \in Nat, NEW b \in Int, ~(a >= b)
  PROVE  a + 1 \in Nat /\ a + 1 <= b
OBVIOUS

LEMMA AfterRefusalType ==
  ASSUME NEW g, GraphType(g), NEW r, At(g, r), NEW n \in DOMAIN g.stages, NEW x, Came(x)
  PROVE  LET m == AfterRefusal(g.stages[n], r, x) IN
         /\ m \in MoveType(g)
         /\ GivesUp(m, r) \/ SendsBack(m, g.stages[n], r, x)
<1> DEFINE s == g.stages[n]
           m == AfterRefusal(s, r, x)
<1>1. s \in StageType(Names(g)) /\ x.reason \in Words /\ "failed" \in Names(g)
  BY DEF GraphType, Came, Names
<1>2. s.on_refusal \in Names(g) \cup {""} /\ s.max_revisions \in Int
  BY <1>1 DEF StageType
<1>a. "" \in Reasons /\ "revision" \in Reasons /\ r.revisions \in Nat
  BY DEF At, Reasons
<1>3. CASE s.on_refusal = "" \/ r.revisions >= s.max_revisions \/ Repeats(s, r, x)
  <2>1. m = Move("failed", r.revisions, "", x.reason)
    BY <1>3 DEF AfterRefusal, RefusedForGood
  <2>2. Move("failed", r.revisions, "", x.reason) \in MoveType(g)
    BY <1>1, <1>a, MoveTyped
  <2>3. GivesUp(Move("failed", r.revisions, "", x.reason), r)
    BY DEF GivesUp, Move
  <2> QED BY <2>1, <2>2, <2>3
<1>4. CASE ~(s.on_refusal = "" \/ r.revisions >= s.max_revisions \/ Repeats(s, r, x))
  <2> DEFINE k == r.revisions + 1
  <2>1. m = Move(s.on_refusal, k, "revision", x.reason)
    BY <1>4 DEF AfterRefusal, SentBack
  <2>2. k \in Nat /\ k <= s.max_revisions
    <3>1. ~(r.revisions >= s.max_revisions)
      BY <1>4, Zenon
    <3>2. s.max_revisions \in Int /\ r.revisions \in Nat
      BY <1>2, <1>a
    <3> QED BY <3>1, <3>2, OneMore
  <2>3. s.on_refusal \in Names(g)
    BY <1>2, <1>4
  <2> HIDE DEF k
  <2>4. Move(s.on_refusal, k, "revision", x.reason) \in MoveType(g)
    BY <1>1, <1>a, <2>2, <2>3, MoveTyped
  <2>5. SendsBack(Move(s.on_refusal, k, "revision", x.reason), s, r, x)
    <3>1. s.on_refusal # "" /\ ~Repeats(s, r, x)
      BY <1>4, Zenon
    <3>2. k = r.revisions + 1
      BY DEF k
    <3> QED BY <2>2, <3>1, <3>2 DEF SendsBack, Move
  <2> QED BY <2>1, <2>4, <2>5
<1> QED BY <1>3, <1>4

LEMMA EventGoesToAName ==
  ASSUME NEW g, GraphType(g), NEW n \in DOMAIN g.stages, NEW e \in DOMAIN g.stages[n].outcomes
  PROVE  g.stages[n].outcomes[e] \in Names(g)
<1> DEFINE f == g.stages[n].outcomes
<1>1. f \in UNION {[E -> Names(g)] : E \in SUBSET Events}
  BY DEF GraphType, StageType
<1> HIDE DEF f
<1>2. PICK E \in SUBSET Events : f \in [E -> Names(g)]
  BY <1>1
<1>3. \A d \in DOMAIN f : f[d] \in Names(g)
  BY <1>2
<1> QED BY <1>3 DEF f

(***************************************************************************)
(* advance, from a stage of the graph: a move of the graph, which changes  *)
(* the count and the last words only where a refusal does.                 *)
(***************************************************************************)
LEMMA AdvanceType ==
  ASSUME NEW g, GraphType(g), NEW r, At(g, r), r.stage \in DOMAIN g.stages \ g.terminal,
         NEW x, Came(x)
  PROVE  /\ Advance(g, r, x) \in MoveType(g)
         /\ x.outcome # "refused" => Keeps(Advance(g, r, x), r)
         /\ x.outcome = "refused" =>
              \/ GivesUp(Advance(g, r, x), r)
              \/ SendsBack(Advance(g, r, x), g.stages[r.stage], r, x)
<1> DEFINE s == g.stages[r.stage]
<1>1. r.stage \in Names(g) /\ NextOf(s) \in Names(g) /\ "failed" \in Names(g)
  BY NextOfType DEF At, Names
<1>2. r.revisions \in Nat /\ r.last_refusal \in Words /\ r.reason \in Reasons
  BY DEF At
<1>3. CASE x.outcome = "blocked"
  <2>1. Advance(g, r, x) = Held(CarryTo(r.stage, r))
    BY <1>3 DEF Advance
  <2> QED BY <1>1, <1>3, <2>1, CarryToTyped
<1>4. CASE x.outcome = "refused"
  <2>1. Advance(g, r, x) = AfterRefusal(s, r, x)
    BY <1>4 DEF Advance
  <2> QED BY <1>4, <2>1, AfterRefusalType
<1>5. CASE x.outcome = "error"
  <2>1. Advance(g, r, x) = AfterError(s, r)
    BY <1>5 DEF Advance
  <2>2. AfterError(s, r) \in {CarryTo("failed", r), CarryTo(NextOf(s), r)}
    BY DEF AfterError
  <2> QED BY <1>1, <1>5, <2>1, <2>2, CarryToTyped
<1>6. CASE x.outcome = "ok" /\ s.outcomes # [e \in {} |-> ""]
  <2>1. Advance(g, r, x) = AfterEvent(s, r, x)
    BY <1>6 DEF Advance
  <2>2. CASE x.event \in DOMAIN s.outcomes
    <3> DEFINE to == s.outcomes[x.event]
    <3>1. AfterEvent(s, r, x) = Move(to, r.revisions, ReasonOf(x.event), r.last_refusal)
      BY <2>2 DEF AfterEvent
    <3>2. to \in Names(g) /\ ReasonOf(x.event) \in Reasons
      BY <2>2, EventGoesToAName DEF ReasonOf, Reasons
    <3>3. Move(to, r.revisions, ReasonOf(x.event), r.last_refusal) \in MoveType(g)
      BY <1>2, <3>2, MoveTyped
    <3>4. Keeps(Move(to, r.revisions, ReasonOf(x.event), r.last_refusal), r)
      BY DEF Keeps, Move
    <3> QED BY <1>6, <2>1, <3>1, <3>3, <3>4
  <2>3. CASE x.event \notin DOMAIN s.outcomes
    <3>1. AfterEvent(s, r, x) = Held(CarryTo(r.stage, r))
      BY <2>3 DEF AfterEvent
    <3> QED BY <1>1, <1>6, <2>1, <3>1, CarryToTyped
  <2> QED BY <2>2, <2>3
<1>7. CASE x.outcome = "ok" /\ s.outcomes = [e \in {} |-> ""]
  <2>1. Advance(g, r, x) = Move(NextOf(s), r.revisions, "", r.last_refusal)
    BY <1>7 DEF Advance
  <2>2. "" \in Reasons
    BY DEF Reasons
  <2>3. Move(NextOf(s), r.revisions, "", r.last_refusal) \in MoveType(g)
    BY <1>1, <1>2, <2>2, MoveTyped
  <2>4. Keeps(Move(NextOf(s), r.revisions, "", r.last_refusal), r)
    BY DEF Keeps, Move
  <2> QED BY <1>7, <2>1, <2>3, <2>4
<1> QED BY <1>3, <1>4, <1>5, <1>6, <1>7 DEF Came, Outcomes

\* From anywhere, also from an end or from a name the graph does not know.
LEMMA AdvanceFromAnywhere ==
  ASSUME NEW g, GraphType(g), NEW r, At(g, r), NEW x, Came(x)
  PROVE  Advance(g, r, x) \in MoveType(g)
<1>1. \A to \in Names(g) : MoveTo(to) \in MoveType(g)
  BY MoveTyped DEF MoveTo, Reasons, Words
<1>2. CASE r.stage \in DOMAIN g.stages \ g.terminal
  BY <1>2, AdvanceType
<1>3. CASE r.stage \notin DOMAIN g.stages \ g.terminal
  <2>1. Advance(g, r, x) \in {MoveTo(r.stage), MoveTo("failed")}
    BY <1>3 DEF Advance
  <2> QED BY <1>1, <2>1 DEF At, Names
<1> QED BY <1>2, <1>3

-----------------------------------------------------------------------------
(* Which edge of the graph a move takes. *)

\* A name that is no stage of the graph, or its first one again.
Astray(g, to) == to \notin DOMAIN g.stages \ {g.first}

\* No edge leads to the empty name, so a stage of that name could only be the first.
LEMMA BlankIsNoPlace ==
  ASSUME NEW g, WellFormed(g)
  PROVE  "" \notin DOMAIN g.stages \ {g.first}
<1> SUFFICES ASSUME g.first # "" PROVE "" \notin DOMAIN g.stages
  OBVIOUS
<1> DEFINE K == DOMAIN g.stages \ {""}
<1>1. K \in SUBSET DOMAIN g.stages /\ {g.first} \ g.terminal \subseteq K
  BY DEF WellFormed
<1>2. \A n \in K : Destinations(g.stages[n]) \ g.terminal \subseteq K
  BY DEF WellFormed, Destinations
<1>3. ASSUME "" \in DOMAIN g.stages PROVE FALSE
  <2>1. "" \in Reachable(g)
    BY <1>3 DEF WellFormed
  <2> QED BY <1>1, <1>2, <2>1 DEF Reachable
<1> QED BY <1>3

(***************************************************************************)
(* A run at stage n with a result of that outcome goes nowhere, or it      *)
(* fails, or it takes an edge of the graph: an error one only where the    *)
(* stage lets errors pass, a refusal only its own.                         *)
(***************************************************************************)
Takes(g, n, outcome, to) ==
  \/ to = n /\ outcome \in {"ok", "blocked"}
  \/ to = "failed" \/ Astray(g, to)
  \/ /\ Edge(g, n, to)
     /\ \/ outcome = "ok"
        \/ outcome = "error" /\ g.stages[n].on_error = "continue"
        \/ outcome = "refused" /\ to = g.stages[n].on_refusal

LEMMA NextIsAnEdge ==
  ASSUME NEW g, NEW n
  PROVE  NextOf(g.stages[n]) = "failed" \/ Edge(g, n, NextOf(g.stages[n]))
BY DEF NextOf, Edge, Destinations

LEMMA AdvanceTakesAnEdge ==
  ASSUME NEW g, GraphType(g), WellFormed(g), NEW r, r.stage \in DOMAIN g.stages, NEW x, Came(x)
  PROVE  Takes(g, r.stage, x.outcome, Advance(g, r, x).to)
<1> DEFINE s == g.stages[r.stage]
           m == Advance(g, r, x)
<1>1. r.stage \in DOMAIN g.stages \ g.terminal
  BY StagesAreNotEnds
<1>2. NextOf(s) = "failed" \/ Edge(g, r.stage, NextOf(s))
  BY NextIsAnEdge
<1>3. \A to : CarryTo(to, r).to = to /\ Held(CarryTo(to, r)).to = to
  BY DEF CarryTo, Held, Move
<1>4. CASE x.outcome = "blocked"
  <2>1. m = Held(CarryTo(r.stage, r))
    BY <1>1, <1>4 DEF Advance
  <2>2. m.to = r.stage
    BY <1>3, <2>1
  <2> QED BY <1>4, <2>2 DEF Takes
<1>5. CASE x.outcome = "refused"
  <2>1. m = AfterRefusal(s, r, x)
    BY <1>1, <1>5 DEF Advance
  <2>2. m.to = "failed" \/ (s.on_refusal # "" /\ m.to = s.on_refusal)
    <3>1. CASE s.on_refusal = "" \/ r.revisions >= s.max_revisions \/ Repeats(s, r, x)
      <4>1. m = RefusedForGood(r, x)
        BY <2>1, <3>1 DEF AfterRefusal
      <4>2. RefusedForGood(r, x).to = "failed"
        BY DEF RefusedForGood, Move
      <4> QED BY <4>1, <4>2
    <3>2. CASE ~(s.on_refusal = "" \/ r.revisions >= s.max_revisions \/ Repeats(s, r, x))
      <4>1. m = SentBack(s, r, x)
        BY <2>1, <3>2 DEF AfterRefusal
      <4>2. SentBack(s, r, x).to = s.on_refusal
        BY DEF SentBack, Move
      <4> QED BY <3>2, <4>1, <4>2, Zenon
    <3> QED BY <3>1, <3>2
  <2>3. s.on_refusal # "" => Edge(g, r.stage, s.on_refusal)
    BY DEF Edge, Destinations
  <2> QED BY <1>5, <2>2, <2>3 DEF Takes
<1>6. CASE x.outcome = "error"
  <2>1. m = AfterError(s, r)
    BY <1>1, <1>6 DEF Advance
  <2>2. m.to = IF s.on_error = "fail" THEN "failed" ELSE NextOf(s)
    BY <1>3, <2>1 DEF AfterError
  <2>3. s.on_error \in {"fail", "continue"}
    BY DEF WellFormed, StageOK
  <2> QED BY <1>2, <1>6, <2>2, <2>3 DEF Takes
<1>7. CASE x.outcome = "ok"
  <2>1. CASE s.outcomes # [e \in {} |-> ""]
    <3>1. m = AfterEvent(s, r, x)
      BY <1>1, <1>7, <2>1 DEF Advance
    <3>2. CASE x.event \in DOMAIN s.outcomes
      <4>1. m.to = s.outcomes[x.event]
        BY <3>1, <3>2 DEF AfterEvent, Move
      <4>2. s.outcomes[x.event] = "" \/ Edge(g, r.stage, s.outcomes[x.event])
        BY <3>2 DEF Edge, Destinations
      <4>3. s.outcomes[x.event] = "" => Astray(g, s.outcomes[x.event])
        BY BlankIsNoPlace DEF Astray
      <4> QED BY <1>7, <4>1, <4>2, <4>3 DEF Takes
    <3>3. CASE x.event \notin DOMAIN s.outcomes
      <4>1. m.to = r.stage
        BY <1>3, <3>1, <3>3 DEF AfterEvent
      <4> QED BY <1>7, <4>1 DEF Takes
    <3> QED BY <3>2, <3>3
  <2>2. CASE s.outcomes = [e \in {} |-> ""]
    <3>1. m = Move(NextOf(s), r.revisions, "", r.last_refusal)
      BY <1>1, <1>7, <2>2 DEF Advance
    <3>2. Move(NextOf(s), r.revisions, "", r.last_refusal).to = NextOf(s)
      BY DEF Move
    <3>3. m.to = NextOf(s)
      BY <3>1, <3>2
    <3> QED BY <1>2, <1>7, <3>3 DEF Takes
  <2> QED BY <2>1, <2>2
<1> QED BY <1>4, <1>5, <1>6, <1>7 DEF Came, Outcomes

LEMMA PlanTakesAnEdge ==
  ASSUME NEW g, GraphType(g), WellFormed(g), NEW r, r.stage \in DOMAIN g.stages
  PROVE  /\ PlanNext(g, r).skipped =>
              /\ ShouldSkip(r.stage, g.stages[r.stage], r)
              /\ \/ PlanNext(g, r).to = "failed"
                 \/ Edge(g, r.stage, PlanNext(g, r).to)
         /\ PlanNext(g, r).held /\ ~PlanNext(g, r).skipped => PlanNext(g, r).to = r.stage
<1> DEFINE s == g.stages[r.stage]
<1>1. r.stage \in DOMAIN g.stages \ g.terminal
  BY StagesAreNotEnds
<1>2. NextOf(s) = "failed" \/ Edge(g, r.stage, NextOf(s))
  BY NextIsAnEdge
<1>3. CASE ShouldSkip(r.stage, s, r)
  <2>1. PlanNext(g, r) = Skipped(CarryTo(NextOf(s), r))
    BY <1>1, <1>3 DEF PlanNext
  <2>2. Skipped(CarryTo(NextOf(s), r)).to = NextOf(s) /\ Skipped(CarryTo(NextOf(s), r)).skipped
    BY DEF Skipped, CarryTo, Move
  <2> QED BY <1>2, <1>3, <2>1, <2>2
<1>4. CASE ~ShouldSkip(r.stage, s, r)
  <2>1. PlanNext(g, r) \in {Held(CarryTo(r.stage, r)), CarryTo(r.stage, r)}
    BY <1>1, <1>4 DEF PlanNext
  <2>2. /\ CarryTo(r.stage, r).to = r.stage /\ CarryTo(r.stage, r).skipped = FALSE
        /\ Held(CarryTo(r.stage, r)).to = r.stage /\ Held(CarryTo(r.stage, r)).skipped = FALSE
    BY DEF Held, CarryTo, Move
  <2> QED BY <2>1, <2>2
<1> QED BY <1>3, <1>4

\* What a run would have to be like to pass over a stage that is never skipped.
LEMMA NeverSkippedIsNot ==
  ASSUME NEW s, NEW n, NEW r, NEW sections, NeverSkipped(s, sections), sections \subseteq r.document
  PROVE  ~ShouldSkip(n, s, r)
BY DEF NeverSkipped, ShouldSkip
=============================================================================
