--------------------------- MODULE Governance_proofs ---------------------------
(***************************************************************************)
(* Proofs about Policies, for any policies, pack and sessions, and about   *)
(* Proposals, for any people, roles, rules and requests.                   *)
(***************************************************************************)
EXTENDS Policies, Proposals, FiniteSetTheorems, TLAPS

-----------------------------------------------------------------------------
(* What sessions hold. *)

Job == [in_pack : BOOLEAN, titles : SUBSET Titles, left : Seq(PolicyRow)]

\* A session with n ids given out so far.
ClerkRow(n) ==
  {AtRest}
    \cup [pc : {"made", "deleting"}, id : 1..n, job : Job]
    \cup [pc : {"enabling"}, job : Job]
    \cup [pc : {"clearing"}, titles : [Titles -> Nat], ids : SUBSET (1..n), job : Job]

TypeInv ==
  /\ PoliciesTypeOK
  /\ clerk \in [Clerks -> ClerkRow(issued)]
  /\ policies = [i \in DOMAIN policies |-> policies[i]]
  /\ issued \in Nat /\ 1..issued \subseteq PolicyIds

LEMMA MoreClerks ==
  ASSUME NEW n \in Nat, NEW m \in Nat, n <= m, NEW c \in ClerkRow(n)
  PROVE  c \in ClerkRow(m)
<1>1. 1..n \subseteq 1..m
  OBVIOUS
<1> QED BY <1>1 DEF ClerkRow

\* What is at hand of a session, by where it is.
LEMMA ClerkAt ==
  ASSUME NEW n, NEW c \in ClerkRow(n)
  PROVE  /\ c.pc \in {"made", "deleting"} => c.id \in 1..n
         /\ c.pc \in {"made", "enabling"} => c.job \in Job
         /\ c.pc = "clearing" => c.ids \subseteq 1..n /\ c.titles \in [Titles -> Nat]
         /\ c.pc \in {"idle", "made", "deleting", "enabling", "clearing"}
BY DEF ClerkRow, AtRest

LEMMA DraftsAreRows ==
  \A d \in Drafts : d \in PolicyRow
BY Zenon, PoliciesAssumption

LEMMA ArtifactsAreASeq == Artifacts \in Seq(PolicyRow)
BY Zenon, PoliciesAssumption

LEMMA NoPackIsAJob == NoPack \in Job
<1>1. <<>> \in Seq(PolicyRow)
  OBVIOUS
<1> QED BY <1>1 DEF NoPack, Job

LEMMA JobsAre ==
  ASSUME NEW job \in Job
  PROVE  /\ job.left \in Seq(PolicyRow) /\ job.titles \subseteq Titles
         /\ job.left # <<>> => /\ Head(job.left) \in PolicyRow
                               /\ [job EXCEPT !.titles = {}, !.left = Tail(@)] \in Job
<1>1. job.left \in Seq(PolicyRow) /\ job.titles \subseteq Titles
  BY DEF Job
<1>2. ASSUME job.left # <<>>
      PROVE  Head(job.left) \in PolicyRow /\ Tail(job.left) \in Seq(PolicyRow)
  BY <1>1, <1>2
<1> QED BY <1>1, <1>2 DEF Job

-----------------------------------------------------------------------------
(* Types. *)

LEMMA Known ==
  ASSUME TypeInv
  PROVE  /\ DOMAIN policies \subseteq 1..issued /\ issued \in PolicyIds \cup {0}
         /\ \A i \in DOMAIN policies : policies[i].row \in PolicyRow /\ policies[i].pack \in BOOLEAN
         /\ policies = [i \in DOMAIN policies |-> policies[i]]
         /\ versions \in [PolicyIds -> PolicyVersion]
         /\ standards \in [Titles -> Nat] /\ enabled \in BOOLEAN /\ torn \in BOOLEAN
         /\ unfinished \cup swept \subseteq 1..issued
         /\ clerk \in [Clerks -> ClerkRow(issued)]
         /\ issued \in Nat /\ 1..issued \subseteq PolicyIds
BY DEF TypeInv, PoliciesTypeOK

\* A session that goes on to another row.
LEMMA OneGoesOn ==
  ASSUME TypeInv, NEW s \in Clerks, issued' \in Nat, issued <= issued',
         NEW c \in ClerkRow(issued'), clerk' = [clerk EXCEPT ![s] = c]
  PROVE  clerk' \in [Clerks -> ClerkRow(issued')]
<1>1. \A t \in Clerks : clerk[t] \in ClerkRow(issued')
  BY Known, MoreClerks
<1> QED BY <1>1, Known

\* A step that changes only sessions and what is remembered of them.
LEMMA OnlySessions ==
  ASSUME TypeInv, UNCHANGED <<policies, versions, standards, enabled, issued, swept>>,
         unfinished' \subseteq 1..issued, torn' \in BOOLEAN,
         clerk' \in [Clerks -> ClerkRow(issued)]
  PROVE  TypeInv'
BY Known DEF TypeInv, PoliciesTypeOK

LEMMA VersionsType ==
  ASSUME TypeInv, NEW i \in PolicyIds, NEW change \in {"created", "deleted"}
  PROVE  Recorded(i, change) \in [PolicyIds -> PolicyVersion]
<1>1. \A v \in PolicyVersion : Append(v, change) \in PolicyVersion
  BY DEF PolicyVersion
<1> QED BY <1>1, Known DEF Recorded

LEMMA InsertedType ==
  ASSUME TypeInv, NEW row \in PolicyRow, NEW pack \in BOOLEAN, issued + 1 \in PolicyIds,
         policies' = Inserted(row, pack), issued' = issued + 1
  PROVE  /\ DOMAIN policies' \subseteq 1..issued' /\ issued' \in PolicyIds \cup {0}
         /\ \A i \in DOMAIN policies' :
              policies'[i].row \in PolicyRow /\ policies'[i].pack \in BOOLEAN
         /\ policies' = [i \in DOMAIN policies' |-> policies'[i]]
         /\ issued' \in Nat /\ issued <= issued' /\ 1..issued' \subseteq PolicyIds
         /\ 1..issued \subseteq 1..issued' /\ issued' \in 1..issued'
         /\ DOMAIN policies' = DOMAIN policies \cup {issued'}
<1>1. issued \in Nat /\ DOMAIN policies \subseteq 1..issued /\ 1..issued \subseteq PolicyIds
  BY Known
<1>2. /\ DOMAIN policies' = DOMAIN policies \cup {issued'}
      /\ policies' = [i \in DOMAIN policies' |-> policies'[i]]
      /\ policies'[issued'] = [row |-> row, pack |-> pack]
      /\ \A i \in DOMAIN policies : i # issued' => policies'[i] = policies[i]
  BY DEF Inserted
<1>3. 1..issued' = 1..issued \cup {issued'} /\ issued' \in Nat /\ issued <= issued'
  BY <1>1
<1>4. \A i \in DOMAIN policies : policies[i].row \in PolicyRow /\ policies[i].pack \in BOOLEAN
  BY Known
<1>5. \A i \in DOMAIN policies' : policies'[i].row \in PolicyRow /\ policies'[i].pack \in BOOLEAN
  BY <1>2, <1>4
<1> QED BY <1>1, <1>2, <1>3, <1>5

LEMMA RemovedType ==
  ASSUME TypeInv, NEW ids, policies' = Without(ids)
  PROVE  /\ DOMAIN policies' = DOMAIN policies \ ids /\ DOMAIN policies' \subseteq 1..issued
         /\ \A i \in DOMAIN policies' :
              policies'[i].row \in PolicyRow /\ policies'[i].pack \in BOOLEAN
         /\ policies' = [i \in DOMAIN policies' |-> policies'[i]]
BY Known DEF Without

LEMMA TitlesType ==
  ASSUME TypeInv, NEW titles \in SUBSET Titles
  PROVE  WithTitles(titles) \in [Titles -> Nat]
BY Known DEF WithTitles

LEMMA InitTypes == PoliciesInit => TypeInv
<1> SUFFICES ASSUME PoliciesInit PROVE TypeInv
  OBVIOUS
<1>1. /\ policies = [i \in {} |-> 0] /\ DOMAIN policies = {} /\ issued = 0 /\ 1..0 = {}
      /\ enabled = FALSE /\ torn = FALSE /\ unfinished = {} /\ swept = {}
  BY DEF PoliciesInit
<1>2. versions \in [PolicyIds -> PolicyVersion] /\ standards \in [Titles -> Nat]
  BY DEF PoliciesInit, PolicyVersion
<1>3. clerk \in [Clerks -> ClerkRow(issued)]
  BY DEF PoliciesInit, ClerkRow
<1> QED BY <1>1, <1>2, <1>3 DEF TypeInv, PoliciesTypeOK

LEMMA MakesType ==
  ASSUME TypeInv, NEW s \in Clerks, NEW row \in PolicyRow, NEW pack \in BOOLEAN, NEW job \in Job,
         issued + 1 \in PolicyIds, issued' = issued + 1, policies' = Inserted(row, pack),
         clerk' = [clerk EXCEPT ![s] = [pc |-> "made", id |-> issued', job |-> job]],
         standards' \in [Titles -> Nat],
         UNCHANGED <<versions, enabled, unfinished, swept, torn>>
  PROVE  TypeInv'
<1>1. /\ DOMAIN policies' \subseteq 1..issued' /\ issued' \in PolicyIds \cup {0}
      /\ \A i \in DOMAIN policies' : policies'[i].row \in PolicyRow /\ policies'[i].pack \in BOOLEAN
      /\ policies' = [i \in DOMAIN policies' |-> policies'[i]]
      /\ issued' \in Nat /\ issued <= issued' /\ 1..issued' \subseteq PolicyIds
      /\ 1..issued \subseteq 1..issued' /\ issued' \in 1..issued'
  BY InsertedType
<1>2. [pc |-> "made", id |-> issued', job |-> job] \in ClerkRow(issued')
  BY <1>1 DEF ClerkRow
<1>3. clerk' \in [Clerks -> ClerkRow(issued')]
  BY <1>1, <1>2, OneGoesOn
<1>4. /\ versions' \in [PolicyIds -> PolicyVersion] /\ enabled' \in BOOLEAN /\ torn' \in BOOLEAN
      /\ unfinished' \cup swept' \subseteq 1..issued'
  BY <1>1, Known
<1> QED BY <1>1, <1>3, <1>4 DEF TypeInv, PoliciesTypeOK

LEMMA CreatesType ==
  ASSUME TypeInv, NEW s \in Clerks, NEW d \in Drafts, Creates(s, d)
  PROVE  TypeInv'
BY MakesType, NoPackIsAJob, DraftsAreRows, Known DEF Creates

LEMMA EnableMakesType ==
  ASSUME TypeInv, NEW s \in Clerks, EnableMakes(s)
  PROVE  TypeInv'
<1> DEFINE job == clerk[s].job
           next == [job EXCEPT !.titles = {}, !.left = Tail(@)]
<1>1. /\ clerk[s].pc = "enabling" /\ job.left # <<>> /\ issued + 1 \in PolicyIds
      /\ issued' = issued + 1 /\ policies' = Inserted(Head(job.left), TRUE)
      /\ standards' = WithTitles(job.titles)
      /\ clerk' = [clerk EXCEPT ![s] = [pc |-> "made", id |-> issued', job |-> next]]
      /\ UNCHANGED <<versions, enabled, unfinished, swept, torn>>
  BY DEF EnableMakes
<1>2. clerk[s] \in ClerkRow(issued)
  BY Known
<1>3. job \in Job
  BY <1>1, <1>2, ClerkAt
<1>4. Head(job.left) \in PolicyRow /\ next \in Job /\ job.titles \in SUBSET Titles
  BY <1>1, <1>3, JobsAre
<1>5. standards' \in [Titles -> Nat]
  BY <1>1, <1>4, TitlesType
<1> HIDE DEF job, next
<1> QED BY <1>1, <1>4, <1>5, MakesType

LEMMA SessionsType ==
  ASSUME TypeInv, NEW s \in Clerks, EnableStarts(s) \/ DisableStarts(s) \/ Loses(s)
  PROVE  TypeInv'
<1>1. /\ UNCHANGED <<policies, versions, standards, enabled, issued, unfinished, swept>>
      /\ torn' = torn \/ torn' = (torn \/ PackBusy(s))
  BY DEF EnableStarts, DisableStarts, Loses
<1>2. PackBusy(s) \in BOOLEAN /\ torn' \in BOOLEAN /\ unfinished' \subseteq 1..issued
  BY <1>1, Known DEF PackBusy
<1>3. \E c \in ClerkRow(issued) : clerk' = [clerk EXCEPT ![s] = c]
  <2>1. CASE EnableStarts(s)
    <3> DEFINE left == IF OfPack = {} THEN Artifacts ELSE <<>>
               job == [in_pack |-> TRUE, titles |-> {t \in Titles : standards[t] = 0}, left |-> left]
    <3>1. left \in Seq(PolicyRow)
      BY ArtifactsAreASeq
    <3>2. job \in Job
      BY <3>1 DEF Job
    <3>3. [pc |-> "enabling", job |-> job] \in ClerkRow(issued)
      BY <3>2 DEF ClerkRow
    <3> QED BY <2>1, <3>3 DEF EnableStarts
  <2>2. CASE DisableStarts(s)
    <3> DEFINE job == [NoPack EXCEPT !.in_pack = TRUE]
               c == [pc |-> "clearing", titles |-> standards, ids |-> OfPack, job |-> job]
    <3>1. job \in Job
      BY NoPackIsAJob DEF Job
    <3>2. OfPack \subseteq 1..issued /\ standards \in [Titles -> Nat]
      BY Known DEF OfPack
    <3>3. c \in ClerkRow(issued)
      BY <3>1, <3>2 DEF ClerkRow
    <3> QED BY <2>2, <3>3 DEF DisableStarts
  <2>3. CASE Loses(s)
    BY <2>3 DEF Loses, ClerkRow
  <2> QED BY <2>1, <2>2, <2>3
<1>4. clerk' \in [Clerks -> ClerkRow(issued)]
  BY <1>1, <1>3, Known
<1> QED BY <1>1, <1>2, <1>4, OnlySessions

LEMMA RecordsType ==
  ASSUME TypeInv, NEW s \in Clerks, Records(s)
  PROVE  TypeInv'
<1>1. /\ clerk[s].pc = "made" /\ versions' = Recorded(clerk[s].id, "created")
      /\ UNCHANGED <<policies, standards, enabled, issued, unfinished, swept, torn>>
      /\ clerk' = [clerk EXCEPT ![s] =
                     IF @.job.in_pack THEN [pc |-> "enabling", job |-> @.job] ELSE AtRest]
  BY DEF Records
<1>2. clerk[s] \in ClerkRow(issued)
  BY Known
<1>3. clerk[s].id \in PolicyIds /\ clerk[s].job \in Job
  BY <1>1, <1>2, ClerkAt, Known
<1>4. versions' \in [PolicyIds -> PolicyVersion]
  BY <1>1, <1>3, VersionsType
<1>5. [pc |-> "enabling", job |-> clerk[s].job] \in ClerkRow(issued) /\ AtRest \in ClerkRow(issued)
  BY <1>3 DEF ClerkRow
<1>6. clerk' \in [Clerks -> ClerkRow(issued')]
  BY <1>1, <1>5, Known
<1> QED BY <1>1, <1>4, <1>6, Known DEF TypeInv, PoliciesTypeOK

LEMMA DeletesType ==
  ASSUME TypeInv, NEW s \in Clerks, NEW i \in PolicyIds, Deletes(s, i)
  PROVE  TypeInv'
<1>1. /\ i \in DOMAIN policies /\ versions' = Recorded(i, "deleted")
      /\ clerk' = [clerk EXCEPT ![s] = [pc |-> "deleting", id |-> i, job |-> NoPack]]
      /\ torn' = (torn \/ policies[i].pack) /\ unfinished' = unfinished \cup ({i} \cap Making)
      /\ UNCHANGED <<policies, standards, enabled, issued, swept>>
  BY DEF Deletes
<1>2. i \in 1..issued /\ policies[i].pack \in BOOLEAN
  BY <1>1, Known
<1>3. versions' \in [PolicyIds -> PolicyVersion]
  BY <1>1, VersionsType
<1>4. [pc |-> "deleting", id |-> i, job |-> NoPack] \in ClerkRow(issued)
  BY <1>2, NoPackIsAJob DEF ClerkRow
<1>5. clerk' \in [Clerks -> ClerkRow(issued')]
  BY <1>1, <1>4, Known
<1>6. unfinished' \cup swept' \subseteq 1..issued' /\ torn' \in BOOLEAN
  BY <1>1, <1>2, Known
<1> QED BY <1>1, <1>3, <1>5, <1>6, Known DEF TypeInv, PoliciesTypeOK

LEMMA RemovesType ==
  ASSUME TypeInv, NEW s \in Clerks, Removes(s) \/ DisableEnds(s)
  PROVE  TypeInv'
<1>1. AtRest \in ClerkRow(issued) /\ clerk[s] \in ClerkRow(issued)
  BY Known DEF ClerkRow
<1>2. /\ clerk' = [clerk EXCEPT ![s] = AtRest]
      /\ UNCHANGED <<versions, issued, unfinished, torn>>
  BY DEF Removes, DisableEnds
<1>3. clerk' \in [Clerks -> ClerkRow(issued')]
  BY <1>1, <1>2, Known
<1>4. \E ids : policies' = Without(ids)
  BY DEF Removes, DisableEnds
<1>5. /\ DOMAIN policies' \subseteq 1..issued
      /\ \A i \in DOMAIN policies' : policies'[i].row \in PolicyRow /\ policies'[i].pack \in BOOLEAN
      /\ policies' = [i \in DOMAIN policies' |-> policies'[i]]
  BY <1>4, RemovedType
<1>6. standards' \in [Titles -> Nat] /\ enabled' \in BOOLEAN /\ unfinished' \cup swept' \subseteq 1..issued
  <2>1. CASE Removes(s)
    BY <1>2, <2>1, Known DEF Removes
  <2>2. CASE DisableEnds(s)
    <3> DEFINE n == clerk[s].titles
    <3>1. /\ clerk[s].pc = "clearing" /\ swept' = swept \cup clerk[s].ids /\ enabled' = FALSE
          /\ standards' = [t \in Titles |-> IF standards[t] < n[t] THEN 0 ELSE standards[t] - n[t]]
      BY <2>2 DEF DisableEnds
    <3>2. n \in [Titles -> Nat] /\ clerk[s].ids \subseteq 1..issued
      BY <1>1, <3>1, ClerkAt
    <3> HIDE DEF n
    <3>3. standards \in [Titles -> Nat]
      BY Known
    <3>4. standards' \in [Titles -> Nat]
      BY <3>1, <3>2, <3>3
    <3> QED BY <1>2, <3>1, <3>2, <3>4, Known
  <2> QED BY <2>1, <2>2
<1> QED BY <1>2, <1>3, <1>5, <1>6, Known DEF TypeInv, PoliciesTypeOK

LEMMA EnableEndsType ==
  ASSUME TypeInv, NEW s \in Clerks, EnableEnds(s)
  PROVE  TypeInv'
<1>1. /\ clerk[s].pc = "enabling" /\ standards' = WithTitles(clerk[s].job.titles) /\ enabled' = TRUE
      /\ clerk' = [clerk EXCEPT ![s] = AtRest]
      /\ UNCHANGED <<policies, versions, issued, unfinished, swept, torn>>
  BY DEF EnableEnds
<1>2. AtRest \in ClerkRow(issued) /\ clerk[s] \in ClerkRow(issued)
  BY Known DEF ClerkRow
<1>3. clerk' \in [Clerks -> ClerkRow(issued')]
  BY <1>1, <1>2, Known
<1>4. clerk[s].job.titles \in SUBSET Titles
  BY <1>1, <1>2, ClerkAt, JobsAre
<1>5. standards' \in [Titles -> Nat]
  BY <1>1, <1>4, TitlesType
<1> QED BY <1>1, <1>3, <1>5, Known DEF TypeInv, PoliciesTypeOK

LEMMA CutShortType ==
  ASSUME TypeInv, CutShort
  PROVE  TypeInv'
<1>1. /\ unfinished' = unfinished \cup
           {clerk[s].id : s \in {t \in Clerks : clerk[t].pc \in {"made", "deleting"}}}
      /\ torn' = (torn \/ \E s \in Clerks : clerk[s].pc # "idle" /\ clerk[s].job.in_pack)
      /\ clerk' = [s \in Clerks |-> AtRest]
      /\ UNCHANGED <<policies, versions, standards, enabled, issued, swept>>
  BY DEF CutShort
<1>2. \A s \in Clerks : clerk[s].pc \in {"made", "deleting"} => clerk[s].id \in 1..issued
  BY Known, ClerkAt
<1>3. unfinished' \subseteq 1..issued
  BY <1>1, <1>2, Known
<1>4. clerk' \in [Clerks -> ClerkRow(issued)]
  BY <1>1 DEF ClerkRow
<1>5. torn' \in BOOLEAN
  BY <1>1, Known
<1> QED BY <1>1, <1>3, <1>4, <1>5, OnlySessions

LEMMA StepTypes == TypeInv /\ [PoliciesNext]_policyVars => TypeInv'
<1> SUFFICES ASSUME TypeInv, [PoliciesNext]_policyVars PROVE TypeInv'
  OBVIOUS
<1>1. CASE PoliciesNext
  BY <1>1, CreatesType, DeletesType, RecordsType, RemovesType, SessionsType, EnableMakesType,
     EnableEndsType, CutShortType DEF PoliciesNext
<1>2. CASE UNCHANGED policyVars
  BY <1>2 DEF policyVars, TypeInv, PoliciesTypeOK
<1> QED BY <1>1, <1>2

LEMMA AlwaysTyped == PoliciesSpec => []TypeInv
BY InitTypes, StepTypes, PTL DEF PoliciesSpec

\* The variables have their types, and sessions hold ids and rows that there are.
THEOREM PoliciesAreTyped == PoliciesSpec => []PoliciesTypeOK
<1>1. TypeInv => PoliciesTypeOK
  BY DEF TypeInv
<1> QED BY <1>1, AlwaysTyped, PTL

-----------------------------------------------------------------------------
(* How rules decide. *)

LEMMA Ranks ==
  ASSUME NEW l \in Layers
  PROVE  /\ l = "factory" => LayerRank[l] = 3
         /\ l = "harness" => LayerRank[l] = 2
         /\ l = "charter" => LayerRank[l] = 1
BY DEF LayerRank, Layers

\* Of rows that match, some have the say: those of the highest locking layer.
LEMMA PoolIs ==
  ASSUME NEW rows \in SUBSET PolicyRow, NEW l \in Layers,
         \E p \in rows : p.strict /\ p.layer = l,
         \A p \in rows : p.strict => LayerRank[p.layer] <= LayerRank[l]
  PROVE  Pool(rows) = {p \in rows : p.strict /\ p.layer = l}
<1>1. PICK p \in Strict(rows) : p.layer = l
  BY DEF Strict
<1>2. \A s \in Strict(rows) : s.layer \in Layers /\ LayerRank[s.layer] <= LayerRank[l]
  BY DEF Strict, PolicyRow
<1>3. \A s \in Strict(rows) : LayerRank[l] <= LayerRank[s.layer] => s.layer = l
  BY <1>2, Ranks DEF Layers
<1>4. Pool(rows) = {s \in Strict(rows) : \A t \in Strict(rows) : LayerRank[t.layer] <= LayerRank[s.layer]}
  BY <1>1 DEF Pool
<1>5. \A s \in Strict(rows) :
        (\A t \in Strict(rows) : LayerRank[t.layer] <= LayerRank[s.layer]) <=> s.layer = l
  BY <1>1, <1>2, <1>3
<1>6. Strict(rows) = {s \in rows : s.strict}
  BY DEF Strict
<1> HIDE DEF LayerRank
<1> QED BY <1>4, <1>5, <1>6

LEMMA PoolIsThere ==
  ASSUME NEW rows \in SUBSET PolicyRow, rows # {}
  PROVE  Pool(rows) # {} /\ Pool(rows) \subseteq rows
<1>1. Pool(rows) \subseteq rows
  BY DEF Pool, Strict
<1>2. CASE Strict(rows) = {}
  BY <1>1, <1>2 DEF Pool
<1>3. CASE Strict(rows) # {}
  <2> DEFINE locks(l) == \E p \in rows : p.strict /\ p.layer = l
  <2>1. \A p \in rows :
          p.strict => p.layer \in {"factory", "harness", "charter"} /\ p.layer \in Layers
    BY DEF PolicyRow, Layers
  <2>2. locks("factory") \/ locks("harness") \/ locks("charter")
    BY <1>3, <2>1 DEF Strict
  <2>3. \E l \in Layers : locks(l) /\ \A p \in rows : p.strict => LayerRank[p.layer] <= LayerRank[l]
    <3>1. CASE locks("factory")
      <4>1. \A p \in rows : p.strict => LayerRank[p.layer] <= LayerRank["factory"]
        BY <2>1, Ranks DEF Layers
      <4> QED BY <3>1, <4>1 DEF Layers
    <3>2. CASE ~locks("factory") /\ locks("harness")
      <4>1. \A p \in rows : p.strict => LayerRank[p.layer] <= LayerRank["harness"]
        BY <2>1, <3>2, Ranks DEF Layers
      <4> QED BY <3>2, <4>1 DEF Layers
    <3>3. CASE ~locks("factory") /\ ~locks("harness") /\ locks("charter")
      <4>1. \A p \in rows : p.strict => LayerRank[p.layer] <= LayerRank["charter"]
        BY <2>1, <3>3, Ranks DEF Layers
      <4> QED BY <3>3, <4>1 DEF Layers
    <3> QED BY <2>2, <3>1, <3>2, <3>3
  <2>4. PICK l \in Layers : locks(l) /\ \A p \in rows : p.strict =>
          LayerRank[p.layer] <= LayerRank[l]
    BY <2>3
  <2>5. Pool(rows) = {p \in rows : p.strict /\ p.layer = l}
    BY <2>4, PoolIs
  <2> QED BY <1>1, <2>4, <2>5
<1> QED BY <1>1, <1>2, <1>3

\* Denied is: one of those that have the say denies; and with no row at all, the mode.
LEMMA DeniedIs ==
  ASSUME NEW rows \in SUBSET PolicyRow, NEW q, NEW mode \in {"audit", "strict"}
  PROVE  Denied(rows, q, mode) <=>
           IF Matches(rows, q) = {} THEN mode = "strict"
           ELSE \E p \in Pool(Matches(rows, q)) : p.effect = "deny"
<1> DEFINE matching == Matches(rows, q)
           pool == Pool(matching)
<1>1. CASE matching = {}
  BY <1>1 DEF Denied, Decide
<1>2. CASE matching # {}
  <2>1. matching \in SUBSET PolicyRow
    BY DEF Matches
  <2>2. pool # {} /\ pool \subseteq matching
    BY <1>2, <2>1, PoolIsThere
  <2>3. \E p \in pool : p.effect \in {"allow", "deny"}
    BY <2>1, <2>2 DEF PolicyRow
  <2>4. Decide(rows, q, mode = "audit") <=> ~\E p \in pool : p.effect = "deny"
    <3>1. Decide(rows, q, mode = "audit") <=>
            /\ ~\E p \in pool : p.effect = "deny"
            /\ mode = "audit" \/ \E p \in pool : p.effect = "allow"
      BY <1>2 DEF Decide
    <3> HIDE DEF pool, matching
    <3> QED BY <2>3, <3>1
  <2> QED BY <1>2, <2>4 DEF Denied
<1> QED BY <1>1, <1>2

(***************************************************************************)
(* What is denied is what the table of the layers says, for any rows.      *)
(***************************************************************************)
LEMMA RowsDecide ==
  ASSUME \A i \in DOMAIN policies : policies[i].row \in PolicyRow
  PROVE  TheHighestLockDecides
<1> DEFINE rows == {policies[i].row : i \in DOMAIN policies}
<1>0. rows \in SUBSET PolicyRow
  OBVIOUS
<1> HIDE DEF rows
<1> SUFFICES ASSUME NEW q \in Questions, NEW mode \in {"audit", "strict"}
             PROVE  LET matching == Matches(rows, q)
                        locks(l) == \E p \in matching : p.strict /\ p.layer = l
                        denies(l) == \E p \in matching :
                                       p.strict /\ p.layer = l /\ p.effect = "deny" IN
                    Denied(rows, q, mode) <=>
                      CASE matching = {} -> mode = "strict"
                        [] locks("factory") -> denies("factory")
                        [] ~locks("factory") /\ locks("harness") -> denies("harness")
                        [] ~locks("factory") /\ ~locks("harness") /\ locks("charter") -> denies("charter")
                        [] matching # {} /\ Strict(matching) = {} -> \E p \in matching :
                                                                       p.effect = "deny"
  BY DEF TheHighestLockDecides, rows
<1> DEFINE matching == Matches(rows, q)
           locks(l) == \E p \in matching : p.strict /\ p.layer = l
           denies(l) == \E p \in matching : p.strict /\ p.layer = l /\ p.effect = "deny"
<1>1. matching \in SUBSET PolicyRow
  BY <1>0 DEF Matches
<1>2. matching = {} => ~locks("factory") /\ ~locks("harness") /\ ~locks("charter")
  OBVIOUS
<1>3. \A p \in matching :
        p.strict => p.layer \in Layers /\ p.layer \in {"factory", "harness", "charter"}
  BY <1>1 DEF PolicyRow, Layers
<1>4. Strict(matching) = {} <=> ~locks("factory") /\ ~locks("harness") /\ ~locks("charter")
  BY <1>3 DEF Strict
<1>5. ASSUME NEW l \in Layers, locks(l),
             \A p \in matching : p.strict => LayerRank[p.layer] <= LayerRank[l]
      PROVE  Denied(rows, q, mode) <=> denies(l)
  <2>1. Pool(matching) = {p \in matching : p.strict /\ p.layer = l}
    BY <1>1, <1>5, PoolIs
  <2>2. matching # {}
    BY <1>5
  <2> QED BY <1>0, <2>1, <2>2, DeniedIs
<1>6. locks("factory") => (Denied(rows, q, mode) <=> denies("factory"))
  <2>1. \A p \in matching : p.strict => LayerRank[p.layer] <= LayerRank["factory"]
    BY <1>3, Ranks DEF Layers
  <2> QED BY <1>5, <2>1 DEF Layers
<1>7. ~locks("factory") /\ locks("harness") => (Denied(rows, q, mode) <=> denies("harness"))
  <2>1. ~locks("factory") => \A p \in matching :
                               p.strict => LayerRank[p.layer] <= LayerRank["harness"]
    BY <1>3, Ranks DEF Layers
  <2> QED BY <1>5, <2>1 DEF Layers
<1>8. ~locks("factory") /\ ~locks("harness") /\ locks("charter") =>
        (Denied(rows, q, mode) <=> denies("charter"))
  <2>1. ~locks("factory") /\ ~locks("harness") =>
          \A p \in matching : p.strict => LayerRank[p.layer] <= LayerRank["charter"]
    BY <1>3, Ranks DEF Layers
  <2> QED BY <1>5, <2>1 DEF Layers
<1>9. matching # {} /\ Strict(matching) = {} =>
        (Denied(rows, q, mode) <=> \E p \in matching : p.effect = "deny")
  BY <1>0, DeniedIs DEF Pool
<1>10. matching = {} => (Denied(rows, q, mode) <=> mode = "strict")
  BY <1>0, DeniedIs
<1> HIDE DEF matching, locks, denies
<1> QED BY <1>2, <1>4, <1>6, <1>7, <1>8, <1>9, <1>10 DEF matching, locks, denies

\* Whatever was created, deleted, enabled and disabled, the rules decide by the table.
THEOREM TheTableDecides == PoliciesSpec => []TheHighestLockDecides
<1>1. TypeInv => TheHighestLockDecides
  BY Known, RowsDecide
<1> QED BY <1>1, AlwaysTyped, PTL

-----------------------------------------------------------------------------
(* What the versions tell. *)

Between == {clerk[s].id : s \in {t \in Clerks : clerk[t].pc \in {"made", "deleting"}}}
Excused == swept \cup unfinished

(***************************************************************************)
(* RecordsTellThePolicies, and what makes it last: a policy whose first    *)
(* version is still to be written is there, or its absence is accounted    *)
(* for; one that is being removed has its tombstone, or is accounted for;  *)
(* and one that is both is remembered as unfinished.                       *)
(***************************************************************************)
RecordsInv ==
  /\ DOMAIN policies \ InEffect \subseteq Between \cup unfinished
  /\ InEffect \ DOMAIN policies \subseteq Excused
  /\ \A s \in Clerks : clerk[s].pc = "made" => clerk[s].id \in DOMAIN policies \cup Excused
  /\ \A s \in Clerks :
       clerk[s].pc = "deleting" => (clerk[s].id \in InEffect => clerk[s].id \in Excused)
  /\ \A s, t \in Clerks :
       clerk[s].pc = "made" /\ clerk[t].pc = "deleting" /\ clerk[s].id = clerk[t].id
         => clerk[s].id \in unfinished

LEMMA InEffectIs ==
  ASSUME TypeInv, NEW i \in PolicyIds, NEW change \in {"created", "deleted"},
         versions' = Recorded(i, change)
  PROVE  InEffect' = IF change = "created" THEN InEffect \cup {i} ELSE InEffect \ {i}
<1>1. \A v \in PolicyVersion : /\ Append(v, change) # <<>>
                               /\ Append(v, change)[Len(Append(v, change))] = change
  <2>1. ASSUME NEW v \in Seq({"created", "deleted"})
        PROVE  /\ Append(v, change) \in Seq({"created", "deleted"}) /\ Len(v) \in Nat
               /\ Len(Append(v, change)) = Len(v) + 1 /\ Append(v, change)[Len(v) + 1] = change
    OBVIOUS
  <2>2. ASSUME NEW v \in Seq({"created", "deleted"})
        PROVE  Append(v, change) # <<>>
    BY <2>1
  <2> QED BY <2>1, <2>2 DEF PolicyVersion
<1>2. versions \in [PolicyIds -> PolicyVersion]
  BY Known
<1>3. \A j \in PolicyIds : versions'[j] = IF j = i THEN Append(versions[i], change) ELSE versions[j]
  BY <1>2 DEF Recorded
<1>4. \A j \in PolicyIds : j \in InEffect' <=> IF j = i THEN change = "created" ELSE j \in InEffect
  BY <1>1, <1>2, <1>3 DEF InEffect
<1>5. InEffect \subseteq PolicyIds /\ InEffect' \subseteq PolicyIds
  BY DEF InEffect
<1> QED BY <1>4, <1>5

LEMMA SameEffect ==
  ASSUME versions' = versions
  PROVE  InEffect' = InEffect
BY DEF InEffect

\* The sessions, when one of them goes on.
LEMMA Others ==
  ASSUME TypeInv, NEW s \in Clerks, NEW c, clerk' = [clerk EXCEPT ![s] = c]
  PROVE  clerk'[s] = c /\ \A t \in Clerks : t # s => clerk'[t] = clerk[t]
BY Known

LEMMA MakesRecords ==
  ASSUME TypeInv, RecordsInv, NEW s \in Clerks, clerk[s].pc \in {"idle", "enabling"},
         DOMAIN policies' = DOMAIN policies \cup {issued'}, issued' = issued + 1,
         versions' = versions, unfinished' = unfinished, swept' = swept,
         clerk'[s].pc = "made", clerk'[s].id = issued',
         \A t \in Clerks : t # s => clerk'[t] = clerk[t]
  PROVE  RecordsInv'
<1>2. InEffect' = InEffect /\ Excused' = Excused
  BY SameEffect DEF Excused
<1>3. Between' = Between \cup {issued'}
  BY DEF Between
<1>4. \A t \in Clerks : clerk[t].pc = "deleting" => clerk[t].id # issued'
  <2>1. issued \in Nat
    BY Known
  <2>2. \A t \in Clerks : clerk[t].pc = "deleting" => clerk[t].id \in 1..issued
    BY Known, ClerkAt
  <2> QED BY <2>1, <2>2
<1> QED BY <1>2, <1>3, <1>4 DEF RecordsInv

LEMMA QuietRecords ==
  ASSUME TypeInv, RecordsInv, NEW s \in Clerks, NEW c, clerk' = [clerk EXCEPT ![s] = c],
         c.pc \in {"idle", "enabling", "clearing"},
         clerk[s].pc \in {"made", "deleting"} => clerk[s].id \notin DOMAIN policies,
         UNCHANGED <<policies, versions, unfinished, swept>>
  PROVE  RecordsInv'
<1>1. clerk'[s].pc \in {"idle", "enabling", "clearing"} /\ \A t \in Clerks :
                                                             t # s => clerk'[t] = clerk[t]
  BY Others
<1>2. InEffect' = InEffect /\ Excused' = Excused
  BY SameEffect DEF Excused
<1>3. Between \subseteq Between' \cup (IF clerk[s].pc \in {"made", "deleting"} THEN {clerk[s].id} ELSE {})
  BY <1>1 DEF Between
<1>4. Between \cap DOMAIN policies \subseteq Between'
  BY <1>3
<1> QED BY <1>1, <1>2, <1>4 DEF RecordsInv

LEMMA RecordsRecords ==
  ASSUME TypeInv, RecordsInv, NEW s \in Clerks, Records(s)
  PROVE  RecordsInv'
<1> DEFINE i == clerk[s].id
<1>1. /\ clerk[s].pc = "made" /\ versions' = Recorded(i, "created")
      /\ UNCHANGED <<policies, unfinished, swept>>
      /\ clerk' = [clerk EXCEPT ![s] =
                     IF @.job.in_pack THEN [pc |-> "enabling", job |-> @.job] ELSE AtRest]
  BY DEF Records
<1>2. clerk'[s].pc \in {"idle", "enabling"} /\ \A t \in Clerks : t # s => clerk'[t] = clerk[t]
  BY <1>1, Known DEF AtRest
<1>3. i \in PolicyIds
  BY <1>1, Known, ClerkAt
<1>4. InEffect' = InEffect \cup {i} /\ Excused' = Excused
  BY <1>1, <1>3, InEffectIs DEF Excused
<1>5. Between \subseteq Between' \cup {i}
  BY <1>2 DEF Between
<1>6. \A t \in Clerks : clerk[t].pc = "deleting" /\ clerk[t].id = i => i \in unfinished
  BY <1>1 DEF RecordsInv
<1> HIDE DEF i
<1>7. i \in DOMAIN policies \cup Excused
  BY <1>1 DEF RecordsInv, i
<1> QED BY <1>1, <1>2, <1>4, <1>5, <1>6, <1>7 DEF RecordsInv, Excused

LEMMA DeletesRecords ==
  ASSUME TypeInv, RecordsInv, NEW s \in Clerks, NEW i \in PolicyIds, Deletes(s, i)
  PROVE  RecordsInv'
<1>1. /\ clerk[s].pc = "idle" /\ i \in DOMAIN policies /\ versions' = Recorded(i, "deleted")
      /\ clerk' = [clerk EXCEPT ![s] = [pc |-> "deleting", id |-> i, job |-> NoPack]]
      /\ unfinished' = unfinished \cup ({i} \cap Making) /\ UNCHANGED <<policies, swept>>
  BY DEF Deletes, AtRest
<1>a. /\ clerk'[s] = [pc |-> "deleting", id |-> i, job |-> NoPack]
      /\ \A t \in Clerks : t # s => clerk'[t] = clerk[t]
  BY <1>1, Others
<1>2. /\ clerk'[s].pc = "deleting" /\ clerk'[s].id = i
      /\ \A t \in Clerks : t # s => clerk'[t] = clerk[t]
  BY <1>a
<1>3. InEffect' = InEffect \ {i} /\ Excused \subseteq Excused'
  BY <1>1, InEffectIs DEF Excused
<1>4. Between' = Between \cup {i}
  BY <1>1, <1>2 DEF Between
<1>5. \A t \in Clerks : clerk[t].pc = "made" /\ clerk[t].id = i => i \in unfinished'
  BY <1>1 DEF Making
<1> QED BY <1>1, <1>2, <1>3, <1>4, <1>5 DEF RecordsInv

LEMMA RemovesRecords ==
  ASSUME TypeInv, RecordsInv, NEW s \in Clerks, Removes(s) \/ DisableEnds(s)
  PROVE  RecordsInv'
<1> DEFINE ids == IF Removes(s) THEN {clerk[s].id} ELSE clerk[s].ids
<1>1. /\ DOMAIN policies' = DOMAIN policies \ ids /\ UNCHANGED <<versions, unfinished>>
      /\ clerk' = [clerk EXCEPT ![s] = AtRest]
  BY DEF Removes, DisableEnds, Without
<1>a. clerk'[s] = AtRest /\ \A t \in Clerks : t # s => clerk'[t] = clerk[t]
  BY <1>1, Others
<1>2. clerk'[s].pc = "idle" /\ \A t \in Clerks : t # s => clerk'[t] = clerk[t]
  BY <1>a DEF AtRest
<1>3. InEffect' = InEffect
  BY <1>1, SameEffect
<1>4. CASE Removes(s)
  <2>1. clerk[s].pc = "deleting" /\ ids = {clerk[s].id} /\ swept' = swept /\ Excused' = Excused
    BY <1>1, <1>4 DEF Removes, Excused
  <2>2. Between \subseteq Between' \cup ids
    BY <1>2, <2>1 DEF Between
  <2>3. InEffect \cap ids \subseteq Excused
    BY <2>1 DEF RecordsInv
  <2>4. \A t \in Clerks : clerk[t].pc = "made" /\ clerk[t].id \in ids => clerk[t].id \in Excused
    BY <2>1 DEF RecordsInv, Excused
  <2> HIDE DEF ids
  <2> QED BY <1>1, <1>2, <1>3, <2>1, <2>2, <2>3, <2>4 DEF RecordsInv
<1>5. CASE ~Removes(s)
  <2>1. clerk[s].pc = "clearing" /\ ids = clerk[s].ids /\ swept' = swept \cup ids
    BY <1>5 DEF DisableEnds
  <2>2. Excused' = Excused \cup ids
    BY <1>1, <2>1 DEF Excused
  <2>3. Between \subseteq Between'
    BY <1>2, <2>1 DEF Between
  <2> HIDE DEF ids
  <2> QED BY <1>1, <1>2, <1>3, <2>1, <2>2, <2>3 DEF RecordsInv
<1> QED BY <1>4, <1>5

LEMMA CutRecords ==
  ASSUME TypeInv, RecordsInv, CutShort
  PROVE  RecordsInv'
<1>1. /\ unfinished' = unfinished \cup Between /\ UNCHANGED <<policies, versions, swept>>
      /\ \A s \in Clerks : clerk'[s].pc = "idle"
  BY DEF CutShort, AtRest, Between
<1>2. InEffect' = InEffect /\ Excused \subseteq Excused'
  BY <1>1, SameEffect DEF Excused
<1> QED BY <1>1, <1>2 DEF RecordsInv

LEMMA StepRecords == TypeInv /\ RecordsInv /\ [PoliciesNext]_policyVars => RecordsInv'
<1> SUFFICES ASSUME TypeInv, RecordsInv, [PoliciesNext]_policyVars PROVE RecordsInv'
  OBVIOUS
<1>1. ASSUME NEW s \in Clerks, NEW d \in Drafts, Creates(s, d) PROVE RecordsInv'
  <2>1. /\ clerk[s].pc = "idle" /\ issued' = issued + 1 /\ policies' = Inserted(d, FALSE)
        /\ clerk' = [clerk EXCEPT ![s] = [pc |-> "made", id |-> issued', job |-> NoPack]]
        /\ UNCHANGED <<versions, unfinished, swept>>
    BY <1>1 DEF Creates, AtRest
  <2>2. DOMAIN policies' = DOMAIN policies \cup {issued'}
    BY <2>1 DEF Inserted
  <2>3. clerk[s].pc \in {"idle", "enabling"}
    BY <2>1
  <2>4. versions' = versions /\ unfinished' = unfinished /\ swept' = swept
    BY <2>1
  <2>5. /\ clerk'[s] = [pc |-> "made", id |-> issued', job |-> NoPack]
        /\ \A t \in Clerks : t # s => clerk'[t] = clerk[t]
    BY <2>1, Others
  <2>6. clerk'[s].pc = "made" /\ clerk'[s].id = issued'
    BY <2>5
  <2> QED BY <2>1, <2>2, <2>3, <2>4, <2>5, <2>6, MakesRecords
<1>2. ASSUME NEW s \in Clerks, EnableMakes(s) PROVE RecordsInv'
  <2> DEFINE next == [clerk[s].job EXCEPT !.titles = {}, !.left = Tail(@)]
  <2>1. /\ clerk[s].pc = "enabling" /\ issued' = issued + 1
        /\ policies' = Inserted(Head(clerk[s].job.left), TRUE)
        /\ clerk' = [clerk EXCEPT ![s] = [pc |-> "made", id |-> issued', job |-> next]]
        /\ UNCHANGED <<versions, unfinished, swept>>
    BY <1>2 DEF EnableMakes
  <2>2. DOMAIN policies' = DOMAIN policies \cup {issued'}
    BY <2>1 DEF Inserted
  <2> HIDE DEF next
  <2>3. clerk[s].pc \in {"idle", "enabling"}
    BY <2>1
  <2>4. versions' = versions /\ unfinished' = unfinished /\ swept' = swept
    BY <2>1
  <2>5. /\ clerk'[s] = [pc |-> "made", id |-> issued', job |-> next]
        /\ \A t \in Clerks : t # s => clerk'[t] = clerk[t]
    BY <2>1, Others
  <2>6. clerk'[s].pc = "made" /\ clerk'[s].id = issued'
    BY <2>5
  <2> QED BY <2>1, <2>2, <2>3, <2>4, <2>5, <2>6, MakesRecords
<1>3. ASSUME NEW s \in Clerks, EnableStarts(s) \/ DisableStarts(s) \/ EnableEnds(s) \/ Loses(s)
      PROVE  RecordsInv'
  <2>1. \E c : /\ clerk' = [clerk EXCEPT ![s] = c] /\ c.pc \in {"idle", "enabling", "clearing"}
    BY <1>3 DEF EnableStarts, DisableStarts, EnableEnds, Loses, AtRest
  <2>2. /\ clerk[s].pc \in {"made", "deleting"} => clerk[s].id \notin DOMAIN policies
        /\ UNCHANGED <<policies, versions, unfinished, swept>>
    BY <1>3 DEF EnableStarts, DisableStarts, EnableEnds, Loses, AtRest
  <2> QED BY <2>1, <2>2, QuietRecords
<1>4. CASE UNCHANGED policyVars
  BY <1>4, SameEffect DEF policyVars, RecordsInv, Between, Excused
<1> QED BY <1>1, <1>2, <1>3, <1>4, RecordsRecords, DeletesRecords, RemovesRecords, CutRecords
        DEF PoliciesNext

(***************************************************************************)
(* What the versions say was in effect differs from the table only by the  *)
(* policies the run's property excepts, for any sessions and crashes.      *)
(***************************************************************************)
THEOREM TheRecordsTell == PoliciesSpec => []RecordsTellThePolicies
<1>1. PoliciesInit => RecordsInv
  <2> SUFFICES ASSUME PoliciesInit PROVE RecordsInv
    OBVIOUS
  <2>1. DOMAIN policies = {} /\ InEffect = {} /\ \A s \in Clerks : clerk[s].pc = "idle"
    BY DEF PoliciesInit, InEffect, AtRest
  <2> QED BY <2>1 DEF RecordsInv
<1>2. TypeInv /\ RecordsInv /\ [PoliciesNext]_policyVars => RecordsInv'
  BY StepRecords
<1>3. RecordsInv => RecordsTellThePolicies
  BY DEF RecordsInv, RecordsTellThePolicies, Between, Excused
<1> QED BY <1>1, <1>2, <1>3, AlwaysTyped, PTL DEF PoliciesSpec

-----------------------------------------------------------------------------
(* Packs. *)

Working == {s \in Clerks : clerk[s].pc # "idle" /\ clerk[s].job.in_pack}

\* Each standard is there once, when those of these titles are added.
Standing(counts, titles) == \A t \in Titles : counts[t] + (IF t \in titles THEN 1 ELSE 0) = 1

\* The artifacts are there once each, but for the last ones, which are left to be made.
Of(rows) == {i \in DOMAIN rows : rows[i].pack}
Seeded(rows, left) ==
  /\ Cardinality(Of(rows)) + Len(left) = Len(Artifacts)
  /\ \A k \in 1..Len(left) : left[k] = Artifacts[Cardinality(Of(rows)) + k]
  /\ \A k \in 1..Cardinality(Of(rows)) : \E i \in Of(rows) : rows[i].row = Artifacts[k]

(***************************************************************************)
(* PacksAreWhole, and what makes it last: until something comes between, a *)
(* pack has one session at most, nobody is about to remove a policy of it, *)
(* and its standards and artifacts are those its state, or the session's   *)
(* progress, says.                                                         *)
(***************************************************************************)
AtWork(s) ==
  /\ clerk[s].pc \in {"enabling", "made"} =>
       Standing(standards, clerk[s].job.titles) /\ Seeded(policies, clerk[s].job.left)
  /\ clerk[s].pc = "made" => clerk[s].id \in OfPack
  /\ clerk[s].pc = "clearing" => clerk[s].ids = OfPack /\ clerk[s].titles = standards

AtPeace ==
  IF enabled THEN Standing(standards, {}) /\ Seeded(policies, <<>>)
  ELSE OfPack = {} /\ \A t \in Titles : standards[t] = 0

JobsTell ==
  \A s \in Clerks : /\ clerk[s].pc \in {"enabling", "clearing"} => clerk[s].job.in_pack
                    /\ clerk[s].pc = "deleting" => ~clerk[s].job.in_pack

WholeInv ==
  /\ \A s, t \in Working : s = t
  /\ \A s \in Clerks : clerk[s].pc = "deleting" => clerk[s].id \notin OfPack
  /\ Working = {} => AtPeace
  /\ \A s \in Working : AtWork(s)

PackInv == JobsTell /\ (~torn => WholeInv)

LEMMA OfPackIsFinite ==
  ASSUME TypeInv
  PROVE  OfPack = Of(policies) /\ IsFiniteSet(OfPack) /\ Cardinality(OfPack) \in Nat /\ OfPack \subseteq 1..issued
<1>1. OfPack \subseteq 1..issued /\ issued \in Nat
  BY Known DEF OfPack
<1>2. IsFiniteSet(1..issued)
  BY <1>1, FS_Interval
<1> QED BY <1>1, <1>2, FS_Subset, FS_CardinalityType DEF Of, OfPack

LEMMA SameRows ==
  ASSUME NEW old, NEW new, Of(new) = Of(old), \A i \in Of(old) : new[i] = old[i]
  PROVE  \A left : Seeded(new, left) <=> Seeded(old, left)
BY DEF Seeded

\* Nothing of the pack changes.
LEMMA PackStays ==
  ASSUME UNCHANGED <<policies, standards, enabled>>
  PROVE  OfPack' = OfPack /\ (AtPeace' <=> AtPeace)
BY DEF OfPack, AtPeace

\* A session that is no pack's, before and after; and nothing of the pack changes.
LEMMA AsideKeeps ==
  ASSUME TypeInv, PackInv, NEW s \in Clerks, NEW c, clerk' = [clerk EXCEPT ![s] = c],
         OfPack' = OfPack, \A i \in OfPack :
                             policies'[i] = policies[i], standards' = standards, enabled' = enabled,
         torn' = FALSE => torn = FALSE,
         clerk[s].pc = "idle" \/ ~clerk[s].job.in_pack,
         c.pc \in {"idle", "made", "deleting"}, c.pc \in {"made", "deleting"} => ~c.job.in_pack,
         ~torn' => (c.pc = "deleting" => c.id \notin OfPack),
         torn \in BOOLEAN, torn' \in BOOLEAN
  PROVE  PackInv'
<1>1. clerk'[s] = c /\ \A t \in Clerks : t # s => clerk'[t] = clerk[t]
  BY Others
<1>2. JobsTell'
  BY <1>1 DEF PackInv, JobsTell
<1>3. Working' = Working /\ s \notin Working
  BY <1>1 DEF Working
<1>4. /\ OfPack' = OfPack /\ (AtPeace' <=> AtPeace)
      /\ \A left : Seeded(policies', left) <=> Seeded(policies, left)
  <2>1. \A left : Seeded(policies', left) <=> Seeded(policies, left)
    BY SameRows DEF Of, OfPack
  <2> QED BY <2>1 DEF AtPeace
<1>5. ASSUME ~torn' PROVE WholeInv'
  <2>1. WholeInv
    BY <1>5 DEF PackInv
  <2>2. \A t \in Working : t # s /\ t \in Clerks
    BY <1>3 DEF Working
  <2>3. \A t \in Working : AtWork(t)'
    BY <1>1, <1>4, <2>1, <2>2 DEF WholeInv, AtWork
  <2>4. \A t \in Clerks : clerk'[t].pc = "deleting" => clerk'[t].id \notin OfPack
    BY <1>1, <1>5, <2>1 DEF WholeInv
  <2> QED BY <1>3, <1>4, <2>1, <2>3, <2>4 DEF WholeInv
<1> QED BY <1>2, <1>5 DEF PackInv

\* A session that is the pack's only one, or becomes it.
LEMMA AloneKeeps ==
  ASSUME TypeInv, PackInv, NEW s \in Clerks, NEW c, clerk' = [clerk EXCEPT ![s] = c],
         c.pc \in {"made", "enabling", "clearing"}, c.job.in_pack,
         \A t \in Clerks :
           clerk[t].pc = "deleting" => (clerk[t].id \in OfPack' => clerk[t].id \in OfPack),
         ~torn' => ~torn /\ Working \subseteq {s} /\ AtWork(s)'
  PROVE  PackInv'
<1>1. clerk'[s] = c /\ \A t \in Clerks : t # s => clerk'[t] = clerk[t]
  BY Others
<1>2. JobsTell'
  BY <1>1 DEF PackInv, JobsTell
<1>5. ASSUME ~torn' PROVE WholeInv'
  <2>1. WholeInv /\ Working \subseteq {s} /\ AtWork(s)'
    BY <1>5 DEF PackInv
  <2>2. Working' = {s}
    BY <1>1, <2>1 DEF Working
  <2>4. \A t \in Clerks : clerk'[t].pc = "deleting" => clerk'[t].id \notin OfPack'
    BY <1>1, <2>1 DEF WholeInv
  <2> QED BY <2>1, <2>2, <2>4 DEF WholeInv
<1> QED BY <1>2, <1>5 DEF PackInv

\* The pack's only session ends.
LEMMA EndKeeps ==
  ASSUME TypeInv, PackInv, NEW s \in Clerks, s \in Working, clerk' = [clerk EXCEPT ![s] = AtRest],
         OfPack' \subseteq OfPack, torn' = torn, ~torn => AtPeace'
  PROVE  PackInv'
<1>0. clerk'[s] = AtRest /\ \A t \in Clerks : t # s => clerk'[t] = clerk[t]
  BY Others
<1>1. clerk'[s].pc = "idle" /\ \A t \in Clerks : t # s => clerk'[t] = clerk[t]
  BY <1>0 DEF AtRest
<1>2. JobsTell'
  BY <1>1 DEF PackInv, JobsTell
<1>5. ASSUME ~torn' PROVE WholeInv'
  <2>1. WholeInv
    BY <1>5 DEF PackInv
  <2>2. Working' = {}
    BY <1>1, <2>1 DEF Working, WholeInv
  <2>4. \A t \in Clerks : clerk'[t].pc = "deleting" => clerk'[t].id \notin OfPack'
    BY <1>1, <2>1 DEF WholeInv
  <2> QED BY <1>5, <2>1, <2>2, <2>4 DEF WholeInv
<1> QED BY <1>2, <1>5 DEF PackInv

\* Once something has come between, only the sessions' jobs matter.
LEMMA TornKeeps ==
  ASSUME TypeInv, PackInv, NEW s \in Clerks, NEW c, clerk' = [clerk EXCEPT ![s] = c],
         c.pc \in {"enabling", "clearing"} => c.job.in_pack, c.pc = "deleting" => ~c.job.in_pack,
         torn'
  PROVE  PackInv'
<1>1. clerk'[s] = c /\ \A t \in Clerks : t # s => clerk'[t] = clerk[t]
  BY Others
<1> QED BY <1>1 DEF PackInv, JobsTell

LEMMA NoPackIsNot == NoPack.in_pack = FALSE /\ AtRest.pc = "idle"
BY DEF NoPack, AtRest

LEMMA CreatesPack ==
  ASSUME TypeInv, PackInv, NEW s \in Clerks, NEW d \in Drafts, Creates(s, d)
  PROVE  PackInv'
<1>1. /\ clerk[s] = AtRest /\ issued' = issued + 1 /\ policies' = Inserted(d, FALSE)
      /\ clerk' = [clerk EXCEPT ![s] = [pc |-> "made", id |-> issued', job |-> NoPack]]
      /\ UNCHANGED <<standards, enabled, torn>>
  BY DEF Creates
<1>2. OfPack' = OfPack /\ \A i \in OfPack : policies'[i] = policies[i]
  <2>1. issued \in Nat /\ DOMAIN policies \subseteq 1..issued
    BY Known
  <2>2. issued + 1 \notin DOMAIN policies
    BY <2>1
  <2>3. /\ DOMAIN policies' = DOMAIN policies \cup {issued + 1} /\ ~policies'[issued + 1].pack
        /\ \A i \in DOMAIN policies : policies'[i] = policies[i]
    BY <1>1, <2>2 DEF Inserted
  <2> QED BY <2>2, <2>3 DEF OfPack
<1> DEFINE c == [pc |-> "made", id |-> issued', job |-> NoPack]
<1>3. c.pc = "made" /\ ~c.job.in_pack
  BY NoPackIsNot
<1>4. clerk[s].pc = "idle" /\ torn \in BOOLEAN /\ torn' = torn
  BY <1>1, NoPackIsNot, Known
<1>5. clerk' = [clerk EXCEPT ![s] = c] /\ standards' = standards /\ enabled' = enabled
  BY <1>1
<1> HIDE DEF c
<1> QED BY <1>2, <1>3, <1>4, <1>5, AsideKeeps

LEMMA LosesPack ==
  ASSUME TypeInv, PackInv, NEW s \in Clerks, Loses(s)
  PROVE  PackInv'
<1>1. /\ clerk[s].pc = "made" /\ clerk[s].id \notin DOMAIN policies
      /\ clerk' = [clerk EXCEPT ![s] = AtRest]
      /\ UNCHANGED <<policies, standards, enabled, torn>>
  BY DEF Loses
<1>2. OfPack' = OfPack /\ torn \in BOOLEAN /\ AtRest.pc = "idle"
  BY <1>1, PackStays, Known, NoPackIsNot
<1>3. CASE torn
  BY <1>1, <1>2, <1>3, TornKeeps
<1>4. CASE ~torn
  <2>1. s \notin Working
    BY <1>1, <1>4 DEF PackInv, WholeInv, AtWork, OfPack
  <2>2. clerk[s].pc = "idle" \/ ~clerk[s].job.in_pack
    BY <2>1 DEF Working
  <2> QED BY <1>1, <1>2, <2>2, AsideKeeps
<1> QED BY <1>2, <1>3, <1>4

LEMMA RecordsPack ==
  ASSUME TypeInv, PackInv, NEW s \in Clerks, Records(s)
  PROVE  PackInv'
<1> DEFINE c == IF clerk[s].job.in_pack THEN [pc |-> "enabling", job |-> clerk[s].job] ELSE AtRest
<1>1. /\ clerk[s].pc = "made" /\ clerk' = [clerk EXCEPT ![s] = c]
      /\ UNCHANGED <<policies, standards, enabled, torn>>
  BY Known DEF Records
<1>2. OfPack' = OfPack /\ torn \in BOOLEAN /\ policies' = policies /\ standards' = standards
  BY <1>1, PackStays, Known
<1>3. CASE clerk[s].job.in_pack
  <2>1. c = [pc |-> "enabling", job |-> clerk[s].job]
    BY <1>3
  <2>2. c.pc = "enabling" /\ c.job.in_pack /\ c.job = clerk[s].job
    BY <1>3, <2>1
  <2>3. clerk'[s] = c
    BY <1>1, Known
  <2>4. ASSUME ~torn' PROVE ~torn /\ Working \subseteq {s} /\ AtWork(s)'
    <3>1. s \in Working
      BY <1>1, <1>3 DEF Working
    <3>2. WholeInv /\ ~torn
      BY <1>1, <2>4 DEF PackInv
    <3>3. Standing(standards, clerk[s].job.titles) /\ Seeded(policies, clerk[s].job.left)
      BY <1>1, <3>1, <3>2 DEF WholeInv, AtWork
    <3>4. Standing(standards', c.job.titles) /\ Seeded(policies', c.job.left)
      BY <1>2, <2>2, <3>3
    <3>5. AtWork(s)'
      BY <2>2, <2>3, <3>4 DEF AtWork
    <3> QED BY <3>1, <3>2, <3>5 DEF WholeInv
  <2> HIDE DEF c
  <2> QED BY <1>1, <1>2, <2>2, <2>4, AloneKeeps
<1>4. CASE ~clerk[s].job.in_pack
  <2>1. c = AtRest /\ c.pc = "idle"
    BY <1>4, NoPackIsNot
  <2> HIDE DEF c
  <2> QED BY <1>1, <1>2, <1>4, <2>1, AsideKeeps
<1> QED BY <1>3, <1>4

LEMMA DeletesPack ==
  ASSUME TypeInv, PackInv, NEW s \in Clerks, NEW i \in PolicyIds, Deletes(s, i)
  PROVE  PackInv'
<1> DEFINE c == [pc |-> "deleting", id |-> i, job |-> NoPack]
<1>1. /\ clerk[s] = AtRest /\ i \in DOMAIN policies /\ clerk' = [clerk EXCEPT ![s] = c]
      /\ torn' = (torn \/ policies[i].pack)
      /\ UNCHANGED <<policies, standards, enabled>>
  BY DEF Deletes
<1>2. /\ OfPack' = OfPack /\ torn \in BOOLEAN /\ torn' \in BOOLEAN /\ clerk[s].pc = "idle"
      /\ c.pc = "deleting" /\ ~c.job.in_pack /\ c.id = i
  BY <1>1, PackStays, Known, NoPackIsNot
<1>3. torn' = FALSE => torn = FALSE /\ i \notin OfPack
  <2>1. policies[i].pack \in BOOLEAN
    BY <1>1, Known
  <2>2. torn' = FALSE => ~torn /\ ~policies[i].pack
    BY <1>1
  <2>3. torn' = FALSE => torn = FALSE
    BY <1>2, <2>2
  <2> QED BY <2>2, <2>3 DEF OfPack
<1>4. \A j \in OfPack : policies'[j] = policies[j]
  BY <1>1
<1> HIDE DEF c
<1> QED BY <1>1, <1>2, <1>3, <1>4, AsideKeeps

LEMMA RemovesPack ==
  ASSUME TypeInv, PackInv, NEW s \in Clerks, Removes(s)
  PROVE  PackInv'
<1>1. /\ clerk[s].pc = "deleting" /\ policies' = Without({clerk[s].id})
      /\ clerk' = [clerk EXCEPT ![s] = AtRest] /\ UNCHANGED <<standards, enabled, torn>>
  BY DEF Removes
<1>2. torn \in BOOLEAN /\ AtRest.pc = "idle" /\ ~clerk[s].job.in_pack
  BY <1>1, Known, NoPackIsNot DEF PackInv, JobsTell
<1>3. CASE torn
  BY <1>1, <1>2, <1>3, TornKeeps
<1>4. CASE ~torn
  <2>1. clerk[s].id \notin OfPack
    BY <1>1, <1>4 DEF PackInv, WholeInv
  <2>2. OfPack' = OfPack /\ \A i \in OfPack : policies'[i] = policies[i]
    BY <1>1, <2>1 DEF OfPack, Without
  <2> QED BY <1>1, <1>2, <1>4, <2>2, AsideKeeps
<1> QED BY <1>2, <1>3, <1>4

\* A session may begin with the pack when nothing else is under way, or something comes between.
LEMMA BeginsPack ==
  ASSUME TypeInv, PackInv, NEW s \in Clerks, clerk[s] = AtRest, torn' = (torn \/ PackBusy(s))
  PROVE  ~torn' => ~torn /\ Working = {} /\ AtPeace
<1> SUFFICES ASSUME ~torn' PROVE ~torn /\ Working = {} /\ AtPeace
  OBVIOUS
<1>1. ~torn /\ ~PackBusy(s) /\ clerk[s].pc = "idle"
  BY NoPackIsNot
<1>2. Working = {}
  BY <1>1 DEF PackBusy, Working
<1> QED BY <1>1, <1>2 DEF PackInv, WholeInv

LEMMA EnableStartsPack ==
  ASSUME TypeInv, PackInv, NEW s \in Clerks, EnableStarts(s)
  PROVE  PackInv'
<1> DEFINE missing == {t \in Titles : standards[t] = 0}
           rest == IF OfPack = {} THEN Artifacts ELSE <<>>
           c == [pc |-> "enabling", job |-> [in_pack |-> TRUE, titles |-> missing, left |-> rest]]
<1>1. /\ clerk[s] = AtRest /\ clerk' = [clerk EXCEPT ![s] = c]
      /\ torn' = (torn \/ PackBusy(s)) /\ UNCHANGED <<policies, standards, enabled>>
  BY DEF EnableStarts
<1>2. c.pc = "enabling" /\ c.job.in_pack /\ c.job.titles = missing /\ c.job.left = rest
  OBVIOUS
<1>3. clerk'[s] = c
  BY <1>1, Known
<1>4. ASSUME AtPeace PROVE Standing(standards, missing) /\ Seeded(policies, rest)
  <2>1. Standing(standards, missing)
    BY <1>4, Known DEF AtPeace, Standing
  <2>2. Len(Artifacts) \in Nat /\ Len(<<>>) = 0 /\ Cardinality({}) = 0
    BY ArtifactsAreASeq, FS_EmptySet
  <2>3. CASE OfPack = {}
    <3>1. rest = Artifacts /\ Cardinality(OfPack) = 0
      BY <2>2, <2>3
    <3>2. \A k \in 1..Len(Artifacts) : Artifacts[k] = Artifacts[0 + k]
      OBVIOUS
    <3>3. Of(policies) = OfPack /\ 1..0 = {}
      BY DEF Of, OfPack
    <3>4. Seeded(policies, Artifacts)
      BY <2>2, <3>1, <3>2, <3>3 DEF Seeded
    <3> HIDE DEF rest
    <3> QED BY <2>1, <3>1, <3>4
  <2>4. CASE OfPack # {}
    <3>1. rest = <<>> /\ enabled
      BY <1>4, <2>4 DEF AtPeace
    <3> HIDE DEF rest
    <3> QED BY <1>4, <2>1, <3>1 DEF AtPeace
  <2> QED BY <2>3, <2>4
<1> HIDE DEF missing, rest
<1>5. ASSUME ~torn' PROVE ~torn /\ Working \subseteq {s} /\ AtWork(s)'
  <2>1. ~torn /\ Working = {} /\ AtPeace
    BY <1>1, <1>5, BeginsPack
  <2>2. Standing(standards, missing) /\ Seeded(policies, rest) /\ OfPack' = OfPack
    BY <1>1, <1>4, <2>1, PackStays
  <2>3. Standing(standards', c.job.titles) /\ Seeded(policies', c.job.left)
    BY <1>1, <1>2, <2>2
  <2> QED BY <1>2, <1>3, <2>1, <2>3 DEF AtWork
<1>6. OfPack' = OfPack
  BY <1>1, PackStays
<1> HIDE DEF c
<1> QED BY <1>1, <1>2, <1>5, <1>6, AloneKeeps

LEMMA DisableStartsPack ==
  ASSUME TypeInv, PackInv, NEW s \in Clerks, DisableStarts(s)
  PROVE  PackInv'
<1> DEFINE c == [pc |-> "clearing", titles |-> standards, ids |-> OfPack,
                 job |-> [NoPack EXCEPT !.in_pack = TRUE]]
<1>1. /\ clerk[s] = AtRest /\ clerk' = [clerk EXCEPT ![s] = c]
      /\ torn' = (torn \/ PackBusy(s)) /\ UNCHANGED <<policies, standards, enabled>>
  BY DEF DisableStarts
<1>2. c.pc = "clearing" /\ c.job.in_pack /\ c.titles = standards /\ c.ids = OfPack
  BY DEF NoPack
<1>3. clerk'[s] = c /\ OfPack' = OfPack
  BY <1>1, Known, PackStays
<1> HIDE DEF c
<1>5. ASSUME ~torn' PROVE ~torn /\ Working \subseteq {s} /\ AtWork(s)'
  <2>1. ~torn /\ Working = {} /\ AtPeace
    BY <1>1, <1>5, BeginsPack
  <2> QED BY <1>1, <1>2, <1>3, <2>1 DEF AtWork
<1> QED BY <1>1, <1>2, <1>3, <1>5, AloneKeeps

\* The row of an artifact is made.
LEMMA SeededGrows ==
  ASSUME TypeInv, NEW left \in Seq(PolicyRow), left # <<>>, Seeded(policies, left),
         issued' = issued + 1, policies' = Inserted(Head(left), TRUE)
  PROVE  Seeded(policies', Tail(left)) /\ OfPack' = OfPack \cup {issued'}
<1>1. issued \in Nat /\ DOMAIN policies \subseteq 1..issued
  BY Known
<1>2. issued' \notin DOMAIN policies
  BY <1>1
<1>3. /\ DOMAIN policies' = DOMAIN policies \cup {issued'}
      /\ policies'[issued'].pack /\ policies'[issued'].row = Head(left)
      /\ \A i \in DOMAIN policies : policies'[i] = policies[i]
  BY <1>2 DEF Inserted
<1>4. OfPack' = OfPack \cup {issued'} /\ issued' \notin OfPack /\ OfPack = Of(policies) /\ OfPack' = Of(policies')
  BY <1>2, <1>3 DEF OfPack, Of
<1>5. Cardinality(OfPack') = Cardinality(OfPack) + 1 /\ Cardinality(OfPack) \in Nat
  BY <1>4, OfPackIsFinite, FS_AddElement
<1> DEFINE n == Cardinality(OfPack)
<1>6. /\ n + Len(left) = Len(Artifacts) /\ \A k \in 1..Len(left) : left[k] = Artifacts[n + k]
      /\ \A k \in 1..n : \E i \in OfPack : policies[i].row = Artifacts[k]
  BY <1>4 DEF Seeded
<1> HIDE DEF n
<1>7. /\ Len(left) \in Nat /\ Len(left) > 0 /\ Len(Tail(left)) = Len(left) - 1
      /\ Head(left) = left[1]
      /\ \A k \in 1..Len(Tail(left)) : Tail(left)[k] = left[k + 1]
  OBVIOUS
<1>8. n \in Nat /\ Cardinality(OfPack') = n + 1
  BY <1>5 DEF n
<1>9. Cardinality(OfPack') + Len(Tail(left)) = Len(Artifacts)
  BY <1>6, <1>7, <1>8
<1>10. ASSUME NEW k \in 1..Len(Tail(left)) PROVE Tail(left)[k] = Artifacts[Cardinality(OfPack') + k]
  <2>1. Tail(left)[k] = left[k + 1] /\ k + 1 \in 1..Len(left)
    BY <1>7
  <2>2. left[k + 1] = Artifacts[n + (k + 1)] /\ n + (k + 1) = (n + 1) + k
    BY <1>6, <1>8, <2>1
  <2> QED BY <1>8, <2>1, <2>2
<1>11. ASSUME NEW k \in 1..Cardinality(OfPack')
       PROVE  \E i \in OfPack' : policies'[i].row = Artifacts[k]
  <2>1. CASE k = n + 1
    <3>1. Artifacts[k] = Head(left)
      BY <1>6, <1>7, <1>8, <2>1
    <3> QED BY <1>3, <1>4, <3>1
  <2>2. CASE k \in 1..n
    <3>1. PICK i \in OfPack : policies[i].row = Artifacts[k]
      BY <1>6, <2>2
    <3>2. i \in DOMAIN policies
      BY DEF OfPack
    <3> QED BY <1>3, <1>4, <3>1, <3>2
  <2>3. k \in 1..(n + 1)
    BY <1>8
  <2>4. k = n + 1 \/ k \in 1..n
    BY <1>8, <2>3
  <2> QED BY <2>1, <2>2, <2>4
<1> QED BY <1>4, <1>9, <1>10, <1>11 DEF Seeded

LEMMA TitlesAdded ==
  ASSUME TypeInv, NEW titles \in SUBSET Titles, Standing(standards, titles),
         standards' = WithTitles(titles)
  PROVE  Standing(standards', {})
<1>1. \A t \in Titles :
        standards[t] \in Nat /\ standards'[t] = standards[t] + (IF t \in titles THEN 1 ELSE 0)
  BY Known DEF WithTitles
<1> QED BY <1>1 DEF Standing

LEMMA EnableMakesPack ==
  ASSUME TypeInv, PackInv, NEW s \in Clerks, EnableMakes(s)
  PROVE  PackInv'
<1> DEFINE job == clerk[s].job
           next == [job EXCEPT !.titles = {}, !.left = Tail(@)]
           c == [pc |-> "made", id |-> issued', job |-> next]
<1>1. /\ clerk[s].pc = "enabling" /\ job.left # <<>>
      /\ issued' = issued + 1 /\ policies' = Inserted(Head(job.left), TRUE)
      /\ standards' = WithTitles(job.titles)
      /\ clerk' = [clerk EXCEPT ![s] = c] /\ UNCHANGED <<enabled, torn>>
  BY DEF EnableMakes
<1>2. clerk[s] \in ClerkRow(issued) /\ clerk'[s] = c /\ torn \in BOOLEAN
  BY <1>1, Known
<1>3. job \in Job /\ job.in_pack
  BY <1>1, <1>2, ClerkAt DEF PackInv, JobsTell
<1>4. job.left \in Seq(PolicyRow) /\ job.titles \in SUBSET Titles
  BY <1>3, JobsAre
<1>5. next.in_pack /\ next.titles = {} /\ next.left = Tail(job.left)
  BY <1>3 DEF Job
<1>6. s \in Working
  BY <1>1, <1>3 DEF Working
<1>7. c.pc = "made" /\ c.id = issued' /\ c.job = next
  OBVIOUS
<1>8. \A t \in Clerks :
        clerk[t].pc = "deleting" => (clerk[t].id \in OfPack' => clerk[t].id \in OfPack)
  <2>1. issued \in Nat /\ DOMAIN policies \subseteq 1..issued
    BY Known
  <2>2. \A t \in Clerks : clerk[t].pc = "deleting" => clerk[t].id \in 1..issued
    BY Known, ClerkAt
  <2>3. \A i \in 1..issued : i \in OfPack' => i \in OfPack
    BY <1>1, <2>1 DEF OfPack, Inserted
  <2> QED BY <2>2, <2>3
<1> HIDE DEF job, next, c
<1>9. ASSUME ~torn' PROVE ~torn /\ Working \subseteq {s} /\ AtWork(s)'
  <2>1. WholeInv /\ ~torn
    BY <1>1, <1>9 DEF PackInv
  <2>2. Working \subseteq {s} /\ AtWork(s)
    BY <1>6, <2>1 DEF WholeInv
  <2>3. Standing(standards, job.titles) /\ Seeded(policies, job.left)
    BY <1>1, <2>2 DEF AtWork, job
  <2>4. Seeded(policies', Tail(job.left)) /\ OfPack' = OfPack \cup {issued'}
    BY <1>1, <1>4, <2>3, SeededGrows
  <2>5. Standing(standards', {})
    BY <1>1, <1>4, <2>3, TitlesAdded
  <2>6. Standing(standards', clerk'[s].job.titles) /\ Seeded(policies', clerk'[s].job.left)
    BY <1>2, <1>5, <1>7, <2>4, <2>5
  <2>7. clerk'[s].pc = "made" /\ clerk'[s].id = issued'
    BY <1>2, <1>7
  <2> QED BY <2>1, <2>2, <2>4, <2>6, <2>7 DEF AtWork
<1>10. c.job.in_pack
  BY <1>5, <1>7
<1> QED BY <1>1, <1>7, <1>8, <1>9, <1>10, AloneKeeps

LEMMA EnableEndsPack ==
  ASSUME TypeInv, PackInv, NEW s \in Clerks, EnableEnds(s)
  PROVE  PackInv'
<1> DEFINE job == clerk[s].job
<1>1. /\ clerk[s].pc = "enabling" /\ job.left = <<>> /\ standards' = WithTitles(job.titles)
      /\ enabled' = TRUE /\ clerk' = [clerk EXCEPT ![s] = AtRest]
      /\ UNCHANGED <<policies, torn>>
  BY DEF EnableEnds
<1>2. clerk[s] \in ClerkRow(issued)
  BY Known
<1>3. job \in Job /\ job.in_pack
  BY <1>1, <1>2, ClerkAt DEF PackInv, JobsTell
<1>4. job.titles \in SUBSET Titles /\ s \in Working
  BY <1>1, <1>3, JobsAre DEF Working
<1>5. OfPack' \subseteq OfPack /\ torn' = torn
  BY <1>1 DEF OfPack
<1>6. ASSUME ~torn PROVE AtPeace'
  <2>1. Standing(standards, job.titles) /\ Seeded(policies, job.left)
    BY <1>1, <1>4, <1>6 DEF PackInv, WholeInv, AtWork
  <2> HIDE DEF job
  <2>2. Standing(standards', {}) /\ Seeded(policies', <<>>)
    BY <1>1, <1>4, <2>1, TitlesAdded
  <2> QED BY <1>1, <2>2 DEF AtPeace
<1> QED BY <1>1, <1>4, <1>5, <1>6, EndKeeps

LEMMA DisableEndsPack ==
  ASSUME TypeInv, PackInv, NEW s \in Clerks, DisableEnds(s)
  PROVE  PackInv'
<1> DEFINE w == clerk[s]
<1>1. /\ w.pc = "clearing" /\ policies' = Without(w.ids)
      /\ standards' = [t \in Titles |-> IF standards[t] < w.titles[t] THEN 0
                                        ELSE standards[t] - w.titles[t]]
      /\ enabled' = FALSE /\ clerk' = [clerk EXCEPT ![s] = AtRest] /\ torn' = torn
  BY DEF DisableEnds
<1>2. s \in Working
  BY <1>1 DEF PackInv, JobsTell, Working
<1>3. OfPack' = OfPack \ w.ids
  BY <1>1 DEF OfPack, Without
<1>4. ASSUME ~torn PROVE AtPeace'
  <2>1. w.ids = OfPack /\ w.titles = standards
    BY <1>1, <1>2, <1>4 DEF PackInv, WholeInv, AtWork
  <2> HIDE DEF w
  <2>2. OfPack' = {}
    BY <1>3, <2>1
  <2>3. standards \in [Titles -> Nat]
    BY Known
  <2>4. \A t \in Titles : standards'[t] = 0
    BY <1>1, <2>1, <2>3
  <2> QED BY <1>1, <2>2, <2>4 DEF AtPeace
<1> QED BY <1>1, <1>2, <1>3, <1>4, EndKeeps

LEMMA CutPack ==
  ASSUME TypeInv, PackInv, CutShort
  PROVE  PackInv'
<1>1. /\ torn' = (torn \/ \E s \in Clerks : clerk[s].pc # "idle" /\ clerk[s].job.in_pack)
      /\ \A s \in Clerks : clerk'[s].pc = "idle"
      /\ UNCHANGED <<policies, standards, enabled>>
  BY DEF CutShort, AtRest
<1>2. Working' = {} /\ JobsTell'
  BY <1>1 DEF Working, JobsTell
<1>3. ASSUME ~torn' PROVE WholeInv'
  <2>1. Working = {} /\ ~torn
    BY <1>1, <1>3 DEF Working
  <2>2. AtPeace'
    BY <1>1, <2>1, PackStays DEF PackInv, WholeInv
  <2> QED BY <1>1, <1>2, <2>2 DEF WholeInv
<1> QED BY <1>2, <1>3 DEF PackInv

LEMMA StepPack == TypeInv /\ PackInv /\ [PoliciesNext]_policyVars => PackInv'
<1> SUFFICES ASSUME TypeInv, PackInv, [PoliciesNext]_policyVars PROVE PackInv'
  OBVIOUS
<1>1. CASE UNCHANGED policyVars
  <2>1. UNCHANGED <<policies, standards, enabled, clerk, torn>>
    BY <1>1 DEF policyVars
  <2> QED BY <2>1, PackStays DEF PackInv, JobsTell, WholeInv, Working, AtWork
<1>2. CASE PoliciesNext
  BY <1>2, CreatesPack, DeletesPack, RecordsPack, LosesPack, RemovesPack, EnableStartsPack,
     EnableMakesPack, EnableEndsPack, DisableStartsPack, DisableEndsPack, CutPack DEF PoliciesNext
<1> QED BY <1>1, <1>2

LEMMA AlwaysPacked == PoliciesSpec => []PackInv
<1>1. PoliciesInit => PackInv
  <2> SUFFICES ASSUME PoliciesInit PROVE PackInv
    OBVIOUS
  <2>1. /\ policies = <<>> /\ enabled = FALSE /\ \A s \in Clerks : clerk[s].pc = "idle"
        /\ \A t \in Titles : standards[t] = 0
    BY DEF PoliciesInit, AtRest
  <2>2. OfPack = {}
    BY <2>1 DEF OfPack
  <2>3. Working = {}
    BY <2>1 DEF Working
  <2> QED BY <2>1, <2>2, <2>3 DEF PackInv, JobsTell, WholeInv, AtPeace
<1>2. TypeInv /\ PackInv /\ [PoliciesNext]_policyVars => PackInv'
  BY StepPack
<1> QED BY <1>1, <1>2, AlwaysTyped, PTL DEF PoliciesSpec

(***************************************************************************)
(* A pack that is enabled is all there, each part of it once, for any pack *)
(* and however many sessions enable and disable it, unless something the   *)
(* property names has come between.                                        *)
(***************************************************************************)
THEOREM PacksStayWhole == PoliciesSpec => []PacksAreWhole
<1>1. TypeInv /\ PackInv => PacksAreWhole
  <2> SUFFICES ASSUME TypeInv, PackInv, enabled, ~torn,
                      \A s \in Clerks : clerk[s].pc = "idle" \/ ~clerk[s].job.in_pack
               PROVE  /\ \A t \in Titles : standards[t] = 1
                      /\ Cardinality(OfPack) = Len(Artifacts)
                      /\ \A k \in DOMAIN Artifacts :
                           \E i \in OfPack : policies[i].row = Artifacts[k]
    BY DEF PacksAreWhole
  <2>1. Working = {}
    BY DEF Working
  <2>2. Standing(standards, {}) /\ Seeded(policies, <<>>)
    BY <2>1 DEF PackInv, WholeInv, AtPeace
  <2>3. \A t \in Titles : standards[t] \in Nat /\ standards[t] + 0 = 1
    BY <2>2, Known DEF Standing
  <2>4. OfPack = Of(policies) /\ Cardinality(OfPack) \in Nat /\ Len(<<>>) = 0
    BY OfPackIsFinite
  <2>5. Cardinality(OfPack) = Len(Artifacts)
    BY <2>2, <2>4 DEF Seeded
  <2>6. DOMAIN Artifacts = 1..Len(Artifacts)
    BY ArtifactsAreASeq
  <2> QED BY <2>2, <2>3, <2>4, <2>5, <2>6 DEF Seeded
<1> QED BY <1>1, AlwaysTyped, AlwaysPacked, PTL

-----------------------------------------------------------------------------
(* What requests hold. *)

Verdicts == {"accept", "deny", "feedback"}
PayloadsOf(kind) == {ask.payload : ask \in {a \in Asks : a.kind = kind}}
Payloads == {ask.payload : ask \in Asks}
AnyProposal == ProposalRow(Payloads)

ReviewRow ==
  [pc : {"reviewing", "applied"}, id : ProposalIds, by : People, says : Verdicts, seen : AnyProposal]
ResubmitRow == [pc : {"resubmitting"}, id : ProposalIds, payload : Payloads, seen : AnyProposal]
MoveRow == [pc : {"moving"}, by : People, second : People, move : Moves, seen : RuleRow]
DisableRow == [pc : {"disabling"}, rule : RuleIds, by : People, seen : RuleRow]
RequestRow == {Resting} \cup ReviewRow \cup ResubmitRow \cup MoveRow \cup DisableRow

OfAProposal == {"reviewing", "applied", "resubmitting"}

(***************************************************************************)
(* A request is of what there is, which keeps its kind, its chain and its  *)
(* proposer; and it was let through by what it has read.                   *)
(***************************************************************************)
IsOfAProposal(w) ==
  w.pc \in OfAProposal =>
    /\ w.id \in DOMAIN proposals
    /\ w.seen.kind = proposals[w.id].kind /\ w.seen.chain = proposals[w.id].chain
    /\ w.seen.proposer = proposals[w.id].proposer
MaySign(u, w) ==
  /\ w.pc \in {"reviewing", "applied"} => w.by = u
  /\ w.pc = "reviewing" =>
       /\ w.seen.status = "pending" /\ w.seen.current < Len(w.seen.chain)
       /\ Rank[RoleOf[u]] >= Rank[w.seen.chain[w.seen.current + 1]]
       /\ u \notin SignersOf(w.seen)
HasSigned(w) ==
  w.pc = "applied" /\ w.id \notin crossed =>
    w.seen.status = "pending" /\ w.seen.current = Len(w.seen.chain)
MayRewrite(w) ==
  w.pc = "resubmitting" => w.seen.status = "revising" /\ w.payload \in PayloadsOf(w.seen.kind)
MayChange(u, w) ==
  /\ w.pc = "moving" => MayMove(w.seen, w.move) /\ (IsDemotion(w.seen, w.move.to) => w.second # u)
  /\ w.pc = "disabling" => w.seen.rung = 0
IsOfARule(w) ==
  /\ w.pc = "moving" =>
       /\ w.move.rule \in DOMAIN rules
       /\ w.seen.predicate # "" => rules[w.move.rule].predicate # ""
  /\ w.pc = "disabling" => w.rule \in DOMAIN rules

Allowed(u, w) ==
  /\ IsOfAProposal(w) /\ MaySign(u, w) /\ HasSigned(w) /\ MayRewrite(w) /\ MayChange(u, w)
  /\ IsOfARule(w)

AllAllowed == \A u \in People : Allowed(u, request[u])

GovernedInv ==
  /\ ProposalsTypeOK
  /\ proposals = [i \in DOMAIN proposals |-> proposals[i]]
  /\ rules = [r \in DOMAIN rules |-> rules[r]]
  /\ request \in [People -> RequestRow]
  /\ AllAllowed

LEMMA Given ==
  /\ RoleOf \in [People -> DOMAIN Rank] /\ Rank \in [DOMAIN Rank -> Nat] /\ IsFiniteSet(DOMAIN Rank)
  /\ Layer \in DOMAIN Rank /\ \A chain \in Chains : chain \in Seq(DOMAIN Rank)
  /\ \A rule \in NewRules : rule \in RuleRow
  /\ \A q \in Moves : q.rule \in RuleIds /\ q.to \in 0..5 /\ q.predicate \in {"", "args", "diff"}
BY Zenon, ProposalsAssumption

LEMMA Governed ==
  ASSUME GovernedInv
  PROVE  /\ roles \subseteq DOMAIN Rank /\ workflow \in Chains \cup {<<>>}
         /\ DOMAIN proposals \subseteq ProposalIds /\ DOMAIN rules \subseteq RuleIds
         /\ \A i \in DOMAIN proposals :
              /\ proposals[i] \in ProposalRow(PayloadsOf(proposals[i].kind))
              /\ proposals[i].current <= Len(proposals[i].chain)
         /\ \A r \in DOMAIN rules :
              rules[r] \in RuleRow /\ (rules[r].rung \in Predicated => rules[r].predicate # "")
         /\ made \in [ProposalIds -> Nat] /\ crossings \in [ProposalIds -> Nat]
         /\ halted \cup moved \subseteq ProposalIds
         /\ proposals = [i \in DOMAIN proposals |-> proposals[i]]
         /\ rules = [r \in DOMAIN rules |-> rules[r]]
         /\ request \in [People -> RequestRow]
         /\ AllAllowed
BY DEF GovernedInv, ProposalsTypeOK, PayloadsOf

\* The rows by their fields.
LEMMA ProposalIs ==
  ASSUME NEW some, NEW p \in ProposalRow(some)
  PROVE  /\ p.kind \in {"adopt", "create", "move"} /\ p.payload \in some /\ p.proposer \in People
         /\ p.chain \in Seq(DOMAIN Rank) /\ p.current \in Nat /\ p.decisions \in Seq(Decision)
         /\ p.status \in {"pending", "revising", "denied", "accepted"}
         /\ Len(p.chain) \in Nat /\ Len(p.decisions) \in Nat
<1>1. /\ p.kind \in {"adopt", "create", "move"} /\ p.payload \in some /\ p.proposer \in People
      /\ p.chain \in Seq(DOMAIN Rank) /\ p.current \in Nat /\ p.decisions \in Seq(Decision)
      /\ p.status \in {"pending", "revising", "denied", "accepted"}
  BY DEF ProposalRow
<1> QED BY <1>1

LEMMA AnyProposalIs ==
  ASSUME NEW kind, NEW p \in ProposalRow(PayloadsOf(kind))
  PROVE  p \in AnyProposal
<1>1. PayloadsOf(kind) \subseteq Payloads
  BY DEF PayloadsOf, Payloads
<1> QED BY <1>1 DEF ProposalRow, AnyProposal

LEMMA RequestIs ==
  ASSUME NEW w \in RequestRow
  PROVE  /\ w.pc \in {"idle", "reviewing", "applied", "resubmitting", "moving", "disabling"}
         /\ w.pc = "idle" <=> w = Resting
         /\ w.pc \in {"reviewing", "applied"} => w \in ReviewRow
         /\ w.pc = "resubmitting" => w \in ResubmitRow
         /\ w.pc = "moving" => w \in MoveRow
         /\ w.pc = "disabling" => w \in DisableRow
BY DEF RequestRow, Resting, ReviewRow, ResubmitRow, MoveRow, DisableRow

\* What a decision makes of a proposal.
LEMMA DecidedIs ==
  ASSUME NEW some, NEW p \in ProposalRow(some), NEW w \in ReviewRow, w.seen.chain = p.chain,
         w.seen.current < Len(p.chain)
  PROVE  /\ Decided(p, w) \in ProposalRow(some)
         /\ Decided(p, w).kind = p.kind /\ Decided(p, w).payload = p.payload
         /\ Decided(p, w).proposer = p.proposer /\ Decided(p, w).chain = p.chain
         /\ Decided(p, w).current = IF w.says = "accept" THEN w.seen.current + 1 ELSE p.current
         /\ Decided(p, w).decisions =
              Append(w.seen.decisions, [role |-> p.chain[w.seen.current + 1], by |-> w.by,
                                        decision |-> w.says])
         /\ w.says = "deny" => Decided(p, w).status = "denied"
         /\ w.says = "feedback" => Decided(p, w).status = "revising"
         /\ IsLast(w) /\ p.kind = "adopt" => Decided(p, w).status = "accepted"
         /\ w.says = "accept" /\ ~(IsLast(w) /\ p.kind = "adopt") => Decided(p, w).status = p.status
<1>1. /\ w.seen \in AnyProposal /\ w.by \in People /\ w.says \in Verdicts
  BY DEF ReviewRow
<1>2. /\ w.seen.decisions \in Seq(Decision) /\ w.seen.current \in Nat /\ p.current \in Nat
      /\ p.chain \in Seq(DOMAIN Rank) /\ Len(p.chain) \in Nat
  BY <1>1, ProposalIs DEF AnyProposal
<1> DEFINE d == [role |-> p.chain[w.seen.current + 1], by |-> w.by, decision |-> w.says]
           decisions == Append(w.seen.decisions, d)
           current == IF w.says = "accept" THEN w.seen.current + 1 ELSE p.current
           status == CASE w.says = "deny" -> "denied"
                       [] w.says = "feedback" -> "revising"
                       [] IsLast(w) /\ p.kind = "adopt" -> "accepted"
                       [] OTHER -> p.status
<1>3. w.seen.current + 1 \in 1..Len(p.chain)
  BY <1>2
<1>4. p.chain[w.seen.current + 1] \in DOMAIN Rank
  BY <1>2, <1>3
<1>5. d \in Decision
  BY <1>1, <1>4 DEF Decision, Verdicts
<1>6. decisions \in Seq(Decision)
  BY <1>2, <1>5
<1>7. current \in Nat
  BY <1>2
<1>8. status \in {"pending", "revising", "denied", "accepted"}
  BY ProposalIs
<1>9. Decided(p, w) = [p EXCEPT !.decisions = decisions, !.current = current, !.status = status]
  BY DEF Decided
<1> HIDE DEF decisions, current, status
<1>10. /\ Decided(p, w).decisions = decisions /\ Decided(p, w).current = current
       /\ Decided(p, w).status = status /\ Decided(p, w) \in ProposalRow(some)
       /\ Decided(p, w).kind = p.kind /\ Decided(p, w).payload = p.payload
       /\ Decided(p, w).proposer = p.proposer /\ Decided(p, w).chain = p.chain
  BY <1>6, <1>7, <1>8, <1>9 DEF ProposalRow
<1>11. w.says \in {"accept", "deny", "feedback"}
  BY <1>1 DEF Verdicts
<1>12. /\ w.says = "deny" => status = "denied"
       /\ w.says = "feedback" => status = "revising"
       /\ IsLast(w) /\ p.kind = "adopt" => status = "accepted"
       /\ w.says = "accept" /\ ~(IsLast(w) /\ p.kind = "adopt") => status = p.status
  BY <1>11, Zenon DEF status, IsLast
<1> QED BY <1>10, <1>12 DEF decisions, current, d

LEMMA DecidedKeeps ==
  ASSUME NEW some, NEW p \in ProposalRow(some), NEW w \in ReviewRow, w.seen.chain = p.chain,
         w.seen.current < Len(p.chain)
  PROVE  /\ Decided(p, w) \in ProposalRow(some)
         /\ Decided(p, w).kind = p.kind /\ Decided(p, w).payload = p.payload
         /\ Decided(p, w).proposer = p.proposer /\ Decided(p, w).chain = p.chain
         /\ Decided(p, w).current = IF w.says = "accept" THEN w.seen.current + 1 ELSE p.current
         /\ w.says = "deny" => Decided(p, w).status = "denied"
         /\ w.says = "feedback" => Decided(p, w).status = "revising"
         /\ IsLast(w) /\ p.kind = "adopt" => Decided(p, w).status = "accepted"
         /\ w.says = "accept" /\ ~(IsLast(w) /\ p.kind = "adopt") => Decided(p, w).status = p.status
BY DecidedIs

-----------------------------------------------------------------------------
(* What steps keep. *)

RowsOK ==
  /\ DOMAIN proposals \subseteq ProposalIds /\ DOMAIN rules \subseteq RuleIds
  /\ \A i \in DOMAIN proposals :
       /\ proposals[i] \in ProposalRow(PayloadsOf(proposals[i].kind))
       /\ proposals[i].current <= Len(proposals[i].chain)
  /\ \A r \in DOMAIN rules :
       rules[r] \in RuleRow /\ (rules[r].rung \in Predicated => rules[r].predicate # "")
  /\ proposals = [i \in DOMAIN proposals |-> proposals[i]]
  /\ rules = [r \in DOMAIN rules |-> rules[r]]

HistoryOK ==
  /\ roles \subseteq DOMAIN Rank /\ workflow \in Chains \cup {<<>>}
  /\ made \in [ProposalIds -> Nat] /\ crossings \in [ProposalIds -> Nat]
  /\ halted \cup moved \subseteq ProposalIds

ProposalsKeep ==
  \A i \in DOMAIN proposals :
    /\ i \in DOMAIN proposals'
    /\ proposals'[i].kind = proposals[i].kind /\ proposals'[i].chain = proposals[i].chain
    /\ proposals'[i].proposer = proposals[i].proposer
RulesKeep ==
  \A r \in DOMAIN rules :
    r \in DOMAIN rules' /\ (rules[r].predicate # "" => rules'[r].predicate # "")

\* A step that is sound but for the requests.
Keeps ==
  /\ RowsOK' /\ HistoryOK' /\ ProposalsKeep /\ RulesKeep
  /\ crossed \subseteq crossed'

LEMMA RowsAreOK ==
  ASSUME GovernedInv
  PROVE  RowsOK /\ HistoryOK
BY Governed DEF RowsOK, HistoryOK

LEMMA GovernedIs ==
  ASSUME RowsOK', HistoryOK', request' \in [People -> RequestRow], AllAllowed'
  PROVE  GovernedInv'
BY DEF RowsOK, HistoryOK, GovernedInv, ProposalsTypeOK, PayloadsOf

\* One proposal is written.
LEMMA ProposalWritten ==
  ASSUME GovernedInv, NEW i \in DOMAIN proposals,
         NEW p \in ProposalRow(PayloadsOf(proposals[i].kind)),
         p.kind = proposals[i].kind, p.chain = proposals[i].chain,
         p.proposer = proposals[i].proposer, p.current <= Len(p.chain),
         proposals' = [proposals EXCEPT ![i] = p]
  PROVE  /\ DOMAIN proposals' = DOMAIN proposals /\ proposals'[i] = p
         /\ \A j \in DOMAIN proposals : j # i => proposals'[j] = proposals[j]
         /\ DOMAIN proposals' \subseteq ProposalIds
         /\ \A j \in DOMAIN proposals' :
              /\ proposals'[j] \in ProposalRow(PayloadsOf(proposals'[j].kind))
              /\ proposals'[j].current <= Len(proposals'[j].chain)
         /\ proposals' = [j \in DOMAIN proposals' |-> proposals'[j]]
         /\ ProposalsKeep
<1>1. proposals = [j \in DOMAIN proposals |-> proposals[j]]
  BY Governed
<1>2. /\ DOMAIN proposals' = DOMAIN proposals /\ proposals'[i] = p
      /\ \A j \in DOMAIN proposals : j # i => proposals'[j] = proposals[j]
      /\ proposals' = [j \in DOMAIN proposals' |-> proposals'[j]]
  BY <1>1
<1>3. /\ DOMAIN proposals \subseteq ProposalIds
      /\ \A j \in DOMAIN proposals :
           /\ proposals[j] \in ProposalRow(PayloadsOf(proposals[j].kind))
           /\ proposals[j].current <= Len(proposals[j].chain)
  BY Governed
<1>4. \A j \in DOMAIN proposals' :
        /\ proposals'[j] \in ProposalRow(PayloadsOf(proposals'[j].kind))
        /\ proposals'[j].current <= Len(proposals'[j].chain)
  BY <1>2, <1>3
<1>5. ProposalsKeep
  BY <1>2 DEF ProposalsKeep
<1> QED BY <1>2, <1>3, <1>4, <1>5

\* One rule is written.
LEMMA RuleWritten ==
  ASSUME GovernedInv, NEW r \in DOMAIN rules, NEW rule \in RuleRow,
         rules[r].predicate # "" => rule.predicate # "",
         rule.rung \in Predicated => rule.predicate # "",
         rules' = [rules EXCEPT ![r] = rule]
  PROVE  /\ DOMAIN rules' = DOMAIN rules /\ rules'[r] = rule
         /\ \A s \in DOMAIN rules : s # r => rules'[s] = rules[s]
         /\ DOMAIN rules' \subseteq RuleIds
         /\ \A s \in DOMAIN rules' :
              rules'[s] \in RuleRow /\ (rules'[s].rung \in Predicated => rules'[s].predicate # "")
         /\ rules' = [s \in DOMAIN rules' |-> rules'[s]]
         /\ RulesKeep
<1>1. /\ rules = [s \in DOMAIN rules |-> rules[s]] /\ DOMAIN rules \subseteq RuleIds
      /\ \A s \in DOMAIN rules :
           rules[s] \in RuleRow /\ (rules[s].rung \in Predicated => rules[s].predicate # "")
  BY Governed
<1>2. /\ DOMAIN rules' = DOMAIN rules /\ rules'[r] = rule
      /\ \A s \in DOMAIN rules : s # r => rules'[s] = rules[s]
      /\ rules' = [s \in DOMAIN rules' |-> rules'[s]]
  BY <1>1
<1>3. \A s \in DOMAIN rules' :
        rules'[s] \in RuleRow /\ (rules'[s].rung \in Predicated => rules'[s].predicate # "")
  BY <1>1, <1>2
<1>4. RulesKeep
  BY <1>2 DEF RulesKeep
<1> QED BY <1>1, <1>2, <1>3, <1>4

\* Steps that write no rules, and steps that write no proposals.
LEMMA RulesLeft ==
  ASSUME GovernedInv, UNCHANGED rules
  PROVE  /\ RulesKeep /\ DOMAIN rules' \subseteq RuleIds
         /\ \A r \in DOMAIN rules' :
              rules'[r] \in RuleRow /\ (rules'[r].rung \in Predicated => rules'[r].predicate # "")
         /\ rules' = [r \in DOMAIN rules' |-> rules'[r]]
BY Governed DEF RulesKeep

LEMMA ProposalsLeft ==
  ASSUME GovernedInv, UNCHANGED proposals
  PROVE  /\ ProposalsKeep /\ DOMAIN proposals' \subseteq ProposalIds
         /\ \A i \in DOMAIN proposals' :
              /\ proposals'[i] \in ProposalRow(PayloadsOf(proposals'[i].kind))
              /\ proposals'[i].current <= Len(proposals'[i].chain)
         /\ proposals' = [i \in DOMAIN proposals' |-> proposals'[i]]
BY Governed DEF ProposalsKeep

-----------------------------------------------------------------------------
(* Requests go on. *)

\* Where nobody wrote over another, nobody has.
LEMMA Uncrossed ==
  ASSUME UNCHANGED crossings
  PROVE  UNCHANGED crossed
BY DEF crossed

LEMMA RestingIsAllowed ==
  ASSUME NEW u
  PROVE  Allowed(u, Resting)' /\ Resting \in RequestRow
<1>1. Resting.pc = "idle"
  BY DEF Resting
<1> QED BY <1>1 DEF Allowed, IsOfAProposal, MaySign, HasSigned, MayRewrite, MayChange, IsOfARule,
                    OfAProposal,
                    RequestRow

LEMMA StillAllowed ==
  ASSUME Keeps, NEW u \in People, NEW w, Allowed(u, w)
  PROVE  Allowed(u, w)'
<1>1. /\ IsOfAProposal(w) /\ MaySign(u, w) /\ HasSigned(w) /\ MayRewrite(w) /\ MayChange(u, w)
      /\ IsOfARule(w)
  BY DEF Allowed
<1>2. IsOfAProposal(w)'
  BY <1>1 DEF IsOfAProposal, Keeps, ProposalsKeep
<1>3. MaySign(u, w)' /\ MayRewrite(w)' /\ MayChange(u, w)'
  BY <1>1 DEF MaySign, MayRewrite, MayChange, SignersOf, MayMove, IsDemotion, PayloadsOf, Asks
<1>4. HasSigned(w)'
  BY <1>1 DEF HasSigned, Keeps
<1>5. IsOfARule(w)'
  BY <1>1 DEF IsOfARule, Keeps, RulesKeep
<1> QED BY <1>2, <1>3, <1>4, <1>5 DEF Allowed

\* What is allowed of each request by itself.
LEMMA EachIsAllowed ==
  ASSUME \A u \in People : \A w : w = request'[u] => Allowed(u, w)'
  PROVE  AllAllowed'
<1> SUFFICES ASSUME NEW u \in People PROVE Allowed(u, request[u])'
  BY DEF AllAllowed
<1>1. PICK w : w = request'[u]
  OBVIOUS
<1>2. Allowed(u, w)'
  BY <1>1
<1> QED BY <1>1, <1>2 DEF Allowed, IsOfAProposal, MaySign, HasSigned, MayRewrite, MayChange,
                          IsOfARule

\* One request goes on, to a row that is allowed.
LEMMA OneRequest ==
  ASSUME GovernedInv, Keeps, NEW u \in People, NEW w \in RequestRow,
         request' = [request EXCEPT ![u] = w], w = Resting \/ Allowed(u, w)'
  PROVE  GovernedInv'
<1>1. request \in [People -> RequestRow] /\ AllAllowed
  BY Governed
<1>2. /\ request'[u] = w /\ DOMAIN request' = People /\ request' = [v \in People |-> request'[v]]
      /\ \A v \in People \ {u} : request'[v] = request[v]
  BY <1>1
<1>3. ASSUME NEW v \in People, NEW x, x = request'[v] PROVE Allowed(v, x)' /\ x \in RequestRow
  <2>1. CASE v # u
    <3>1. x = request[v] /\ x \in RequestRow
      BY <1>1, <1>2, <1>3, <2>1
    <3>2. Allowed(v, x)
      BY <1>1, <3>1 DEF AllAllowed
    <3> QED BY <3>1, <3>2, StillAllowed
  <2>2. CASE v = u /\ w = Resting
    BY <1>2, <1>3, <2>2, RestingIsAllowed
  <2>3. CASE v = u /\ w # Resting
    BY <1>2, <1>3, <2>3
  <2> QED BY <2>1, <2>2, <2>3
<1>4. request' \in [People -> RequestRow]
  BY <1>2, <1>3
<1>5. RowsOK' /\ HistoryOK'
  BY DEF Keeps
<1>6. AllAllowed'
  BY <1>3, EachIsAllowed
<1> QED BY <1>4, <1>5, <1>6, GovernedIs

\* No request but at most goes away.
LEMMA NoRequest ==
  ASSUME GovernedInv, Keeps,
         UNCHANGED request \/ request' = [u \in People |-> Resting]
  PROVE  GovernedInv'
<1>1. request \in [People -> RequestRow] /\ AllAllowed
  BY Governed
<1>2. ASSUME NEW v \in People, NEW x, x = request'[v] PROVE Allowed(v, x)' /\ x \in RequestRow
  <2>1. CASE x = Resting
    BY <2>1, RestingIsAllowed
  <2>2. CASE x = request[v]
    <3>1. Allowed(v, x) /\ x \in RequestRow
      BY <1>1, <2>2 DEF AllAllowed
    <3> QED BY <3>1, StillAllowed
  <2> QED BY <1>1, <1>2, <2>1, <2>2
<1>3. request' \in [People -> RequestRow]
  BY <1>1, <1>2
<1>4. RowsOK' /\ HistoryOK'
  BY DEF Keeps
<1>5. AllAllowed'
  BY <1>2, EachIsAllowed
<1> QED BY <1>3, <1>4, <1>5, GovernedIs

-----------------------------------------------------------------------------
(* Each action. *)

LEMMA KeepsAll ==
  ASSUME GovernedInv, UNCHANGED <<proposals, rules, made, crossings, halted, moved>>,
         roles' \subseteq roles, workflow' \in Chains \cup {<<>>}
  PROVE  Keeps
<1>1. RowsOK /\ HistoryOK
  BY RowsAreOK
<1> QED BY <1>1, ProposalsLeft, RulesLeft, Uncrossed DEF Keeps, RowsOK, HistoryOK

LEMMA InitGoverned == ProposalsInit => GovernedInv
<1> SUFFICES ASSUME ProposalsInit PROVE GovernedInv
  OBVIOUS
<1>1. /\ roles = DOMAIN Rank /\ workflow = <<>> /\ proposals = <<>> /\ rules = <<>>
      /\ DOMAIN proposals = {} /\ DOMAIN rules = {}
      /\ request = [u \in People |-> Resting]
      /\ made = [i \in ProposalIds |-> 0] /\ crossings = made /\ halted = {} /\ moved = {}
  BY DEF ProposalsInit
<1>2. ProposalsTypeOK
  BY <1>1 DEF ProposalsTypeOK
<1>3. proposals = [i \in DOMAIN proposals |-> proposals[i]] /\ rules = [r \in DOMAIN rules |-> rules[r]]
  BY <1>1
<1>4. request \in [People -> RequestRow]
  BY <1>1 DEF RequestRow
<1>5. AllAllowed
  <2> SUFFICES ASSUME NEW u \in People PROVE Allowed(u, request[u])
    BY DEF AllAllowed
  <2>1. request[u].pc = "idle"
    BY <1>1 DEF Resting
  <2> QED BY <2>1 DEF Allowed, IsOfAProposal, MaySign, HasSigned, MayRewrite, MayChange,
                      IsOfARule, OfAProposal
<1> QED BY <1>2, <1>3, <1>4, <1>5 DEF GovernedInv

LEMMA ReviewReadsKeeps ==
  ASSUME GovernedInv, NEW u \in People, NEW i \in ProposalIds, NEW says \in Verdicts,
         ReviewReads(u, i, says)
  PROVE  GovernedInv'
<1>1. PICK p : p = proposals[i]
  OBVIOUS
<1> DEFINE w == [pc |-> "reviewing", id |-> i, by |-> u, says |-> says, seen |-> p]
<1>2. i \in DOMAIN proposals /\ MayReview(u, p) /\ request' = [request EXCEPT ![u] = w]
  BY <1>1 DEF ReviewReads
<1>3. p \in AnyProposal
  BY <1>1, <1>2, Governed, AnyProposalIs
<1>4. w \in ReviewRow /\ w \in RequestRow
  BY <1>3 DEF ReviewRow, RequestRow
<1>5. Allowed(u, w)
  BY <1>1, <1>2 DEF Allowed, IsOfAProposal, MaySign, HasSigned, MayRewrite, MayChange, IsOfARule,
                    OfAProposal,
                    MayReview, AtLeast
<1>6. Keeps
  BY KeepsAll, Governed DEF ReviewReads
<1>7. Allowed(u, w)'
  BY <1>5, <1>6, StillAllowed
<1> QED BY <1>2, <1>4, <1>6, <1>7, OneRequest

LEMMA ResubmitReadsKeeps ==
  ASSUME GovernedInv, NEW u \in People, NEW i \in ProposalIds, NEW ask \in Asks,
         ResubmitReads(u, i, ask)
  PROVE  GovernedInv'
<1>1. PICK p : p = proposals[i]
  OBVIOUS
<1> DEFINE w == [pc |-> "resubmitting", id |-> i, payload |-> ask.payload, seen |-> p]
<1>2. /\ i \in DOMAIN proposals /\ MayResubmit(u, p) /\ ask.kind = p.kind
      /\ request' = [request EXCEPT ![u] = w]
  BY <1>1 DEF ResubmitReads
<1>3. p \in AnyProposal
  BY <1>1, <1>2, Governed, AnyProposalIs
<1>4. w \in ResubmitRow /\ w \in RequestRow
  BY <1>3 DEF ResubmitRow, RequestRow, Payloads
<1>5. w.payload \in PayloadsOf(w.seen.kind)
  BY <1>2 DEF PayloadsOf
<1>6. Allowed(u, w)
  BY <1>1, <1>2, <1>5 DEF Allowed, IsOfAProposal, MaySign, HasSigned, MayRewrite, MayChange,
                          IsOfARule,
                          OfAProposal, MayResubmit
<1>7. Keeps
  BY KeepsAll, Governed DEF ResubmitReads
<1>8. Allowed(u, w)'
  BY <1>6, <1>7, StillAllowed
<1> QED BY <1>2, <1>4, <1>7, <1>8, OneRequest

LEMMA MoveReadsKeeps ==
  ASSUME GovernedInv, NEW u \in People, NEW q \in Moves, NEW second \in People,
         MoveReads(u, q, second)
  PROVE  GovernedInv'
<1>1. PICK rule : rule = rules[q.rule]
  OBVIOUS
<1> DEFINE w == [pc |-> "moving", by |-> u, second |-> second, move |-> q, seen |-> rule]
<1>2. /\ q.rule \in DOMAIN rules /\ (IsDemotion(rule, q.to) => second # u) /\ MayMove(rule, q)
      /\ request' = [request EXCEPT ![u] = w]
  BY <1>1 DEF MoveReads
<1>3. rule \in RuleRow
  BY <1>1, <1>2, Governed
<1>4. w \in MoveRow /\ w \in RequestRow
  BY <1>3 DEF MoveRow, RequestRow
<1>5. Allowed(u, w)
  BY <1>1, <1>2 DEF Allowed, IsOfAProposal, MaySign, HasSigned, MayRewrite, MayChange, IsOfARule,
                    OfAProposal
<1>6. Keeps
  BY KeepsAll, Governed DEF MoveReads
<1>7. Allowed(u, w)'
  BY <1>5, <1>6, StillAllowed
<1> QED BY <1>2, <1>4, <1>6, <1>7, OneRequest

LEMMA DisableReadsKeeps ==
  ASSUME GovernedInv, NEW u \in People, NEW r \in RuleIds, DisableReads(u, r)
  PROVE  GovernedInv'
<1>1. PICK rule : rule = rules[r]
  OBVIOUS
<1> DEFINE w == [pc |-> "disabling", rule |-> r, by |-> u, seen |-> rule]
<1>2. r \in DOMAIN rules /\ rule.rung = 0 /\ request' = [request EXCEPT ![u] = w]
  BY <1>1 DEF DisableReads
<1>3. rule \in RuleRow
  BY <1>1, <1>2, Governed
<1>4. w \in DisableRow /\ w \in RequestRow
  BY <1>3 DEF DisableRow, RequestRow
<1>5. Allowed(u, w)
  BY <1>1, <1>2 DEF Allowed, IsOfAProposal, MaySign, HasSigned, MayRewrite, MayChange, IsOfARule,
                    OfAProposal
<1>6. Keeps
  BY KeepsAll, Governed DEF DisableReads
<1>7. Allowed(u, w)'
  BY <1>5, <1>6, StillAllowed
<1> QED BY <1>2, <1>4, <1>6, <1>7, OneRequest

LEMMA ChainsAre ==
  ASSUME GovernedInv, NEW u \in People, NEW chain \in ResolveChain(u)
  PROVE  chain \in Seq(DOMAIN Rank) /\ 0 < Len(chain)
<1> DEFINE up == {r \in roles : Rank[r] > Rank[RoleOf[u]]}
<1>1. roles \subseteq DOMAIN Rank /\ workflow \in Chains \cup {<<>>} /\ Layer \in DOMAIN Rank
  BY Governed, Given
<1>2. CASE workflow # <<>>
  <2>1. chain \in Seq(DOMAIN Rank) /\ chain # <<>>
    BY <1>1, <1>2, Given DEF ResolveChain
  <2> QED BY <2>1
<1>3. CASE workflow = <<>> /\ up # {}
  <2>1. IsFiniteSet(up) /\ up \subseteq DOMAIN Rank
    BY <1>1, Given, FS_Subset
  <2>2. Cardinality(up) \in Nat /\ Cardinality(up) # 0
    BY <1>3, <2>1, FS_CardinalityType, FS_EmptySet
  <2>3. chain \in ByRank(up)
    BY <1>3 DEF ResolveChain
  <2>4. chain \in [1..Cardinality(up) -> DOMAIN Rank]
    BY <2>1, <2>3 DEF ByRank
  <2> HIDE DEF up
  <2>5. chain \in Seq(DOMAIN Rank) /\ Len(chain) = Cardinality(up)
    BY <2>2, <2>4
  <2> QED BY <2>2, <2>5
<1>4. CASE workflow = <<>> /\ up = {}
  <2>1. chain = <<Layer>>
    BY <1>4 DEF ResolveChain
  <2> QED BY <1>1, <2>1
<1> QED BY <1>2, <1>3, <1>4

LEMMA ProposeKeeps ==
  ASSUME GovernedInv, NEW u \in People, NEW i \in ProposalIds, NEW ask \in Asks, Propose(u, i, ask)
  PROVE  GovernedInv'
<1>1. PICK chain \in ResolveChain(u) :
        proposals' = [j \in DOMAIN proposals \cup {i} |->
          IF j = i THEN [kind |-> ask.kind, payload |-> ask.payload, proposer |-> u, chain |-> chain,
                         current |-> 0, decisions |-> <<>>, status |-> "pending"]
          ELSE proposals[j]]
  BY DEF Propose
<1> DEFINE p == [kind |-> ask.kind, payload |-> ask.payload, proposer |-> u, chain |-> chain,
                 current |-> 0, decisions |-> <<>>, status |-> "pending"]
<1>2. chain \in Seq(DOMAIN Rank) /\ 0 < Len(chain)
  BY ChainsAre
<1>3. ask.kind \in {"adopt", "create", "move"} /\ ask.payload \in PayloadsOf(ask.kind)
  BY DEF Asks, PayloadsOf
<1>4. <<>> \in Seq(Decision)
  OBVIOUS
<1>5. p \in ProposalRow(PayloadsOf(p.kind)) /\ p.current <= Len(p.chain)
  BY <1>2, <1>3, <1>4 DEF ProposalRow
<1> HIDE DEF p
<1>6. /\ DOMAIN proposals' = DOMAIN proposals \cup {i} /\ proposals'[i] = p
      /\ \A j \in DOMAIN proposals : proposals'[j] = proposals[j]
      /\ proposals' = [j \in DOMAIN proposals' |-> proposals'[j]]
  BY <1>1 DEF p, Propose
<1>7. RowsOK /\ HistoryOK
  BY RowsAreOK
<1>8. UNCHANGED <<roles, workflow, rules, request, made, crossings, halted, moved>>
  BY DEF Propose
<1>9. RowsOK'
  BY <1>5, <1>6, <1>7, <1>8 DEF RowsOK
<1>10. Keeps
  BY <1>6, <1>7, <1>8, <1>9, RulesLeft, Uncrossed DEF Keeps, HistoryOK, ProposalsKeep
<1> QED BY <1>8, <1>10, NoRequest

\* What there is to know of a request that is at a proposal.
LEMMA AtAProposal ==
  ASSUME GovernedInv, NEW u \in People, NEW w, w = request[u], w.pc \in OfAProposal
  PROVE  /\ w \in RequestRow /\ Allowed(u, w) /\ w.id \in DOMAIN proposals /\ w.id \in ProposalIds
         /\ w.seen.kind = proposals[w.id].kind /\ w.seen.chain = proposals[w.id].chain
         /\ w.seen.proposer = proposals[w.id].proposer /\ w.seen \in AnyProposal
         /\ w.pc = "resubmitting" => w \in ResubmitRow
         /\ w.pc # "resubmitting" => w \in ReviewRow
<1>1. w \in RequestRow /\ Allowed(u, w)
  BY Governed DEF AllAllowed
<1>2. /\ w.id \in DOMAIN proposals /\ w.seen.kind = proposals[w.id].kind
      /\ w.seen.chain = proposals[w.id].chain /\ w.seen.proposer = proposals[w.id].proposer
  BY <1>1 DEF Allowed, IsOfAProposal
<1>3. /\ w.pc = "resubmitting" => w \in ResubmitRow
      /\ w.pc # "resubmitting" => w \in ReviewRow
  BY <1>1, RequestIs DEF OfAProposal
<1>4. w.seen \in AnyProposal
  BY <1>3 DEF ReviewRow, ResubmitRow
<1> QED BY <1>1, <1>2, <1>3, <1>4, Governed

LEMMA SignedProposal ==
  ASSUME GovernedInv, NEW u \in People, NEW w, w = request[u], w.pc = "reviewing"
  PROVE  LET p == proposals[w.id]
             d == Decided(p, w) IN
         /\ w \in ReviewRow /\ w.id \in DOMAIN proposals /\ w.by = u
         /\ p \in ProposalRow(PayloadsOf(p.kind)) /\ w.seen.chain = p.chain
         /\ w.seen.status = "pending" /\ w.seen.current < Len(p.chain) /\ w.seen.current \in Nat
         /\ d \in ProposalRow(PayloadsOf(p.kind)) /\ d.current <= Len(d.chain)
         /\ d.kind = p.kind /\ d.chain = p.chain /\ d.proposer = p.proposer /\ d.payload = p.payload
<1> DEFINE p == proposals[w.id]
<1>1. w \in ReviewRow /\ w.id \in DOMAIN proposals /\ Allowed(u, w) /\ w.seen.chain = p.chain
      /\ w.seen \in AnyProposal
  BY AtAProposal DEF OfAProposal
<1>2. w.by = u /\ w.seen.status = "pending" /\ w.seen.current < Len(w.seen.chain)
  BY <1>1 DEF Allowed, MaySign
<1>3. p \in ProposalRow(PayloadsOf(p.kind)) /\ p.current <= Len(p.chain)
  BY <1>1, Governed
<1>4. w.seen.current \in Nat /\ Len(p.chain) \in Nat /\ p.current \in Nat
  BY <1>1, <1>3, ProposalIs DEF AnyProposal
<1> HIDE DEF p
<1>5. /\ Decided(p, w) \in ProposalRow(PayloadsOf(p.kind))
      /\ Decided(p, w).kind = p.kind /\ Decided(p, w).payload = p.payload
      /\ Decided(p, w).proposer = p.proposer /\ Decided(p, w).chain = p.chain
      /\ Decided(p, w).current = IF w.says = "accept" THEN w.seen.current + 1 ELSE p.current
  <2>1. w.seen.current < Len(p.chain)
    BY <1>1, <1>2
  <2> QED BY <1>1, <1>3, <2>1, DecidedKeeps
<1>6. Decided(p, w).current <= Len(Decided(p, w).chain)
  BY <1>1, <1>2, <1>3, <1>4, <1>5
<1> QED BY <1>1, <1>2, <1>3, <1>4, <1>5, <1>6 DEF p

\* A step that writes proposals and what is remembered of them.
LEMMA WritesProposals ==
  ASSUME GovernedInv, UNCHANGED <<roles, workflow, rules>>,
         DOMAIN proposals' \subseteq ProposalIds,
         \A i \in DOMAIN proposals' :
           /\ proposals'[i] \in ProposalRow(PayloadsOf(proposals'[i].kind))
           /\ proposals'[i].current <= Len(proposals'[i].chain),
         proposals' = [i \in DOMAIN proposals' |-> proposals'[i]], ProposalsKeep,
         made' \in [ProposalIds -> Nat], crossings' \in [ProposalIds -> Nat],
         crossed \subseteq crossed', halted' \cup moved' \subseteq ProposalIds
  PROVE  Keeps
BY RulesLeft, RowsAreOK DEF Keeps, RowsOK, HistoryOK

LEMMA MadeOnceMore ==
  ASSUME GovernedInv, NEW i \in ProposalIds,
         made' = [made EXCEPT ![i] = @ + 1] \/ made' = made
  PROVE  made' \in [ProposalIds -> Nat]
<1>1. made \in [ProposalIds -> Nat]
  BY Governed
<1>2. made[i] + 1 \in Nat
  BY <1>1
<1> QED BY <1>1, <1>2

\* A request that writes counts as one that crossed another, or has seen the row.
LEMMA CountedIs ==
  ASSUME GovernedInv, NEW w, w.id \in ProposalIds, crossings' = Counted(w)
  PROVE  /\ crossings' \in [ProposalIds -> Nat] /\ crossed \subseteq crossed'
         /\ \A i \in ProposalIds : crossings[i] <= crossings'[i]
         /\ proposals[w.id] = w.seen \/ crossings'[w.id] = crossings[w.id] + 1
         /\ w.id \notin crossed' => w.id \notin crossed /\ proposals[w.id] = w.seen
<1>1. crossings \in [ProposalIds -> Nat]
  BY Governed
<1>2. \A i \in ProposalIds : crossings[i] \in Nat /\ crossings[i] + 1 \in Nat
  BY <1>1
<1>3. CASE proposals[w.id] = w.seen
  <2>1. crossings' = crossings
    BY <1>3 DEF Counted
  <2>2. \A i \in ProposalIds : crossings[i] <= crossings'[i]
    BY <1>2, <2>1
  <2> QED BY <1>1, <1>3, <2>1, <2>2, Uncrossed
<1>4. CASE proposals[w.id] # w.seen
  <2>1. crossings' = [crossings EXCEPT ![w.id] = crossings[w.id] + 1]
    BY <1>4 DEF Counted
  <2>2. /\ crossings' \in [ProposalIds -> Nat] /\ crossings'[w.id] = crossings[w.id] + 1
        /\ \A i \in ProposalIds : i # w.id => crossings'[i] = crossings[i]
    BY <1>1, <1>2, <2>1
  <2>3. \A i \in ProposalIds : crossings[i] <= crossings'[i]
    BY <1>2, <2>2
  <2>4. w.id \in crossed' /\ crossed \subseteq crossed'
    BY <1>2, <2>2, <2>3 DEF crossed
  <2> QED BY <2>2, <2>3, <2>4
<1> QED BY <1>3, <1>4

LEMMA NotCrossed ==
  ASSUME GovernedInv, NEW w, w.id \in DOMAIN proposals, crossings' = Counted(w), w.id \notin crossed'
  PROVE  w.id \notin crossed /\ proposals[w.id] = w.seen
BY Governed, CountedIs

\* Whoever has been written over stays so.
LEMMA CrossedStays ==
  ASSUME GovernedInv, NEW w, w.id \in DOMAIN proposals, crossings' = Counted(w)
  PROVE  crossed \subseteq crossed'
BY Governed, CountedIs

LEMMA ReviewWritesKeeps ==
  ASSUME GovernedInv, NEW u \in People, ReviewWrites(u)
  PROVE  GovernedInv' /\ Keeps
<1>1. PICK w : w = request[u]
  OBVIOUS
<1>2. /\ w.pc = "reviewing"
      /\ proposals' = [proposals EXCEPT ![w.id] = Decided(proposals[w.id], w)]
      /\ made' = [made EXCEPT ![w.id] = @ + 1] \/ made' = made
      /\ crossings' = Counted(w)
      /\ request' = [request EXCEPT ![u] = Resting]
      /\ UNCHANGED <<roles, workflow, rules, halted, moved>>
  BY <1>1 DEF ReviewWrites
<1> DEFINE p == proposals[w.id]
           d == Decided(p, w)
<1>3. /\ w.id \in DOMAIN proposals /\ d \in ProposalRow(PayloadsOf(p.kind))
      /\ d.current <= Len(d.chain)
      /\ d.kind = p.kind /\ d.chain = p.chain /\ d.proposer = p.proposer
  BY <1>1, <1>2, SignedProposal
<1>4. proposals' = [proposals EXCEPT ![w.id] = d] /\ w.id \in ProposalIds
  BY <1>2, <1>3, Governed
<1> HIDE DEF d
<1>5. Keeps
  <2>1. made' \in [ProposalIds -> Nat]
    BY <1>2, <1>4, MadeOnceMore
  <2>2. /\ crossings' \in [ProposalIds -> Nat] /\ crossed \subseteq crossed'
        /\ halted' \cup moved' \subseteq ProposalIds
    BY <1>2, <1>4, CountedIs, Governed
  <2> HIDE DEF p
  <2>3. p = proposals[w.id]
    BY DEF p
  <2> QED BY <1>2, <1>3, <1>4, <2>1, <2>2, <2>3, ProposalWritten, WritesProposals
<1> QED BY <1>2, <1>5, OneRequest, RestingIsAllowed

LEMMA FinishesKeeps ==
  ASSUME GovernedInv, NEW u \in People, Finishes(u)
  PROVE  GovernedInv' /\ Keeps
<1>1. PICK w : w = request[u]
  OBVIOUS
<1>2. /\ w.pc = "applied"
      /\ proposals' = [proposals EXCEPT ![w.id].status = "accepted"]
      /\ crossings' = Counted(w)
      /\ request' = [request EXCEPT ![u] = Resting]
      /\ UNCHANGED <<roles, workflow, rules, made, halted, moved>>
  BY <1>1 DEF Finishes
<1> DEFINE p == proposals[w.id]
           d == [p EXCEPT !.status = "accepted"]
<1>3. w.id \in DOMAIN proposals /\ w.id \in ProposalIds
  BY <1>1, <1>2, AtAProposal DEF OfAProposal
<1>4. p \in ProposalRow(PayloadsOf(p.kind)) /\ p.current <= Len(p.chain)
  BY <1>3, Governed
<1>5. /\ d \in ProposalRow(PayloadsOf(p.kind)) /\ d.current = p.current
      /\ d.kind = p.kind /\ d.chain = p.chain /\ d.proposer = p.proposer
  BY <1>4 DEF ProposalRow
<1>6. proposals' = [proposals EXCEPT ![w.id] = d]
  BY <1>2
<1> HIDE DEF d
<1>7. Keeps
  BY <1>2, <1>3, <1>4, <1>5, <1>6, ProposalWritten, WritesProposals, CountedIs, Governed
<1> QED BY <1>2, <1>7, OneRequest, RestingIsAllowed

LEMMA ResubmitWritesKeeps ==
  ASSUME GovernedInv, NEW u \in People, ResubmitWrites(u)
  PROVE  GovernedInv' /\ Keeps
<1>1. PICK w : w = request[u]
  OBVIOUS
<1> DEFINE p == proposals[w.id]
           current == IF w.seen.current = 0 THEN p.current ELSE 0
           d == Rewritten(p, w)
<1>2. /\ w.pc = "resubmitting"
      /\ proposals' = [proposals EXCEPT ![w.id] = d]
      /\ crossings' = Counted(w)
      /\ moved' = IF w.payload = w.seen.payload THEN moved ELSE moved \cup {w.id}
      /\ request' = [request EXCEPT ![u] = Resting]
      /\ UNCHANGED <<roles, workflow, rules, made, halted>>
  BY <1>1 DEF ResubmitWrites
<1>3. w.id \in DOMAIN proposals /\ w.id \in ProposalIds /\ w.seen.kind = p.kind /\ Allowed(u, w)
  BY <1>1, <1>2, AtAProposal DEF OfAProposal
<1>4. p \in ProposalRow(PayloadsOf(p.kind)) /\ p.current <= Len(p.chain)
  BY <1>3, Governed
<1>5. w.payload \in PayloadsOf(p.kind)
  BY <1>2, <1>3 DEF Allowed, MayRewrite
<1>6. current \in Nat /\ current <= Len(p.chain)
  BY <1>4, ProposalIs
<1>7. <<>> \in Seq(Decision)
  OBVIOUS
<1> HIDE DEF current
<1>8. /\ d \in ProposalRow(PayloadsOf(p.kind)) /\ d.current = current
      /\ d.kind = p.kind /\ d.chain = p.chain /\ d.proposer = p.proposer
  <2>1. d = [p EXCEPT !.payload = w.payload, !.decisions = <<>>, !.status = "pending", !.current = current]
    BY DEF Rewritten, current
  <2> HIDE DEF d
  <2> QED BY <1>4, <1>5, <1>6, <1>7, <2>1 DEF ProposalRow
<1> HIDE DEF d
<1>9. moved' \subseteq ProposalIds
  BY <1>2, <1>3, Governed
<1>10. Keeps
  BY <1>2, <1>3, <1>6, <1>8, <1>9, ProposalWritten, WritesProposals, CountedIs, Governed
<1> QED BY <1>2, <1>10, OneRequest, RestingIsAllowed

-----------------------------------------------------------------------------
(* Rules. *)

LEMMA RuleIs ==
  ASSUME NEW rule \in RuleRow
  PROVE  /\ rule.rung \in 0..5 /\ rule.predicate \in {"", "args", "diff"}
         /\ rule.withholds \in BOOLEAN /\ rule.enabled \in BOOLEAN
BY DEF RuleRow, PREDICATES

LEMMA PlacedIs ==
  ASSUME NEW rule \in RuleRow, NEW seen \in RuleRow, NEW q \in Moves, MayMove(seen, q),
         seen.predicate # "" => rule.predicate # "",
         rule.rung \in Predicated => rule.predicate # ""
  PROVE  /\ Placed(rule, seen, q) \in RuleRow
         /\ Placed(rule, seen, q).rung = IF q.to = seen.rung THEN rule.rung ELSE q.to
         /\ rule.predicate # "" => Placed(rule, seen, q).predicate # ""
         /\ Placed(rule, seen, q).rung \in Predicated => Placed(rule, seen, q).predicate # ""
<1> DEFINE rung == IF q.to = seen.rung THEN rule.rung ELSE q.to
           predicate == IF q.predicate \in {"", seen.predicate} THEN rule.predicate ELSE q.predicate
           placed == Placed(rule, seen, q)
<1>1. q.to \in 0..5 /\ q.predicate \in {"", "args", "diff"}
  BY Given
<1>2. rung \in 0..5 /\ predicate \in {"", "args", "diff"}
  BY <1>1, RuleIs
<1>3. placed = [rule EXCEPT !.rung = rung, !.predicate = predicate]
  BY DEF Placed
<1>4. rule.predicate # "" => predicate # ""
  OBVIOUS
<1>5. rung \in Predicated => predicate # ""
  BY DEF MayMove
<1> HIDE DEF rung, predicate, placed
<1>6. placed \in RuleRow /\ placed.rung = rung /\ placed.predicate = predicate
  BY <1>2, <1>3 DEF RuleRow, PREDICATES
<1> QED BY <1>4, <1>5, <1>6 DEF rung, placed

\* A step that writes rules.
LEMMA WritesRules ==
  ASSUME GovernedInv, UNCHANGED <<roles, workflow, proposals, made, crossings, halted>>,
         DOMAIN rules' \subseteq RuleIds,
         \A r \in DOMAIN rules' :
           rules'[r] \in RuleRow /\ (rules'[r].rung \in Predicated => rules'[r].predicate # ""),
         rules' = [r \in DOMAIN rules' |-> rules'[r]], RulesKeep, moved' \subseteq ProposalIds
  PROVE  Keeps
BY ProposalsLeft, RowsAreOK, Uncrossed DEF Keeps, RowsOK, HistoryOK

LEMMA AboutIs ==
  ASSUME GovernedInv, NEW r
  PROVE  About(r) \subseteq DOMAIN proposals /\ moved \cup About(r) \subseteq ProposalIds
BY Governed DEF About

LEMMA AddRuleKeeps ==
  ASSUME GovernedInv, NEW u \in People, NEW r \in RuleIds, NEW rule \in NewRules,
         AddRule(u, r, rule)
  PROVE  GovernedInv' /\ Keeps
<1>1. /\ Carried(rule) /\ r \notin DOMAIN rules
      /\ rules' = [s \in DOMAIN rules \cup {r} |-> IF s = r THEN rule ELSE rules[s]]
      /\ UNCHANGED <<roles, workflow, proposals, request, made, crossings, halted, moved>>
  BY DEF AddRule
<1>2. rule \in RuleRow /\ (rule.rung \in Predicated => rule.predicate # "")
  BY <1>1, Given DEF Carried
<1>3. /\ DOMAIN rules' = DOMAIN rules \cup {r} /\ rules'[r] = rule
      /\ \A s \in DOMAIN rules : rules'[s] = rules[s]
      /\ rules' = [s \in DOMAIN rules' |-> rules'[s]]
  BY <1>1
<1>4. /\ DOMAIN rules' \subseteq RuleIds /\ RulesKeep
      /\ \A s \in DOMAIN rules' :
           rules'[s] \in RuleRow /\ (rules'[s].rung \in Predicated => rules'[s].predicate # "")
  BY <1>2, <1>3, Governed DEF RulesKeep
<1>5. Keeps
  BY <1>1, <1>3, <1>4, WritesRules, Governed
<1> QED BY <1>1, <1>5, NoRequest

\* What there is to know of a request that is at a rule.
LEMMA AtARule ==
  ASSUME GovernedInv, NEW u \in People, NEW w, w = request[u]
  PROVE  /\ w.pc = "moving" =>
              /\ w \in MoveRow /\ w.move \in Moves /\ w.second \in People /\ w.seen \in RuleRow
              /\ w.move.rule \in DOMAIN rules /\ MayMove(w.seen, w.move)
              /\ w.seen.predicate # "" => rules[w.move.rule].predicate # ""
              /\ IsDemotion(w.seen, w.move.to) => w.second # u
         /\ w.pc = "disabling" => w.rule \in DOMAIN rules /\ w.seen.rung = 0
<1>1. w \in RequestRow /\ Allowed(u, w)
  BY Governed DEF AllAllowed
<1>2. w.pc = "moving" => w \in MoveRow
  BY <1>1, RequestIs
<1>3. w \in MoveRow => w.move \in Moves /\ w.second \in People /\ w.seen \in RuleRow
  BY DEF MoveRow
<1> QED BY <1>1, <1>2, <1>3 DEF Allowed, MayChange, IsOfARule

LEMMA MoveWritesKeeps ==
  ASSUME GovernedInv, NEW u \in People, MoveWrites(u)
  PROVE  GovernedInv' /\ Keeps
<1>1. PICK w : w = request[u]
  OBVIOUS
<1>2. PICK r : r = w.move.rule
  OBVIOUS
<1>3. /\ w.pc = "moving" /\ rules' = [rules EXCEPT ![r] = Placed(rules[r], w.seen, w.move)]
      /\ moved' = moved \cup About(r)
      /\ request' = [request EXCEPT ![u] = Resting]
      /\ UNCHANGED <<roles, workflow, proposals, made, crossings, halted>>
  BY <1>1, <1>2 DEF MoveWrites
<1>4. /\ r \in DOMAIN rules /\ w.move \in Moves /\ w.seen \in RuleRow /\ MayMove(w.seen, w.move)
      /\ w.seen.predicate # "" => rules[r].predicate # ""
  BY <1>1, <1>2, <1>3, AtARule
<1>5. rules[r] \in RuleRow /\ (rules[r].rung \in Predicated => rules[r].predicate # "")
  BY <1>4, Governed
<1> DEFINE placed == Placed(rules[r], w.seen, w.move)
<1>6. /\ placed \in RuleRow /\ (rules[r].predicate # "" => placed.predicate # "")
      /\ placed.rung \in Predicated => placed.predicate # ""
  BY <1>4, <1>5, PlacedIs
<1>7. rules' = [rules EXCEPT ![r] = placed]
  BY <1>3
<1> HIDE DEF placed
<1>8. Keeps
  BY <1>3, <1>4, <1>6, <1>7, RuleWritten, WritesRules, AboutIs
<1> QED BY <1>3, <1>8, OneRequest, RestingIsAllowed

LEMMA DisableWritesKeeps ==
  ASSUME GovernedInv, NEW u \in People, DisableWrites(u)
  PROVE  GovernedInv' /\ Keeps
<1>1. PICK w : w = request[u]
  OBVIOUS
<1>2. /\ w.pc = "disabling" /\ rules' = [rules EXCEPT ![w.rule].enabled = FALSE]
      /\ request' = [request EXCEPT ![u] = Resting]
      /\ UNCHANGED <<roles, workflow, proposals, made, crossings, halted, moved>>
  BY <1>1 DEF DisableWrites
<1>3. PICK r : r = w.rule
  OBVIOUS
<1>4. r \in DOMAIN rules
  BY <1>1, <1>2, <1>3, AtARule
<1>5. rules[r] \in RuleRow /\ (rules[r].rung \in Predicated => rules[r].predicate # "")
  BY <1>4, Governed
<1> DEFINE off == [rules[r] EXCEPT !.enabled = FALSE]
<1>6. off \in RuleRow /\ off.rung = rules[r].rung /\ off.predicate = rules[r].predicate
  BY <1>5 DEF RuleRow
<1>7. rules' = [rules EXCEPT ![r] = off]
  BY <1>2, <1>3
<1> HIDE DEF off
<1>8. Keeps
  BY <1>2, <1>4, <1>5, <1>6, <1>7, RuleWritten, WritesRules, Governed
<1> QED BY <1>2, <1>8, OneRequest, RestingIsAllowed

LEMMA HaltKeeps ==
  ASSUME GovernedInv, Halt
  PROVE  GovernedInv' /\ Keeps
<1>1. /\ request' = [u \in People |-> Resting]
      /\ halted' = halted \cup {request[u].id : u \in {v \in People : request[v].pc = "applied"}}
      /\ UNCHANGED <<roles, workflow, proposals, rules, made, crossings, moved>>
  BY DEF Halt
<1>2. ASSUME NEW u \in People, request[u].pc = "applied" PROVE request[u].id \in ProposalIds
  BY <1>2, AtAProposal DEF OfAProposal
<1>3. halted' \subseteq ProposalIds
  BY <1>1, <1>2, Governed
<1>4. Keeps
  BY <1>1, <1>3, ProposalsLeft, RulesLeft, RowsAreOK, Uncrossed DEF Keeps, RowsOK, HistoryOK
<1> QED BY <1>1, <1>4, NoRequest

\* The last signature of a proposal that carries something out.
Applied(u, w, d) ==
  /\ proposals' = [proposals EXCEPT ![w.id] = d]
  /\ made' = [made EXCEPT ![w.id] = @ + 1]
  /\ crossings' = Counted(w)
  /\ request' = [request EXCEPT ![u] = [w EXCEPT !.pc = "applied", !.seen = d]]
  /\ UNCHANGED <<roles, workflow, halted>>

AppliedMove(w, q) ==
  /\ q.rule \in DOMAIN rules /\ MayMove(rules[q.rule], q)
  /\ rules' = [rules EXCEPT ![q.rule] = Placed(rules[q.rule], rules[q.rule], q)]
  /\ lowered' = IF q.to < rules[q.rule].rung
                THEN lowered \cup
                  {[how |-> "proposal", id |-> w.id, signers |-> SignersOf(proposals'[w.id]),
                    stale |-> w.id \in crossed']}
                ELSE lowered
  /\ moved' = moved \cup (About(q.rule) \ {w.id})

Refused(u) ==
  /\ request' = [request EXCEPT ![u] = Resting]
  /\ UNCHANGED <<roles, workflow, proposals, made, crossings, rules, lowered, moved, halted>>

LEMMA AppliesIs ==
  ASSUME GovernedInv, NEW u \in People, Applies(u), NEW w, w = request[u],
         NEW d, d = Decided(proposals[w.id], w)
  PROVE  /\ w.pc = "reviewing" /\ IsLast(w) /\ w.seen.kind # "adopt"
         /\ \/ Refused(u)
            \/ /\ Applied(u, w, d)
               /\ \/ w.seen.kind = "move" /\ AppliedMove(w, proposals[w.id].payload)
                  \/ w.seen.kind # "move" /\ UNCHANGED <<rules, lowered, moved>>
<1>1. w.pc = "reviewing" /\ IsLast(w) /\ w.seen.kind # "adopt"
  BY DEF Applies
<1>2. w.id \in DOMAIN proposals
  BY <1>1, SignedProposal
<1>3. proposals' = [proposals EXCEPT ![w.id] = d] => proposals'[w.id] = d
  BY <1>2, Governed
<1>4. CASE UNCHANGED proposals /\ Refused(u)
  BY <1>1, <1>4
<1>5. CASE ~Refused(u)
  <2>1. Applied(u, w, d)
    BY <1>3, <1>5 DEF Applies, Refused, Applied
  <2>2. w.seen.kind = "move" => AppliedMove(w, proposals[w.id].payload)
    BY <1>3, <1>5 DEF Applies, Refused, AppliedMove
  <2>3. w.seen.kind # "move" => UNCHANGED <<rules, lowered, moved>>
    BY <1>3, <1>5 DEF Applies, Refused
  <2> QED BY <1>1, <2>1, <2>2, <2>3
<1> QED BY <1>1, <1>4, <1>5 DEF Refused

LEMMA AppliedIsAllowed ==
  ASSUME GovernedInv, NEW u \in People, NEW w, w = request[u], w.pc = "reviewing", IsLast(w),
         w.seen.kind # "adopt", NEW d, d = Decided(proposals[w.id], w), Applied(u, w, d),
         NEW x, x = [w EXCEPT !.pc = "applied", !.seen = d]
  PROVE  x \in RequestRow /\ Allowed(u, x)'
<1> DEFINE p == proposals[w.id]
<1>1. /\ w \in ReviewRow /\ w.id \in DOMAIN proposals /\ w.by = u
      /\ p \in ProposalRow(PayloadsOf(p.kind)) /\ w.seen.chain = p.chain
      /\ w.seen.current < Len(p.chain) /\ w.seen.status = "pending" /\ w.seen.current \in Nat
      /\ d \in ProposalRow(PayloadsOf(p.kind)) /\ d.current <= Len(d.chain)
      /\ d.kind = p.kind /\ d.chain = p.chain /\ d.proposer = p.proposer /\ d.payload = p.payload
  BY SignedProposal
<1>2. w.seen.kind = p.kind
  BY AtAProposal DEF OfAProposal
<1>3. w.says = "accept" /\ w.seen.current + 1 = Len(p.chain)
  BY <1>1 DEF IsLast
<1>4. d.status = p.status /\ d.current = Len(p.chain)
  <2> HIDE DEF p
  <2>1. p = proposals[w.id]
    BY DEF p
  <2>2. d = Decided(p, w)
    BY <2>1
  <2>3. /\ Decided(p, w).current = IF w.says = "accept" THEN w.seen.current + 1 ELSE p.current
        /\ w.says = "accept" /\ ~(IsLast(w) /\ p.kind = "adopt") => Decided(p, w).status = p.status
    BY <1>1, DecidedKeeps
  <2> QED BY <1>2, <1>3, <2>2, <2>3
<1>5. d \in AnyProposal
  BY <1>1, AnyProposalIs
<1>6. /\ x \in ReviewRow /\ x.pc = "applied" /\ x.id = w.id /\ x.by = u /\ x.seen = d
  BY <1>1, <1>5 DEF ReviewRow
<1>7. DOMAIN proposals' = DOMAIN proposals /\ proposals'[w.id] = d
  BY <1>1, Governed DEF Applied
<1>8. w.id \notin crossed' => p = w.seen
  BY <1>1, NotCrossed DEF Applied
<1>9. HasSigned(x)'
  BY <1>1, <1>4, <1>6, <1>8 DEF HasSigned
<1>10. IsOfAProposal(x)' /\ MaySign(u, x)' /\ MayRewrite(x)' /\ MayChange(u, x)' /\ IsOfARule(x)'
  BY <1>1, <1>6, <1>7 DEF IsOfAProposal, MaySign, MayRewrite, MayChange, IsOfARule
<1> QED BY <1>6, <1>9, <1>10 DEF Allowed, RequestRow

LEMMA AppliesKeeps ==
  ASSUME GovernedInv, NEW u \in People, Applies(u)
  PROVE  GovernedInv' /\ Keeps
<1>1. PICK w : w = request[u]
  OBVIOUS
<1>2. PICK p : p = proposals[w.id]
  OBVIOUS
<1>3. PICK d : d = Decided(p, w)
  OBVIOUS
<1>4. /\ w.pc = "reviewing" /\ IsLast(w) /\ w.seen.kind # "adopt"
      /\ \/ Refused(u)
         \/ /\ Applied(u, w, d)
            /\ \/ w.seen.kind = "move" /\ AppliedMove(w, p.payload)
               \/ w.seen.kind # "move" /\ UNCHANGED <<rules, lowered, moved>>
  BY <1>1, <1>2, <1>3, AppliesIs
<1>5. /\ w.id \in DOMAIN proposals /\ w.id \in ProposalIds
      /\ p \in ProposalRow(PayloadsOf(p.kind)) /\ p.kind = w.seen.kind
      /\ d \in ProposalRow(PayloadsOf(p.kind)) /\ d.current <= Len(d.chain)
      /\ d.kind = p.kind /\ d.chain = p.chain /\ d.proposer = p.proposer
  BY <1>1, <1>2, <1>3, <1>4, SignedProposal, AtAProposal DEF OfAProposal
<1>6. CASE Refused(u)
  <2>1. Keeps
    BY <1>6, KeepsAll, Governed DEF Refused
  <2> QED BY <1>6, <2>1, OneRequest, RestingIsAllowed DEF Refused
<1>7. ASSUME Applied(u, w, d)
      PROVE  /\ DOMAIN proposals' \subseteq ProposalIds
             /\ \A i \in DOMAIN proposals' :
                  /\ proposals'[i] \in ProposalRow(PayloadsOf(proposals'[i].kind))
                  /\ proposals'[i].current <= Len(proposals'[i].chain)
             /\ proposals' = [i \in DOMAIN proposals' |-> proposals'[i]]
             /\ ProposalsKeep
             /\ made' \in [ProposalIds -> Nat] /\ crossings' \in [ProposalIds -> Nat]
             /\ crossed \subseteq crossed' /\ halted' \cup moved \subseteq ProposalIds
  <2>1. proposals' = [proposals EXCEPT ![w.id] = d]
    BY <1>7 DEF Applied
  <2>2. made' \in [ProposalIds -> Nat]
    BY <1>5, <1>7, MadeOnceMore DEF Applied
  <2>3. /\ crossings' \in [ProposalIds -> Nat] /\ crossed \subseteq crossed'
        /\ halted' \cup moved \subseteq ProposalIds
    BY <1>5, <1>7, CountedIs, Governed DEF Applied
  <2> QED BY <1>2, <1>5, <2>1, <2>2, <2>3, ProposalWritten
<1>8. CASE Applied(u, w, d) /\ w.seen.kind # "move" /\ UNCHANGED <<rules, lowered, moved>>
  <2>1. Keeps
    BY <1>7, <1>8, WritesProposals DEF Applied
  <2>2. PICK x : x = [w EXCEPT !.pc = "applied", !.seen = d]
    OBVIOUS
  <2>3. x \in RequestRow /\ Allowed(u, x)'
    BY <1>1, <1>2, <1>3, <1>4, <1>8, <2>2, AppliedIsAllowed
  <2> QED BY <1>8, <2>1, <2>2, <2>3, OneRequest DEF Applied
<1>9. CASE Applied(u, w, d) /\ w.seen.kind = "move" /\ AppliedMove(w, p.payload)
  <2>1. PICK q : q = p.payload
    OBVIOUS
  <2>2. q \in Moves
    BY <1>5, <1>9, <2>1, ProposalIs DEF PayloadsOf, Asks
  <2>3. PICK rule : rule = rules[q.rule]
    OBVIOUS
  <2>4. /\ q.rule \in DOMAIN rules /\ MayMove(rule, q)
        /\ rules' = [rules EXCEPT ![q.rule] = Placed(rule, rule, q)]
        /\ moved' = moved \cup (About(q.rule) \ {w.id})
    BY <1>9, <2>1, <2>3 DEF AppliedMove
  <2>5. rule \in RuleRow /\ (rule.rung \in Predicated => rule.predicate # "")
    BY <2>3, <2>4, Governed
  <2>6. /\ Placed(rule, rule, q) \in RuleRow
        /\ rule.predicate # "" => Placed(rule, rule, q).predicate # ""
        /\ Placed(rule, rule, q).rung \in Predicated => Placed(rule, rule, q).predicate # ""
    BY <2>2, <2>4, <2>5, PlacedIs
  <2>7. /\ DOMAIN rules' \subseteq RuleIds /\ rules' = [s \in DOMAIN rules' |-> rules'[s]]
        /\ \A s \in DOMAIN rules' :
             rules'[s] \in RuleRow /\ (rules'[s].rung \in Predicated => rules'[s].predicate # "")
        /\ RulesKeep
    BY <2>3, <2>4, <2>6, RuleWritten
  <2>8. moved' \subseteq ProposalIds
    BY <2>4, AboutIs
  <2>9. Keeps
    BY <1>7, <1>9, <2>7, <2>8, RowsAreOK DEF Keeps, RowsOK, HistoryOK, Applied
  <2>10. PICK x : x = [w EXCEPT !.pc = "applied", !.seen = d]
    OBVIOUS
  <2>11. x \in RequestRow /\ Allowed(u, x)'
    BY <1>1, <1>2, <1>3, <1>4, <1>9, <2>10, AppliedIsAllowed
  <2> QED BY <1>9, <2>9, <2>10, <2>11, OneRequest DEF Applied
<1> QED BY <1>4, <1>6, <1>8, <1>9

LEMMA StepGoverned ==
  ASSUME GovernedInv, ProposalsNext
  PROVE  GovernedInv'
<1>1. ASSUME NEW chain \in Chains, SetWorkflow(chain) PROVE GovernedInv'
  BY <1>1, KeepsAll, NoRequest DEF SetWorkflow
<1>2. ASSUME NEW r \in Custom, RemoveRole(r) PROVE GovernedInv'
  BY <1>2, KeepsAll, NoRequest, Governed DEF RemoveRole
<1>3. ASSUME NEW u \in People,
             \/ ReviewWrites(u) \/ Applies(u) \/ Finishes(u) \/ ResubmitWrites(u)
             \/ MoveWrites(u) \/ DisableWrites(u)
      PROVE  GovernedInv'
  BY <1>3, ReviewWritesKeeps, AppliesKeeps, FinishesKeeps, ResubmitWritesKeeps, MoveWritesKeeps,
     DisableWritesKeeps
<1>4. ASSUME NEW u \in People, NEW i \in ProposalIds, NEW says \in Verdicts, ReviewReads(u, i, says)
      PROVE  GovernedInv'
  BY <1>4, ReviewReadsKeeps
<1>5. ASSUME NEW u \in People, NEW i \in ProposalIds, NEW ask \in Asks,
             ResubmitReads(u, i, ask) \/ Propose(u, i, ask)
      PROVE  GovernedInv'
  BY <1>5, ResubmitReadsKeeps, ProposeKeeps
<1>6. ASSUME NEW u \in People, NEW r \in RuleIds,
             DisableReads(u, r) \/ \E rule \in NewRules : AddRule(u, r, rule)
      PROVE  GovernedInv'
  BY <1>6, DisableReadsKeeps, AddRuleKeeps
<1>7. ASSUME NEW u \in People, NEW q \in Moves, NEW second \in People, MoveReads(u, q, second)
      PROVE  GovernedInv'
  BY <1>7, MoveReadsKeeps
<1>8. CASE Halt
  BY <1>8, HaltKeeps
<1> QED BY <1>1, <1>2, <1>3, <1>4, <1>5, <1>6, <1>7, <1>8 DEF ProposalsNext, Verdicts

\* What nobody writes stays.
LEMMA StutterGoverned ==
  ASSUME GovernedInv, UNCHANGED proposalVars
  PROVE  GovernedInv'
<1>1. UNCHANGED <<proposals, rules, made, crossings, halted, moved, roles, workflow, request>>
  BY DEF proposalVars
<1>2. Keeps
  BY <1>1, KeepsAll, Governed
<1> QED BY <1>1, <1>2, NoRequest

LEMMA AlwaysGoverned == ProposalsSpec => []GovernedInv
<1>1. GovernedInv /\ [ProposalsNext]_proposalVars => GovernedInv'
  BY StepGoverned, StutterGoverned
<1> QED BY <1>1, InitGoverned, PTL DEF ProposalsSpec

(***************************************************************************)
(* Proposals, rules and what is remembered of them have their types        *)
(* whatever requests interleave: a proposal's payload stays one of its     *)
(* kind, it never stands past the end of its chain, and a rule on a rung   *)
(* that a predicate carries has one.                                       *)
(***************************************************************************)
THEOREM GovernanceIsTyped == ProposalsSpec => []ProposalsTypeOK
<1>1. GovernedInv => ProposalsTypeOK
  BY DEF GovernedInv
<1> QED BY <1>1, AlwaysGoverned, PTL

-----------------------------------------------------------------------------
(* Who has signed. *)

SignedTo(p, k) ==
  /\ p.decisions[k].decision = "accept" /\ p.decisions[k].role = p.chain[k]
  /\ Rank[RoleOf[p.decisions[k].by]] >= Rank[p.chain[k]]

Signed(p) ==
  /\ p.status = "accepted" => p.current = Len(p.chain)
  /\ Len(p.decisions) = p.current + (IF p.status \in {"denied", "revising"} THEN 1 ELSE 0)
  /\ Cardinality(SignersOf(p)) = Len(p.decisions)
  /\ IsFiniteSet(SignersOf(p))
  /\ \A k \in 1..p.current : SignedTo(p, k)

SignedInv == \A i \in DOMAIN proposals \ crossed : Signed(proposals[i])

LEMMA UnsignedIsSigned ==
  ASSUME NEW p, p.current = 0, p.decisions = <<>>, p.status = "pending"
  PROVE  Signed(p)
<1>1. SignersOf(p) = {}
  BY DEF SignersOf
<1> QED BY <1>1, FS_EmptySet DEF Signed

\* One more signature, by somebody who has not signed.
LEMMA OneMoreSigner ==
  ASSUME NEW some, NEW p \in ProposalRow(some), NEW d, NEW e, d.decisions = Append(p.decisions, e),
         e.by \notin SignersOf(p), IsFiniteSet(SignersOf(p))
  PROVE  /\ Len(d.decisions) = Len(p.decisions) + 1 /\ d.decisions[Len(p.decisions) + 1] = e
         /\ \A k \in 1..Len(p.decisions) : d.decisions[k] = p.decisions[k]
         /\ IsFiniteSet(SignersOf(d))
         /\ Cardinality(SignersOf(d)) = Cardinality(SignersOf(p)) + 1
<1>1. p.decisions \in Seq(Decision) /\ Len(p.decisions) \in Nat
  BY ProposalIs
<1>2. /\ Len(d.decisions) = Len(p.decisions) + 1 /\ d.decisions[Len(p.decisions) + 1] = e
      /\ \A k \in 1..Len(p.decisions) : d.decisions[k] = p.decisions[k]
      /\ DOMAIN d.decisions = 1..Len(p.decisions) + 1 /\ DOMAIN p.decisions = 1..Len(p.decisions)
  BY <1>1
<1>3. \A k : k \in 1..Len(p.decisions) + 1 <=> k \in 1..Len(p.decisions) \/ k = Len(p.decisions) + 1
  BY <1>1
<1>4. SignersOf(d) = SignersOf(p) \cup {e.by}
  BY <1>2, <1>3 DEF SignersOf
<1> QED BY <1>2, <1>4, FS_AddElement

LEMMA DecidedIsSigned ==
  ASSUME NEW some, NEW p \in ProposalRow(some), NEW w \in ReviewRow, p = w.seen, Signed(p),
         p.status = "pending", p.current < Len(p.chain),
         Rank[RoleOf[w.by]] >= Rank[p.chain[p.current + 1]], w.by \notin SignersOf(p)
  PROVE  Signed(Decided(p, w))
<1> DEFINE e == [role |-> p.chain[w.seen.current + 1], by |-> w.by, decision |-> w.says]
<1>1. PICK d : d = Decided(p, w)
  OBVIOUS
<1>2. /\ d.chain = p.chain
      /\ d.current = IF w.says = "accept" THEN w.seen.current + 1 ELSE p.current
      /\ d.decisions = Append(w.seen.decisions, e)
      /\ w.says = "deny" => d.status = "denied"
      /\ w.says = "feedback" => d.status = "revising"
      /\ IsLast(w) /\ p.kind = "adopt" => d.status = "accepted"
      /\ w.says = "accept" /\ ~(IsLast(w) /\ p.kind = "adopt") => d.status = p.status
  BY <1>1, DecidedIs
<1>3. w.says \in {"accept", "deny", "feedback"}
  BY DEF ReviewRow, Verdicts
<1>4. /\ p.current \in Nat /\ Len(p.decisions) \in Nat /\ p.chain \in Seq(DOMAIN Rank)
      /\ Len(p.chain) \in Nat /\ p.decisions \in Seq(Decision)
  BY ProposalIs
<1>5. /\ Len(p.decisions) = p.current /\ Cardinality(SignersOf(p)) = Len(p.decisions)
      /\ IsFiniteSet(SignersOf(p)) /\ \A k \in 1..p.current : SignedTo(p, k)
  BY <1>4 DEF Signed
<1>6. /\ d.decisions = Append(p.decisions, e) /\ e.by = w.by /\ e.decision = w.says
      /\ e.role = p.chain[p.current + 1]
  BY <1>2
<1> HIDE DEF e
<1>7. /\ Len(d.decisions) = p.current + 1 /\ d.decisions[p.current + 1] = e
      /\ \A k \in 1..p.current : d.decisions[k] = p.decisions[k]
      /\ IsFiniteSet(SignersOf(d)) /\ Cardinality(SignersOf(d)) = p.current + 1
  BY <1>5, <1>6, OneMoreSigner
<1>8. \A k \in 1..p.current : SignedTo(d, k)
  BY <1>2, <1>5, <1>7 DEF SignedTo
<1>9. CASE w.says = "accept"
  <2>1. d.current = p.current + 1 /\ d.status \in {"accepted", "pending"}
    BY <1>2, <1>9
  <2>2. d.status = "accepted" => d.current = Len(d.chain)
    BY <1>2, <1>9, <2>1 DEF IsLast
  <2>3. SignedTo(d, p.current + 1)
    BY <1>2, <1>6, <1>7, <1>9 DEF SignedTo
  <2>4. \A k \in 1..p.current + 1 : k \in 1..p.current \/ k = p.current + 1
    BY <1>4
  <2>5. \A k \in 1..d.current : SignedTo(d, k)
    BY <1>8, <2>1, <2>3, <2>4
  <2>6. Len(d.decisions) = d.current + (IF d.status \in {"denied", "revising"} THEN 1 ELSE 0)
    BY <1>4, <1>7, <2>1
  <2> QED BY <1>1, <1>7, <2>2, <2>5, <2>6 DEF Signed
<1>10. CASE w.says # "accept"
  <2>1. d.current = p.current /\ d.status \in {"denied", "revising"}
    BY <1>2, <1>3, <1>10
  <2> QED BY <1>1, <1>4, <1>7, <1>8, <2>1 DEF Signed
<1> QED BY <1>9, <1>10

\* One proposal is written, and nobody else's.
LEMMA OneIsSigned ==
  ASSUME GovernedInv, SignedInv, NEW i \in DOMAIN proposals, NEW d,
         proposals' = [proposals EXCEPT ![i] = d], crossed \subseteq crossed',
         i \notin crossed' => Signed(d)
  PROVE  SignedInv'
<1>1. /\ DOMAIN proposals' = DOMAIN proposals /\ proposals'[i] = d
      /\ \A j \in DOMAIN proposals : j # i => proposals'[j] = proposals[j]
  BY Governed
<1> QED BY <1>1 DEF SignedInv

\* The decision of a request that has not crossed another.
LEMMA ReviewIsSigned ==
  ASSUME GovernedInv, SignedInv, NEW u \in People, NEW w, w = request[u], w.pc = "reviewing",
         crossings' = Counted(w), w.id \notin crossed'
  PROVE  Signed(Decided(proposals[w.id], w))
<1>1. PICK p : p = proposals[w.id]
  OBVIOUS
<1>2. /\ w \in ReviewRow /\ w.id \in DOMAIN proposals /\ w.by = u
      /\ p \in ProposalRow(PayloadsOf(p.kind))
  BY <1>1, SignedProposal
<1>3. p = w.seen /\ w.id \notin crossed
  BY <1>1, <1>2, NotCrossed
<1>4. Signed(p)
  BY <1>1, <1>2, <1>3 DEF SignedInv
<1>5. Allowed(u, w)
  BY AtAProposal DEF OfAProposal
<1>6. /\ p.status = "pending" /\ p.current < Len(p.chain)
      /\ Rank[RoleOf[u]] >= Rank[p.chain[p.current + 1]] /\ u \notin SignersOf(p)
  BY <1>3, <1>5 DEF Allowed, MaySign
<1> QED BY <1>1, <1>2, <1>3, <1>4, <1>6, DecidedIsSigned

LEMMA ReviewWritesSigned ==
  ASSUME GovernedInv, SignedInv, NEW u \in People, ReviewWrites(u)
  PROVE  SignedInv'
<1>1. PICK w : w = request[u]
  OBVIOUS
<1>2. PICK d : d = Decided(proposals[w.id], w)
  OBVIOUS
<1>3. /\ w.pc = "reviewing" /\ proposals' = [proposals EXCEPT ![w.id] = d]
      /\ crossings' = Counted(w)
  BY <1>1, <1>2 DEF ReviewWrites
<1>4. w.id \in DOMAIN proposals
  BY <1>1, <1>3, SignedProposal
<1>5. w.id \notin crossed' => Signed(d)
  BY <1>1, <1>2, <1>3, ReviewIsSigned
<1> QED BY <1>3, <1>4, <1>5, OneIsSigned, CrossedStays

LEMMA AppliesSigned ==
  ASSUME GovernedInv, SignedInv, NEW u \in People, Applies(u)
  PROVE  SignedInv'
<1>1. PICK w : w = request[u]
  OBVIOUS
<1>2. PICK d : d = Decided(proposals[w.id], w)
  OBVIOUS
<1>3. w.pc = "reviewing" /\ (Refused(u) \/ Applied(u, w, d))
  BY <1>1, <1>2, AppliesIs
<1>4. CASE Refused(u)
  BY <1>4, Uncrossed DEF Refused, SignedInv
<1>5. CASE Applied(u, w, d)
  <2>1. w.id \in DOMAIN proposals
    BY <1>1, <1>3, SignedProposal
  <2>2. /\ proposals' = [proposals EXCEPT ![w.id] = d] /\ crossings' = Counted(w)
    BY <1>5 DEF Applied
  <2>3. w.id \notin crossed' => Signed(d)
    BY <1>1, <1>2, <1>3, <2>2, ReviewIsSigned
  <2> QED BY <2>1, <2>2, <2>3, OneIsSigned, CrossedStays
<1> QED BY <1>3, <1>4, <1>5

LEMMA FinishesSigned ==
  ASSUME GovernedInv, SignedInv, NEW u \in People, Finishes(u)
  PROVE  SignedInv'
<1>1. PICK w : w = request[u]
  OBVIOUS
<1>2. PICK p : p = proposals[w.id]
  OBVIOUS
<1>3. PICK d : d = [p EXCEPT !.status = "accepted"]
  OBVIOUS
<1>4. /\ w.pc = "applied" /\ proposals' = [proposals EXCEPT ![w.id] = d]
      /\ crossings' = Counted(w)
  BY <1>1, <1>2, <1>3 DEF Finishes
<1>5. w.id \in DOMAIN proposals /\ Allowed(u, w)
  BY <1>1, <1>4, AtAProposal DEF OfAProposal
<1>6. ASSUME w.id \notin crossed' PROVE Signed(d)
  <2>1. p = w.seen /\ w.id \notin crossed
    BY <1>2, <1>4, <1>5, <1>6, NotCrossed
  <2>2. Signed(p) /\ p \in ProposalRow(PayloadsOf(p.kind))
    BY <1>2, <1>5, <2>1, Governed DEF SignedInv
  <2>3. p.status = "pending" /\ p.current = Len(p.chain)
    BY <1>4, <1>5, <2>1 DEF Allowed, HasSigned
  <2>4. /\ d.decisions = p.decisions /\ d.chain = p.chain /\ d.current = p.current
        /\ d.status = "accepted"
    BY <1>3, <2>2 DEF ProposalRow
  <2> QED BY <2>2, <2>3, <2>4 DEF Signed, SignersOf, SignedTo
<1> QED BY <1>4, <1>5, <1>6, OneIsSigned, CrossedStays

LEMMA ResubmitWritesSigned ==
  ASSUME GovernedInv, SignedInv, NEW u \in People, ResubmitWrites(u)
  PROVE  SignedInv'
<1>1. PICK w : w = request[u]
  OBVIOUS
<1>2. PICK p : p = proposals[w.id]
  OBVIOUS
<1>3. PICK d : d = Rewritten(p, w)
  OBVIOUS
<1>4. /\ w.pc = "resubmitting" /\ proposals' = [proposals EXCEPT ![w.id] = d]
      /\ crossings' = Counted(w)
  BY <1>1, <1>2, <1>3 DEF ResubmitWrites
<1>5. w.id \in DOMAIN proposals
  BY <1>1, <1>4, AtAProposal DEF OfAProposal
<1>6. ASSUME w.id \notin crossed' PROVE Signed(d)
  <2>1. p = w.seen
    BY <1>2, <1>4, <1>5, <1>6, NotCrossed
  <2>2. p \in ProposalRow(PayloadsOf(p.kind))
    BY <1>2, <1>5, Governed
  <2>3. d.current = 0 /\ d.decisions = <<>> /\ d.status = "pending"
    BY <1>3, <2>1, <2>2 DEF Rewritten, ProposalRow
  <2> QED BY <2>3, UnsignedIsSigned
<1> QED BY <1>4, <1>5, <1>6, OneIsSigned, CrossedStays

LEMMA ProposeSigned ==
  ASSUME GovernedInv, SignedInv, NEW u \in People, NEW i \in ProposalIds, NEW ask,
         Propose(u, i, ask)
  PROVE  SignedInv'
<1>1. PICK chain \in ResolveChain(u) :
        proposals' = [j \in DOMAIN proposals \cup {i} |->
          IF j = i THEN [kind |-> ask.kind, payload |-> ask.payload, proposer |-> u, chain |-> chain,
                         current |-> 0, decisions |-> <<>>, status |-> "pending"]
          ELSE proposals[j]]
  BY DEF Propose
<1>2. /\ DOMAIN proposals' = DOMAIN proposals \cup {i} /\ UNCHANGED crossings
      /\ \A j \in DOMAIN proposals \ {i} : proposals'[j] = proposals[j]
      /\ proposals'[i].current = 0 /\ proposals'[i].decisions = <<>>
      /\ proposals'[i].status = "pending"
  BY <1>1 DEF Propose
<1>3. PICK p : p = proposals'[i]
  OBVIOUS
<1>4. Signed(p)
  BY <1>2, <1>3, UnsignedIsSigned
<1> QED BY <1>2, <1>3, <1>4, Uncrossed DEF SignedInv

\* The steps that write no proposal.
Elsewhere ==
  \/ \E chain \in Chains : SetWorkflow(chain)
  \/ \E r \in Custom : RemoveRole(r)
  \/ \E u \in People :
       \/ MoveWrites(u) \/ DisableWrites(u)
       \/ \E i \in ProposalIds :
            \/ \E says \in Verdicts : ReviewReads(u, i, says)
            \/ \E ask \in Asks : ResubmitReads(u, i, ask)
       \/ \E r \in RuleIds : DisableReads(u, r) \/ \E rule \in NewRules : AddRule(u, r, rule)
       \/ \E q \in Moves, second \in People : MoveReads(u, q, second)
  \/ Halt
  \/ UNCHANGED proposalVars

LEMMA ElsewhereLeaves ==
  ASSUME Elsewhere
  PROVE  UNCHANGED <<proposals, made, crossings>>
BY DEF Elsewhere, SetWorkflow, RemoveRole, MoveWrites, DisableWrites, ReviewReads, ResubmitReads,
       DisableReads, AddRule, MoveReads, Halt, proposalVars

LEMMA StepIs ==
  ASSUME [ProposalsNext]_proposalVars
  PROVE  \/ Elsewhere
         \/ \E u \in People : ReviewWrites(u) \/ Applies(u) \/ Finishes(u) \/ ResubmitWrites(u)
         \/ \E u \in People, i \in ProposalIds, ask \in Asks : Propose(u, i, ask)
BY DEF Elsewhere, ProposalsNext, Verdicts

LEMMA AlwaysSigned == ProposalsSpec => []SignedInv
<1>1. ProposalsInit => SignedInv
  BY DEF ProposalsInit, SignedInv
<1>2. ASSUME GovernedInv, SignedInv, [ProposalsNext]_proposalVars PROVE SignedInv'
  <2>1. CASE Elsewhere
    BY <1>2, <2>1, ElsewhereLeaves, Uncrossed DEF SignedInv
  <2> QED BY <1>2, <2>1, StepIs, ReviewWritesSigned, AppliesSigned, FinishesSigned,
             ResubmitWritesSigned, ProposeSigned
<1> QED BY <1>1, <1>2, AlwaysGoverned, PTL DEF ProposalsSpec

(***************************************************************************)
(* What has been accepted was signed slot by slot along its chain, each    *)
(* time by somebody else of the slot's rank or above, however requests     *)
(* interleave and whatever becomes of roles and workflows meanwhile;       *)
(* except where one request wrote over what another had written.           *)
(***************************************************************************)
THEOREM SignaturesCount == ProposalsSpec => []SignedByItsChain
<1>1. SignedInv => SignedByItsChain
  BY DEF SignedInv, SignedByItsChain, Signed, SignedTo
<1> QED BY <1>1, AlwaysSigned, PTL

-----------------------------------------------------------------------------
(* What is carried out, and how often. *)

Finishing(i) == \E u \in People : request[u].pc = "applied" /\ request[u].id = i
Final(p) == p.status = "accepted" \/ (p.status = "pending" /\ p.current = Len(p.chain))
Once(i, p) ==
  /\ made[i] = 1 <=> Final(p)
  /\ made[i] <= 1
  /\ p.status = "pending" /\ p.current = Len(p.chain) => Finishing(i) \/ i \in halted

OnceInv ==
  /\ \A i \in ProposalIds \ DOMAIN proposals : made[i] = 0
  /\ \A i \in DOMAIN proposals : 0 < Len(proposals[i].chain)
  /\ \A i \in DOMAIN proposals \ crossed : Once(i, proposals[i])

\* Whoever is about to finish still is, while only others' requests go on.
LEMMA FinishingStays ==
  ASSUME GovernedInv, NEW u \in People, NEW x, request' = [request EXCEPT ![u] = x],
         NEW i, request[u].pc = "applied" => request[u].id # i, Finishing(i)
  PROVE  Finishing(i)'
<1>1. PICK v \in People : request[v].pc = "applied" /\ request[v].id = i
  BY DEF Finishing
<1>2. v # u /\ request'[v] = request[v]
  BY <1>1, Governed
<1> QED BY <1>1, <1>2 DEF Finishing

\* Steps that carry nothing out.
LEMMA NothingCarriedOut ==
  ASSUME GovernedInv, OnceInv, UNCHANGED <<proposals, made, crossings>>, halted \subseteq halted',
         \A i \in DOMAIN proposals : Finishing(i) => Finishing(i)' \/ i \in halted'
  PROVE  OnceInv'
BY Governed, Uncrossed DEF OnceInv, Once

LEMMA ElsewhereOnce ==
  ASSUME GovernedInv, OnceInv, Elsewhere
  PROVE  OnceInv'
<1>1. UNCHANGED <<proposals, made, crossings>>
  BY ElsewhereLeaves
<1>2. CASE UNCHANGED request /\ UNCHANGED halted
  BY <1>1, <1>2, NothingCarriedOut DEF Finishing
<1>3. ASSUME NEW u \in People, NEW x, request' = [request EXCEPT ![u] = x],
             request[u].pc # "applied", UNCHANGED halted
      PROVE  OnceInv'
  BY <1>1, <1>3, FinishingStays, NothingCarriedOut
<1>4. ASSUME NEW u \in People, MoveWrites(u) \/ DisableWrites(u) PROVE OnceInv'
  <2>1. request[u].pc # "applied" /\ UNCHANGED halted
    BY <1>4 DEF MoveWrites, DisableWrites
  <2>2. request' = [request EXCEPT ![u] = Resting]
    BY <1>4 DEF MoveWrites, DisableWrites
  <2> QED BY <1>3, <2>1, <2>2
<1>5. ASSUME NEW u \in People,
             \/ \E i \in ProposalIds :
                  \/ \E says \in Verdicts : ReviewReads(u, i, says)
                  \/ \E ask \in Asks : ResubmitReads(u, i, ask)
             \/ \E r \in RuleIds : DisableReads(u, r)
             \/ \E q \in Moves, second \in People : MoveReads(u, q, second)
      PROVE  OnceInv'
  <2>1. request[u] = Resting /\ UNCHANGED halted
    BY <1>5 DEF ReviewReads, ResubmitReads, DisableReads, MoveReads, Free
  <2>2. request[u].pc # "applied"
    BY <2>1 DEF Resting
  <2>3. PICK x : request' = [request EXCEPT ![u] = x]
    BY <1>5 DEF ReviewReads, ResubmitReads, DisableReads, MoveReads
  <2> QED BY <1>3, <2>1, <2>2, <2>3
<1>6. CASE \/ \E chain \in Chains : SetWorkflow(chain)
           \/ \E r \in Custom : RemoveRole(r)
           \/ \E u \in People, r \in RuleIds : \E rule \in NewRules : AddRule(u, r, rule)
           \/ UNCHANGED proposalVars
  BY <1>2, <1>6 DEF SetWorkflow, RemoveRole, AddRule, proposalVars
<1>7. CASE Halt
  <2>1. halted' = halted \cup {request[u].id : u \in {v \in People : request[v].pc = "applied"}}
    BY <1>7 DEF Halt
  <2>2. \A i : Finishing(i) => i \in halted'
    BY <2>1 DEF Finishing
  <2> QED BY <1>1, <2>1, <2>2, NothingCarriedOut
<1> QED BY <1>4, <1>5, <1>6, <1>7 DEF Elsewhere

\* One proposal is written, and carried out at most once more.
LEMMA OneIsOnce ==
  ASSUME GovernedInv, OnceInv, NEW i \in DOMAIN proposals, NEW d, d.chain = proposals[i].chain,
         proposals' = [proposals EXCEPT ![i] = d], crossed \subseteq crossed', UNCHANGED halted,
         \A j \in ProposalIds : j # i => made'[j] = made[j],
         \A j \in DOMAIN proposals : j # i /\ Finishing(j) => Finishing(j)',
         i \notin crossed' => Once(i, d)'
  PROVE  OnceInv'
<1>1. /\ DOMAIN proposals' = DOMAIN proposals /\ proposals'[i] = d
      /\ \A j \in DOMAIN proposals : j # i => proposals'[j] = proposals[j]
      /\ DOMAIN proposals \subseteq ProposalIds
  BY Governed
<1>2. \A j \in ProposalIds \ DOMAIN proposals' : made'[j] = 0
  BY <1>1 DEF OnceInv
<1>3. \A j \in DOMAIN proposals' : 0 < Len(proposals'[j].chain)
  BY <1>1 DEF OnceInv
<1>4. ASSUME NEW j \in DOMAIN proposals' \ crossed' PROVE Once(j, proposals[j])' 
  <2>1. CASE j = i
    BY <1>1, <1>4, <2>1 DEF Once
  <2>2. CASE j # i
    BY <1>1, <1>4, <2>2 DEF OnceInv, Once
  <2> QED BY <2>1, <2>2
<1> QED BY <1>2, <1>3, <1>4 DEF OnceInv

\* A proposal that still waits for a signature has not been carried out.
LEMMA NotYet ==
  ASSUME GovernedInv, OnceInv, NEW i \in DOMAIN proposals \ crossed, ~Final(proposals[i])
  PROVE  made[i] = 0
<1>1. made[i] \in Nat
  BY Governed
<1> QED BY <1>1 DEF OnceInv, Once

LEMMA ReviewWritesOnce ==
  ASSUME GovernedInv, OnceInv, NEW u \in People, ReviewWrites(u)
  PROVE  OnceInv'
<1>1. PICK w : w = request[u]
  OBVIOUS
<1>2. PICK p : p = proposals[w.id]
  OBVIOUS
<1>3. PICK d : d = Decided(p, w)
  OBVIOUS
<1>4. /\ w.pc = "reviewing" /\ proposals' = [proposals EXCEPT ![w.id] = d]
      /\ crossings' = Counted(w) /\ (IsLast(w) => w.seen.kind = "adopt")
      /\ made' = IF IsLast(w) THEN [made EXCEPT ![w.id] = @ + 1] ELSE made
      /\ request' = [request EXCEPT ![u] = Resting] /\ UNCHANGED halted
  BY <1>1, <1>2, <1>3 DEF ReviewWrites
<1>5. /\ w \in ReviewRow /\ w.id \in DOMAIN proposals /\ w.seen.chain = p.chain
      /\ w.seen.current < Len(p.chain) /\ w.seen.current \in Nat /\ w.seen.status = "pending"
      /\ p \in ProposalRow(PayloadsOf(p.kind)) /\ d.chain = p.chain
  BY <1>1, <1>2, <1>3, <1>4, SignedProposal
<1>6. w.seen.kind = p.kind /\ w.id \in ProposalIds
  BY <1>1, <1>2, <1>4, AtAProposal DEF OfAProposal
<1>7. /\ d.current = IF w.says = "accept" THEN w.seen.current + 1 ELSE p.current
      /\ w.says = "deny" => d.status = "denied"
      /\ w.says = "feedback" => d.status = "revising"
      /\ IsLast(w) /\ p.kind = "adopt" => d.status = "accepted"
      /\ w.says = "accept" /\ ~(IsLast(w) /\ p.kind = "adopt") => d.status = p.status
  BY <1>3, <1>5, DecidedKeeps
<1>8. w.says \in {"accept", "deny", "feedback"}
  BY <1>5 DEF ReviewRow, Verdicts
<1>9. made \in [ProposalIds -> Nat]
  BY Governed
<1>10. ASSUME w.id \notin crossed' PROVE Once(w.id, d)'
  <2>1. p = w.seen /\ w.id \notin crossed
    BY <1>2, <1>4, <1>5, <1>10, NotCrossed
  <2>2. made[w.id] = 0
    <3>1. Len(p.chain) \in Nat
      BY <1>5, ProposalIs
    <3>2. ~Final(p)
      BY <1>5, <2>1, <3>1 DEF Final
    <3> QED BY <1>2, <1>5, <2>1, <3>2, NotYet
  <2>3. CASE IsLast(w)
    <3>1. made'[w.id] = 1
      BY <1>4, <1>6, <1>9, <2>2, <2>3
    <3>2. d.status = "accepted"
      BY <1>4, <1>6, <1>7, <2>3
    <3> QED BY <3>1, <3>2 DEF Once, Final
  <2>4. CASE ~IsLast(w)
    <3>1. made'[w.id] = 0
      BY <1>4, <2>2, <2>4
    <3>2. w.says = "accept" => d.status = "pending" /\ d.current # Len(d.chain)
      BY <1>5, <1>7, <2>1, <2>4 DEF IsLast
    <3>3. w.says # "accept" => d.status \in {"denied", "revising"}
      BY <1>7, <1>8
    <3> QED BY <3>1, <3>2, <3>3 DEF Once, Final
  <2> QED BY <2>3, <2>4
<1>11. \A j \in ProposalIds : j # w.id => made'[j] = made[j]
  BY <1>4, <1>9
<1>12. \A j : Finishing(j) => Finishing(j)'
  BY <1>1, <1>4, FinishingStays
<1> QED BY <1>2, <1>4, <1>5, <1>10, <1>11, <1>12, OneIsOnce, CrossedStays

LEMMA AppliesOnce ==
  ASSUME GovernedInv, OnceInv, NEW u \in People, Applies(u)
  PROVE  OnceInv'
<1>1. PICK w : w = request[u]
  OBVIOUS
<1>2. PICK p : p = proposals[w.id]
  OBVIOUS
<1>3. PICK d : d = Decided(p, w)
  OBVIOUS
<1>4. /\ w.pc = "reviewing" /\ IsLast(w) /\ w.seen.kind # "adopt"
      /\ Refused(u) \/ Applied(u, w, d)
  BY <1>1, <1>2, <1>3, AppliesIs
<1>5. /\ w \in ReviewRow /\ w.id \in DOMAIN proposals /\ w.seen.chain = p.chain
      /\ w.seen.current < Len(p.chain) /\ w.seen.status = "pending"
      /\ p \in ProposalRow(PayloadsOf(p.kind)) /\ d.chain = p.chain
  BY <1>1, <1>2, <1>3, <1>4, SignedProposal
<1>6. CASE Refused(u)
  <2>1. \A i : Finishing(i) => Finishing(i)'
    BY <1>1, <1>4, <1>6, FinishingStays DEF Refused
  <2> QED BY <1>6, <2>1, NothingCarriedOut DEF Refused
<1>7. CASE Applied(u, w, d)
  <2>1. w.seen.kind = p.kind /\ w.id \in ProposalIds
    BY <1>1, <1>2, <1>4, AtAProposal DEF OfAProposal
  <2>2. /\ proposals' = [proposals EXCEPT ![w.id] = d] /\ crossings' = Counted(w)
        /\ made' = [made EXCEPT ![w.id] = @ + 1] /\ UNCHANGED halted
    BY <1>7 DEF Applied
  <2>3. PICK x : x = [w EXCEPT !.pc = "applied", !.seen = d]
    OBVIOUS
  <2>4. request' = [request EXCEPT ![u] = x] /\ x.pc = "applied" /\ x.id = w.id
    BY <1>5, <1>7, <2>3 DEF Applied, ReviewRow
  <2>5. made \in [ProposalIds -> Nat] /\ request'[u] = x
    BY <2>4, Governed
  <2>6. ASSUME w.id \notin crossed' PROVE Once(w.id, d)'
    <3>1. p = w.seen /\ w.id \notin crossed
      BY <1>2, <1>5, <2>2, <2>6, NotCrossed
    <3>2. made[w.id] = 0
      <4>1. Len(p.chain) \in Nat /\ p.current \in Nat
        BY <1>5, ProposalIs
      <4>2. ~Final(p)
        BY <1>5, <3>1, <4>1 DEF Final
      <4> QED BY <1>2, <1>5, <3>1, <4>2, NotYet
    <3>3. made'[w.id] = 1
      BY <2>1, <2>2, <2>5, <3>2
    <3>4. d.current = Len(d.chain) /\ d.status = "pending"
      BY <1>3, <1>4, <1>5, <2>1, <3>1, DecidedKeeps DEF IsLast
    <3>5. Finishing(w.id)'
      BY <2>4, <2>5 DEF Finishing
    <3> QED BY <3>3, <3>4, <3>5 DEF Once, Final
  <2>7. \A j \in ProposalIds : j # w.id => made'[j] = made[j]
    BY <2>2, <2>5
  <2>8. \A j : Finishing(j) => Finishing(j)'
    BY <1>1, <1>4, <2>4, FinishingStays
  <2> QED BY <1>2, <1>5, <2>2, <2>6, <2>7, <2>8, OneIsOnce, CrossedStays
<1> QED BY <1>4, <1>6, <1>7

LEMMA FinishesOnce ==
  ASSUME GovernedInv, OnceInv, NEW u \in People, Finishes(u)
  PROVE  OnceInv'
<1>1. PICK w : w = request[u]
  OBVIOUS
<1>2. PICK p : p = proposals[w.id]
  OBVIOUS
<1>3. PICK d : d = [p EXCEPT !.status = "accepted"]
  OBVIOUS
<1>4. /\ w.pc = "applied" /\ proposals' = [proposals EXCEPT ![w.id] = d]
      /\ crossings' = Counted(w) /\ UNCHANGED <<made, halted>>
      /\ request' = [request EXCEPT ![u] = Resting]
  BY <1>1, <1>2, <1>3 DEF Finishes
<1>5. w.id \in DOMAIN proposals /\ Allowed(u, w)
  BY <1>1, <1>4, AtAProposal DEF OfAProposal
<1>6. p \in ProposalRow(PayloadsOf(p.kind))
  BY <1>2, <1>5, Governed
<1>7. d.chain = p.chain /\ d.status = "accepted"
  BY <1>3, <1>6 DEF ProposalRow
<1>8. ASSUME w.id \notin crossed' PROVE Once(w.id, d)'
  <2>1. p = w.seen /\ w.id \notin crossed
    BY <1>2, <1>4, <1>5, <1>8, NotCrossed
  <2>2. p.status = "pending" /\ p.current = Len(p.chain)
    BY <1>4, <1>5, <2>1 DEF Allowed, HasSigned
  <2>3. made[w.id] = 1
    BY <1>2, <1>5, <2>1, <2>2 DEF OnceInv, Once, Final
  <2> QED BY <1>4, <1>7, <2>3 DEF Once, Final
<1>9. \A j : j # w.id /\ Finishing(j) => Finishing(j)'
  BY <1>1, <1>4, FinishingStays
<1> QED BY <1>2, <1>4, <1>5, <1>7, <1>8, <1>9, OneIsOnce, CrossedStays

LEMMA ResubmitWritesOnce ==
  ASSUME GovernedInv, OnceInv, NEW u \in People, ResubmitWrites(u)
  PROVE  OnceInv'
<1>1. PICK w : w = request[u]
  OBVIOUS
<1>2. PICK p : p = proposals[w.id]
  OBVIOUS
<1>3. PICK d : d = Rewritten(p, w)
  OBVIOUS
<1>4. /\ w.pc = "resubmitting" /\ proposals' = [proposals EXCEPT ![w.id] = d]
      /\ crossings' = Counted(w) /\ UNCHANGED <<made, halted>>
      /\ request' = [request EXCEPT ![u] = Resting]
  BY <1>1, <1>2, <1>3 DEF ResubmitWrites
<1>5. w.id \in DOMAIN proposals /\ Allowed(u, w)
  BY <1>1, <1>4, AtAProposal DEF OfAProposal
<1>6. p \in ProposalRow(PayloadsOf(p.kind))
  BY <1>2, <1>5, Governed
<1>7. d.chain = p.chain /\ d.status = "pending" /\ (w.seen.current = p.current => d.current = 0)
  BY <1>3, <1>6 DEF Rewritten, ProposalRow
<1>8. ASSUME w.id \notin crossed' PROVE Once(w.id, d)'
  <2>1. p = w.seen /\ w.id \notin crossed
    BY <1>2, <1>4, <1>5, <1>8, NotCrossed
  <2>2. p.status = "revising"
    BY <1>4, <1>5, <2>1 DEF Allowed, MayRewrite
  <2>3. made[w.id] = 0
    BY <1>2, <1>5, <2>1, <2>2, NotYet DEF Final
  <2>4. 0 < Len(p.chain)
    BY <1>2, <1>5 DEF OnceInv
  <2>5. d.current # Len(d.chain)
    BY <1>7, <2>1, <2>4
  <2> QED BY <1>4, <1>7, <2>3, <2>5 DEF Once, Final
<1>9. \A j : Finishing(j) => Finishing(j)'
  BY <1>1, <1>4, FinishingStays
<1> QED BY <1>2, <1>4, <1>5, <1>7, <1>8, <1>9, OneIsOnce, CrossedStays

LEMMA ProposeOnce ==
  ASSUME GovernedInv, OnceInv, NEW u \in People, NEW i \in ProposalIds, NEW ask, Propose(u, i, ask)
  PROVE  OnceInv'
<1>1. PICK chain \in ResolveChain(u) :
        proposals' = [j \in DOMAIN proposals \cup {i} |->
          IF j = i THEN [kind |-> ask.kind, payload |-> ask.payload, proposer |-> u, chain |-> chain,
                         current |-> 0, decisions |-> <<>>, status |-> "pending"]
          ELSE proposals[j]]
  BY DEF Propose
<1>2. 0 < Len(chain) /\ Len(chain) \in Nat
  BY ChainsAre
<1>3. /\ DOMAIN proposals' = DOMAIN proposals \cup {i} /\ i \notin DOMAIN proposals
      /\ UNCHANGED <<crossings, made, halted, request>>
      /\ \A j \in DOMAIN proposals : proposals'[j] = proposals[j]
      /\ proposals'[i].current = 0 /\ proposals'[i].chain = chain
      /\ proposals'[i].status = "pending"
  BY <1>1 DEF Propose
<1>4. made[i] = 0
  BY <1>3 DEF OnceInv
<1>5. Once(i, proposals[i])'
  BY <1>2, <1>3, <1>4 DEF Once, Final
<1>6. \A j \in DOMAIN proposals \ crossed : Once(j, proposals[j])'
  BY <1>3 DEF OnceInv, Once, Finishing
<1> QED BY <1>2, <1>3, <1>5, <1>6, Uncrossed DEF OnceInv

LEMMA AlwaysOnce == ProposalsSpec => []OnceInv
<1>1. ProposalsInit => OnceInv
  BY DEF ProposalsInit, OnceInv
<1>2. ASSUME GovernedInv, OnceInv, [ProposalsNext]_proposalVars PROVE OnceInv'
  BY <1>2, StepIs, ElsewhereOnce, ReviewWritesOnce, AppliesOnce, FinishesOnce, ResubmitWritesOnce,
     ProposeOnce
<1> QED BY <1>1, <1>2, AlwaysGoverned, PTL DEF ProposalsSpec

\* How often at most: a proposal that may still be carried out has one time left.
Open(p) == p.status = "revising" \/ (p.status = "pending" /\ p.current < Len(p.chain))

OftenInv ==
  \A i \in DOMAIN proposals :
    /\ made[i] <= 1 + crossings[i]
    /\ Open(proposals[i]) => made[i] <= crossings[i]

LEMMA OneIsOften ==
  ASSUME GovernedInv, OftenInv, NEW i \in DOMAIN proposals, NEW d,
         proposals' = [proposals EXCEPT ![i] = d], made' \in [ProposalIds -> Nat],
         crossings' \in [ProposalIds -> Nat],
         \A j \in ProposalIds : crossings[j] <= crossings'[j] /\ (j # i => made'[j] = made[j]),
         made'[i] <= 1 + crossings'[i], Open(d) => made'[i] <= crossings'[i]
  PROVE  OftenInv'
<1>1. /\ DOMAIN proposals' = DOMAIN proposals /\ proposals'[i] = d
      /\ \A j \in DOMAIN proposals : j # i => proposals'[j] = proposals[j]
  BY Governed
<1>2. DOMAIN proposals \subseteq ProposalIds /\ made \in [ProposalIds -> Nat]
      /\ crossings \in [ProposalIds -> Nat]
  BY Governed
<1>3. ASSUME NEW j \in DOMAIN proposals
      PROVE  /\ made'[j] <= 1 + crossings'[j]
             /\ Open(proposals'[j]) => made'[j] <= crossings'[j]
  <2>1. CASE j = i
    BY <1>1, <2>1
  <2>2. CASE j # i
    <3>1. /\ made[j] <= 1 + crossings[j] /\ (Open(proposals[j]) => made[j] <= crossings[j])
          /\ made'[j] = made[j] /\ crossings[j] <= crossings'[j] /\ proposals'[j] = proposals[j]
      BY <1>1, <1>2, <2>2 DEF OftenInv
    <3>2. made[j] \in Nat /\ crossings[j] \in Nat /\ crossings'[j] \in Nat
      BY <1>2
    <3> QED BY <3>1, <3>2
  <2> QED BY <2>1, <2>2
<1> QED BY <1>1, <1>3 DEF OftenInv, Open

\* A request writes its proposal, and carries nothing out.
LEMMA WrittenOften ==
  ASSUME GovernedInv, OftenInv, NEW w, w.id \in DOMAIN proposals, NEW p, p = proposals[w.id],
         NEW d, proposals' = [proposals EXCEPT ![w.id] = d], crossings' = Counted(w),
         made' = made, p = w.seen /\ Open(d) => Open(p)
  PROVE  OftenInv'
<1>1. /\ crossings' \in [ProposalIds -> Nat] /\ w.id \in ProposalIds
      /\ \A j \in ProposalIds : crossings[j] <= crossings'[j]
      /\ p = w.seen \/ crossings'[w.id] = crossings[w.id] + 1
  BY Governed, CountedIs
<1>2. made \in [ProposalIds -> Nat] /\ crossings \in [ProposalIds -> Nat]
  BY Governed
<1>3. made[w.id] \in Nat /\ crossings[w.id] \in Nat /\ crossings'[w.id] \in Nat
      /\ crossings[w.id] <= crossings'[w.id]
  BY <1>1, <1>2
<1>4. made[w.id] <= 1 + crossings[w.id] /\ (Open(p) => made[w.id] <= crossings[w.id])
  BY DEF OftenInv
<1>5. made'[w.id] <= 1 + crossings'[w.id]
  BY <1>3, <1>4
<1>6. Open(d) => made'[w.id] <= crossings'[w.id]
  BY <1>1, <1>3, <1>4
<1>7. \A j \in ProposalIds : crossings[j] <= crossings'[j] /\ (j # w.id => made'[j] = made[j])
  BY <1>1
<1> QED BY <1>1, <1>2, <1>5, <1>6, <1>7, OneIsOften

\* A request writes its proposal, and carries it out.
LEMMA CarriedOften ==
  ASSUME GovernedInv, OftenInv, NEW w, w.id \in DOMAIN proposals, NEW p, p = proposals[w.id],
         NEW d, proposals' = [proposals EXCEPT ![w.id] = d], crossings' = Counted(w),
         made' = [made EXCEPT ![w.id] = @ + 1],
         p = w.seen => Open(p) /\ ~Open(d), Open(d) => Open(p)
  PROVE  OftenInv'
<1>1. /\ crossings' \in [ProposalIds -> Nat] /\ w.id \in ProposalIds
      /\ \A j \in ProposalIds : crossings[j] <= crossings'[j]
      /\ p = w.seen \/ crossings'[w.id] = crossings[w.id] + 1
  BY Governed, CountedIs
<1>2. made \in [ProposalIds -> Nat] /\ crossings \in [ProposalIds -> Nat]
  BY Governed
<1>3. made[w.id] \in Nat /\ crossings[w.id] \in Nat /\ crossings'[w.id] \in Nat
      /\ crossings[w.id] <= crossings'[w.id]
  BY <1>1, <1>2
<1>4. /\ made' \in [ProposalIds -> Nat] /\ made'[w.id] = made[w.id] + 1
      /\ \A j \in ProposalIds : j # w.id => made'[j] = made[j]
  BY <1>1, <1>2, MadeOnceMore
<1>5. made[w.id] <= 1 + crossings[w.id] /\ (Open(p) => made[w.id] <= crossings[w.id])
  BY DEF OftenInv
<1>6. made'[w.id] <= 1 + crossings'[w.id]
  BY <1>1, <1>3, <1>4, <1>5
<1>7. Open(d) => made'[w.id] <= crossings'[w.id]
  BY <1>1, <1>3, <1>4, <1>5
<1>8. \A j \in ProposalIds : crossings[j] <= crossings'[j] /\ (j # w.id => made'[j] = made[j])
  BY <1>1, <1>4
<1> QED BY <1>1, <1>4, <1>6, <1>7, <1>8, OneIsOften

LEMMA ReviewWritesOften ==
  ASSUME GovernedInv, OftenInv, NEW u \in People, ReviewWrites(u)
  PROVE  OftenInv'
<1>1. PICK w : w = request[u]
  OBVIOUS
<1>2. PICK p : p = proposals[w.id]
  OBVIOUS
<1>3. PICK d : d = Decided(p, w)
  OBVIOUS
<1>4. /\ w.pc = "reviewing" /\ proposals' = [proposals EXCEPT ![w.id] = d]
      /\ crossings' = Counted(w) /\ (IsLast(w) => w.seen.kind = "adopt")
      /\ made' = IF IsLast(w) THEN [made EXCEPT ![w.id] = @ + 1] ELSE made
  BY <1>1, <1>2, <1>3 DEF ReviewWrites
<1>5. /\ w \in ReviewRow /\ w.id \in DOMAIN proposals /\ w.seen.chain = p.chain
      /\ w.seen.current < Len(p.chain) /\ w.seen.status = "pending"
      /\ p \in ProposalRow(PayloadsOf(p.kind))
  BY <1>1, <1>2, <1>3, <1>4, SignedProposal
<1>6. w.seen.kind = p.kind
  BY <1>1, <1>2, <1>4, AtAProposal DEF OfAProposal
<1>7. p = w.seen => Open(p)
  BY <1>5 DEF Open
<1>8. CASE IsLast(w)
  <2>1. d.status = "accepted"
    BY <1>3, <1>4, <1>5, <1>6, <1>8, DecidedKeeps
  <2>2. ~Open(d)
    BY <2>1 DEF Open
  <2>3. made' = [made EXCEPT ![w.id] = @ + 1]
    BY <1>4, <1>8
  <2> QED BY <1>2, <1>4, <1>5, <1>7, <2>2, <2>3, CarriedOften
<1>9. CASE ~IsLast(w)
  <2>1. made' = made
    BY <1>4, <1>9
  <2> QED BY <1>2, <1>4, <1>5, <1>7, <2>1, WrittenOften
<1> QED BY <1>8, <1>9

LEMMA AppliesOften ==
  ASSUME GovernedInv, OftenInv, NEW u \in People, Applies(u)
  PROVE  OftenInv'
<1>1. PICK w : w = request[u]
  OBVIOUS
<1>2. PICK p : p = proposals[w.id]
  OBVIOUS
<1>3. PICK d : d = Decided(p, w)
  OBVIOUS
<1>4. /\ w.pc = "reviewing" /\ IsLast(w) /\ w.seen.kind # "adopt"
      /\ Refused(u) \/ Applied(u, w, d)
  BY <1>1, <1>2, <1>3, AppliesIs
<1>5. /\ w \in ReviewRow /\ w.id \in DOMAIN proposals /\ w.seen.chain = p.chain
      /\ w.seen.current < Len(p.chain) /\ w.seen.status = "pending" /\ w.seen.current \in Nat
      /\ p \in ProposalRow(PayloadsOf(p.kind)) /\ d.chain = p.chain
  BY <1>1, <1>2, <1>3, <1>4, SignedProposal
<1>6. w.seen.kind = p.kind
  BY <1>1, <1>2, <1>4, AtAProposal DEF OfAProposal
<1>7. CASE Refused(u)
  BY <1>7 DEF Refused, OftenInv
<1>8. CASE Applied(u, w, d)
  <2>1. /\ proposals' = [proposals EXCEPT ![w.id] = d] /\ crossings' = Counted(w)
        /\ made' = [made EXCEPT ![w.id] = @ + 1]
    BY <1>8 DEF Applied
  <2>2. d.status = p.status /\ d.current = w.seen.current + 1
    BY <1>3, <1>4, <1>5, <1>6, DecidedKeeps DEF IsLast
  <2>3. d.current = Len(d.chain) /\ Len(d.chain) \in Nat
    BY <1>4, <1>5, <2>2, ProposalIs DEF IsLast
  <2>4. Open(d) => Open(p)
    BY <2>2, <2>3 DEF Open
  <2>5. p = w.seen => Open(p) /\ ~Open(d)
    BY <1>5, <2>2, <2>3 DEF Open
  <2> QED BY <1>2, <1>5, <2>1, <2>4, <2>5, CarriedOften
<1> QED BY <1>4, <1>7, <1>8

LEMMA FinishesOften ==
  ASSUME GovernedInv, OftenInv, NEW u \in People, Finishes(u)
  PROVE  OftenInv'
<1>1. PICK w : w = request[u]
  OBVIOUS
<1>2. PICK p : p = proposals[w.id]
  OBVIOUS
<1>3. PICK d : d = [p EXCEPT !.status = "accepted"]
  OBVIOUS
<1>4. /\ w.pc = "applied" /\ proposals' = [proposals EXCEPT ![w.id] = d]
      /\ crossings' = Counted(w) /\ made' = made
  BY <1>1, <1>2, <1>3 DEF Finishes
<1>5. w.id \in DOMAIN proposals
  BY <1>1, <1>4, AtAProposal DEF OfAProposal
<1>6. p \in ProposalRow(PayloadsOf(p.kind))
  BY <1>2, <1>5, Governed
<1>7. ~Open(d)
  BY <1>3, <1>6 DEF ProposalRow, Open
<1> QED BY <1>2, <1>4, <1>5, <1>7, WrittenOften

LEMMA ResubmitWritesOften ==
  ASSUME GovernedInv, OftenInv, NEW u \in People, ResubmitWrites(u)
  PROVE  OftenInv'
<1>1. PICK w : w = request[u]
  OBVIOUS
<1>2. PICK p : p = proposals[w.id]
  OBVIOUS
<1>3. PICK d : d = Rewritten(p, w)
  OBVIOUS
<1>4. /\ w.pc = "resubmitting" /\ proposals' = [proposals EXCEPT ![w.id] = d]
      /\ crossings' = Counted(w) /\ made' = made
  BY <1>1, <1>2, <1>3 DEF ResubmitWrites
<1>5. w.id \in DOMAIN proposals /\ Allowed(u, w)
  BY <1>1, <1>4, AtAProposal DEF OfAProposal
<1>6. w.seen.status = "revising"
  BY <1>4, <1>5 DEF Allowed, MayRewrite
<1>7. p = w.seen => Open(p)
  BY <1>6 DEF Open
<1> QED BY <1>2, <1>4, <1>5, <1>7, WrittenOften

LEMMA ProposeOften ==
  ASSUME GovernedInv, OnceInv, OftenInv, NEW u \in People, NEW i \in ProposalIds, NEW ask,
         Propose(u, i, ask)
  PROVE  OftenInv'
<1>1. /\ DOMAIN proposals' = DOMAIN proposals \cup {i} /\ i \notin DOMAIN proposals
      /\ UNCHANGED <<crossings, made>>
      /\ \A j \in DOMAIN proposals : proposals'[j] = proposals[j]
  BY DEF Propose
<1>2. made[i] = 0
  BY <1>1 DEF OnceInv
<1>3. crossings[i] \in Nat
  BY Governed
<1>4. made'[i] <= crossings'[i] /\ made'[i] <= 1 + crossings'[i]
  BY <1>1, <1>2, <1>3
<1> QED BY <1>1, <1>4 DEF OftenInv

LEMMA AlwaysOften == ProposalsSpec => []OftenInv
<1>1. ProposalsInit => OftenInv
  BY DEF ProposalsInit, OftenInv
<1>2. ASSUME GovernedInv, OnceInv, OftenInv, [ProposalsNext]_proposalVars PROVE OftenInv'
  <2>1. CASE Elsewhere
    BY <1>2, <2>1, ElsewhereLeaves DEF OftenInv
  <2> QED BY <1>2, <2>1, StepIs, ReviewWritesOften, AppliesOften, FinishesOften,
             ResubmitWritesOften, ProposeOften
<1> QED BY <1>1, <1>2, AlwaysGoverned, AlwaysOnce, PTL DEF ProposalsSpec

(***************************************************************************)
(* Whatever requests interleave, a proposal's change is carried out once   *)
(* at most, and once more for each time one request wrote over what        *)
(* another had written.  Where none did, it is carried out once its last   *)
(* signature is there; and what is carried out and does not say so is      *)
(* being finished, or was when the server went down.                       *)
(***************************************************************************)
THEOREM CarriedOutOnce == ProposalsSpec => []AppliedOnce
<1>1. GovernedInv /\ OnceInv /\ OftenInv => AppliedOnce
  <2> SUFFICES ASSUME GovernedInv, OnceInv, OftenInv PROVE AppliedOnce
    OBVIOUS
  <2>1. ASSUME NEW i \in ProposalIds PROVE made[i] <= 1 + crossings[i]
    <3>1. crossings[i] \in Nat
      BY Governed
    <3>2. CASE i \in DOMAIN proposals
      BY <3>2 DEF OftenInv
    <3>3. CASE i \notin DOMAIN proposals
      BY <3>1, <3>3 DEF OnceInv
    <3> QED BY <3>2, <3>3
  <2> QED BY <2>1 DEF OnceInv, AppliedOnce, Once, Final, Finishing
<1> QED BY <1>1, AlwaysGoverned, AlwaysOnce, AlwaysOften, PTL

-----------------------------------------------------------------------------
(* Who takes enforcement away. *)

\* Two people are behind it, or one who fills a chain's only slot.
Behind(signers, chain, proposer) ==
  \/ \E u, v \in signers \cup {proposer} : u # v
  \/ chain \in Chains \cup {<<Layer>>} /\ signers = {proposer}

\* Where a chain comes from: whoever proposes is below a chain of those above them.
Resolved(chain, proposer) ==
  \/ chain \in Chains \cup {<<Layer>>}
  \/ \A k \in 1..Len(chain) : Rank[chain[k]] > Rank[RoleOf[proposer]]

Vouched(l) ==
  \/ l.stale
  \/ l.how = "route" /\ Cardinality(l.signers) = 2
  \/ /\ l.how = "proposal" /\ l.id \in DOMAIN proposals
     /\ Cardinality(l.signers) = Len(proposals[l.id].chain)
     /\ Behind(l.signers, proposals[l.id].chain, proposals[l.id].proposer)
     /\ proposals[l.id].proposer \in Agents => l.id \in moved

\* An agent's proposal that is not carried out yet would raise the rule it is about.
Raises(p, times) ==
  p.kind = "move" /\ p.proposer \in Agents /\ times = 0 =>
    p.payload.rule \in DOMAIN rules /\ p.payload.to > rules[p.payload.rule].rung

VouchedInv ==
  /\ \A l \in lowered : Vouched(l)
  /\ \A i \in DOMAIN proposals : Resolved(proposals[i].chain, proposals[i].proposer)
  /\ \A i \in DOMAIN proposals \ (crossed \cup moved) : Raises(proposals[i], made[i])

LEMMA VouchedStays ==
  ASSUME ProposalsKeep, moved \subseteq moved', NEW l, Vouched(l)
  PROVE  Vouched(l)'
BY DEF ProposalsKeep, Vouched

\* The rules an agent's proposal may be about stand where they stood, or it is told apart.
LEMMA RaisesStays ==
  ASSUME NEW p, NEW d, NEW m, NEW n, d.kind = p.kind, d.proposer = p.proposer,
         d.payload = p.payload,
         n = 0 => m = 0, Raises(p, m),
         p.kind = "move" /\ p.payload.rule \in DOMAIN rules =>
           p.payload.rule \in DOMAIN rules' /\ rules'[p.payload.rule].rung = rules[p.payload.rule].rung
  PROVE  Raises(d, n)'
BY DEF Raises

LEMMA ResolvedIs ==
  ASSUME GovernedInv, NEW u \in People, NEW chain \in ResolveChain(u)
  PROVE  Resolved(chain, u)
<1> DEFINE up == {r \in roles : Rank[r] > Rank[RoleOf[u]]}
<1>1. roles \subseteq DOMAIN Rank /\ workflow \in Chains \cup {<<>>}
  BY Governed
<1>2. CASE workflow # <<>>
  BY <1>1, <1>2 DEF ResolveChain, Resolved
<1>3. CASE workflow = <<>> /\ up # {}
  <2>1. chain \in ByRank(up)
    BY <1>3 DEF ResolveChain
  <2>2. IsFiniteSet(up)
    BY <1>1, Given, FS_Subset
  <2>3. Cardinality(up) \in Nat /\ chain \in [1..Cardinality(up) -> up]
    BY <2>1, <2>2, FS_CardinalityType DEF ByRank
  <2>4. Len(chain) = Cardinality(up)
    <3> HIDE DEF up
    <3> QED BY <2>3
  <2>5. \A k \in 1..Len(chain) : chain[k] \in up
    <3> HIDE DEF up
    <3> QED BY <2>3, <2>4
  <2> QED BY <2>5 DEF Resolved
<1>4. CASE workflow = <<>> /\ up = {}
  BY <1>4 DEF ResolveChain, Resolved
<1> QED BY <1>2, <1>3, <1>4

LEMMA ResolvedStays ==
  ASSUME VouchedInv, ProposalsKeep, DOMAIN proposals' = DOMAIN proposals
  PROVE  \A i \in DOMAIN proposals' : Resolved(proposals[i].chain, proposals[i].proposer)'
BY DEF VouchedInv, ProposalsKeep, Resolved

\* Whoever has the rank of a slot above the proposer is not the proposer.
LEMMA BehindIs ==
  ASSUME NEW some, NEW p \in ProposalRow(some), Signed(p), p.status = "pending",
         p.current = Len(p.chain), 0 < Len(p.chain), Resolved(p.chain, p.proposer)
  PROVE  Behind(SignersOf(p), p.chain, p.proposer)
<1> SUFFICES ASSUME \A u, v \in SignersOf(p) \cup {p.proposer} : u = v
             PROVE  p.chain \in Chains \cup {<<Layer>>} /\ SignersOf(p) = {p.proposer}
  BY DEF Behind
<1>1. /\ p.decisions \in Seq(Decision) /\ p.chain \in Seq(DOMAIN Rank) /\ Len(p.chain) \in Nat
      /\ p.proposer \in People
  BY ProposalIs
<1>2. Len(p.decisions) = Len(p.chain) /\ SignedTo(p, 1)
  BY <1>1 DEF Signed
<1>3. 1 \in DOMAIN p.decisions /\ 1 \in 1..Len(p.chain) /\ p.chain[1] \in DOMAIN Rank
  BY <1>1, <1>2
<1>4. p.decisions[1].by \in SignersOf(p)
  BY <1>3 DEF SignersOf
<1>5. SignersOf(p) = {p.proposer} /\ p.decisions[1].by = p.proposer
  <2>1. \A x \in SignersOf(p) : x = p.proposer
    OBVIOUS
  <2>2. p.decisions[1].by = p.proposer /\ p.proposer \in SignersOf(p)
    BY <1>4, <2>1
  <2> QED BY <2>1, <2>2, Zenon
<1>6. Rank[RoleOf[p.proposer]] >= Rank[p.chain[1]]
  BY <1>2, <1>5 DEF SignedTo
<1>7. Rank[RoleOf[p.proposer]] \in Nat /\ Rank[p.chain[1]] \in Nat
  BY <1>1, <1>3, Given
<1>8. ~(Rank[p.chain[1]] > Rank[RoleOf[p.proposer]])
  BY <1>6, <1>7
<1> QED BY <1>3, <1>5, <1>8 DEF Resolved

LEMMA QuietVouched ==
  ASSUME VouchedInv, UNCHANGED <<proposals, made, crossings, rules, lowered, moved>>
  PROVE  VouchedInv'
BY Uncrossed DEF VouchedInv, Vouched, Raises

\* Rules are written, and no proposal.
LEMMA RulesVouched ==
  ASSUME GovernedInv, VouchedInv, UNCHANGED <<proposals, made, crossings>>, moved \subseteq moved',
         \A l \in lowered' \ lowered : Vouched(l)',
         \A i \in DOMAIN proposals \ moved' :
           proposals[i].kind = "move" /\ proposals[i].payload.rule \in DOMAIN rules =>
             /\ proposals[i].payload.rule \in DOMAIN rules'
             /\ rules'[proposals[i].payload.rule].rung = rules[proposals[i].payload.rule].rung
  PROVE  VouchedInv'
<1>1. ProposalsKeep
  BY ProposalsLeft
<1>2. \A l \in lowered' : Vouched(l)'
  BY <1>1, VouchedStays DEF VouchedInv
<1>3. ASSUME NEW i \in DOMAIN proposals \ (crossed \cup moved') PROVE Raises(proposals[i], made[i])'
  <2>1. Raises(proposals[i], made[i])
    BY <1>3 DEF VouchedInv
  <2> QED BY <1>3, <2>1 DEF Raises
<1>4. \A i \in DOMAIN proposals' : Resolved(proposals[i].chain, proposals[i].proposer)'
  BY <1>1, ResolvedStays
<1> QED BY <1>2, <1>3, <1>4, Uncrossed DEF VouchedInv

LEMMA AddRuleVouched ==
  ASSUME GovernedInv, VouchedInv, NEW u \in People, NEW r, NEW rule, AddRule(u, r, rule)
  PROVE  VouchedInv'
<1>1. /\ UNCHANGED <<proposals, made, crossings, moved, lowered>>
      /\ \A s \in DOMAIN rules : s \in DOMAIN rules' /\ rules'[s] = rules[s]
  BY DEF AddRule
<1> QED BY <1>1, RulesVouched

LEMMA DisableWritesVouched ==
  ASSUME GovernedInv, VouchedInv, NEW u \in People, DisableWrites(u)
  PROVE  VouchedInv'
<1>1. PICK w : w = request[u]
  OBVIOUS
<1>2. PICK r : r = w.rule
  OBVIOUS
<1>3. PICK rule : rule = rules[r]
  OBVIOUS
<1>4. PICK l : l = [how |-> "route", id |-> 0, signers |-> {u}, stale |-> rule # w.seen]
  OBVIOUS
<1>5. /\ w.pc = "disabling" /\ rules' = [rules EXCEPT ![r].enabled = FALSE]
      /\ lowered' = IF rule.rung > 0 THEN lowered \cup {l} ELSE lowered
      /\ UNCHANGED <<proposals, made, crossings, moved>>
  BY <1>1, <1>2, <1>3, <1>4 DEF DisableWrites
<1>6. r \in DOMAIN rules /\ w.seen.rung = 0
  BY <1>1, <1>2, <1>5, AtARule
<1>7. rule \in RuleRow
  BY <1>3, <1>6, Governed
<1>8. \A s \in DOMAIN rules : s \in DOMAIN rules' /\ rules'[s].rung = rules[s].rung
  BY <1>3, <1>5, <1>7 DEF RuleRow
<1>9. rule.rung > 0 => l.stale
  <2>1. rule.rung > 0 => rule # w.seen
    BY <1>6
  <2>2. l.stale = (rule # w.seen)
    BY <1>4
  <2> QED BY <2>1, <2>2
<1>10. \A k \in lowered' \ lowered : Vouched(k)'
  BY <1>5, <1>9 DEF Vouched
<1> QED BY <1>5, <1>8, <1>10, RulesVouched

LEMMA TwoAreTwo ==
  ASSUME NEW u, NEW v, u # v
  PROVE  Cardinality({u, v}) = 2
<1>1. IsFiniteSet({u}) /\ Cardinality({u}) = 1
  BY FS_Singleton
<1>2. {u, v} = {u} \cup {v} /\ v \notin {u}
  OBVIOUS
<1> QED BY <1>1, <1>2, FS_AddElement

LEMMA MoveWritesVouched ==
  ASSUME GovernedInv, VouchedInv, NEW u \in People, MoveWrites(u)
  PROVE  VouchedInv'
<1>1. PICK w : w = request[u]
  OBVIOUS
<1>2. PICK r : r = w.move.rule
  OBVIOUS
<1>3. PICK rule : rule = rules[r]
  OBVIOUS
<1>4. PICK placed : placed = Placed(rule, w.seen, w.move)
  OBVIOUS
<1>5. PICK l : l = [how |-> "route", id |-> 0, signers |-> {u, w.second}, stale |-> rule # w.seen]
  OBVIOUS
<1>6. w.pc = "moving"
  BY <1>1 DEF MoveWrites
<1>7. /\ r \in DOMAIN rules /\ w.move \in Moves /\ w.seen \in RuleRow /\ MayMove(w.seen, w.move)
      /\ w.seen.predicate # "" => rule.predicate # ""
      /\ IsDemotion(w.seen, w.move.to) => w.second # u
  BY <1>1, <1>2, <1>3, <1>6, AtARule
<1>8. rules = [s \in DOMAIN rules |-> rules[s]]
  BY Governed
<1>9. rules' = [rules EXCEPT ![r] = placed]
  BY <1>1, <1>2, <1>3, <1>4 DEF MoveWrites
<1>10. DOMAIN rules' = DOMAIN rules /\ rules'[r] = placed
       /\ \A s \in DOMAIN rules : s # r => rules'[s] = rules[s]
  BY <1>7, <1>8, <1>9
<1>11. /\ lowered' = IF placed.rung < rule.rung THEN lowered \cup {l} ELSE lowered
       /\ moved' = moved \cup About(r) /\ UNCHANGED <<proposals, made, crossings>>
  BY <1>1, <1>2, <1>3, <1>5, <1>10 DEF MoveWrites
<1>12. rule \in RuleRow /\ (rule.rung \in Predicated => rule.predicate # "")
  BY <1>3, <1>7, Governed
<1>13. placed.rung = IF w.move.to = w.seen.rung THEN rule.rung ELSE w.move.to
  BY <1>4, <1>7, <1>12, PlacedIs
<1>14. placed.rung < rule.rung => l.stale \/ (l.how = "route" /\ Cardinality(l.signers) = 2)
  <2>1. SUFFICES ASSUME placed.rung < rule.rung, rule = w.seen
                 PROVE  Cardinality({u, w.second}) = 2
    BY <1>5
  <2>2. rule.rung \in 0..5 /\ w.move.to \in 0..5
    BY <1>7, <1>12, RuleIs, Given
  <2>3. IsDemotion(w.seen, w.move.to)
    BY <1>13, <2>1, <2>2 DEF IsDemotion
  <2> QED BY <1>7, <2>3, TwoAreTwo
<1>15. \A k \in lowered' \ lowered : Vouched(k)'
  BY <1>11, <1>14 DEF Vouched
<1>16. \A i \in DOMAIN proposals \ moved' :
         proposals[i].kind = "move" => proposals[i].payload.rule # r
  BY <1>11 DEF About
<1> QED BY <1>10, <1>11, <1>15, <1>16, RulesVouched

\* One proposal is written, and no rule.
LEMMA OneIsVouched ==
  ASSUME GovernedInv, VouchedInv, NEW i \in DOMAIN proposals, NEW d,
         proposals' = [proposals EXCEPT ![i] = d], UNCHANGED <<rules, lowered>>,
         d.kind = proposals[i].kind, d.chain = proposals[i].chain, d.proposer = proposals[i].proposer,
         crossed \subseteq crossed', moved \subseteq moved',
         i \notin crossed' \cup moved' => d.payload = proposals[i].payload,
         \A j \in DOMAIN proposals : made'[j] = 0 => made[j] = 0
  PROVE  VouchedInv'
<1>1. /\ DOMAIN proposals' = DOMAIN proposals /\ proposals'[i] = d
      /\ \A j \in DOMAIN proposals : j # i => proposals'[j] = proposals[j]
  BY Governed
<1>2. ProposalsKeep
  BY <1>1 DEF ProposalsKeep
<1>3. \A l \in lowered' : Vouched(l)'
  BY <1>2, VouchedStays DEF VouchedInv
<1>4. ASSUME NEW j \in DOMAIN proposals \ (crossed' \cup moved')
      PROVE  Raises(proposals[j], made[j])'
  <2>1. Raises(proposals[j], made[j])
    BY <1>4 DEF VouchedInv
  <2> QED BY <1>1, <1>4, <2>1 DEF Raises
<1>5. \A j \in DOMAIN proposals' : Resolved(proposals[j].chain, proposals[j].proposer)'
  BY <1>1, <1>2, ResolvedStays
<1> QED BY <1>1, <1>3, <1>4, <1>5 DEF VouchedInv

LEMMA MadeGrows ==
  ASSUME GovernedInv, NEW i \in ProposalIds,
         made' = [made EXCEPT ![i] = @ + 1] \/ made' = made
  PROVE  \A j \in DOMAIN proposals : made'[j] = 0 => made[j] = 0
<1>1. made \in [ProposalIds -> Nat] /\ DOMAIN proposals \subseteq ProposalIds
  BY Governed
<1>2. \A j \in ProposalIds : made[j] \in Nat /\ made[j] + 1 # 0
  BY <1>1
<1>3. ASSUME NEW j \in DOMAIN proposals, made'[j] = 0 PROVE made[j] = 0
  <2>1. CASE j = i
    BY <1>1, <1>2, <1>3, <2>1
  <2>2. CASE j # i
    BY <1>1, <1>3, <2>2
  <2> QED BY <2>1, <2>2
<1> QED BY <1>3

LEMMA ReviewWritesVouched ==
  ASSUME GovernedInv, VouchedInv, NEW u \in People, ReviewWrites(u)
  PROVE  VouchedInv'
<1>1. PICK w : w = request[u]
  OBVIOUS
<1>2. PICK p : p = proposals[w.id]
  OBVIOUS
<1>3. PICK d : d = Decided(p, w)
  OBVIOUS
<1>4. /\ w.pc = "reviewing" /\ proposals' = [proposals EXCEPT ![w.id] = d]
      /\ crossings' = Counted(w) /\ UNCHANGED <<rules, lowered, moved>>
      /\ made' = [made EXCEPT ![w.id] = @ + 1] \/ made' = made
  BY <1>1, <1>2, <1>3 DEF ReviewWrites
<1>5. /\ w.id \in DOMAIN proposals /\ d.kind = p.kind /\ d.chain = p.chain
      /\ d.proposer = p.proposer /\ d.payload = p.payload
  BY <1>1, <1>2, <1>3, <1>4, SignedProposal
<1>6. \A j \in DOMAIN proposals : made'[j] = 0 => made[j] = 0
  BY <1>4, <1>5, MadeGrows, Governed
<1> QED BY <1>2, <1>4, <1>5, <1>6, OneIsVouched, CrossedStays

LEMMA FinishesVouched ==
  ASSUME GovernedInv, VouchedInv, NEW u \in People, Finishes(u)
  PROVE  VouchedInv'
<1>1. PICK w : w = request[u]
  OBVIOUS
<1>2. PICK p : p = proposals[w.id]
  OBVIOUS
<1>3. PICK d : d = [p EXCEPT !.status = "accepted"]
  OBVIOUS
<1>4. /\ w.pc = "applied" /\ proposals' = [proposals EXCEPT ![w.id] = d]
      /\ crossings' = Counted(w) /\ UNCHANGED <<made, rules, lowered, moved>>
  BY <1>1, <1>2, <1>3 DEF Finishes
<1>5. w.id \in DOMAIN proposals
  BY <1>1, <1>4, AtAProposal DEF OfAProposal
<1>6. p \in ProposalRow(PayloadsOf(p.kind))
  BY <1>2, <1>5, Governed
<1>7. d.kind = p.kind /\ d.chain = p.chain /\ d.proposer = p.proposer /\ d.payload = p.payload
  BY <1>3, <1>6 DEF ProposalRow
<1> QED BY <1>2, <1>4, <1>5, <1>7, OneIsVouched, CrossedStays

LEMMA ResubmitWritesVouched ==
  ASSUME GovernedInv, VouchedInv, NEW u \in People, ResubmitWrites(u)
  PROVE  VouchedInv'
<1>1. PICK w : w = request[u]
  OBVIOUS
<1>2. PICK p : p = proposals[w.id]
  OBVIOUS
<1>3. PICK d : d = Rewritten(p, w)
  OBVIOUS
<1>4. /\ w.pc = "resubmitting" /\ proposals' = [proposals EXCEPT ![w.id] = d]
      /\ crossings' = Counted(w) /\ UNCHANGED <<made, rules, lowered>>
      /\ moved' = IF w.payload = w.seen.payload THEN moved ELSE moved \cup {w.id}
  BY <1>1, <1>2, <1>3 DEF ResubmitWrites
<1>5. w.id \in DOMAIN proposals
  BY <1>1, <1>4, AtAProposal DEF OfAProposal
<1>6. p \in ProposalRow(PayloadsOf(p.kind))
  BY <1>2, <1>5, Governed
<1>7. d.kind = p.kind /\ d.chain = p.chain /\ d.proposer = p.proposer /\ d.payload = w.payload
  BY <1>3, <1>6 DEF Rewritten, ProposalRow
<1>8. w.id \notin crossed' \cup moved' => d.payload = p.payload
  BY <1>2, <1>4, <1>5, <1>7, NotCrossed
<1> QED BY <1>2, <1>4, <1>5, <1>7, <1>8, OneIsVouched, CrossedStays

LEMMA ProposeVouched ==
  ASSUME GovernedInv, VouchedInv, NEW u \in People, NEW i \in ProposalIds, NEW ask \in Asks,
         Propose(u, i, ask)
  PROVE  VouchedInv'
<1>1. PICK chain \in ResolveChain(u) :
        proposals' = [j \in DOMAIN proposals \cup {i} |->
          IF j = i THEN [kind |-> ask.kind, payload |-> ask.payload, proposer |-> u, chain |-> chain,
                         current |-> 0, decisions |-> <<>>, status |-> "pending"]
          ELSE proposals[j]]
  BY DEF Propose
<1>2. /\ DOMAIN proposals' = DOMAIN proposals \cup {i} /\ i \notin DOMAIN proposals
      /\ \A j \in DOMAIN proposals : proposals'[j] = proposals[j]
      /\ proposals'[i].kind = ask.kind /\ proposals'[i].payload = ask.payload
      /\ proposals'[i].proposer = u /\ proposals'[i].chain = chain
      /\ UNCHANGED <<made, crossings, moved, rules, lowered>> /\ Precheck(u, ask)
  BY <1>1 DEF Propose
<1>3. PICK p : p = proposals'[i]
  OBVIOUS
<1>4. ASSUME p.kind = "move", p.proposer \in Agents
      PROVE  p.payload.rule \in DOMAIN rules /\ p.payload.to > rules[p.payload.rule].rung
  <2>1. /\ ask.payload.rule \in DOMAIN rules
        /\ ~(ask.payload.to <= rules[ask.payload.rule].rung)
    BY <1>2, <1>3, <1>4 DEF Precheck, IsDemotion
  <2>2. ask.payload = p.payload /\ rules[ask.payload.rule] \in RuleRow
    BY <1>2, <1>3, <2>1, Governed
  <2>3. p.payload \in Moves
    BY <1>2, <1>3, <1>4 DEF Asks
  <2>4. p.payload.to \in 0..5 /\ rules[p.payload.rule].rung \in 0..5
    BY <2>2, <2>3, RuleIs, Given
  <2> QED BY <2>1, <2>2, <2>4
<1>5. Raises(proposals[i], made[i])'
  BY <1>2, <1>3, <1>4 DEF Raises
<1>6. ProposalsKeep
  BY <1>2 DEF ProposalsKeep
<1>7. \A l \in lowered' : Vouched(l)'
  BY <1>2, <1>6, VouchedStays DEF VouchedInv
<1>8. \A j \in DOMAIN proposals \ (crossed' \cup moved') : Raises(proposals[j], made[j])'
  BY <1>2, Uncrossed DEF VouchedInv, Raises
<1>9. \A j \in DOMAIN proposals' : Resolved(proposals[j].chain, proposals[j].proposer)'
  BY <1>2, ResolvedIs DEF VouchedInv, Resolved
<1> QED BY <1>2, <1>5, <1>7, <1>8, <1>9 DEF VouchedInv

LEMMA AppliesVouched ==
  ASSUME GovernedInv, SignedInv, OnceInv, VouchedInv, NEW u \in People, Applies(u)
  PROVE  VouchedInv'
<1>1. PICK w : w = request[u]
  OBVIOUS
<1>2. PICK p : p = proposals[w.id]
  OBVIOUS
<1>3. PICK d : d = Decided(p, w)
  OBVIOUS
<1>4. /\ w.pc = "reviewing" /\ IsLast(w) /\ w.seen.kind # "adopt"
      /\ \/ Refused(u)
         \/ /\ Applied(u, w, d)
            /\ \/ w.seen.kind = "move" /\ AppliedMove(w, p.payload)
               \/ w.seen.kind # "move" /\ UNCHANGED <<rules, lowered, moved>>
  BY <1>1, <1>2, <1>3, AppliesIs
<1>5. /\ w \in ReviewRow /\ w.id \in DOMAIN proposals /\ w.id \in ProposalIds
      /\ w.seen.chain = p.chain /\ w.seen.current < Len(p.chain) /\ w.seen.status = "pending"
      /\ w.seen.kind = p.kind /\ p \in ProposalRow(PayloadsOf(p.kind))
      /\ d.kind = p.kind /\ d.chain = p.chain /\ d.proposer = p.proposer /\ d.payload = p.payload
  BY <1>1, <1>2, <1>3, <1>4, SignedProposal, AtAProposal DEF OfAProposal
<1>6. CASE Refused(u)
  BY <1>6, QuietVouched DEF Refused
<1>7. CASE Applied(u, w, d) /\ w.seen.kind # "move" /\ UNCHANGED <<rules, lowered, moved>>
  <2>1. \A j \in DOMAIN proposals : made'[j] = 0 => made[j] = 0
    BY <1>5, <1>7, MadeGrows DEF Applied
  <2> QED BY <1>2, <1>5, <1>7, <2>1, OneIsVouched, CrossedStays DEF Applied
<1>8. CASE Applied(u, w, d) /\ w.seen.kind = "move" /\ AppliedMove(w, p.payload)
  <2>1. PICK q : q = p.payload
    OBVIOUS
  <2>2. PICK rule : rule = rules[q.rule]
    OBVIOUS
  <2>3. PICK placed : placed = Placed(rule, rule, q)
    OBVIOUS
  <2>4. q \in Moves /\ p.kind = "move"
    BY <1>5, <1>8, <2>1, ProposalIs DEF PayloadsOf, Asks
  <2>5. /\ q.rule \in DOMAIN rules /\ MayMove(rule, q)
        /\ rules' = [rules EXCEPT ![q.rule] = placed]
        /\ moved' = moved \cup (About(q.rule) \ {w.id})
    BY <1>8, <2>1, <2>2, <2>3 DEF AppliedMove
  <2>6. rule \in RuleRow /\ q.to \in 0..5 /\ rule.rung \in 0..5
    BY <2>2, <2>4, <2>5, Governed, RuleIs, Given
  <2>7. rules = [s \in DOMAIN rules |-> rules[s]] /\ DOMAIN proposals \subseteq ProposalIds
    BY Governed
  <2>8. \A s \in DOMAIN rules : s \in DOMAIN rules' /\ (s # q.rule => rules'[s] = rules[s])
    BY <2>5, <2>7
  <2>9. /\ DOMAIN proposals' = DOMAIN proposals /\ proposals'[w.id] = d
        /\ \A j \in DOMAIN proposals : j # w.id => proposals'[j] = proposals[j]
    BY <1>5, <1>8, Governed DEF Applied
  <2>10. made \in [ProposalIds -> Nat] /\ made' = [made EXCEPT ![w.id] = @ + 1]
    BY <1>8, Governed DEF Applied
  <2>11. /\ \A j \in DOMAIN proposals : j # w.id => made'[j] = made[j]
         /\ made'[w.id] # 0
    BY <1>5, <2>7, <2>10
  <2>12. ProposalsKeep
    BY <1>2, <1>5, <2>9 DEF ProposalsKeep
  <2>13. moved \subseteq moved' /\ crossed \subseteq crossed'
    BY <1>5, <1>8, <2>5, CrossedStays DEF Applied
  <2>14. ASSUME NEW j \in DOMAIN proposals \ (crossed' \cup moved')
         PROVE  Raises(proposals[j], made[j])'
    <3>1. CASE j = w.id
      BY <2>11, <3>1 DEF Raises
    <3>2. CASE j # w.id
      <4>1. Raises(proposals[j], made[j])
        BY <2>13, <2>14 DEF VouchedInv
      <4>2. proposals[j].kind = "move" => proposals[j].payload.rule # q.rule
        BY <2>5, <2>14, <3>2 DEF About
      <4> QED BY <2>8, <2>9, <2>11, <3>2, <4>1, <4>2 DEF Raises
    <3> QED BY <3>1, <3>2
  <2>15. PICK l : l = [how |-> "proposal", id |-> w.id, signers |-> SignersOf(proposals'[w.id]),
                       stale |-> w.id \in crossed']
    OBVIOUS
  <2>16. lowered' = IF q.to < rule.rung THEN lowered \cup {l} ELSE lowered
    BY <1>8, <2>1, <2>2, <2>15 DEF AppliedMove
  <2>17. /\ l.how = "proposal" /\ l.id = w.id /\ l.signers = SignersOf(d)
         /\ l.stale = (w.id \in crossed')
    BY <2>9, <2>15
  <2>18. ASSUME q.to < rule.rung, w.id \notin crossed' PROVE Vouched(l)'
    <3>1. p = w.seen /\ w.id \notin crossed
      BY <1>2, <1>5, <1>8, <2>18, NotCrossed DEF Applied
    <3>2. Signed(d)
      BY <1>1, <1>2, <1>3, <1>4, <1>8, <2>18, ReviewIsSigned DEF Applied
    <3>3. d.current = Len(d.chain) /\ d.status = "pending"
      BY <1>3, <1>4, <1>5, <3>1, DecidedKeeps DEF IsLast
    <3>4. Len(p.chain) \in Nat /\ p.current \in Nat
      BY <1>5, ProposalIs
    <3>5. Cardinality(SignersOf(d)) = Len(d.chain)
      BY <1>5, <3>2, <3>3, <3>4 DEF Signed
    <3>6. ~Final(p)
      BY <1>5, <3>1, <3>4 DEF Final
    <3>7. made[w.id] = 0
      BY <1>2, <1>5, <3>1, <3>6, NotYet
    <3>8. p.proposer \in Agents => w.id \in moved
      <4>1. SUFFICES ASSUME p.proposer \in Agents, w.id \notin moved PROVE FALSE
        OBVIOUS
      <4>2. Raises(p, made[w.id])
        BY <1>2, <1>5, <3>1, <4>1 DEF VouchedInv
      <4>3. q.to > rule.rung
        BY <2>1, <2>2, <2>4, <3>7, <4>1, <4>2 DEF Raises
      <4> QED BY <2>6, <2>18, <4>3
    <3>9. Behind(SignersOf(d), d.chain, d.proposer)
      <4>1. 0 < Len(d.chain) /\ Resolved(d.chain, d.proposer)
        BY <1>2, <1>5 DEF OnceInv, VouchedInv
      <4>2. d \in ProposalRow(PayloadsOf(p.kind))
        BY <1>1, <1>2, <1>3, <1>4, SignedProposal
      <4> QED BY <3>2, <3>3, <4>1, <4>2, BehindIs
    <3>10. /\ proposals'[l.id] = d /\ l.id \in DOMAIN proposals'
           /\ d.proposer \in Agents => l.id \in moved'
      BY <1>5, <2>9, <2>13, <2>17, <3>8
    <3> QED BY <2>17, <3>5, <3>9, <3>10 DEF Vouched, Behind
  <2>19. w.id \in crossed' => Vouched(l)'
    BY <2>17 DEF Vouched
  <2>20. \A k \in lowered' : Vouched(k)'
    BY <2>12, <2>13, <2>16, <2>18, <2>19, VouchedStays DEF VouchedInv
  <2>21. \A j \in DOMAIN proposals' : Resolved(proposals[j].chain, proposals[j].proposer)'
    BY <2>9, <2>12, ResolvedStays
  <2> QED BY <2>9, <2>14, <2>20, <2>21 DEF VouchedInv
<1> QED BY <1>4, <1>6, <1>7, <1>8

LEMMA ElsewhereVouched ==
  ASSUME GovernedInv, VouchedInv, Elsewhere
  PROVE  VouchedInv'
<1>1. ASSUME UNCHANGED <<proposals, made, crossings, rules, lowered, moved>> PROVE VouchedInv'
  BY <1>1, QuietVouched
<1>2. CASE \/ \E chain \in Chains : SetWorkflow(chain)
           \/ \E r \in Custom : RemoveRole(r)
           \/ Halt \/ UNCHANGED proposalVars
  BY <1>1, <1>2 DEF SetWorkflow, RemoveRole, Halt, proposalVars
<1>3. ASSUME NEW u \in People,
             \/ \E i \in ProposalIds :
                  \/ \E says \in Verdicts : ReviewReads(u, i, says)
                  \/ \E ask \in Asks : ResubmitReads(u, i, ask)
             \/ \E r \in RuleIds : DisableReads(u, r)
             \/ \E q \in Moves, second \in People : MoveReads(u, q, second)
      PROVE  VouchedInv'
  BY <1>1, <1>3 DEF ReviewReads, ResubmitReads, DisableReads, MoveReads
<1> QED BY <1>2, <1>3, MoveWritesVouched, DisableWritesVouched, AddRuleVouched DEF Elsewhere

LEMMA AlwaysVouched == ProposalsSpec => []VouchedInv
<1>1. ProposalsInit => VouchedInv
  BY DEF ProposalsInit, VouchedInv
<1>2. ASSUME GovernedInv, SignedInv, OnceInv, VouchedInv, [ProposalsNext]_proposalVars
      PROVE  VouchedInv'
  BY <1>2, StepIs, ElsewhereVouched, ReviewWritesVouched, AppliesVouched, FinishesVouched,
     ResubmitWritesVouched, ProposeVouched
<1> QED BY <1>1, <1>2, AlwaysGoverned, AlwaysSigned, AlwaysOnce, PTL DEF ProposalsSpec

(***************************************************************************)
(* Enforcement is taken away by two owners of the layer or by as many      *)
(* people as a proposal's chain has slots; two people are behind it, the   *)
(* proposer among them, unless the chain has one slot, the workflow's or   *)
(* the layer's own, which its proposer fills alone, against what the       *)
(* route's docstring says.  An agent's proposal takes none away unless its *)
(* payload or its rule changed after it was prechecked.  A request that    *)
(* acted on a row somebody else wrote in between is excepted.              *)
(***************************************************************************)
THEOREM EnforcementIsVouchedFor == ProposalsSpec => []DemotionsAreSigned
<1>1. VouchedInv => DemotionsAreSigned
  BY DEF VouchedInv, DemotionsAreSigned, Vouched, Behind
<1> QED BY <1>1, AlwaysVouched, PTL
=============================================================================
