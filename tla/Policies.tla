------------------------------ MODULE Policies ------------------------------
(***************************************************************************)
(* The rules (policies.py): how they decide, how they are made and removed *)
(* and the versions that are to tell what was in effect when, and the      *)
(* packs that seed them (packs.py).  A policy and its version are two      *)
(* commits, a pack is two for each of its artifacts and one more.          *)
(***************************************************************************)
EXTENDS Integers, FiniteSets, Sequences

CONSTANTS
  PolicyIds,         \* the ids policies get, in order
  Drafts,            \* what create_policy may be asked for
  Artifacts, Titles, \* the pack: its artifacts, in order, and the titles of its standards
  Clerks,            \* the sessions that change policies
  Questions,         \* what enforce may be asked
  MaxDeletes, MaxCuts  \* bounds: policies deleted, crashes

Layers == {"factory", "harness", "charter"}
LayerRank == [l \in Layers |-> CASE l = "factory" -> 3 [] l = "harness" -> 2 [] OTHER -> 1]

PolicyRow ==
  [kind : {"rule", "skill", "command", "agent"}, effect : {"allow", "deny"},
   applies_to : STRING, action : STRING, resource : STRING, namespace : STRING,
   strict : BOOLEAN, layer : Layers]
\* The changes of a policy, in the order of their version numbers.
PolicyVersion == Seq({"created", "deleted"})

Question == [held : SUBSET STRING, action : STRING, resource : STRING, namespace : STRING]

ASSUME PoliciesAssumption ==
  /\ PolicyIds \subseteq Nat /\ IsFiniteSet(PolicyIds) /\ MaxDeletes \in Nat /\ MaxCuts \in Nat
  /\ \A d \in Drafts : d \in PolicyRow
  /\ Artifacts \in Seq(PolicyRow)
  /\ \A q \in Questions : \A h \in q.held : h \in STRING

-----------------------------------------------------------------------------
(* How rules decide. *)

\* decide's filter: rules only, for whom they apply to, _match and _ns_match.
Matches(rows, q) ==
  {p \in rows :
     /\ p.kind = "rule"
     /\ p.applies_to = "*" \/ p.applies_to \in q.held
     /\ p.action \in {"*", q.action} /\ p.resource \in {"*", q.resource}
     /\ p.namespace \in {"", q.namespace}}

Strict(rows) == {p \in rows : p.strict}

\* Fault: any strict rule locks, whatever layer it is of.
AnyLock(rows) == IF Strict(rows) = {} THEN rows ELSE Strict(rows)

\* The rules that have the say: the strict ones of the highest layer that has any.
Pool(rows) ==
  IF Strict(rows) = {} THEN rows
  ELSE {p \in Strict(rows) :
          \A s \in Strict(rows) : LayerRank[s.layer] <= LayerRank[p.layer]}

Decide(rows, q, default_allow) ==
  LET pool == Pool(Matches(rows, q))
      denied == \E p \in pool : p.effect = "deny" IN
  IF Matches(rows, q) = {} THEN default_allow
  ELSE ~denied /\ (default_allow \/ \E p \in pool : p.effect = "allow")

\* enforce: what it raises for, and records; only "audit" lets pass what no rule is about.
Denied(rows, q, mode) == ~Decide(rows, q, mode = "audit")

-----------------------------------------------------------------------------

VARIABLES
  policies,   \* id -> Policy row and the pack it is of, of those that exist
  versions,   \* id -> the changes of its PolicyVersion rows, in order
  standards,  \* title -> Standard rows of the pack with that title
  enabled,    \* PackState
  clerk,      \* session -> what it is doing, and what it has read
  issued,     \* ids given out
  \* History, which the code does not keep:
  unfinished, \* policies a crash, or a delete, met between their two commits
  swept,      \* policies that went when their pack was disabled
  torn,       \* a crash, a second session or a delete has come between a pack and its artifacts
  deletes, cuts \* bounds

policyVars ==
  <<policies, versions, standards, enabled, clerk, issued, unfinished, swept, torn, deletes, cuts>>

AtRest == [pc |-> "idle"]
NoPack == [in_pack |-> FALSE, titles |-> {}, left |-> <<>>]

PoliciesInit ==
  /\ policies = <<>> /\ versions = [i \in PolicyIds |-> <<>>] /\ standards = [t \in Titles |-> 0]
  /\ enabled = FALSE /\ clerk = [s \in Clerks |-> AtRest] /\ issued = 0
  /\ unfinished = {} /\ swept = {} /\ torn = FALSE /\ deletes = 0 /\ cuts = 0

OfPack == {i \in DOMAIN policies : policies[i].pack}
PackBusy(s) == \E t \in Clerks \ {s} : clerk[t].pc # "idle" /\ clerk[t].job.in_pack

\* create_policy's first commit; what enable_pack has added so far goes with it.
Inserted(row, pack) ==
  [i \in DOMAIN policies \cup {issued + 1} |->
     IF i = issued + 1 THEN [row |-> row, pack |-> pack] ELSE policies[i]]

Creates(s, d) ==
  /\ clerk[s] = AtRest /\ issued + 1 \in PolicyIds
  /\ issued' = issued + 1
  /\ policies' = Inserted(d, FALSE)
  /\ clerk' = [clerk EXCEPT ![s] = [pc |-> "made", id |-> issued', job |-> NoPack]]
  /\ UNCHANGED <<versions, standards, enabled, unfinished, swept, torn, deletes, cuts>>

\* _record_version: numbered after those there are, committed on its own.
Recorded(i, change) == [versions EXCEPT ![i] = Append(@, change)]

\* It raises instead when the policy is gone before it is read back.
Loses(s) ==
  /\ clerk[s].pc = "made" /\ clerk[s].id \notin DOMAIN policies
  /\ clerk' = [clerk EXCEPT ![s] = AtRest]
  /\ UNCHANGED <<policies, versions, standards, enabled, issued, unfinished, swept, torn, deletes, cuts>>

Records(s) ==
  /\ clerk[s].pc = "made"
  /\ versions' = Recorded(clerk[s].id, "created")
  /\ clerk' = [clerk EXCEPT ![s] =
                 IF @.job.in_pack THEN [pc |-> "enabling", job |-> @.job] ELSE AtRest]
  /\ UNCHANGED <<policies, standards, enabled, issued, unfinished, swept, torn, deletes, cuts>>

Making == {clerk[s].id : s \in {t \in Clerks : clerk[t].pc = "made"}}

\* Fault: a policy is deleted without a word.
DeletesQuietly(s, i) ==
  /\ clerk[s] = AtRest /\ i \in DOMAIN policies
  /\ deletes < MaxDeletes /\ deletes' = deletes + 1
  /\ UNCHANGED versions
  /\ clerk' = [clerk EXCEPT ![s] = [pc |-> "deleting", id |-> i, job |-> NoPack]]
  /\ torn' = (torn \/ policies[i].pack)
  /\ unfinished' = unfinished \cup ({i} \cap Making)
  /\ UNCHANGED <<policies, standards, enabled, issued, swept, cuts>>

\* delete_policy: the tombstone first, ...
Deletes(s, i) ==
  /\ clerk[s] = AtRest /\ i \in DOMAIN policies
  /\ deletes < MaxDeletes /\ deletes' = deletes + 1
  /\ versions' = Recorded(i, "deleted")
  /\ clerk' = [clerk EXCEPT ![s] = [pc |-> "deleting", id |-> i, job |-> NoPack]]
  /\ torn' = (torn \/ policies[i].pack)
  /\ unfinished' = unfinished \cup ({i} \cap Making)
  /\ UNCHANGED <<policies, standards, enabled, issued, swept, cuts>>

\* ... then the row, which may be gone by then.
Without(ids) == [i \in DOMAIN policies \ ids |-> policies[i]]
Removes(s) ==
  /\ clerk[s].pc = "deleting"
  /\ policies' = Without({clerk[s].id})
  /\ clerk' = [clerk EXCEPT ![s] = AtRest]
  /\ UNCHANGED <<versions, standards, enabled, issued, unfinished, swept, torn, deletes, cuts>>

\* Fault: the artifacts are made again, whether the pack has some or not.
EnableStartsOver(s) ==
  /\ clerk[s] = AtRest
  /\ clerk' = [clerk EXCEPT ![s] =
       [pc |-> "enabling",
        job |-> [in_pack |-> TRUE, titles |-> {t \in Titles : standards[t] = 0},
                 left |-> Artifacts]]]
  /\ torn' = (torn \/ PackBusy(s))
  /\ UNCHANGED <<policies, versions, standards, enabled, issued, unfinished, swept, deletes, cuts>>

(***************************************************************************)
(* enable_pack: the standards that are missing, title by title; and the    *)
(* artifacts, all of them if the pack has none and otherwise not one.      *)
(***************************************************************************)
EnableStarts(s) ==
  /\ clerk[s] = AtRest
  /\ clerk' = [clerk EXCEPT ![s] =
       [pc |-> "enabling",
        job |-> [in_pack |-> TRUE, titles |-> {t \in Titles : standards[t] = 0},
                 left |-> IF OfPack = {} THEN Artifacts ELSE <<>>]]]
  /\ torn' = (torn \/ PackBusy(s))
  /\ UNCHANGED <<policies, versions, standards, enabled, issued, unfinished, swept, deletes, cuts>>

WithTitles(titles) == [t \in Titles |-> standards[t] + (IF t \in titles THEN 1 ELSE 0)]

EnableMakes(s) ==
  LET job == clerk[s].job IN
  /\ clerk[s].pc = "enabling" /\ job.left # <<>> /\ issued + 1 \in PolicyIds
  /\ issued' = issued + 1
  /\ policies' = Inserted(Head(job.left), TRUE)
  /\ standards' = WithTitles(job.titles)
  /\ clerk' = [clerk EXCEPT ![s] =
       [pc |-> "made", id |-> issued',
        job |-> [job EXCEPT !.titles = {}, !.left = Tail(@)]]]
  /\ UNCHANGED <<versions, enabled, unfinished, swept, torn, deletes, cuts>>

EnableEnds(s) ==
  /\ clerk[s].pc = "enabling" /\ clerk[s].job.left = <<>>
  /\ standards' = WithTitles(clerk[s].job.titles)
  /\ enabled' = TRUE
  /\ clerk' = [clerk EXCEPT ![s] = AtRest]
  /\ UNCHANGED <<policies, versions, issued, unfinished, swept, torn, deletes, cuts>>

\* disable_pack reads what is of the pack, ...
DisableStarts(s) ==
  /\ clerk[s] = AtRest
  /\ clerk' = [clerk EXCEPT ![s] =
       [pc |-> "clearing", titles |-> standards, ids |-> OfPack, job |-> [NoPack EXCEPT !.in_pack = TRUE]]]
  /\ torn' = (torn \/ PackBusy(s))
  /\ UNCHANGED <<policies, versions, standards, enabled, issued, unfinished, swept, deletes, cuts>>

\* ... and removes it in one commit, with no tombstones.
DisableEnds(s) ==
  LET w == clerk[s] IN
  /\ w.pc = "clearing"
  /\ policies' = Without(w.ids)
  /\ standards' = [t \in Titles |-> IF standards[t] < w.titles[t] THEN 0 ELSE standards[t] - w.titles[t]]
  /\ swept' = swept \cup w.ids
  /\ enabled' = FALSE
  /\ clerk' = [clerk EXCEPT ![s] = AtRest]
  /\ UNCHANGED <<versions, issued, unfinished, torn, deletes, cuts>>

\* The server goes down.
CutShort ==
  /\ cuts < MaxCuts /\ cuts' = cuts + 1
  /\ unfinished' = unfinished \cup
       {clerk[s].id : s \in {t \in Clerks : clerk[t].pc \in {"made", "deleting"}}}
  /\ torn' = (torn \/ \E s \in Clerks : clerk[s].pc # "idle" /\ clerk[s].job.in_pack)
  /\ clerk' = [s \in Clerks |-> AtRest]
  /\ UNCHANGED <<policies, versions, standards, enabled, issued, swept, deletes>>

PoliciesNext ==
  \/ \E s \in Clerks :
       \/ \E d \in Drafts : Creates(s, d)
       \/ \E i \in PolicyIds : Deletes(s, i)
       \/ Records(s) \/ Loses(s) \/ Removes(s)
       \/ EnableStarts(s) \/ EnableMakes(s) \/ EnableEnds(s)
       \/ DisableStarts(s) \/ DisableEnds(s)
  \/ CutShort

PoliciesSpec == PoliciesInit /\ [][PoliciesNext]_policyVars

-----------------------------------------------------------------------------
(* What holds. *)

\* The types of the rows and of what is remembered of them.
PoliciesTypeOK ==
  /\ DOMAIN policies \subseteq 1..issued /\ issued \in PolicyIds \cup {0}
  /\ \A i \in DOMAIN policies : policies[i].row \in PolicyRow /\ policies[i].pack \in BOOLEAN
  /\ versions \in [PolicyIds -> PolicyVersion]
  /\ standards \in [Titles -> Nat] /\ enabled \in BOOLEAN /\ torn \in BOOLEAN
  /\ unfinished \cup swept \subseteq 1..issued

\* policies_in_effect_at, asked now.
InEffect ==
  {i \in PolicyIds : versions[i] # <<>> /\ versions[i][Len(versions[i])] = "created"}

(***************************************************************************)
(* The versions tell which policies there are: what policies_in_effect_at  *)
(* answers and the table differ only in a policy that is being made or     *)
(* removed, one that a crash or another request met in between, and those  *)
(* that went with their pack, which disable_pack gives no tombstone.       *)
(***************************************************************************)
RecordsTellThePolicies ==
  LET between == {clerk[s].id : s \in {t \in Clerks : clerk[t].pc \in {"made", "deleting"}}} IN
  /\ DOMAIN policies \ InEffect \subseteq between \cup unfinished
  /\ InEffect \ DOMAIN policies \subseteq swept \cup unfinished

(***************************************************************************)
(* A pack that is enabled is all there, and each part of it once, however  *)
(* often it was enabled and disabled - unless two requests for it crossed, *)
(* a crash cut one short, or somebody deleted a policy of it: enabling it  *)
(* again then completes the standards, and leaves the artifacts as they    *)
(* are.                                                                    *)
(***************************************************************************)
PacksAreWhole ==
  enabled /\ ~torn /\ (\A s \in Clerks : clerk[s].pc = "idle" \/ ~clerk[s].job.in_pack)
    => /\ \A t \in Titles : standards[t] = 1
       /\ Cardinality(OfPack) = Len(Artifacts)
       /\ \A k \in DOMAIN Artifacts : \E i \in OfPack : policies[i].row = Artifacts[k]

(***************************************************************************)
(* What is denied is what their table promises: the highest layer with a   *)
(* strict rule has the say and all other rules none, a deny among those    *)
(* that have it wins, and the enforcement mode matters only where no       *)
(* rule matches.                                                           *)
(***************************************************************************)
TheHighestLockDecides ==
  LET rows == {policies[i].row : i \in DOMAIN policies} IN
  \A q \in Questions, mode \in {"audit", "strict"} :
    LET matching == Matches(rows, q)
        locks(l) == \E p \in matching : p.strict /\ p.layer = l
        denies(l) == \E p \in matching : p.strict /\ p.layer = l /\ p.effect = "deny" IN
    Denied(rows, q, mode) <=>
      CASE matching = {} -> mode = "strict"
        [] locks("factory") -> denies("factory")
        [] ~locks("factory") /\ locks("harness") -> denies("harness")
        [] ~locks("factory") /\ ~locks("harness") /\ locks("charter") -> denies("charter")
        [] matching # {} /\ Strict(matching) = {} -> \E p \in matching : p.effect = "deny"
=============================================================================
