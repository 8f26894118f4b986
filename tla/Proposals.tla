------------------------------ MODULE Proposals ------------------------------
(***************************************************************************)
(* Changes to governance: proposals that walk a chain of signers           *)
(* (approval_workflows.py), and the ladder of rules (ladder.py,            *)
(* routers/ladder.py) that the owners of a layer move, or that an accepted *)
(* proposal moves.  Every request reads, decides on what it read, and      *)
(* commits the columns it changed; nothing is locked in between, and an    *)
(* acceptance commits twice: what it makes first, its own status second.   *)
(***************************************************************************)
EXTENDS Integers, FiniteSets, Sequences, Functions

CONSTANTS
  ProposalIds, RuleIds,
  People, Agents,     \* who there is, and which of them are agents
  RoleOf, Rank,       \* person -> role, role -> its rank
  Custom,             \* the roles that are not built in
  Owners,             \* the people who may approve the layer the rules are of
  Layer, Chains,      \* the layer's own role, and the chains set_workflow may be given
  NewRules, Moves,    \* the rules and the moves [rule, to, predicate] that may be asked for
  MaxRequests, MaxResubmits, MaxRuleMoves, MaxHalts
                      \* bounds: requests under way at a time, the rest over a behaviour

Predicated == {2, 3, 4}     \* the rungs that are carried by a predicate

\* A predicate is known by what it sees: a call's arguments, or the finished diff.
PREDICATES == {"args", "diff"}

RuleRow ==
  [rung : 0..5, predicate : PREDICATES \cup {""}, withholds : BOOLEAN, enabled : BOOLEAN]

ASSUME ProposalsAssumption ==
  /\ Agents \subseteq People /\ Owners \subseteq People
  /\ RoleOf \in [People -> DOMAIN Rank] /\ Rank \in [DOMAIN Rank -> Nat]
  /\ Custom \subseteq DOMAIN Rank /\ Layer \in DOMAIN Rank \ Custom
  /\ IsFiniteSet(DOMAIN Rank) /\ Chains \subseteq Seq(DOMAIN Rank)
  /\ \A rule \in NewRules : rule \in RuleRow
  /\ \A q \in Moves : q.rule \in RuleIds /\ q.to \in 0..5 /\ q.predicate \in {"", "args", "diff"}
  /\ MaxRequests \in Nat /\ MaxResubmits \in Nat /\ MaxRuleMoves \in Nat /\ MaxHalts \in Nat

VARIABLES
  roles,      \* the roles that exist
  workflow,   \* the layer's configured chain, <<>> when there is none
  proposals,  \* id -> ChangeProposal row, of those made
  rules,      \* id -> Constraint row, of those made
  request,    \* person -> the request they have under way, with what it has read
  \* History, which the code does not keep:
  made,       \* id -> how often the proposal's change was carried out
  crossings,  \* id -> how often it was written over what another request wrote
  halted,     \* proposals whose acceptance was interrupted between its two commits
  moved,      \* proposals whose payload was rewritten, or whose rule moved meanwhile
  lowered,    \* the times enforcement was taken away, and who signed
  \* bounds:
  resubmits, ruleMoves, halts

proposalVars ==
  <<roles, workflow, proposals, rules, request, made, crossings, halted, moved, lowered,
    resubmits, ruleMoves, halts>>

-----------------------------------------------------------------------------
(* Rows. *)

Decision == [role : DOMAIN Rank, by : People, decision : {"accept", "deny", "feedback"}]
ProposalRow(payloads) ==
  [kind : {"adopt", "create", "move"}, payload : payloads, proposer : People,
   chain : Seq(DOMAIN Rank), current : Nat, decisions : Seq(Decision),
   status : {"pending", "revising", "denied", "accepted"}]

\* add: a rung that nothing would carry the rule at is refused.
Carried(rule) ==
  /\ rule.rung \in Predicated => rule.predicate # ""
  /\ rule.rung = 1 => rule.withholds

\* plan_move: anything that is not up is a demotion.
IsDemotion(rule, to) == to <= rule.rung

\* move: a rung with no predicate to carry the rule is refused.
MayMove(rule, q) == q.to \in Predicated => "" # rule.predicate \/ "" # q.predicate

\* What move writes: the rung, and the predicate if there is a new one; by a session
\* that has seen the rule as `seen`, the columns that it changes.
Placed(rule, seen, q) ==
  [rule EXCEPT !.rung = IF q.to = seen.rung THEN @ ELSE q.to,
               !.predicate = IF q.predicate \in {"", seen.predicate} THEN @ ELSE q.predicate]

\* list_roles: by rank; which of two of one rank comes first is the database's choice.
ByRank(some) ==
  {names \in [1..Cardinality(some) -> some] :
     Range(names) = some /\ \A i, j \in DOMAIN names : i < j => Rank[names[i]] <= Rank[names[j]]}

\* The chains _resolve_chain may come to: the layer's workflow, or every role above the
\* proposer's, lowest first, or the layer's own.
ResolveChain(u) ==
  LET up == {r \in roles : Rank[r] > Rank[RoleOf[u]]} IN
  IF workflow # <<>> THEN {workflow}
  ELSE IF up # {} THEN ByRank(up)
  ELSE {<<Layer>>}

\* at_least: closed on a role that is not there.
AtLeast(role, minimum) == {role, minimum} \subseteq roles /\ Rank[role] >= Rank[minimum]

SignersOf(p) == {p.decisions[i].by : i \in DOMAIN p.decisions}

\* What proposals are for: an idea, a policy or a work item, or a move on the ladder.
Asks ==
  [kind : {"adopt"}, payload : {"idea"}] \cup [kind : {"create"}, payload : {"whole", "lacking"}]
    \cup [kind : {"move"}, payload : Moves]

\* Fault: whoever signed before may sign again.
MayReviewTwice(u, p) ==
  /\ p.status = "pending" /\ p.current < Len(p.chain)
  /\ AtLeast(RoleOf[u], p.chain[p.current + 1])

\* review's refusals; a chain that is used up has no next slot, and raises.
MayReview(u, p) ==
  /\ p.status = "pending" /\ p.current < Len(p.chain)
  /\ AtLeast(RoleOf[u], p.chain[p.current + 1])
  /\ u \notin SignersOf(p)

\* Fault: a proposal that was signed to the end may be handed in again.
MayResubmitAnything(u, p) == p.status # "pending" /\ p.proposer = u

MayResubmit(u, p) == p.status = "revising" /\ p.proposer = u

Resting == [pc |-> "idle"]
Free(u) ==
  request[u] = Resting /\ Cardinality({v \in People : request[v] # Resting}) < MaxRequests

\* What a review's first commit writes: its decision, and what follows from it.
IsLast(w) == w.says = "accept" /\ w.seen.current + 1 = Len(w.seen.chain)
Decided(p, w) ==
  [p EXCEPT
     !.decisions = Append(w.seen.decisions,
                          [role |-> w.seen.chain[w.seen.current + 1], by |-> w.by,
                           decision |-> w.says]),
     !.current = IF w.says = "accept" THEN w.seen.current + 1 ELSE @,
     !.status = CASE w.says = "deny" -> "denied"
                  [] w.says = "feedback" -> "revising"
                  [] IsLast(w) /\ p.kind = "adopt" -> "accepted"
                  [] OTHER -> @]

\* Nothing keeps two requests off one proposal: one may write over what it has not seen.
Counted(w) ==
  IF proposals[w.id] = w.seen THEN crossings ELSE [crossings EXCEPT ![w.id] = @ + 1]
crossed == {i \in ProposalIds : crossings[i] > 0}

\* A proposal about a rule, as that rule moves.
About(r) == {i \in DOMAIN proposals : proposals[i].kind = "move" /\ proposals[i].payload.rule = r}

-----------------------------------------------------------------------------
(* Who signs what. *)

ProposalsInit ==
  /\ roles = DOMAIN Rank /\ workflow = <<>>
  /\ proposals = <<>> /\ rules = <<>>
  /\ request = [u \in People |-> Resting]
  /\ made = [i \in ProposalIds |-> 0]
  /\ crossings = [i \in ProposalIds |-> 0]
  /\ halted = {} /\ moved = {} /\ lowered = {}
  /\ resubmits = 0 /\ ruleMoves = 0 /\ halts = 0

SetWorkflow(chain) ==
  /\ Range(chain) \subseteq roles
  /\ workflow' = chain
  /\ UNCHANGED <<roles, proposals, rules, request, made, crossings, halted, moved, lowered,
                 resubmits, ruleMoves, halts>>

\* delete_role: neither a built-in nor one in use; that a chain names it does not count.
RemoveRole(r) ==
  /\ r \in roles \cap Custom /\ \A u \in People : RoleOf[u] # r
  /\ roles' = roles \ {r}
  /\ UNCHANGED <<workflow, proposals, rules, request, made, crossings, halted, moved, lowered,
                 resubmits, ruleMoves, halts>>

-----------------------------------------------------------------------------
(* A proposal. *)

\* _precheck_ladder_move: an agent does not propose a demotion.
Precheck(u, ask) ==
  ask.kind = "move" /\ u \in Agents =>
    ask.payload.rule \in DOMAIN rules /\ ~IsDemotion(rules[ask.payload.rule], ask.payload.to)

Propose(u, i, ask) ==
  /\ request[u] = Resting /\ i \notin DOMAIN proposals
  /\ Precheck(u, ask)
  /\ \E chain \in ResolveChain(u) :
       proposals' = [j \in DOMAIN proposals \cup {i} |->
         IF j = i THEN [kind |-> ask.kind, payload |-> ask.payload, proposer |-> u, chain |-> chain,
                        current |-> 0, decisions |-> <<>>, status |-> "pending"]
         ELSE proposals[j]]
  /\ UNCHANGED <<roles, workflow, rules, request, made, crossings, halted, moved, lowered,
                 resubmits, ruleMoves, halts>>

ReviewReads(u, i, says) ==
  /\ Free(u) /\ i \in DOMAIN proposals /\ MayReview(u, proposals[i])
  /\ request' = [request EXCEPT ![u] =
                   [pc |-> "reviewing", id |-> i, by |-> u, says |-> says,
                    seen |-> proposals[i]]]
  /\ UNCHANGED <<roles, workflow, proposals, rules, made, crossings, halted, moved, lowered,
                 resubmits, ruleMoves, halts>>

\* A decision that carries nothing out, or adopts an idea: one commit.
ReviewWrites(u) ==
  LET w == request[u] IN
  /\ w.pc = "reviewing" /\ (IsLast(w) => w.seen.kind = "adopt")
  /\ proposals' = [proposals EXCEPT ![w.id] = Decided(@, w)]
  /\ made' = IF IsLast(w) THEN [made EXCEPT ![w.id] = @ + 1] ELSE made
  /\ crossings' = Counted(w)
  /\ request' = [request EXCEPT ![u] = Resting]
  /\ UNCHANGED <<roles, workflow, rules, halted, moved, lowered, resubmits, ruleMoves, halts>>

(***************************************************************************)
(* The last signature of a proposal that makes a policy, a work item or a  *)
(* move: the applier's own commit takes the decision with it, and leaves   *)
(* the proposal pending with its chain used up.  A payload that lacks      *)
(* something, or a move that nothing would carry, raises: nothing is       *)
(* written.                                                                *)
(***************************************************************************)
Applies(u) ==
  LET w == request[u]
      q == proposals[w.id].payload
      ok == IF w.seen.kind = "move" THEN q.rule \in DOMAIN rules /\ MayMove(rules[q.rule], q)
            ELSE q = "whole" IN
  /\ w.pc = "reviewing" /\ IsLast(w) /\ w.seen.kind # "adopt"
  /\ IF ok
     THEN /\ proposals' = [proposals EXCEPT ![w.id] = Decided(@, w)]
          /\ made' = [made EXCEPT ![w.id] = @ + 1]
          /\ crossings' = Counted(w)
          /\ request' = [request EXCEPT ![u] = [w EXCEPT !.pc = "applied",
                                                         !.seen = proposals'[w.id]]]
          /\ IF w.seen.kind = "move"
             THEN /\ rules' = [rules EXCEPT ![q.rule] = Placed(@, @, q)]
                  /\ lowered' = IF q.to < rules[q.rule].rung
                                THEN lowered \cup
                                  {[how |-> "proposal", id |-> w.id,
                                    signers |-> SignersOf(proposals'[w.id]),
                                    stale |-> w.id \in crossed']}
                                ELSE lowered
                  /\ moved' = moved \cup (About(q.rule) \ {w.id})
             ELSE UNCHANGED <<rules, lowered, moved>>
     ELSE /\ request' = [request EXCEPT ![u] = Resting]
          /\ UNCHANGED <<proposals, made, crossings, rules, lowered, moved>>
  /\ UNCHANGED <<roles, workflow, halted, resubmits, ruleMoves, halts>>

\* Its second commit, of the status and nothing else.
Finishes(u) ==
  LET w == request[u] IN
  /\ w.pc = "applied"
  /\ proposals' = [proposals EXCEPT ![w.id].status = "accepted"]
  /\ crossings' = Counted(w)
  /\ request' = [request EXCEPT ![u] = Resting]
  /\ UNCHANGED <<roles, workflow, rules, made, halted, moved, lowered, resubmits, ruleMoves, halts>>

ResubmitReads(u, i, ask) ==
  /\ Free(u) /\ i \in DOMAIN proposals /\ MayResubmit(u, proposals[i])
  /\ ask.kind = proposals[i].kind
  /\ resubmits < MaxResubmits /\ resubmits' = resubmits + 1
  /\ request' = [request EXCEPT ![u] =
                   [pc |-> "resubmitting", id |-> i, payload |-> ask.payload, seen |-> proposals[i]]]
  /\ UNCHANGED <<roles, workflow, proposals, rules, made, crossings, halted, moved, lowered,
                 ruleMoves, halts>>

\* A fresh pass over the chain that was resolved when it was proposed.
Rewritten(p, w) ==
  [p EXCEPT !.payload = w.payload, !.decisions = <<>>, !.status = "pending",
            !.current = IF w.seen.current = 0 THEN @ ELSE 0]

ResubmitWrites(u) ==
  LET w == request[u] IN
  /\ w.pc = "resubmitting"
  /\ proposals' = [proposals EXCEPT ![w.id] = Rewritten(@, w)]
  /\ crossings' = Counted(w)
  /\ moved' = IF w.payload = w.seen.payload THEN moved ELSE moved \cup {w.id}
  /\ request' = [request EXCEPT ![u] = Resting]
  /\ UNCHANGED <<roles, workflow, rules, made, halted, lowered, resubmits, ruleMoves, halts>>

-----------------------------------------------------------------------------
(* The ladder. *)

AddRule(u, r, rule) ==
  /\ u \in Owners /\ r \notin DOMAIN rules /\ Carried(rule)
  /\ rules' = [s \in DOMAIN rules \cup {r} |-> IF s = r THEN rule ELSE rules[s]]
  /\ UNCHANGED <<roles, workflow, proposals, request, made, crossings, halted, moved, lowered,
                 resubmits, ruleMoves, halts>>

\* Fault: the second signer may be the first.
MoveReadsAlone(u, q, second) ==
  /\ Free(u) /\ u \in Owners /\ q.rule \in DOMAIN rules
  /\ ruleMoves < MaxRuleMoves /\ ruleMoves' = ruleMoves + 1
  /\ IsDemotion(rules[q.rule], q.to) => second \in Owners
  /\ MayMove(rules[q.rule], q)
  /\ request' = [request EXCEPT ![u] =
                   [pc |-> "moving", by |-> u, second |-> second, move |-> q,
                    seen |-> rules[q.rule]]]
  /\ UNCHANGED <<roles, workflow, proposals, rules, made, crossings, halted, moved, lowered,
                 resubmits, halts>>

\* move_rule: a demotion, of the rule as it was read, needs a second owner.
MoveReads(u, q, second) ==
  /\ Free(u) /\ u \in Owners /\ q.rule \in DOMAIN rules
  /\ ruleMoves < MaxRuleMoves /\ ruleMoves' = ruleMoves + 1
  /\ IsDemotion(rules[q.rule], q.to) => second \in Owners \ {u}
  /\ MayMove(rules[q.rule], q)
  /\ request' = [request EXCEPT ![u] =
                   [pc |-> "moving", by |-> u, second |-> second, move |-> q,
                    seen |-> rules[q.rule]]]
  /\ UNCHANGED <<roles, workflow, proposals, rules, made, crossings, halted, moved, lowered,
                 resubmits, halts>>

MoveWrites(u) ==
  LET w == request[u]
      r == w.move.rule IN
  /\ w.pc = "moving"
  /\ rules' = [rules EXCEPT ![r] = Placed(@, w.seen, w.move)]
  /\ lowered' = IF rules'[r].rung < rules[r].rung
                THEN lowered \cup {[how |-> "route", id |-> 0, signers |-> {u, w.second},
                                    stale |-> rules[r] # w.seen]}
                ELSE lowered
  /\ moved' = moved \cup About(r)
  /\ request' = [request EXCEPT ![u] = Resting]
  /\ UNCHANGED <<roles, workflow, proposals, made, crossings, halted, resubmits, ruleMoves, halts>>

\* disable_rule: only what is enforced nowhere, as it was read.
DisableReads(u, r) ==
  /\ Free(u) /\ u \in Owners /\ r \in DOMAIN rules
  /\ rules[r].rung = 0 /\ rules[r].enabled
  /\ request' = [request EXCEPT ![u] =
                   [pc |-> "disabling", rule |-> r, by |-> u, seen |-> rules[r]]]
  /\ UNCHANGED <<roles, workflow, proposals, rules, made, crossings, halted, moved, lowered,
                 resubmits, ruleMoves, halts>>

DisableWrites(u) ==
  LET w == request[u] IN
  /\ w.pc = "disabling"
  /\ rules' = [rules EXCEPT ![w.rule].enabled = FALSE]
  /\ lowered' = IF rules[w.rule].rung > 0
                THEN lowered \cup {[how |-> "route", id |-> 0, signers |-> {u},
                                    stale |-> rules[w.rule] # w.seen]}
                ELSE lowered
  /\ request' = [request EXCEPT ![u] = Resting]
  /\ UNCHANGED <<roles, workflow, proposals, made, crossings, halted, moved, resubmits,
                 ruleMoves, halts>>

\* The server goes down with the requests it was serving.
Halt ==
  /\ halts < MaxHalts /\ halts' = halts + 1
  /\ halted' = halted \cup {request[u].id : u \in {v \in People : request[v].pc = "applied"}}
  /\ request' = [u \in People |-> Resting]
  /\ UNCHANGED <<roles, workflow, proposals, rules, made, crossings, moved, lowered, resubmits,
                 ruleMoves>>

ProposalsNext ==
  \/ \E chain \in Chains : SetWorkflow(chain)
  \/ \E r \in Custom : RemoveRole(r)
  \/ \E u \in People :
       \/ ReviewWrites(u) \/ Applies(u) \/ Finishes(u) \/ ResubmitWrites(u)
       \/ MoveWrites(u) \/ DisableWrites(u)
       \/ \E i \in ProposalIds :
            \/ \E says \in {"accept", "deny", "feedback"} : ReviewReads(u, i, says)
            \/ \E ask \in Asks : ResubmitReads(u, i, ask) \/ Propose(u, i, ask)
       \/ \E r \in RuleIds : DisableReads(u, r) \/ \E rule \in NewRules : AddRule(u, r, rule)
       \/ \E q \in Moves, second \in People : MoveReads(u, q, second)
  \/ Halt

ProposalsSpec == ProposalsInit /\ [][ProposalsNext]_proposalVars

-----------------------------------------------------------------------------
(* What the rules come to, for a call or a diff in the scope of them all.  *)

\* rules: those that are enabled.
EnabledRules == {r \in DOMAIN rules : rules[r].enabled}

\* withheld, rung 1: the rules that keep a tool from a phase.
Withholding == {r \in EnabledRules : rules[r].rung = 1 /\ rules[r].withholds}

\* evaluate, rung 3: the rules that are asked about a call.
Evaluated == {r \in EnabledRules : rules[r].rung = 3 /\ rules[r].predicate = "args"}

\* gate, rung 4: the rules that are asked about what is delivered.
Gated == {r \in EnabledRules : rules[r].rung = 4 /\ rules[r].predicate = "diff"}

-----------------------------------------------------------------------------
(* What holds. *)

\* The types of the rows, and of what is remembered of them.
ProposalsTypeOK ==
  /\ roles \subseteq DOMAIN Rank /\ workflow \in Chains \cup {<<>>}
  /\ DOMAIN proposals \subseteq ProposalIds /\ DOMAIN rules \subseteq RuleIds
  /\ \A i \in DOMAIN proposals :
       /\ proposals[i] \in ProposalRow({ask.payload : ask \in {a \in Asks : a.kind = proposals[i].kind}})
       /\ proposals[i].current <= Len(proposals[i].chain)
  /\ \A r \in DOMAIN rules :
       rules[r] \in RuleRow /\ (rules[r].rung \in Predicated => rules[r].predicate # "")
  /\ made \in [ProposalIds -> Nat] /\ crossings \in [ProposalIds -> Nat]
  /\ halted \cup moved \subseteq ProposalIds

(***************************************************************************)
(* What is accepted was signed by its chain: slot by slot, by people who   *)
(* had that slot's role or a higher one, and by a different one each time. *)
(* What is pending has been signed up to where it stands.  Two requests    *)
(* that crossed on one proposal, which nothing prevents, are excepted.     *)
(***************************************************************************)
SignedByItsChain ==
  \A i \in DOMAIN proposals \ crossed :
    LET p == proposals[i] IN
    /\ p.status = "accepted" => p.current = Len(p.chain)
    /\ Len(p.decisions) = p.current + (IF p.status \in {"denied", "revising"} THEN 1 ELSE 0)
    /\ Cardinality(SignersOf(p)) = Len(p.decisions)
    /\ \A k \in 1..p.current :
         /\ p.decisions[k].decision = "accept" /\ p.decisions[k].role = p.chain[k]
         /\ Rank[RoleOf[p.decisions[k].by]] >= Rank[p.chain[k]]

(***************************************************************************)
(* A proposal's change is carried out once, and once more at most for each *)
(* time that one request wrote over what another had written: two          *)
(* reviewers who both read the last slot as open both apply it (review     *)
(* reads the row, applies, and takes no lock).  Where no two requests      *)
(* crossed, what is accepted was carried out exactly once and what is not  *)
(* was not, but for a server that went down between an acceptance's two    *)
(* commits: that leaves a proposal that was carried out and stays pending, *)
(* which nobody can then review, resubmit or deny.                         *)
(***************************************************************************)
AppliedOnce ==
  /\ \A i \in ProposalIds : made[i] <= 1 + crossings[i]
  /\ \A i \in DOMAIN proposals \ crossed :
       LET p == proposals[i]
           finishing == \E u \in People : request[u].pc = "applied" /\ request[u].id = i IN
       /\ made[i] = 1 <=> p.status = "accepted" \/ (p.status = "pending" /\ p.current = Len(p.chain))
       /\ p.status = "pending" /\ p.current = Len(p.chain) => finishing \/ i \in halted

(***************************************************************************)
(* Who vouches for enforcement that is taken away, by a request that       *)
(* decided on the rule or the proposal as it stood when it wrote: on the   *)
(* route two different owners; for a proposal one signer for each slot of  *)
(* its chain.  Two people then have a hand in it, as the ladder's route    *)
(* says of every demotion (routers/ladder.py:7-10, 81-83), in all cases    *)
(* but one, where a proposal needs one person and no other: a chain of one *)
(* slot, which is the workflow's or, for a proposer nobody ranks above,    *)
(* the layer's own, that its proposer fills.  An agent's proposal takes    *)
(* enforcement away only if it was rewritten, which nothing prechecks, or  *)
(* the rule moved, after the precheck.  `stale` are those that acted on a  *)
(* row somebody else wrote in between: nothing binds them.                 *)
(***************************************************************************)
DemotionsAreSigned ==
  \A l \in lowered :
    LET p == proposals[l.id] IN
    \/ l.stale
    \/ l.how = "route" /\ Cardinality(l.signers) = 2
    \/ /\ l.how = "proposal"
       /\ Cardinality(l.signers) = Len(p.chain)
       /\ \/ \E u, v \in l.signers \cup {p.proposer} : u # v
          \/ p.chain \in Chains \cup {<<Layer>>} /\ l.signers = {p.proposer}
       /\ p.proposer \in Agents => l.id \in moved

(***************************************************************************)
(* What the ladder promises of a rule that stands where this product       *)
(* carries rules: there is something there that enforces it.               *)
(***************************************************************************)
NothingOnlyLooksEnforced ==
  \A r \in EnabledRules :
    rules[r].rung \in {1, 3, 4} => r \in Withholding \cup Evaluated \cup Gated
=============================================================================
