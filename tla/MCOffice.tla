------------------------------ MODULE MCOffice ------------------------------
(***************************************************************************)
(* Everything around the runs: the books, the audit trail, governance,     *)
(* people, intake, the scheduler and the schema.  They share no row that   *)
(* their properties are about, so a behaviour opens one of them, and TLC   *)
(* adds up their states.  Some are opened in two ways, so that what they   *)
(* do not share need not be multiplied out either.                         *)
(***************************************************************************)
EXTENDS Budgets, AuditLog, Proposals, Policies, Directory, Intake, Ingest, Migrations, TLC

CONSTANTS ann, bob,    \* whoever acts, at every desk: two people, sessions or workers alike
          cli, bot,    \* a command's session, and an agent
          d1, d2, p1, p2,   \* the devices and their requests
          o1           \* the command that opens the store
VARIABLE open

bookVars == <<budgetVars, auditVars>>
ruleVars == <<proposalVars, policyVars>>
otherVars == <<intakeVars, ingestVars, schemaVars>>
vars == <<open, bookVars, ruleVars, directoryVars, otherVars>>

-----------------------------------------------------------------------------
(* Budgets: two runs, one of a repository with a ceiling and of a person   *)
(* in a team; a budget of each scope, and two requests for something odd.  *)
Two == {ann, bob}
MCRepoOf == <<"web", "api">>
MCMaxRunUnits == "web" :> 2 @@ "api" :> 0
MCInitialTeam == <<"blue", "">>
MCRequests ==
  {[scope |-> "org", scope_id |-> "", limit |-> 1, window |-> 1],
   [scope |-> "repo", scope_id |-> "web", limit |-> 1, window |-> 0],
   [scope |-> "team", scope_id |-> "blue", limit |-> 1, window |-> -1],
   [scope |-> "team", scope_id |-> "", limit |-> 1, window |-> 0]}

(* The audit trail: two sessions of the server and one of a command.       *)
MCSessions == {ann, bob, cli}
MCProcessOf == ann :> "serve" @@ bob :> "serve" @@ cli :> "cli"

(* Proposals: two leads, who own the layer, and an agent; a rule that is   *)
(* nowhere enforced and one that is; moves up, down and past a predicate.  *)
MCRank == "developer" :> 1 @@ "senior" :> 2 @@ "lead" :> 3
MCPeople == {ann, bob, bot}
MCRoleOf == ann :> "lead" @@ bob :> "lead" @@ bot :> "developer"
MCRules == {[rung |-> 0, predicate |-> "", withholds |-> FALSE, enabled |-> TRUE],
            [rung |-> 3, predicate |-> "args", withholds |-> FALSE, enabled |-> TRUE]}
MCMoves == [rule : {1}, to : {0, 4}, predicate : {"diff"}] \cup [rule : {1}, to : {3}, predicate : {""}]
MCChains == {<<"lead", "lead">>}

(* Policies: strict and not, of each layer, for all and for one namespace. *)
MCPolicy(effect, ns, strict, layer) ==
  [kind |-> "rule", effect |-> effect, applies_to |-> "*", action |-> "*", resource |-> "*",
   namespace |-> ns, strict |-> strict, layer |-> layer]
MCDrafts == {MCPolicy("deny", "", TRUE, "charter"), MCPolicy("allow", "db", TRUE, "factory"),
             MCPolicy("deny", "", FALSE, "factory")}
MCArtifacts == <<MCPolicy("allow", "", FALSE, "charter"), MCPolicy("deny", "db", TRUE, "harness")>>
MCQuestions ==
  [held : {{"run:factory"}}, action : {"push"}, resource : {"web"}, namespace : {"", "db"}]

(* People: two of them, three presets, two devices that ask for one handle. *)
MCPresets == "admin" :> {"manage:users"} @@ "developer" :> {"approve:code"} @@ "trainee" :> {}
MCHandleOf == [d \in {d1, d2} |-> "bot"]
MCBundles == {{}, {"manage:users"}}

(* Intake: two integrations of one kind, whose trackers both have a #1.    *)
MCKindOf == "hub1" :> "github-issues" @@ "hub2" :> "github-issues"
MCKeyOf == "web#1" :> "#1" @@ "api#1" :> "#1"
MCTicketsOf == "hub1" :> {"web#1"} @@ "hub2" :> {"api#1"}
MCConfigured ==
  "hub1" :> [place |-> "web", workflow |-> "", autostart |-> TRUE, secret |-> TRUE]
    @@ "hub2" :> [place |-> "web", workflow |-> "gone", autostart |-> FALSE, secret |-> FALSE]

(* Repositories: one that is read from its forge, and one that nothing reads. *)
MCIntervals == {-1, 1, 2}
MCHostOf == <<"github", "">>

(* Stores: a new one, one of 2.4 and one of 1.0. *)
FactoryTables == {"runs", "run_steps", "pipelines", "phase_configs", "constraints"}
OldTables == (ModelTables \ FactoryTables) \cup RetiredTables
MCInstalls ==
  {[version |-> 0, tables |-> {}],
   [version |-> 16, tables |-> OldTables],
   [version |-> 7, tables |-> OldTables \ {"audit_chain_state", "policy_versions"}]}

Pair == {p1, p2}

Alike == Permutations(Two) \cup Permutations(Pair)

-----------------------------------------------------------------------------

\* Of turns, changes of team and crashes no more than three in all, and with the budgets
\* that are made no more than four; of purges and crashes no more than two.
Books ==
  \/ /\ open = "budgets" /\ BudgetsNext /\ UNCHANGED auditVars
     /\ turns' + moves' + downs' <= 3 /\ turns' + moves' + downs' + born' <= 4
  \/ open = "audit" /\ AuditNext /\ UNCHANGED budgetVars /\ purges' + stops' < 3

\* Proposals without rules, and rules with only the proposals about them, resubmitted or
\* crossed by a crash or moved by hand besides.
Governs ==
  /\ ProposalsNext
  /\ IF open = "proposals" THEN rules' = <<>>
     ELSE /\ UNCHANGED <<roles, workflow>>
          /\ resubmits' + halts' < 2 /\ resubmits' + ruleMoves' < 2
          /\ \A i \in DOMAIN proposals' : proposals'[i].kind = "move"

\* Policies of a pack, and others.
Rules ==
  /\ PoliciesNext
  /\ IF open = "packs" THEN deletes' < 2 /\ \A i \in DOMAIN policies' : policies'[i].pack
     ELSE issued' < 4 /\ \A s \in Clerks : clerk'[s].pc # "idle" => ~clerk'[s].job.in_pack

\* Permissions with agents that people register, and devices with nobody's permissions
\* changed, but those of one device.
Staff ==
  /\ DirectoryNext
  /\ IF open = "people"
     THEN grants' = <<>> /\ UNCHANGED <<presets, changes, falls>>
     ELSE /\ \A a \in Accounts :
               visit'[a].pc # "putting" /\ (visit'[a].pc = "registering" => visit'[a].device # "")
          /\ changes' + falls' < 2 /\ (changes' = 1 => Cardinality(DOMAIN grants') < 2)

\* Intake, with a crash only while there is no more than one item.
TakesIn == IntakeNext /\ (outages' = 1 => Cardinality(DOMAIN items') < 2)

Init ==
  /\ open \in {"budgets", "audit", "proposals", "ladder", "packs", "policies", "people", "devices",
               "intake", "ingest", "schema"}
  /\ BudgetsInit /\ AuditInit /\ ProposalsInit /\ PoliciesInit /\ DirectoryInit
  /\ IntakeInit /\ IngestInit /\ MigrationsInit
  /\ open # "schema" => version = 0
  /\ open # "audit" => events = {}

Next ==
  /\ UNCHANGED open
  /\ \/ Books /\ UNCHANGED <<ruleVars, directoryVars, otherVars>>
     \/ /\ open \in {"proposals", "ladder"} /\ Governs
        /\ UNCHANGED <<bookVars, policyVars, directoryVars, otherVars>>
     \/ /\ open \in {"packs", "policies"} /\ Rules
        /\ UNCHANGED <<bookVars, proposalVars, directoryVars, otherVars>>
     \/ open \in {"people", "devices"} /\ Staff /\ UNCHANGED <<bookVars, ruleVars, otherVars>>
     \/ open = "intake" /\ TakesIn /\ UNCHANGED <<bookVars, ruleVars, directoryVars, ingestVars, schemaVars>>
     \/ open = "ingest" /\ IngestNext /\ UNCHANGED <<bookVars, ruleVars, directoryVars, intakeVars, schemaVars>>
     \/ open = "schema" /\ MigrationsNext /\ UNCHANGED <<bookVars, ruleVars, directoryVars, intakeVars, ingestVars>>

Spec == Init /\ [][Next]_vars

-----------------------------------------------------------------------------

\* The types of all the variables, each module's stated with it.
TypesOK ==
  /\ BudgetsTypeOK /\ AuditTypeOK /\ ProposalsTypeOK /\ PoliciesTypeOK
  /\ DirectoryTypeOK /\ IntakeTypeOK /\ IngestTypeOK /\ MigrationsTypeOK
=============================================================================
