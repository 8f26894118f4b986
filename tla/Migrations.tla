------------------------------ MODULE Migrations ------------------------------
(***************************************************************************)
(* The schema of a store and the number that tells it (migrations.py):     *)
(* every process that opens the store first has the tables that are        *)
(* missing built as the models are now, and then runs the scripts its      *)
(* version lacks; `migrate --to` afterwards runs scripts to the version it *)
(* was given, down or up.  Every table that is built commits by itself,    *)
(* every statement of a script, and the version, after the script.         *)
(*                                                                         *)
(* A table is known by the columns that scripts add to it.                 *)
(***************************************************************************)
EXTENDS Integers, Sequences

CONSTANTS
  Openers,    \* the processes that open the store
  Installs,   \* how it may begin: [version, tables]
  Targets,    \* the versions that may be asked for
  MaxOpens, MaxKills  \* bounds: opens, crashes

-----------------------------------------------------------------------------
(* The scripts. *)

Adds(t, cols) == [k \in DOMAIN cols |-> [op |-> "add", table |-> t, column |-> cols[k]]]
Drops(t, cols) == [k \in DOMAIN cols |-> [op |-> "drop", table |-> t, column |-> cols[k]]]
\* An UPDATE, or an index that is made.
Touches(t) == <<[op |-> "touch", table |-> t, column |-> ""]>>
DropTable(t) == <<[op |-> "drop table", table |-> t, column |-> ""]>>

MIGRATIONS == <<
  Adds("work_items", <<"external_ref">>),
  Adds("processes", <<"min_approver_role">>),
  Adds("processes", <<"approval_chain">>),
  Adds("targets", <<"output_schema">>),
  Adds("policies", <<"kind", "strict", "content">>),
  Adds("quotas", <<"window_seconds", "window_started_at">>),
  Adds("processes", <<"pack">>),
  Adds("policies", <<"namespace", "pack">>),
  Adds("policies", <<"layer">>),
  Adds("repositories", <<"integration_id">>),
  Touches("policies") \o Touches("processes"),
  Adds("repositories", <<"ingest_interval_hours", "last_ingest_at">>),
  Adds("users", <<"team_id">>) \o Touches("users"),
  Adds("targets", <<"region", "compliance", "unit_cost">>),
  Adds("users", <<"kind", "harness_kind", "owner_id">>),
  Adds("events", <<"prev_hash", "entry_hash">>) \o Touches("events"),
  Adds("processes", <<"approval_sla_hours">>) \o Adds("approval_requests", <<"due_at", "escalated_at">>)
    \o Touches("approval_requests"),
  Adds("users", <<"totp_secret", "mfa_enabled">>),
  Adds("users", <<"active">>),
  Adds("events", <<"chain_algo">>),
  Adds("audit_chain_state", <<"algo", "signature">>),
  Adds("integrations", <<"last_verified_at", "status", "status_detail", "shared">>)
    \o Touches("integrations"),
  Adds("roles", <<"approves", "proposes", "manages_users", "reads_audit", "sees_operations", "builtin">>)
    \o Touches("processes") \o Touches("approval_requests"),
  Adds("repositories", <<"charter_paths">>),
  Adds("users", <<"permissions">>) \o Adds("roles", <<"permissions">>)
    \o Touches("users") \o Touches("roles"),
  Adds("repositories", <<"base_branch", "forge", "max_revisions", "prepare_cmd", "cleanup_cmd", "test_cmd">>),
  <<>>, <<>>, <<>>,     \* new tables: create_all's
  Adds("integrations", <<"webhook_secret", "intake_repo_id", "intake_process_id", "intake_pipeline", "autostart">>),
  Adds("repositories", <<"oversight">>),
  Adds("repositories", <<"max_run_units">>),
  Adds("policies", <<"applies_to">>) \o Adds("policy_versions", <<"applies_to">>)
    \o Touches("policies") \o Touches("policy_versions") >>

\* An index is dropped if it is there: a script of those alone is empty.
DOWNGRADES == <<
  Drops("work_items", <<"external_ref">>),
  Drops("processes", <<"min_approver_role">>),
  Drops("processes", <<"approval_chain">>),
  Drops("targets", <<"output_schema">>),
  Drops("policies", <<"kind", "strict", "content">>),
  Drops("quotas", <<"window_seconds", "window_started_at">>),
  Drops("processes", <<"pack">>),
  Drops("policies", <<"namespace", "pack">>),
  Drops("policies", <<"layer">>),
  Drops("repositories", <<"integration_id">>),
  <<>>,
  Drops("repositories", <<"ingest_interval_hours", "last_ingest_at">>),
  Drops("users", <<"team_id">>),
  Drops("targets", <<"region", "compliance", "unit_cost">>),
  Drops("users", <<"kind", "harness_kind", "owner_id">>),
  Drops("events", <<"prev_hash", "entry_hash">>),
  Drops("processes", <<"approval_sla_hours">>) \o Drops("approval_requests", <<"due_at", "escalated_at">>),
  Drops("users", <<"totp_secret", "mfa_enabled">>),
  Drops("users", <<"active">>),
  Drops("events", <<"chain_algo">>),
  Drops("audit_chain_state", <<"algo", "signature">>),
  Drops("integrations", <<"last_verified_at", "status", "status_detail", "shared">>),
  Drops("roles", <<"approves", "proposes", "manages_users", "reads_audit", "sees_operations", "builtin">>),
  Drops("repositories", <<"charter_paths">>),
  Drops("users", <<"permissions">>) \o Drops("roles", <<"permissions">>),
  Drops("repositories", <<"base_branch", "forge", "max_revisions", "prepare_cmd", "cleanup_cmd", "test_cmd">>),
  DropTable("run_steps") \o DropTable("runs") \o DropTable("phase_configs"),
  DropTable("constraints"),
  DropTable("run_steps") \o DropTable("runs") \o DropTable("pipelines"),
  Drops("integrations", <<"webhook_secret", "intake_repo_id", "intake_process_id", "intake_pipeline", "autostart">>),
  Drops("repositories", <<"oversight">>),
  Drops("repositories", <<"max_run_units">>),
  Drops("policies", <<"applies_to">>) \o Drops("policy_versions", <<"applies_to">>) >>

Latest == Len(MIGRATIONS)

\* The tables the models have, of those the scripts are about.
ModelTables ==
  {"work_items", "policies", "repositories", "users", "events", "audit_chain_state",
   "integrations", "roles", "policy_versions", "runs", "run_steps", "pipelines",
   "phase_configs", "constraints"}
\* In the order in which they are built: as the models have them, and none before a table
\* that it refers to.
CreationOrder ==
  <<"users", "roles", "constraints", "phase_configs", "policy_versions", "events",
    "audit_chain_state", "repositories", "pipelines", "integrations", "policies",
    "work_items", "runs", "run_steps">>
\* And those an install from before 3.0 has besides.
RetiredTables == {"processes", "targets", "quotas", "approval_requests"}

\* The columns of `t` that scripts up to version v have added.
ColumnsAt(t, v) ==
  UNION {{<<t, MIGRATIONS[i][k].column>> : k \in {j \in DOMAIN MIGRATIONS[i] :
            MIGRATIONS[i][j].op = "add" /\ MIGRATIONS[i][j].table = t}} : i \in 1..v}
ShapeAt(some, v) == UNION {ColumnsAt(t, v) : t \in some}

Statements ==
  [op : {"add", "drop", "touch", "drop table"}, table : ModelTables \cup RetiredTables, column : STRING]

\* Statement j of script i adds the column, or drops it.
AddsAt(i, j, t, c) == MIGRATIONS[i][j] = [op |-> "add", table |-> t, column |-> c]
DropsAt(i, j, t, c) == DOWNGRADES[i][j] = [op |-> "drop", table |-> t, column |-> c]

(***************************************************************************)
(* How the scripts are written, which whoever adds one has to keep to: a   *)
(* column is added once; the way down of a script drops each column that   *)
(* the script adds, once, and no other; and a table that is dropped is one *)
(* create_all builds again, not the audit trail's, and no script has       *)
(* altered it.                                                             *)
(***************************************************************************)
ASSUME ScriptsAssumption ==
  /\ MIGRATIONS \in Seq(Seq(Statements)) /\ DOWNGRADES \in Seq(Seq(Statements))
  /\ Len(DOWNGRADES) = Latest
  /\ \A i \in 1..Latest :
       /\ \A j \in DOMAIN MIGRATIONS[i] :
            LET s == MIGRATIONS[i][j] IN
            /\ s.op \in {"add", "touch"}
            /\ s.op = "add" =>
                 /\ \A k \in 1..Latest : \A l \in DOMAIN MIGRATIONS[k] :
                      MIGRATIONS[k][l] = s => k = i /\ l = j
                 /\ \E l \in DOMAIN DOWNGRADES[i] : DropsAt(i, l, s.table, s.column)
       /\ \A j \in DOMAIN DOWNGRADES[i] :
            LET s == DOWNGRADES[i][j] IN
            \/ /\ s.op = "drop"
               /\ \A l \in DOMAIN DOWNGRADES[i] : DOWNGRADES[i][l] = s => l = j
               /\ \E l \in DOMAIN MIGRATIONS[i] : AddsAt(i, l, s.table, s.column)
            \/ /\ s.op = "drop table" /\ s.table \in ModelTables \ {"events"}
               /\ \A k \in 1..Latest : \A l \in DOMAIN MIGRATIONS[k] :
                    MIGRATIONS[k][l].op = "add" => MIGRATIONS[k][l].table # s.table

\* A store that is no new one has its audit trail, and whatever its pending scripts alter
\* unless create_all builds that.
ASSUME MigrationsAssumption ==
  /\ \A install \in Installs :
       /\ install.version \in 0..Latest /\ install.tables \subseteq ModelTables \cup RetiredTables
       /\ \/ install.tables = {}
          \/ /\ "events" \in install.tables
             /\ \A i \in (install.version + 1)..Latest : \A j \in DOMAIN MIGRATIONS[i] :
                  MIGRATIONS[i][j].table \in install.tables \cup ModelTables
  /\ Targets \subseteq 0..Latest /\ MaxOpens \in Nat /\ MaxKills \in Nat

-----------------------------------------------------------------------------

VARIABLES
  tables,    \* the tables there are
  columns,   \* the columns that scripts add, of those there are
  version,   \* user_version
  opener,    \* process -> what it is doing
  \* History, which the code does not keep:
  refused,   \* versions a downgrade was refused for
  broken,    \* an open, or a migration, has failed in the middle
  spoilt,    \* what has happened that scripts are not made for
  opens, kills  \* bounds

schemaVars == <<tables, columns, version, opener, refused, broken, spoilt, opens, kills>>

Shut == [pc |-> "shut"]
Nowhere == -1

MigrationsInit ==
  \E install \in Installs :
    /\ tables = install.tables /\ version = install.version
    /\ columns = ShapeAt(install.tables, install.version)
    /\ opener = [o \in Openers |-> Shut]
    /\ refused = {} /\ broken = FALSE /\ spoilt = {}
    /\ opens = 0 /\ kills = 0

\* _migrate, or any command that opens the store: `to` is where it wants to go.
Opens(o, to) ==
  /\ opener[o] = Shut /\ opens < MaxOpens /\ opens' = opens + 1
  /\ opener' = [opener EXCEPT ![o] = [pc |-> "opening", fresh |-> "events" \notin tables, to |-> to]]
  /\ spoilt' = spoilt \cup (IF \E p \in Openers \ {o} : opener[p] # Shut THEN {"together"} ELSE {})
  /\ UNCHANGED <<tables, columns, version, refused, broken, kills>>

\* create_all: looks for the tables that are missing, ...
CreateAll(o) ==
  /\ opener[o].pc = "opening"
  /\ opener' = [opener EXCEPT ![o] =
       [pc |-> "building", missing |-> ModelTables \ tables, fresh |-> @.fresh, to |-> @.to]]
  /\ UNCHANGED <<tables, columns, version, refused, broken, spoilt, opens, kills>>

\* ... and builds one after the other as the models are now, unless another process has.
CreateTable(o) ==
  /\ opener[o].pc = "building"
  /\ \E k \in DOMAIN CreationOrder :
       LET t == CreationOrder[k] IN
       /\ t \in opener[o].missing
       /\ \A i \in 1..(k - 1) : CreationOrder[i] \notin opener[o].missing
       /\ IF t \in tables
          THEN /\ broken' = TRUE
               /\ opener' = [opener EXCEPT ![o] = Shut]
               /\ UNCHANGED <<tables, columns, spoilt>>
          ELSE /\ tables' = tables \cup {t}
               /\ columns' = columns \cup ShapeAt({t}, Latest)
               /\ opener' = [opener EXCEPT ![o].missing = @ \ {t}]
               /\ spoilt' = spoilt \cup
                    (IF ~opener[o].fresh /\ ShapeAt({t}, Latest) # ShapeAt({t}, version)
                     THEN {"late"} ELSE {})
               /\ UNCHANGED broken
  /\ UNCHANGED <<version, refused, opens, kills>>

Built(o) == opener[o].pc = "building" /\ opener[o].missing = {}

\* stamp_latest.
StampLatest(o) ==
  /\ Built(o) /\ opener[o].fresh
  /\ version' = Latest
  /\ opener' = [opener EXCEPT ![o] = [pc |-> "going", to |-> @.to]]
  /\ UNCHANGED <<tables, columns, refused, broken, spoilt, opens, kills>>

\* The scripts from one version to another: each with the version it reaches.
Upwards(from, to) == [k \in 1..(to - from) |-> [does |-> MIGRATIONS[from + k], reaches |-> from + k]]
Downwards(from, to) == [k \in 1..(from - to) |-> [does |-> DOWNGRADES[from + 1 - k], reaches |-> from - k]]

\* Has a script of these run in part?
Begun(w) == w.left # <<>> /\ Len(Head(w.left).does) < Len(w.whole)

Executes(o, scripts, then) ==
  opener' = [opener EXCEPT ![o] =
    [pc |-> "running", left |-> scripts, to |-> then,
     whole |-> IF scripts = <<>> THEN <<>> ELSE Head(scripts).does]]

\* run_migrations: what is pending, by the version it reads once.
RunMigrations(o) ==
  /\ Built(o) /\ ~opener[o].fresh
  /\ Executes(o, Upwards(version, Latest), opener[o].to)
  /\ UNCHANGED <<tables, columns, version, refused, broken, spoilt, opens, kills>>

\* _missing_tables: what scripts would alter, and there is not.
MissingTables(scripts) ==
  {t \in ModelTables \cup RetiredTables :
     /\ t \notin tables
     /\ \E k \in DOMAIN scripts : \E j \in DOMAIN scripts[k].does :
          scripts[k].does[j].table = t /\ scripts[k].does[j].op \in {"add", "drop"}}

\* Scripts that will be run again, once, on the way up, and need what is not there.
NoWayBack(to) ==
  \E i \in (to + 1)..Latest : \E j \in DOMAIN MIGRATIONS[i] :
    MIGRATIONS[i][j].op = "touch" /\ MIGRATIONS[i][j].table \notin tables

\* migrate_to: up, or down unless something it would alter is missing.
MigrateTo(o) ==
  LET to == opener[o].to IN
  /\ opener[o].pc = "going"
  /\ IF to < version /\ MissingTables(Downwards(version, to)) # {}
     THEN /\ refused' = refused \cup {to}
          /\ opener' = [opener EXCEPT ![o] = Shut]
          /\ UNCHANGED spoilt
     ELSE /\ Executes(o, IF to < version THEN Downwards(version, to) ELSE Upwards(version, to), Nowhere)
          /\ spoilt' = spoilt \cup (IF to < version /\ NoWayBack(to) THEN {"gone"} ELSE {})
          /\ UNCHANGED refused
  /\ UNCHANGED <<tables, columns, version, broken, opens, kills>>

\* What SQLite does with a statement, and when it will not.
Possible(s) ==
  CASE s.op = "add" -> s.table \in tables /\ <<s.table, s.column>> \notin columns
    [] s.op = "drop" -> s.table \in tables /\ <<s.table, s.column>> \in columns
    [] s.op = "touch" -> s.table \in tables
    [] OTHER -> TRUE

\* executescript: the next statement, committed; or it fails, and everything stops here.
Statement(o) ==
  LET w == opener[o]
      s == Head(Head(w.left).does) IN
  /\ w.pc = "running" /\ w.left # <<>> /\ Head(w.left).does # <<>>
  /\ IF Possible(s)
     THEN /\ columns' = CASE s.op = "add" -> columns \cup {<<s.table, s.column>>}
                          [] s.op = "drop" -> columns \ {<<s.table, s.column>>}
                          [] s.op = "drop table" -> {c \in columns : c[1] # s.table}
                          [] OTHER -> columns
          /\ tables' = IF s.op = "drop table" THEN tables \ {s.table} ELSE tables
          /\ opener' = [opener EXCEPT ![o].left[1].does = Tail(@)]
          /\ UNCHANGED broken
     ELSE /\ broken' = TRUE
          /\ opener' = [opener EXCEPT ![o] = Shut]
          /\ UNCHANGED <<tables, columns>>
  /\ UNCHANGED <<version, refused, spoilt, opens, kills>>

\* Fault: the version is set once, when all the scripts have run.
VersionAtTheEnd(o) ==
  LET w == opener[o] IN
  /\ w.pc = "running" /\ w.left # <<>> /\ Head(w.left).does = <<>>
  /\ version' = IF Tail(w.left) = <<>> THEN Head(w.left).reaches ELSE version
  /\ Executes(o, Tail(w.left), w.to)
  /\ UNCHANGED <<tables, columns, refused, broken, spoilt, opens, kills>>

\* The version follows the script.
SetVersion(o) ==
  LET w == opener[o] IN
  /\ w.pc = "running" /\ w.left # <<>> /\ Head(w.left).does = <<>>
  /\ version' = Head(w.left).reaches
  /\ Executes(o, Tail(w.left), w.to)
  /\ UNCHANGED <<tables, columns, refused, broken, spoilt, opens, kills>>

\* With no script left, the store is open; `migrate --to` goes on to its version.
Opened(o) ==
  LET w == opener[o] IN
  /\ w.pc = "running" /\ w.left = <<>>
  /\ opener' = [opener EXCEPT ![o] =
                  IF w.to \in {Nowhere, version} THEN Shut ELSE [pc |-> "going", to |-> w.to]]
  /\ UNCHANGED <<tables, columns, version, refused, broken, spoilt, opens, kills>>

\* A process goes down: anywhere; in the middle of a script, or before the version it reached.
Kill(o) ==
  LET w == opener[o] IN
  /\ w # Shut /\ kills < MaxKills /\ kills' = kills + 1
  /\ opener' = [opener EXCEPT ![o] = Shut]
  /\ spoilt' = spoilt \cup (IF \/ w.pc = "building" /\ w.fresh /\ "events" \in tables
                               \/ w.pc = "running" /\ Begun(w)
                            THEN {"killed"} ELSE {})
  /\ UNCHANGED <<tables, columns, version, refused, broken, opens>>

MigrationsNext ==
  \E o \in Openers :
    \/ \E to \in Targets \cup {Latest} : Opens(o, to)
    \/ CreateAll(o) \/ CreateTable(o) \/ StampLatest(o) \/ RunMigrations(o) \/ MigrateTo(o)
    \/ Statement(o) \/ SetVersion(o) \/ Opened(o) \/ Kill(o)

MigrationsSpec == MigrationsInit /\ [][MigrationsNext]_schemaVars

-----------------------------------------------------------------------------
(* What holds. *)

\* The types of the store's schema and of what is remembered of it.
MigrationsTypeOK ==
  /\ tables \subseteq ModelTables \cup RetiredTables /\ version \in 0..Latest
  /\ columns \subseteq ShapeAt(tables, Latest)
  /\ refused \subseteq Targets /\ broken \in BOOLEAN
  /\ spoilt \subseteq {"together", "late", "gone", "killed"}
  /\ \A o \in Openers : opener[o].pc \in {"shut", "opening", "building", "going", "running"}

(***************************************************************************)
(* Whenever nobody is at it, the version tells the schema to the column,   *)
(* up and down and up again, and no script has failed in the middle; a     *)
(* crash between two scripts is no matter, nor one while a new store is    *)
(* built, before it has its audit trail: the next open takes it for new.   *)
(* Four things may spoil it: a crash inside a script, or after the audit   *)
(* trail of a new store and before its stamp; two processes that open an   *)
(* old store at once; a table that an old install lacks, and that          *)
(* create_all builds with columns a script will add; a downgrade of a      *)
(* store made since 3.0 past a script that touches a table it never had.   *)
(***************************************************************************)
VersionTellsTheSchema ==
  spoilt = {} =>
    /\ ~broken
    /\ (\A o \in Openers : opener[o] = Shut) /\ "events" \in tables =>
         columns = ShapeAt(tables, version)
=============================================================================
