------------------------------ MODULE Directory ------------------------------
(***************************************************************************)
(* Who there is and what they may do (users.py, authority.py,              *)
(* routers/roles.py), and how an agent gets an account of its own: a       *)
(* device asks, a person approves, the device collects; or a person        *)
(* registers it (harnesses.py).  A guard is read with the request and what *)
(* it guards is written later; approving is three commits: an account,     *)
(* made an agent, its grant.                                               *)
(***************************************************************************)
EXTENDS Integers, FiniteSets, Sequences

CONSTANTS
  Persons, Handles,    \* the accounts there may be: people's, and agents'
  Permissions,         \* the vocabulary, with "manage:users" in it
  Presets0, Builtin,   \* the presets at first: name -> permissions; and the shipped ones
  Bundles,             \* the sets of permissions that may be asked for
  Devices, HandleOf,   \* device grants, and the handle each is for
  Pollers,             \* the devices' requests
  MaxVisits, MaxChanges, MaxKeys, MaxFalls
                       \* bounds: requests under way, changes of presets, tokens, crashes

Accounts == Persons \cup Handles

UserRow ==
  [permissions : SUBSET Permissions, preset : DOMAIN Presets0, kind : {"human", "agent"},
   owner : Accounts \cup {""}, key : 1..MaxKeys]
PresetRow == SUBSET Permissions
GrantRow ==
  [status : {"pending", "approved", "consumed"}, token : 0..MaxKeys,
   agent : Accounts \cup {""}, late : BOOLEAN]

ASSUME DirectoryAssumption ==
  /\ "manage:users" \in Permissions /\ Bundles \subseteq SUBSET Permissions
  /\ Presets0 \in [DOMAIN Presets0 -> SUBSET Permissions]
  /\ Builtin \subseteq DOMAIN Presets0 /\ "admin" \in Builtin
  /\ HandleOf \in [Devices -> Handles] /\ Persons \cap Handles = {}
  /\ "" \notin Devices \cup Accounts
  /\ Pollers \cap Accounts = {} /\ MaxVisits \in Nat /\ MaxChanges \in Nat
  /\ MaxKeys \in Nat /\ MaxFalls \in Nat

VARIABLES
  users,     \* account -> User row, of those that exist
  presets,   \* preset -> its Role row's permissions
  grants,    \* device -> DeviceGrant row, of those opened
  visit,     \* account or poller -> its request under way, with what it has read
  keys,      \* tokens given out so far
  handed,    \* device -> the tokens its polls returned
  \* History, which the code does not keep:
  strayed,   \* somebody changed permissions who no longer managed users by then
  retired,   \* an agent that managed users was deleted
  collided,  \* devices that two requests collected for, or approved, at a time
  orphans,   \* accounts that a crash left before they were an agent's
  minted,    \* device -> the tokens that agents were made with for it
  changes, falls   \* bounds

directoryVars ==
  <<users, presets, grants, visit, keys, handed, strayed, retired, collided, orphans, minted,
    changes, falls>>

Away == [pc |-> "idle"]
Arrives(u) ==
  visit[u] = Away
  /\ Cardinality({v \in Accounts \cup Pollers : visit[v] # Away}) < MaxVisits

Manages(u) == u \in DOMAIN users /\ "manage:users" \in users[u].permissions

\* grants_beyond: what a preset holds that whoever hands it out does not.
GrantsBeyond(preset, holder) == presets[preset] \ users[holder].permissions

NewUser(held, preset, key) ==
  [permissions |-> held, preset |-> preset, kind |-> "human", owner |-> "", key |-> key]
WithUser(a, row) == [b \in DOMAIN users \cup {a} |-> IF b = a THEN row ELSE users[b]]

-----------------------------------------------------------------------------
(* People. *)

DirectoryInit ==
  /\ users = <<>> /\ presets = Presets0 /\ grants = <<>>
  /\ visit = [u \in Accounts \cup Pollers |-> Away]
  /\ keys = 0 /\ handed = [g \in Devices |-> <<>>]
  /\ strayed = FALSE /\ retired = FALSE /\ collided = {} /\ orphans = {}
  /\ minted = [g \in Devices |-> {}]
  /\ changes = 0 /\ falls = 0

\* setup: with nobody there, the first account, which holds everything, ...
SetupReads(a) ==
  /\ a \in Persons /\ DOMAIN users = {} /\ Arrives(a)
  /\ visit' = [visit EXCEPT ![a] = [pc |-> "setup"]]
  /\ UNCHANGED <<users, presets, grants, keys, handed, strayed, retired, collided, orphans,
                 minted,
                 changes, falls>>

\* ... unless there is one of that email by now.
SetupWrites(a) ==
  /\ visit[a].pc = "setup" /\ keys < MaxKeys
  /\ IF a \in DOMAIN users THEN UNCHANGED <<users, keys>>
     ELSE keys' = keys + 1 /\ users' = WithUser(a, NewUser(Permissions, "admin", keys'))
  /\ visit' = [visit EXCEPT ![a] = Away]
  /\ UNCHANGED <<presets, grants, handed, strayed, retired, collided, orphans,
                 minted, changes, falls>>

\* add_user, create_user: with what its preset holds, or with permissions given outright;
\* the preset is a label then, that nothing looks up.
AddUser(u, a, preset, held) ==
  /\ Manages(u) /\ a \in Persons \ DOMAIN users /\ keys < MaxKeys
  /\ held \in Bundles \/ (preset \in DOMAIN presets /\ held = presets[preset])
  /\ keys' = keys + 1
  /\ users' = WithUser(a, NewUser(held, preset, keys'))
  /\ UNCHANGED <<presets, grants, visit, handed, strayed, retired, collided, orphans,
                 minted, changes, falls>>

\* Fault: people may change their own permissions.
PutReadsAnyone(u, a, held) ==
  /\ Arrives(u) /\ Manages(u) /\ a \in DOMAIN users
  /\ visit' = [visit EXCEPT ![u] =
                 [pc |-> "putting", whose |-> a, held |-> held, seen |-> users[a].permissions]]
  /\ UNCHANGED <<users, presets, grants, keys, handed, strayed, retired, collided, orphans,
                 minted,
                 changes, falls>>

\* put_user_permissions: by somebody who manages users, of somebody else.
PutReads(u, a, held) ==
  /\ Arrives(u) /\ Manages(u) /\ a \in DOMAIN users \ {u}
  /\ visit' = [visit EXCEPT ![u] =
                 [pc |-> "putting", whose |-> a, held |-> held, seen |-> users[a].permissions]]
  /\ UNCHANGED <<users, presets, grants, keys, handed, strayed, retired, collided, orphans,
                 minted,
                 changes, falls>>

PutWrites(u) ==
  LET w == visit[u] IN
  /\ w.pc = "putting"
  /\ IF w.whose \in DOMAIN users /\ w.held # w.seen
     THEN /\ users' = [users EXCEPT ![w.whose].permissions = w.held]
          /\ strayed' = (strayed \/ ~Manages(u))
     ELSE UNCHANGED <<users, strayed>>
  /\ visit' = [visit EXCEPT ![u] = Away]
  /\ UNCHANGED <<presets, grants, keys, handed, retired, collided, orphans,
                 minted, changes, falls>>

\* create_role: a preset is written anew, or over the one there is.
WithPreset(p, held) == [q \in DOMAIN presets \cup {p} |-> IF q = p THEN held ELSE presets[q]]

\* upsert_preset and remove_preset: not a shipped one; not while somebody carries it.
UpsertPreset(u, p, held) ==
  /\ Manages(u) /\ p \notin Builtin /\ changes < MaxChanges /\ changes' = changes + 1
  /\ presets' = WithPreset(p, held)
  /\ UNCHANGED <<users, grants, visit, keys, handed, strayed, retired, collided, orphans,
                 minted, falls>>

RemovePreset(u, p) ==
  /\ Manages(u) /\ p \in DOMAIN presets \ Builtin /\ changes < MaxChanges
  /\ \A a \in DOMAIN users : users[a].preset # p
  /\ changes' = changes + 1
  /\ presets' = [q \in DOMAIN presets \ {p} |-> presets[q]]
  /\ UNCHANGED <<users, grants, visit, keys, handed, strayed, retired, collided, orphans,
                 minted, falls>>

-----------------------------------------------------------------------------
(* Agents. *)

DeviceStart(g) ==
  /\ g \notin DOMAIN grants
  /\ grants' = [h \in DOMAIN grants \cup {g} |->
       IF h = g THEN [status |-> "pending", token |-> 0, agent |-> "", late |-> FALSE]
       ELSE grants[h]]
  /\ UNCHANGED <<users, presets, visit, keys, handed, strayed, retired, collided, orphans,
                 minted,
                 changes, falls>>

Expire(g) ==
  /\ g \in DOMAIN grants /\ grants[g].status = "pending" /\ ~grants[g].late
  /\ grants' = [grants EXCEPT ![g].late = TRUE]
  /\ UNCHANGED <<users, presets, visit, keys, handed, strayed, retired, collided, orphans,
                 minted,
                 changes, falls>>

Registering(device, handle, preset) ==
  [pc |-> "registering", device |-> device, handle |-> handle, preset |-> preset]

\* add_harness: somebody registers an agent without a device.
RegisterReads(u, a, preset) ==
  /\ Arrives(u) /\ u \in DOMAIN users /\ preset \in DOMAIN presets
  /\ a \in Handles \ DOMAIN users /\ GrantsBeyond(preset, u) = {}
  /\ visit' = [visit EXCEPT ![u] = Registering("", a, preset)]
  /\ UNCHANGED <<users, presets, grants, keys, handed, strayed, retired, collided, orphans,
                 minted,
                 changes, falls>>

\* device_approve: on a preset that create_user reads once more.
ApproveReads(u, g, preset) ==
  /\ Arrives(u) /\ u \in DOMAIN users /\ g \in DOMAIN grants /\ preset \in DOMAIN presets
  /\ grants[g].status = "pending" /\ ~grants[g].late
  /\ HandleOf[g] \notin DOMAIN users /\ GrantsBeyond(preset, u) = {}
  /\ visit' = [visit EXCEPT ![u] = Registering(g, HandleOf[g], preset)]
  /\ UNCHANGED <<users, presets, grants, keys, handed, strayed, retired, collided, orphans,
                 minted,
                 changes, falls>>

\* register_harness: an account like anybody's, if its handle is still free and its preset
\* is still there, with what that holds by now, ...
Mints(u) ==
  LET w == visit[u] IN
  /\ w.pc = "registering" /\ keys < MaxKeys
  /\ IF w.handle \in DOMAIN users \/ w.preset \notin DOMAIN presets
     THEN visit' = [visit EXCEPT ![u] = Away] /\ UNCHANGED <<users, keys, minted>>
     ELSE /\ keys' = keys + 1
          /\ users' = WithUser(w.handle, NewUser(presets[w.preset], w.preset, keys'))
          /\ minted' = [g \in Devices |->
                          IF g = w.device THEN minted[g] \cup {keys'} ELSE minted[g]]
          /\ visit' = [visit EXCEPT ![u] = [pc |-> "adopting", device |-> w.device,
                                            handle |-> w.handle, key |-> keys']]
  /\ UNCHANGED <<presets, grants, handed, strayed, retired, collided, orphans, changes, falls>>

\* ... which it then makes an agent's, of whoever registers or approves it.
Adopts(u) ==
  LET w == visit[u] IN
  /\ w.pc = "adopting"
  /\ users' = [users EXCEPT ![w.handle].kind = "agent", ![w.handle].owner = u]
  /\ visit' = [visit EXCEPT ![u] = IF w.device = "" THEN Away ELSE [w EXCEPT !.pc = "granting"]]
  /\ UNCHANGED <<presets, grants, keys, handed, strayed, retired, collided, orphans,
                 minted, changes, falls>>

\* The grant holds the token until it is collected.
Grants(u) ==
  LET w == visit[u] IN
  /\ w.pc = "granting"
  /\ grants' = [grants EXCEPT ![w.device].status = "approved", ![w.device].token = w.key,
                              ![w.device].agent = w.handle]
  /\ collided' = IF grants[w.device].status = "pending" THEN collided
                 ELSE collided \cup {w.device}
  /\ visit' = [visit EXCEPT ![u] = Away]
  /\ UNCHANGED <<users, presets, keys, handed, strayed, retired, orphans,
                 minted, changes, falls>>

\* Fault: a grant that was collected can be collected once more.
PollReadsAgain(p, g) ==
  /\ Arrives(p) /\ g \in DOMAIN grants /\ grants[g].status # "pending"
  /\ visit' = [visit EXCEPT ![p] = [pc |-> "polling", device |-> g, seen |-> grants[g]]]
  /\ UNCHANGED <<users, presets, grants, keys, handed, strayed, retired, collided, orphans,
                 minted,
                 changes, falls>>

\* device_poll.
PollReads(p, g) ==
  /\ Arrives(p) /\ g \in DOMAIN grants /\ grants[g].status = "approved"
  /\ visit' = [visit EXCEPT ![p] = [pc |-> "polling", device |-> g, seen |-> grants[g]]]
  /\ UNCHANGED <<users, presets, grants, keys, handed, strayed, retired, collided, orphans,
                 minted,
                 changes, falls>>

PollWrites(p) ==
  LET w == visit[p] IN
  /\ w.pc = "polling"
  /\ grants' = [grants EXCEPT ![w.device].status = "consumed", ![w.device].token = 0]
  /\ handed' = [handed EXCEPT ![w.device] = Append(@, w.seen.token)]
  /\ collided' = IF grants[w.device] = w.seen THEN collided ELSE collided \cup {w.device}
  /\ visit' = [visit EXCEPT ![p] = Away]
  /\ UNCHANGED <<users, presets, keys, strayed, retired, orphans, minted, changes, falls>>

\* rotate_harness, delete_harness: by its owner, or by somebody of a role that may.
MayTend(u, a) ==
  /\ u \in DOMAIN users /\ a \in DOMAIN users /\ users[a].kind = "agent"
  /\ users[a].owner = u \/ users[u].preset \in {"platform", "admin"}

RotateHarness(u, a) ==
  /\ MayTend(u, a) /\ keys < MaxKeys
  /\ keys' = keys + 1
  /\ users' = [users EXCEPT ![a].key = keys']
  /\ UNCHANGED <<presets, grants, visit, handed, strayed, retired, collided, orphans,
                 minted, changes, falls>>

DeleteHarness(u, a) ==
  /\ MayTend(u, a)
  /\ retired' = (retired \/ Manages(a))
  /\ users' = [b \in DOMAIN users \ {a} |-> users[b]]
  /\ UNCHANGED <<presets, grants, visit, keys, handed, strayed, collided, orphans,
                 minted, changes, falls>>

Fall ==
  /\ falls < MaxFalls /\ falls' = falls + 1
  /\ orphans' = orphans \cup
       {visit[u].handle : u \in {v \in Accounts : visit[v].pc = "adopting"}}
  /\ visit' = [u \in Accounts \cup Pollers |-> Away]
  /\ UNCHANGED <<users, presets, grants, keys, handed, strayed, retired, collided,
                 minted, changes>>

DirectoryNext ==
  \/ \E u \in Accounts :
       \/ SetupReads(u) \/ SetupWrites(u) \/ PutWrites(u)
       \/ Mints(u) \/ Adopts(u) \/ Grants(u)
       \/ \E a \in Accounts, held \in Bundles : PutReads(u, a, held)
       \/ \E a \in Persons, p \in DOMAIN Presets0 :
            \E held \in Bundles \cup {presets[q] : q \in DOMAIN presets} : AddUser(u, a, p, held)
       \/ \E p \in DOMAIN Presets0, held \in Bundles : UpsertPreset(u, p, held)
       \/ \E p \in DOMAIN presets : RemovePreset(u, p)
       \/ \E g \in Devices, p \in DOMAIN presets : ApproveReads(u, g, p)
       \/ \E a \in Handles, p \in DOMAIN presets : RegisterReads(u, a, p)
       \/ \E a \in Handles : RotateHarness(u, a) \/ DeleteHarness(u, a)
  \/ \E g \in Devices : DeviceStart(g) \/ Expire(g) \/ \E p \in Pollers : PollReads(p, g)
  \/ \E p \in Pollers : PollWrites(p)
  \/ Fall

DirectorySpec == DirectoryInit /\ [][DirectoryNext]_directoryVars

-----------------------------------------------------------------------------
(* What holds. *)

\* The types of the rows and of what is remembered of them.
DirectoryTypeOK ==
  /\ DOMAIN users \subseteq Accounts /\ keys \in 0..MaxKeys
  /\ \A a \in DOMAIN users :
       users[a] \in UserRow /\ users[a].key <= keys
  /\ presets \in [DOMAIN presets -> PresetRow]
  /\ Builtin \subseteq DOMAIN presets /\ DOMAIN presets \subseteq DOMAIN Presets0
  /\ DOMAIN grants \subseteq Devices
  /\ \A g \in DOMAIN grants : grants[g] \in GrantRow /\ grants[g].token <= keys
  /\ handed \in [Devices -> Seq(0..keys)] /\ collided \subseteq Devices /\ orphans \subseteq Handles

(***************************************************************************)
(* Once there is anybody, somebody manages users: nobody can take it from  *)
(* themselves.  Only two people who take it from each other at once can    *)
(* leave nobody, or the deletion of an agent that was the last to hold it. *)
(***************************************************************************)
SomebodyManagesUsers ==
  DOMAIN users # {} /\ ~strayed /\ ~retired => \E u \in DOMAIN users : Manages(u)

(***************************************************************************)
(* What a device collects is a token that an agent was made with for it,   *)
(* never another device's; an approved grant has such a token waiting, and *)
(* names its agent.  It collects one, once, unless two requests collected  *)
(* or approved for it at a time: two polls at once both return the token.  *)
(* An account under an agent's handle is an agent's, and somebody's; only  *)
(* a crash in the middle of its registration leaves one that is nobody's.  *)
(***************************************************************************)
TokensAreCollectedOnce ==
  /\ \A a \in DOMAIN users \cap Handles :
       \/ users[a].kind = "agent" /\ users[a].owner \in Accounts
       \/ a \in orphans
       \/ \E u \in Accounts : visit[u].pc = "adopting" /\ visit[u].handle = a
  /\ \A g \in Devices : \A k \in DOMAIN handed[g] : handed[g][k] \in minted[g]
  /\ \A g, h \in Devices : g # h => minted[g] \cap minted[h] = {}
  /\ \A g \in DOMAIN grants :
       grants[g].status = "approved" =>
         grants[g].token \in minted[g] /\ grants[g].agent = HandleOf[g]
  /\ \A g \in DOMAIN grants \ collided :
       Len(handed[g]) = (IF grants[g].status = "consumed" THEN 1 ELSE 0)
=============================================================================
