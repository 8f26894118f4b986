-------------------------- MODULE Directory_proofs --------------------------
(***************************************************************************)
(* Proofs about Directory, for any people, agents, devices and requests.   *)
(***************************************************************************)
EXTENDS Directory, TLAPS

-----------------------------------------------------------------------------
(* What requests hold. *)

Target == Devices \cup {""}

\* A request, with k tokens given out so far.
VisitRow(k) ==
  {Away} \cup [pc : {"setup"}]
    \cup [pc : {"putting"}, whose : Accounts, held : SUBSET Permissions, seen : SUBSET Permissions]
    \cup [pc : {"registering"}, device : Target, handle : Handles, preset : DOMAIN Presets0]
    \cup [pc : {"adopting", "granting"}, device : Target, handle : Handles, key : 1..k]
    \cup [pc : {"polling"}, device : Devices, seen : {g \in GrantRow : g.token <= k}]

TypeInv ==
  /\ DirectoryTypeOK
  /\ users = [a \in DOMAIN users |-> users[a]] /\ grants = [g \in DOMAIN grants |-> grants[g]]
  /\ visit \in [Accounts \cup Pollers -> VisitRow(keys)]
  /\ strayed \in BOOLEAN /\ retired \in BOOLEAN

LEMMA Assumed ==
  /\ "manage:users" \in Permissions /\ \A held \in Bundles : held \in SUBSET Permissions
  /\ Presets0 \in [DOMAIN Presets0 -> SUBSET Permissions]
  /\ Builtin \subseteq DOMAIN Presets0 /\ "admin" \in Builtin
  /\ HandleOf \in [Devices -> Handles] /\ Persons \cap Handles = {}
  /\ "" \notin Devices \cup Accounts /\ Pollers \cap Accounts = {} /\ MaxKeys \in Nat
BY Zenon, DirectoryAssumption

LEMMA KeyBound == MaxKeys \in Nat
BY Zenon, Assumed

LEMMA Known ==
  ASSUME TypeInv
  PROVE  /\ DOMAIN users \subseteq Accounts /\ keys \in 0..MaxKeys
         /\ \A a \in DOMAIN users : users[a] \in UserRow /\ users[a].key <= keys
         /\ users = [a \in DOMAIN users |-> users[a]]
         /\ grants = [g \in DOMAIN grants |-> grants[g]]
         /\ presets \in [DOMAIN presets -> SUBSET Permissions]
         /\ Builtin \subseteq DOMAIN presets /\ DOMAIN presets \subseteq DOMAIN Presets0
         /\ DOMAIN grants \subseteq Devices
         /\ \A g \in DOMAIN grants : grants[g] \in GrantRow /\ grants[g].token <= keys
         /\ handed \in [Devices -> Seq(0..keys)] /\ collided \subseteq Devices
         /\ orphans \subseteq Handles
         /\ visit \in [Accounts \cup Pollers -> VisitRow(keys)]
         /\ strayed \in BOOLEAN /\ retired \in BOOLEAN
BY DEF TypeInv, DirectoryTypeOK, PresetRow

LEMMA KeysInNat ==
  ASSUME TypeInv
  PROVE  keys \in Nat /\ keys <= MaxKeys /\ MaxKeys \in Nat
<1>1. keys \in 0..MaxKeys /\ MaxKeys \in Nat
  BY Zenon, Known, Assumed
<1> QED BY <1>1

\* What is at hand of a request, by where it is.
LEMMA VisitAt ==
  ASSUME NEW k, NEW w \in VisitRow(k)
  PROVE  /\ w.pc \in {"idle", "setup", "putting", "registering", "adopting", "granting", "polling"}
         /\ w.pc = "putting" => w.whose \in Accounts /\ w.held \in SUBSET Permissions
         /\ w.pc = "registering" => /\ w.device \in Target /\ w.handle \in Handles
                                    /\ w.preset \in DOMAIN Presets0
         /\ w.pc \in {"adopting", "granting"} => /\ w.device \in Target /\ w.handle \in Handles
                                                 /\ w.key \in 1..k
         /\ w.pc = "polling" => /\ w.device \in Devices /\ w.seen \in GrantRow /\ w.seen.token <= k
BY DEF VisitRow, Away

LEMMA AdoptingIs ==
  ASSUME NEW k, NEW w \in VisitRow(k), w.pc \in {"adopting", "granting"}
  PROVE  w \in [pc : {"adopting", "granting"}, device : Target, handle : Handles, key : 1..k]
<1>1. w # Away
  BY DEF Away
<1>2. w \notin [pc : {"setup"}]
  OBVIOUS
<1>3. w \notin [pc : {"putting"}, whose : Accounts, held : SUBSET Permissions, seen : SUBSET Permissions]
  OBVIOUS
<1>4. w \notin [pc : {"registering"}, device : Target, handle : Handles, preset : DOMAIN Presets0]
  OBVIOUS
<1>5. w \notin [pc : {"polling"}, device : Devices, seen : {g \in GrantRow : g.token <= k}]
  OBVIOUS
<1> QED BY <1>1, <1>2, <1>3, <1>4, <1>5 DEF VisitRow

LEMMA MoreVisits ==
  ASSUME NEW k \in Nat, NEW w \in VisitRow(k)
  PROVE  w \in VisitRow(k + 1)
<1>1. 1..k \subseteq 1..(k + 1)
  OBVIOUS
<1>2. {g \in GrantRow : g.token <= k} \subseteq {g \in GrantRow : g.token <= k + 1}
  <2>1. \A g \in GrantRow : g.token \in 0..MaxKeys
    BY DEF GrantRow
  <2> QED BY <2>1, KeyBound
<1> QED BY <1>1, <1>2 DEF VisitRow

LEMMA AwayIsAVisit == \A k : Away \in VisitRow(k)
BY DEF VisitRow

LEMMA MoreHanded ==
  ASSUME NEW k \in Nat, NEW h \in [Devices -> Seq(0..k)]
  PROVE  h \in [Devices -> Seq(0..(k + 1))]
<1>1. 0..k \subseteq 0..(k + 1)
  OBVIOUS
<1>2. \A S, T : S \subseteq T => \A q \in Seq(S) : q \in Seq(T)
  OBVIOUS
<1> QED BY <1>1, <1>2

-----------------------------------------------------------------------------
(* Types. *)

\* A request goes on to another row.
LEMMA OneVisits ==
  ASSUME TypeInv, NEW u \in Accounts \cup Pollers, NEW w \in VisitRow(keys),
         visit' = [visit EXCEPT ![u] = w]
  PROVE  visit' \in [Accounts \cup Pollers -> VisitRow(keys)]
BY Known

LEMMA NewRow ==
  ASSUME TypeInv, NEW a \in Accounts, NEW held \in SUBSET Permissions,
         NEW preset \in DOMAIN Presets0,
         keys < MaxKeys, keys' = keys + 1, users' = WithUser(a, NewUser(held, preset, keys'))
  PROVE  /\ DOMAIN users' = DOMAIN users \cup {a} /\ DOMAIN users' \subseteq Accounts
         /\ keys' \in 0..MaxKeys
         /\ \A b \in DOMAIN users' : users'[b] \in UserRow /\ users'[b].key <= keys'
         /\ users' = [b \in DOMAIN users' |-> users'[b]]
         /\ users'[a] = NewUser(held, preset, keys')
         /\ \A b \in DOMAIN users \ {a} : users'[b] = users[b]
<1>1. keys \in Nat /\ MaxKeys \in Nat
  BY KeysInNat
<1>2. keys' \in 0..MaxKeys /\ keys' \in 1..MaxKeys /\ keys <= keys'
  BY <1>1
<1>3. NewUser(held, preset, keys') \in UserRow /\ NewUser(held, preset, keys').key = keys'
  BY <1>2 DEF NewUser, UserRow
<1>4. /\ DOMAIN users' = DOMAIN users \cup {a} /\ users' = [b \in DOMAIN users' |-> users'[b]]
      /\ users'[a] = NewUser(held, preset, keys') /\ \A b \in DOMAIN users \ {a} :
                                                       users'[b] = users[b]
  BY DEF WithUser
<1>5. \A b \in DOMAIN users : users[b] \in UserRow /\ users[b].key <= keys /\ users[b].key \in Nat
  <2>1. \A b \in DOMAIN users : users[b] \in UserRow /\ users[b].key <= keys
    BY Known
  <2>2. \A row \in UserRow : row.key \in 1..MaxKeys
    BY DEF UserRow
  <2> QED BY <2>1, <2>2, KeyBound
<1>6. \A b \in DOMAIN users \ {a} : users'[b] \in UserRow /\ users'[b].key <= keys'
  BY <1>1, <1>2, <1>4, <1>5
<1>7. users'[a] \in UserRow /\ users'[a].key <= keys'
  BY <1>1, <1>2, <1>3, <1>4
<1>8. DOMAIN users' \subseteq Accounts
  BY <1>4, Known
<1> QED BY <1>2, <1>4, <1>6, <1>7, <1>8

\* The types of what a new token changes nothing in.
LEMMA MoreKeys ==
  ASSUME TypeInv, keys' = keys + 1, UNCHANGED <<presets, grants, handed, collided, orphans>>
  PROVE  /\ presets' \in [DOMAIN presets' -> PresetRow]
         /\ Builtin \subseteq DOMAIN presets' /\ DOMAIN presets' \subseteq DOMAIN Presets0
         /\ DOMAIN grants' \subseteq Devices /\ grants' = [g \in DOMAIN grants' |-> grants'[g]]
         /\ \A g \in DOMAIN grants' : grants'[g] \in GrantRow /\ grants'[g].token <= keys'
         /\ handed' \in [Devices -> Seq(0..keys')] /\ collided' \subseteq Devices
         /\ orphans' \subseteq Handles
         /\ \A v \in Accounts \cup Pollers : visit[v] \in VisitRow(keys')
<1>1. keys \in Nat
  BY KeysInNat
<1>2. \A g \in DOMAIN grants :
        grants[g] \in GrantRow /\ grants[g].token <= keys /\ grants[g].token \in Nat
  <2>1. \A g \in DOMAIN grants : grants[g] \in GrantRow /\ grants[g].token <= keys
    BY Known
  <2>2. \A row \in GrantRow : row.token \in 0..MaxKeys
    BY DEF GrantRow
  <2> QED BY <2>1, <2>2, KeyBound
<1>3. \A g \in DOMAIN grants : grants[g].token <= keys'
  BY <1>1, <1>2
<1>4. handed' \in [Devices -> Seq(0..keys')]
  BY <1>1, Known, MoreHanded
<1>5. \A v \in Accounts \cup Pollers : visit[v] \in VisitRow(keys')
  BY <1>1, Known, MoreVisits
<1> QED BY <1>2, <1>3, <1>4, <1>5, Known DEF PresetRow

LEMMA InitTypes == DirectoryInit => TypeInv
<1> SUFFICES ASSUME DirectoryInit PROVE TypeInv
  OBVIOUS
<1>1. /\ users = [a \in {} |-> 0] /\ DOMAIN users = {} /\ grants = [g \in {} |-> 0]
      /\ DOMAIN grants = {}
      /\ keys = 0 /\ strayed = FALSE /\ retired = FALSE /\ collided = {} /\ orphans = {}
      /\ presets = Presets0
  BY DEF DirectoryInit
<1>2. /\ presets \in [DOMAIN presets -> PresetRow] /\ Builtin \subseteq DOMAIN presets
      /\ DOMAIN presets \subseteq DOMAIN Presets0
  BY <1>1, Assumed DEF PresetRow
<1>3. handed \in [Devices -> Seq(0..keys)]
  BY DEF DirectoryInit
<1>4. keys \in 0..MaxKeys
  BY <1>1, KeyBound
<1>5. visit \in [Accounts \cup Pollers -> VisitRow(keys)]
  BY AwayIsAVisit DEF DirectoryInit
<1> QED BY <1>1, <1>2, <1>3, <1>4, <1>5 DEF TypeInv, DirectoryTypeOK

\* A step that changes requests alone.
LEMMA VisitsOnly ==
  ASSUME TypeInv, NEW u \in Accounts \cup Pollers, NEW w \in VisitRow(keys),
         visit' = [visit EXCEPT ![u] = w],
         UNCHANGED <<users, presets, grants, keys, handed, strayed, retired, collided, orphans>>
  PROVE  TypeInv'
BY OneVisits DEF TypeInv, DirectoryTypeOK

LEMMA SetupReadsType ==
  ASSUME TypeInv, NEW a \in Accounts, SetupReads(a)
  PROVE  TypeInv'
<1>1. [pc |-> "setup"] \in VisitRow(keys)
  BY DEF VisitRow
<1> QED BY <1>1, VisitsOnly DEF SetupReads

\* Accounts that come with a new token.
LEMMA MintedType ==
  ASSUME TypeInv, NEW a \in Accounts, NEW held \in SUBSET Permissions,
         NEW preset \in DOMAIN Presets0,
         keys < MaxKeys, keys' = keys + 1, users' = WithUser(a, NewUser(held, preset, keys')),
         visit' \in [Accounts \cup Pollers -> VisitRow(keys')],
         UNCHANGED <<presets, grants, handed, strayed, retired, collided, orphans>>
  PROVE  TypeInv'
<1>1. /\ presets' \in [DOMAIN presets' -> PresetRow]
      /\ Builtin \subseteq DOMAIN presets' /\ DOMAIN presets' \subseteq DOMAIN Presets0
      /\ DOMAIN grants' \subseteq Devices /\ grants' = [g \in DOMAIN grants' |-> grants'[g]]
      /\ \A g \in DOMAIN grants' : grants'[g] \in GrantRow /\ grants'[g].token <= keys'
      /\ handed' \in [Devices -> Seq(0..keys')] /\ collided' \subseteq Devices
      /\ orphans' \subseteq Handles
  BY MoreKeys
<1>2. /\ DOMAIN users' \subseteq Accounts /\ keys' \in 0..MaxKeys
      /\ \A b \in DOMAIN users' : users'[b] \in UserRow /\ users'[b].key <= keys'
      /\ users' = [b \in DOMAIN users' |-> users'[b]]
  BY NewRow
<1>3. strayed' \in BOOLEAN /\ retired' \in BOOLEAN
  BY Known
<1> QED BY <1>1, <1>2, <1>3 DEF TypeInv, DirectoryTypeOK

\* A request that ends as, or goes on to, a row, with a new token given out.
LEMMA VisitsOn ==
  ASSUME TypeInv, keys' = keys + 1, NEW u \in Accounts \cup Pollers, NEW w \in VisitRow(keys'),
         visit' = [visit EXCEPT ![u] = w] \/ visit' = visit,
         UNCHANGED <<presets, grants, handed, collided, orphans>>
  PROVE  visit' \in [Accounts \cup Pollers -> VisitRow(keys')]
<1>1. \A v \in Accounts \cup Pollers : visit[v] \in VisitRow(keys')
  BY MoreKeys
<1>2. visit \in [Accounts \cup Pollers -> VisitRow(keys)]
  BY Known
<1> QED BY <1>1, <1>2

LEMMA SetupWritesType ==
  ASSUME TypeInv, NEW a \in Accounts, SetupWrites(a)
  PROVE  TypeInv'
<1>1. /\ keys < MaxKeys /\ visit' = [visit EXCEPT ![a] = Away]
      /\ UNCHANGED <<presets, grants, handed, strayed, retired, collided, orphans>>
  BY DEF SetupWrites
<1>2. CASE a \in DOMAIN users
  <2>1. UNCHANGED <<users, keys>>
    BY <1>2 DEF SetupWrites
  <2> QED BY <1>1, <2>1, AwayIsAVisit, VisitsOnly
<1>3. CASE a \notin DOMAIN users
  <2>1. keys' = keys + 1 /\ users' = WithUser(a, NewUser(Permissions, "admin", keys'))
    BY <1>3 DEF SetupWrites
  <2>2. "admin" \in DOMAIN Presets0
    BY Assumed
  <2>3. visit' \in [Accounts \cup Pollers -> VisitRow(keys')]
    BY <1>1, <2>1, AwayIsAVisit, VisitsOn
  <2> QED BY <1>1, <2>1, <2>2, <2>3, MintedType
<1> QED BY <1>2, <1>3

\* What a new account holds are permissions, its preset's or those asked for.
LEMMA AddedHolds ==
  ASSUME TypeInv, NEW u, NEW a, NEW p, NEW held, AddUser(u, a, p, held)
  PROVE  held \in SUBSET Permissions
<1>1. held \in Bundles \/ (p \in DOMAIN presets /\ held = presets[p])
  BY DEF AddUser
<1>2. \A q \in DOMAIN presets : presets[q] \in SUBSET Permissions
  BY Known
<1>3. \A bundle \in Bundles : bundle \in SUBSET Permissions
  BY Zenon, Assumed
<1> QED BY <1>1, <1>2, <1>3

LEMMA AddUserType ==
  ASSUME TypeInv, NEW u \in Accounts, NEW a \in Persons, NEW p \in DOMAIN Presets0, NEW held,
         AddUser(u, a, p, held)
  PROVE  TypeInv'
<1>1. /\ keys < MaxKeys /\ keys' = keys + 1 /\ users' = WithUser(a, NewUser(held, p, keys'))
      /\ UNCHANGED <<presets, grants, visit, handed, strayed, retired, collided, orphans>>
  BY DEF AddUser
<1>2. held \in SUBSET Permissions /\ a \in Accounts
  BY AddedHolds DEF Accounts
<1>3. visit' \in [Accounts \cup Pollers -> VisitRow(keys')]
  BY <1>1, <1>2, AwayIsAVisit, VisitsOn
<1> QED BY <1>1, <1>2, <1>3, MintedType

\* A registration goes through: its handle is free and its preset there.
Makes(u) ==
  Mints(u) /\ visit[u].handle \notin DOMAIN users /\ visit[u].preset \in DOMAIN presets

LEMMA MakesIs ==
  ASSUME TypeInv, NEW u \in Accounts, Makes(u)
  PROVE  /\ visit[u].pc = "registering" /\ visit[u].handle \in Handles
         /\ visit[u].device \in Target /\ visit[u].preset \in DOMAIN Presets0
         /\ presets[visit[u].preset] \in SUBSET Permissions
         /\ keys < MaxKeys /\ keys' = keys + 1 /\ visit[u].handle \notin DOMAIN users
         /\ users' = WithUser(visit[u].handle,
                             NewUser(presets[visit[u].preset], visit[u].preset, keys'))
         /\ minted' = [g \in Devices |-> IF g = visit[u].device THEN minted[g] \cup {keys'}
                                         ELSE minted[g]]
         /\ visit' = [visit EXCEPT ![u] = [pc |-> "adopting", device |-> visit[u].device,
                                           handle |-> visit[u].handle, key |-> keys']]
<1>1. visit[u].pc = "registering" /\ visit[u] \in VisitRow(keys)
  BY Known DEF Makes, Mints
<1>2. /\ visit[u].handle \in Handles /\ visit[u].device \in Target
      /\ visit[u].preset \in DOMAIN Presets0
  BY <1>1, VisitAt
<1>3. presets[visit[u].preset] \in SUBSET Permissions
  BY Known DEF Makes
<1> QED BY <1>1, <1>2, <1>3 DEF Makes, Mints

\* Otherwise it ends, and nothing is written.
LEMMA MakesOrEnds ==
  ASSUME NEW u, Mints(u), ~Makes(u)
  PROVE  visit' = [visit EXCEPT ![u] = Away] /\ UNCHANGED <<users, keys, minted>>
BY DEF Mints, Makes

LEMMA MintsType ==
  ASSUME TypeInv, NEW u \in Accounts, Mints(u)
  PROVE  TypeInv'
<1> DEFINE w == visit[u]
           next == [pc |-> "adopting", device |-> w.device, handle |-> w.handle, key |-> keys']
<1>1. UNCHANGED <<presets, grants, handed, strayed, retired, collided, orphans>>
  BY DEF Mints
<1>2. CASE ~Makes(u)
  <2>1. visit' = [visit EXCEPT ![u] = Away] /\ UNCHANGED <<users, keys>>
    BY <1>2, MakesOrEnds
  <2> QED BY <1>1, <2>1, AwayIsAVisit, VisitsOnly
<1>3. CASE Makes(u)
  <2> DEFINE held == presets[w.preset]
  <2>1. /\ keys < MaxKeys /\ keys' = keys + 1
        /\ users' = WithUser(w.handle, NewUser(held, w.preset, keys'))
        /\ visit' = [visit EXCEPT ![u] = next] /\ held \in SUBSET Permissions
        /\ w.device \in Target /\ w.handle \in Handles /\ w.preset \in DOMAIN Presets0
    BY <1>3, MakesIs
  <2>2. keys' \in 1..keys'
    BY <2>1, KeysInNat
  <2>3. next \in VisitRow(keys') /\ w.handle \in Accounts
    BY <2>1, <2>2 DEF VisitRow, Accounts
  <2> HIDE DEF w, next, held
  <2>4. visit' \in [Accounts \cup Pollers -> VisitRow(keys')]
    BY <1>1, <2>1, <2>3, VisitsOn
  <2> QED BY <1>1, <2>1, <2>3, <2>4, MintedType
<1> QED BY <1>2, <1>3

\* Rows of accounts that change, with nothing else but requests.
LEMMA UsersOnly ==
  ASSUME TypeInv, DOMAIN users' \subseteq Accounts, users' = [a \in DOMAIN users' |-> users'[a]],
         \A a \in DOMAIN users' : users'[a] \in UserRow /\ users'[a].key <= keys,
         visit' \in [Accounts \cup Pollers -> VisitRow(keys)],
         strayed' \in BOOLEAN, retired' \in BOOLEAN,
         UNCHANGED <<presets, grants, keys, handed, collided, orphans>>
  PROVE  TypeInv'
BY DEF TypeInv, DirectoryTypeOK

LEMMA PutWritesType ==
  ASSUME TypeInv, NEW u \in Accounts, PutWrites(u)
  PROVE  TypeInv'
<1> DEFINE w == visit[u]
<1>1. /\ w.pc = "putting" /\ visit' = [visit EXCEPT ![u] = Away]
      /\ UNCHANGED <<presets, grants, keys, handed, retired, collided, orphans>>
      /\ \/ UNCHANGED <<users, strayed>>
         \/ /\ w.whose \in DOMAIN users /\ users' = [users EXCEPT ![w.whose].permissions = w.held]
            /\ strayed' = (strayed \/ ~Manages(u))
  BY DEF PutWrites
<1>2. w \in VisitRow(keys) /\ visit' \in [Accounts \cup Pollers -> VisitRow(keys)]
  BY <1>1, Known, AwayIsAVisit
<1>3. w.held \in SUBSET Permissions
  BY <1>1, <1>2, VisitAt
<1>4. \A row \in UserRow : /\ [row EXCEPT !.permissions = w.held] \in UserRow
                            /\ [row EXCEPT !.permissions = w.held].key = row.key
  BY <1>3 DEF UserRow
<1>5. /\ DOMAIN users' \subseteq Accounts /\ users' = [a \in DOMAIN users' |-> users'[a]]
      /\ \A a \in DOMAIN users' : users'[a] \in UserRow /\ users'[a].key <= keys
  <2> HIDE DEF w
  <2>1. /\ DOMAIN users \subseteq Accounts /\ users = [a \in DOMAIN users |-> users[a]]
        /\ \A a \in DOMAIN users : users[a] \in UserRow /\ users[a].key <= keys
    BY Known
  <2>2. CASE users' = users
    BY <2>1, <2>2
  <2>3. CASE w.whose \in DOMAIN users /\ users' = [users EXCEPT ![w.whose].permissions = w.held]
    BY <1>4, <2>1, <2>3
  <2> QED BY <1>1, <2>2, <2>3
<1>6. strayed' \in BOOLEAN /\ retired' \in BOOLEAN
  BY <1>1, Known DEF Manages
<1> QED BY <1>1, <1>2, <1>5, <1>6, UsersOnly

LEMMA AdoptsType ==
  ASSUME TypeInv, NEW u \in Accounts, Adopts(u)
  PROVE  TypeInv'
<1> DEFINE w == visit[u]
           next == [w EXCEPT !.pc = "granting"]
<1>1. /\ w.pc = "adopting"
      /\ users' = [users EXCEPT ![w.handle].kind = "agent", ![w.handle].owner = u]
      /\ visit' = [visit EXCEPT ![u] = IF w.device = "" THEN Away ELSE next]
      /\ UNCHANGED <<presets, grants, keys, handed, strayed, retired, collided, orphans>>
  BY DEF Adopts
<1>2. w \in VisitRow(keys)
  BY Known
<1>3. next \in VisitRow(keys)
  <2>1. w \in [pc : {"adopting", "granting"}, device : Target, handle : Handles, key : 1..keys]
    BY <1>1, <1>2, AdoptingIs
  <2>2. next \in [pc : {"adopting", "granting"}, device : Target, handle : Handles, key : 1..keys]
    BY <2>1
  <2> QED BY <2>2 DEF VisitRow
<1>4. visit' \in [Accounts \cup Pollers -> VisitRow(keys)]
  BY <1>1, <1>3, Known, AwayIsAVisit
<1>5. \A row \in UserRow : /\ [row EXCEPT !.kind = "agent", !.owner = u] \in UserRow
                            /\ [row EXCEPT !.kind = "agent", !.owner = u].key = row.key
  BY DEF UserRow
<1>6. /\ DOMAIN users' \subseteq Accounts /\ users' = [a \in DOMAIN users' |-> users'[a]]
      /\ \A a \in DOMAIN users' : users'[a] \in UserRow /\ users'[a].key <= keys
  <2> DEFINE h == w.handle
  <2>1. /\ DOMAIN users \subseteq Accounts /\ users = [a \in DOMAIN users |-> users[a]]
        /\ \A a \in DOMAIN users : users[a] \in UserRow /\ users[a].key <= keys
    BY Known
  <2>2. users' = [users EXCEPT ![h].kind = "agent", ![h].owner = u]
    BY <1>1
  <2> HIDE DEF h
  <2>3. \A a \in DOMAIN users :
          users'[a] = IF a = h THEN [users[a] EXCEPT !.kind = "agent", !.owner = u]
                                             ELSE users[a]
    BY <2>1, <2>2
  <2>4. DOMAIN users' = DOMAIN users /\ users' = [a \in DOMAIN users' |-> users'[a]]
    BY <2>2
  <2>5. \A a \in DOMAIN users : users'[a] \in UserRow /\ users'[a].key = users[a].key
    BY <1>5, <2>1, <2>3
  <2> QED BY <2>1, <2>4, <2>5
<1>7. strayed' \in BOOLEAN /\ retired' \in BOOLEAN
  BY <1>1, Known
<1> QED BY <1>1, <1>4, <1>6, <1>7, UsersOnly

LEMMA DeleteHarnessType ==
  ASSUME TypeInv, NEW u \in Accounts, NEW a \in Handles, DeleteHarness(u, a)
  PROVE  TypeInv'
<1>1. /\ users' = [b \in DOMAIN users \ {a} |-> users[b]] /\ retired' = (retired \/ Manages(a))
      /\ UNCHANGED <<presets, grants, visit, keys, handed, strayed, collided, orphans>>
  BY DEF DeleteHarness
<1>2. /\ DOMAIN users \subseteq Accounts
      /\ \A b \in DOMAIN users : users[b] \in UserRow /\ users[b].key <= keys
      /\ visit \in [Accounts \cup Pollers -> VisitRow(keys)]
      /\ strayed' \in BOOLEAN /\ retired' \in BOOLEAN
  BY <1>1, Known DEF Manages
<1> QED BY <1>1, <1>2, UsersOnly

LEMMA RotateHarnessType ==
  ASSUME TypeInv, NEW u \in Accounts, NEW a \in Handles, RotateHarness(u, a)
  PROVE  TypeInv'
<1>1. /\ a \in DOMAIN users /\ keys < MaxKeys /\ keys' = keys + 1
      /\ users' = [users EXCEPT ![a].key = keys']
      /\ UNCHANGED <<presets, grants, visit, handed, strayed, retired, collided, orphans>>
  BY DEF RotateHarness, MayTend
<1>2. keys \in Nat /\ MaxKeys \in Nat
  BY KeysInNat
<1>3. keys' \in 0..MaxKeys /\ keys' \in 1..MaxKeys /\ keys' \in Nat /\ keys <= keys'
  BY <1>1, <1>2
<1>4. /\ DOMAIN users \subseteq Accounts /\ users = [b \in DOMAIN users |-> users[b]]
      /\ \A b \in DOMAIN users : users[b] \in UserRow /\ users[b].key <= keys
  BY Known
<1>5. \A row \in UserRow : row.key \in Nat
  <2>1. \A row \in UserRow : row.key \in 1..MaxKeys
    BY DEF UserRow
  <2> QED BY <2>1, KeyBound
<1>6. [users[a] EXCEPT !.key = keys'] \in UserRow /\ [users[a] EXCEPT !.key = keys'].key = keys'
  BY <1>1, <1>3, <1>4 DEF UserRow
<1>7. \A b \in DOMAIN users :
        users'[b] = IF b = a THEN [users[b] EXCEPT !.key = keys'] ELSE users[b]
  BY <1>1, <1>4
<1>8. \A b \in DOMAIN users : users[b].key <= keys'
  BY <1>2, <1>3, <1>4, <1>5
<1>9. \A b \in DOMAIN users : users'[b] \in UserRow /\ users'[b].key <= keys'
  <2> SUFFICES ASSUME NEW b \in DOMAIN users PROVE users'[b] \in UserRow /\ users'[b].key <= keys'
    OBVIOUS
  <2>1. CASE b = a
    <3>1. users'[b] = [users[a] EXCEPT !.key = keys']
      BY <1>7, <2>1
    <3> QED BY <1>3, <1>6, <3>1
  <2>2. CASE b # a
    BY <1>4, <1>7, <1>8, <2>2
  <2> QED BY <2>1, <2>2
<1>10. DOMAIN users' = DOMAIN users /\ users' = [b \in DOMAIN users' |-> users'[b]]
  BY <1>1
<1>11. /\ presets' \in [DOMAIN presets' -> PresetRow]
       /\ Builtin \subseteq DOMAIN presets' /\ DOMAIN presets' \subseteq DOMAIN Presets0
       /\ DOMAIN grants' \subseteq Devices /\ grants' = [g \in DOMAIN grants' |-> grants'[g]]
       /\ \A g \in DOMAIN grants' : grants'[g] \in GrantRow /\ grants'[g].token <= keys'
       /\ handed' \in [Devices -> Seq(0..keys')] /\ collided' \subseteq Devices
       /\ orphans' \subseteq Handles
  BY <1>1, MoreKeys
<1>12. visit' \in [Accounts \cup Pollers -> VisitRow(keys')]
  BY <1>1, AwayIsAVisit, VisitsOn
<1> QED BY <1>1, <1>3, <1>4, <1>9, <1>10, <1>11, <1>12, Known DEF TypeInv, DirectoryTypeOK

LEMMA RegisteringType ==
  ASSUME TypeInv, NEW device \in Target, NEW handle \in Handles, NEW preset \in DOMAIN presets
  PROVE  Registering(device, handle, preset) \in VisitRow(keys)
<1>1. preset \in DOMAIN Presets0
  BY Known
<1> QED BY <1>1 DEF Registering, VisitRow

\* Requests that read.
LEMMA ReadsType ==
  ASSUME TypeInv,
         \/ \E u, a \in Accounts, held \in Bundles : PutReads(u, a, held)
         \/ \E u \in Accounts, a \in Handles, p \in DOMAIN presets : RegisterReads(u, a, p)
         \/ \E u \in Accounts, g \in Devices, p \in DOMAIN presets : ApproveReads(u, g, p)
         \/ \E p \in Pollers, g \in Devices : PollReads(p, g)
  PROVE  TypeInv'
<1>1. ASSUME NEW u \in Accounts, NEW a \in Accounts, NEW held \in Bundles, PutReads(u, a, held)
      PROVE  TypeInv'
  <2> DEFINE w == [pc |-> "putting", whose |-> a, held |-> held, seen |-> users[a].permissions]
  <2>1. /\ a \in DOMAIN users /\ visit' = [visit EXCEPT ![u] = w]
        /\ UNCHANGED <<users, presets, grants, keys, handed, strayed, retired, collided, orphans>>
    BY <1>1 DEF PutReads
  <2>2. users[a].permissions \in SUBSET Permissions /\ held \in SUBSET Permissions
    BY <2>1, Known, Assumed DEF UserRow
  <2>3. w \in VisitRow(keys)
    BY <2>2 DEF VisitRow
  <2> HIDE DEF w
  <2> QED BY <2>1, <2>3, VisitsOnly
<1>2. ASSUME NEW u \in Accounts, NEW a \in Handles, NEW p \in DOMAIN presets, RegisterReads(u, a, p)
      PROVE  TypeInv'
  <2>1. Registering("", a, p) \in VisitRow(keys)
    BY RegisteringType DEF Target
  <2> QED BY <1>2, <2>1, VisitsOnly DEF RegisterReads
<1>3. ASSUME NEW u \in Accounts, NEW g \in Devices, NEW p \in DOMAIN presets, ApproveReads(u, g, p)
      PROVE  TypeInv'
  <2>1. HandleOf[g] \in Handles
    BY Assumed
  <2>2. Registering(g, HandleOf[g], p) \in VisitRow(keys)
    BY <2>1, RegisteringType DEF Target
  <2> QED BY <1>3, <2>2, VisitsOnly DEF ApproveReads
<1>4. ASSUME NEW p \in Pollers, NEW g \in Devices, PollReads(p, g)
      PROVE  TypeInv'
  <2> DEFINE w == [pc |-> "polling", device |-> g, seen |-> grants[g]]
  <2>1. /\ g \in DOMAIN grants /\ visit' = [visit EXCEPT ![p] = w]
        /\ UNCHANGED <<users, presets, grants, keys, handed, strayed, retired, collided, orphans>>
    BY <1>4 DEF PollReads
  <2>2. grants[g] \in GrantRow /\ grants[g].token <= keys
    BY <2>1, Known
  <2>3. w \in VisitRow(keys)
    BY <2>2 DEF VisitRow
  <2> HIDE DEF w
  <2> QED BY <2>1, <2>3, VisitsOnly
<1> QED BY <1>1, <1>2, <1>3, <1>4

\* Presets, and the grants of devices.
LEMMA PresetsType ==
  ASSUME TypeInv,
         \/ \E u \in Accounts, p \in DOMAIN Presets0, held \in Bundles : UpsertPreset(u, p, held)
         \/ \E u \in Accounts, p \in DOMAIN presets : RemovePreset(u, p)
  PROVE  TypeInv'
<1>0. /\ presets \in [DOMAIN presets -> SUBSET Permissions]
      /\ Builtin \subseteq DOMAIN presets /\ DOMAIN presets \subseteq DOMAIN Presets0
      /\ \A held \in Bundles : held \in SUBSET Permissions
  BY Known, Assumed
<1>1. UNCHANGED <<users, grants, visit, keys, handed, strayed, retired, collided, orphans>>
  BY DEF UpsertPreset, RemovePreset
<1>2. /\ presets' \in [DOMAIN presets' -> SUBSET Permissions]
      /\ Builtin \subseteq DOMAIN presets' /\ DOMAIN presets' \subseteq DOMAIN Presets0
  BY <1>0 DEF UpsertPreset, WithPreset, RemovePreset
<1> QED BY <1>1, <1>2 DEF TypeInv, DirectoryTypeOK, PresetRow

LEMMA GrantsOnly ==
  ASSUME TypeInv, grants' = [g \in DOMAIN grants' |-> grants'[g]], DOMAIN grants' \subseteq Devices,
         \A g \in DOMAIN grants' : grants'[g] \in GrantRow /\ grants'[g].token <= keys,
         handed' \in [Devices -> Seq(0..keys)], collided' \subseteq Devices,
         visit' \in [Accounts \cup Pollers -> VisitRow(keys)],
         UNCHANGED <<users, presets, keys, strayed, retired, orphans>>
  PROVE  TypeInv'
BY DEF TypeInv, DirectoryTypeOK

LEMMA DevicesType ==
  ASSUME TypeInv, NEW g \in Devices, DeviceStart(g) \/ Expire(g)
  PROVE  TypeInv'
<1>0. /\ DOMAIN grants \subseteq Devices /\ grants = [h \in DOMAIN grants |-> grants[h]]
      /\ \A h \in DOMAIN grants : grants[h] \in GrantRow /\ grants[h].token <= keys
      /\ handed \in [Devices -> Seq(0..keys)] /\ collided \subseteq Devices
      /\ visit \in [Accounts \cup Pollers -> VisitRow(keys)]
  BY Known
<1>1. UNCHANGED <<users, presets, visit, keys, handed, strayed, retired, collided, orphans>>
  BY DEF DeviceStart, Expire
<1>2. /\ grants' = [h \in DOMAIN grants' |-> grants'[h]] /\ DOMAIN grants' \subseteq Devices
      /\ \A h \in DOMAIN grants' : grants'[h] \in GrantRow /\ grants'[h].token <= keys
  <2>1. CASE DeviceStart(g)
    <3> DEFINE row == [status |-> "pending", token |-> 0, agent |-> "", late |-> FALSE]
    <3>1. 0 \in 0..MaxKeys /\ 0 <= keys
      BY KeysInNat
    <3>2. row \in GrantRow /\ row.token <= keys
      BY <3>1 DEF GrantRow
    <3> HIDE DEF row
    <3>3. grants' = [h \in DOMAIN grants \cup {g} |-> IF h = g THEN row ELSE grants[h]]
      BY <2>1 DEF DeviceStart, row
    <3> QED BY <1>0, <3>2, <3>3
  <2>2. CASE Expire(g)
    <3>1. g \in DOMAIN grants /\ grants' = [grants EXCEPT ![g].late = TRUE]
      BY <2>2 DEF Expire
    <3>2. \A row \in GrantRow : /\ [row EXCEPT !.late = TRUE] \in GrantRow
                                 /\ [row EXCEPT !.late = TRUE].token = row.token
      BY DEF GrantRow
    <3>3. \A h \in DOMAIN grants :
            grants'[h] = IF h = g THEN [grants[h] EXCEPT !.late = TRUE] ELSE grants[h]
      BY <3>1
    <3>4. DOMAIN grants' = DOMAIN grants /\ grants' = [h \in DOMAIN grants' |-> grants'[h]]
      BY <3>1
    <3>5. \A h \in DOMAIN grants : grants'[h] \in GrantRow /\ grants'[h].token = grants[h].token
      BY <1>0, <3>2, <3>3
    <3> QED BY <1>0, <3>4, <3>5
  <2> QED BY <2>1, <2>2
<1> QED BY <1>0, <1>1, <1>2, GrantsOnly

\* A registration is for a device that asked, or for none; then it ends without a grant.
AskedFor ==
  \A u \in Accounts \cup Pollers :
    /\ visit[u].pc \in {"registering", "adopting"} => visit[u].device \in DOMAIN grants \cup {""}
    /\ visit[u].pc \in {"granting", "polling"} => visit[u].device \in DOMAIN grants

LEMMA GrantsType ==
  ASSUME TypeInv, AskedFor, NEW u \in Accounts, Grants(u)
  PROVE  TypeInv'
<1> DEFINE w == visit[u]
           g == w.device
<1>1. /\ w.pc = "granting"
      /\ grants' = [grants EXCEPT ![g].status = "approved", ![g].token = w.key, ![g].agent = w.handle]
      /\ visit' = [visit EXCEPT ![u] = Away]
      /\ UNCHANGED <<users, presets, keys, handed, strayed, retired, orphans>>
  BY DEF Grants
<1>2. w \in VisitRow(keys)
  BY Known
<1>3. w.key \in 1..keys /\ w.handle \in Accounts
  BY <1>1, <1>2, VisitAt DEF Accounts
<1>4. w.key \in 0..MaxKeys /\ w.key <= keys
  BY <1>3, KeysInNat
<1>5. visit' \in [Accounts \cup Pollers -> VisitRow(keys)]
  BY <1>1, Known, AwayIsAVisit
<1>6. \A row \in GrantRow :
        /\ [row EXCEPT !.status = "approved", !.token = w.key, !.agent = w.handle] \in GrantRow
        /\ [row EXCEPT !.status = "approved", !.token = w.key, !.agent = w.handle].token = w.key
  BY <1>3, <1>4 DEF GrantRow
<1>a. /\ DOMAIN grants \subseteq Devices /\ grants = [h \in DOMAIN grants |-> grants[h]]
      /\ \A h \in DOMAIN grants : grants[h] \in GrantRow /\ grants[h].token <= keys
      /\ handed \in [Devices -> Seq(0..keys)] /\ collided \subseteq Devices
  BY Known
<1>b. g \in DOMAIN grants
  BY <1>1 DEF AskedFor
<1>c. \A h \in DOMAIN grants :
        grants'[h] = IF h = g THEN [grants[h] EXCEPT !.status = "approved", !.token = w.key, !.agent = w.handle]
                     ELSE grants[h]
  BY <1>1, <1>a
<1>d. DOMAIN grants' = DOMAIN grants /\ grants' = [h \in DOMAIN grants' |-> grants'[h]]
  BY <1>1
<1>e. \A h \in DOMAIN grants : grants'[h] \in GrantRow /\ grants'[h].token <= keys
  <2> SUFFICES ASSUME NEW h \in DOMAIN grants
               PROVE  grants'[h] \in GrantRow /\ grants'[h].token <= keys
    OBVIOUS
  <2>1. CASE h = g
    <3>1. grants'[h] = [grants[h] EXCEPT !.status = "approved", !.token = w.key, !.agent = w.handle]
      BY <1>c, <2>1
    <3>2. grants[h] \in GrantRow
      BY <1>a
    <3> QED BY <1>4, <1>6, <3>1, <3>2
  <2>2. CASE h # g
    BY <1>a, <1>c, <2>2
  <2> QED BY <2>1, <2>2
<1>f. collided' \subseteq Devices
  BY <1>a, <1>b DEF Grants
<1> QED BY <1>1, <1>5, <1>a, <1>d, <1>e, <1>f, GrantsOnly

LEMMA PollWritesType ==
  ASSUME TypeInv, NEW p \in Pollers, PollWrites(p)
  PROVE  TypeInv'
<1> DEFINE w == visit[p]
           g == w.device
<1>1. /\ w.pc = "polling"
      /\ grants' = [grants EXCEPT ![g].status = "consumed", ![g].token = 0]
      /\ handed' = [handed EXCEPT ![g] = Append(@, w.seen.token)]
      /\ collided' = collided \/ collided' = collided \cup {g}
      /\ visit' = [visit EXCEPT ![p] = Away]
      /\ UNCHANGED <<users, presets, keys, strayed, retired, orphans>>
  BY DEF PollWrites
<1>2. w \in VisitRow(keys)
  BY Known
<1>3. g \in Devices /\ w.seen \in GrantRow /\ w.seen.token <= keys
  BY <1>1, <1>2, VisitAt
<1>4. w.seen.token \in 0..keys
  <2>1. w.seen.token \in 0..MaxKeys
    BY <1>3 DEF GrantRow
  <2> QED BY <1>3, <2>1, KeysInNat
<1>5. visit' \in [Accounts \cup Pollers -> VisitRow(keys)]
  BY <1>1, Known, AwayIsAVisit
<1>6. \A row \in GrantRow : /\ [row EXCEPT !.status = "consumed", !.token = 0] \in GrantRow
                             /\ [row EXCEPT !.status = "consumed", !.token = 0].token = 0
  <2>1. 0 \in 0..MaxKeys
    BY KeyBound
  <2> QED BY <2>1 DEF GrantRow
<1>a. /\ DOMAIN grants \subseteq Devices /\ grants = [h \in DOMAIN grants |-> grants[h]]
      /\ \A h \in DOMAIN grants : grants[h] \in GrantRow /\ grants[h].token <= keys
      /\ handed \in [Devices -> Seq(0..keys)] /\ collided \subseteq Devices
  BY Known
<1>b. \A h \in DOMAIN grants :
        grants'[h] = IF h = g THEN [grants[h] EXCEPT !.status = "consumed", !.token = 0] ELSE grants[h]
  BY <1>1, <1>a
<1>c. DOMAIN grants' = DOMAIN grants /\ grants' = [h \in DOMAIN grants' |-> grants'[h]]
  BY <1>1
<1>d. 0 <= keys
  BY KeysInNat
<1>e. \A h \in DOMAIN grants : grants'[h] \in GrantRow /\ grants'[h].token <= keys
  <2> SUFFICES ASSUME NEW h \in DOMAIN grants
               PROVE  grants'[h] \in GrantRow /\ grants'[h].token <= keys
    OBVIOUS
  <2>1. CASE h = g
    <3>1. grants'[h] = [grants[h] EXCEPT !.status = "consumed", !.token = 0]
      BY <1>b, <2>1
    <3>2. grants[h] \in GrantRow
      BY <1>a
    <3> QED BY <1>6, <1>d, <3>1, <3>2
  <2>2. CASE h # g
    BY <1>a, <1>b, <2>2
  <2> QED BY <2>1, <2>2
<1>f. handed' \in [Devices -> Seq(0..keys)]
  <2>1. \A q \in Seq(0..keys) : Append(q, w.seen.token) \in Seq(0..keys)
    BY <1>4
  <2> QED BY <1>1, <1>3, <1>a, <2>1
<1>g. collided' \subseteq Devices
  BY <1>1, <1>3, <1>a
<1> HIDE DEF w, g
<1> QED BY <1>1, <1>5, <1>a, <1>c, <1>e, <1>f, <1>g, GrantsOnly

LEMMA FallType ==
  ASSUME TypeInv, Fall
  PROVE  TypeInv'
<1>1. /\ orphans' = orphans \cup {visit[u].handle : u \in {v \in Accounts : visit[v].pc = "adopting"}}
      /\ visit' = [u \in Accounts \cup Pollers |-> Away]
      /\ UNCHANGED <<users, presets, grants, keys, handed, strayed, retired, collided>>
  BY DEF Fall
<1>2. \A u \in Accounts : visit[u].pc = "adopting" => visit[u].handle \in Handles
  BY Known, VisitAt
<1>3. orphans' \subseteq Handles
  BY <1>1, <1>2, Known
<1>4. visit' \in [Accounts \cup Pollers -> VisitRow(keys')]
  BY <1>1, AwayIsAVisit
<1> QED BY <1>1, <1>3, <1>4 DEF TypeInv, DirectoryTypeOK

LEMMA StepTypes == TypeInv /\ AskedFor /\ [DirectoryNext]_directoryVars => TypeInv'
<1> SUFFICES ASSUME TypeInv, AskedFor, [DirectoryNext]_directoryVars PROVE TypeInv'
  OBVIOUS
<1>1. CASE DirectoryNext
  BY <1>1, SetupReadsType, SetupWritesType, AddUserType, MintsType, PutWritesType, AdoptsType,
     DeleteHarnessType, RotateHarnessType, ReadsType, PresetsType, DevicesType, GrantsType,
     PollWritesType, FallType DEF DirectoryNext
<1>2. CASE UNCHANGED directoryVars
  BY <1>2 DEF directoryVars, TypeInv, DirectoryTypeOK
<1> QED BY <1>1, <1>2

LEMMA StepAsked == TypeInv /\ AskedFor /\ [DirectoryNext]_directoryVars => AskedFor'
<1> SUFFICES ASSUME TypeInv, AskedFor, [DirectoryNext]_directoryVars PROVE AskedFor'
  OBVIOUS
<1>0. visit \in [Accounts \cup Pollers -> VisitRow(keys)]
  BY Known
<1>1. DOMAIN grants \subseteq DOMAIN grants'
  BY DEF DirectoryNext, directoryVars, SetupReads, SetupWrites, PutWrites, Mints, Adopts, Grants,
         PutReads,
         AddUser, UpsertPreset, RemovePreset, ApproveReads, RegisterReads, RotateHarness,
         DeleteHarness, DeviceStart, Expire, PollReads, PollWrites, Fall
<1>2. ASSUME NEW u \in Accounts \cup Pollers, NEW w, visit' = [visit EXCEPT ![u] = w],
             w.pc \in {"registering", "adopting"} => w.device \in DOMAIN grants \cup {""},
             w.pc \in {"granting", "polling"} => w.device \in DOMAIN grants
      PROVE  AskedFor'
  BY <1>0, <1>1, <1>2 DEF AskedFor
<1>3. ASSUME visit' = visit PROVE AskedFor'
  BY <1>1, <1>3 DEF AskedFor
<1>4. ASSUME NEW u \in Accounts \cup Pollers, visit' = [visit EXCEPT ![u] = Away] PROVE AskedFor'
  <2>1. Away.pc = "idle"
    BY DEF Away
  <2> QED BY <1>2, <1>4, <2>1
<1>5. ASSUME NEW u \in Accounts, SetupReads(u) \/ \E a \in Accounts,
             held \in Bundles : PutReads(u, a, held)
      PROVE  AskedFor'
  <2>1. CASE SetupReads(u)
    <3> DEFINE w == [pc |-> "setup"]
    <3>1. visit' = [visit EXCEPT ![u] = w] /\ w.pc = "setup"
      BY <2>1 DEF SetupReads
    <3> HIDE DEF w
    <3> QED BY <1>2, <3>1
  <2>2. ASSUME NEW a \in Accounts, NEW held \in Bundles, PutReads(u, a, held) PROVE AskedFor'
    <3> DEFINE w == [pc |-> "putting", whose |-> a, held |-> held, seen |-> users[a].permissions]
    <3>1. visit' = [visit EXCEPT ![u] = w] /\ w.pc = "putting"
      BY <2>2 DEF PutReads
    <3> HIDE DEF w
    <3> QED BY <1>2, <3>1
  <2> QED BY <1>5, <2>1, <2>2
<1>6. ASSUME NEW u \in Accounts, NEW p,
             \/ \E a \in Handles : RegisterReads(u, a, p)
             \/ \E g \in Devices : ApproveReads(u, g, p)
      PROVE  AskedFor'
  <2>1. PICK d \in DOMAIN grants \cup {""} : \E a : visit' = [visit EXCEPT ![u] = Registering(d, a, p)]
    BY <1>6 DEF RegisterReads, ApproveReads
  <2>2. \A c, a : Registering(c, a, p).pc = "registering" /\ Registering(c, a, p).device = c
    BY DEF Registering
  <2>3. PICK a : visit' = [visit EXCEPT ![u] = Registering(d, a, p)]
    BY <2>1
  <2> DEFINE w == Registering(d, a, p)
  <2>4. w.pc = "registering" /\ w.device \in DOMAIN grants \cup {""}
    BY <2>2
  <2>5. visit' = [visit EXCEPT ![u] = w]
    BY <2>3
  <2> HIDE DEF w
  <2> QED BY <1>2, <2>4, <2>5
<1>7. ASSUME NEW u \in Accounts, Mints(u) PROVE AskedFor'
  <2>1. /\ visit[u].pc = "registering"
        /\ \/ visit' = [visit EXCEPT ![u] = Away]
           \/ \E w :
                visit' = [visit EXCEPT ![u] = w] /\ w.pc = "adopting" /\ w.device = visit[u].device
    BY <1>7 DEF Mints
  <2>2. visit[u].device \in DOMAIN grants \cup {""}
    BY <2>1 DEF AskedFor
  <2> QED BY <1>2, <1>4, <2>1, <2>2
<1>8. ASSUME NEW u \in Accounts, Adopts(u) PROVE AskedFor'
  <2> DEFINE w == [visit[u] EXCEPT !.pc = "granting"]
  <2>1. /\ visit[u].pc = "adopting"
        /\ visit' = [visit EXCEPT ![u] = IF visit[u].device = "" THEN Away ELSE w]
    BY <1>8 DEF Adopts
  <2>2. visit[u] \in [pc : {"adopting", "granting"}, device : Target, handle : Handles, key : 1..keys]
    BY <1>0, <2>1, AdoptingIs
  <2>3. w.pc = "granting" /\ w.device = visit[u].device
    BY <2>2
  <2>4. visit[u].device \in DOMAIN grants \cup {""}
    BY <2>1 DEF AskedFor
  <2> HIDE DEF w
  <2> QED BY <1>2, <1>4, <2>1, <2>3, <2>4
<1>9. ASSUME NEW p \in Pollers, NEW g \in Devices, PollReads(p, g) PROVE AskedFor'
  <2> DEFINE w == [pc |-> "polling", device |-> g, seen |-> grants[g]]
  <2>1. visit' = [visit EXCEPT ![p] = w] /\ w.pc = "polling" /\ w.device \in DOMAIN grants
    BY <1>9 DEF PollReads
  <2> HIDE DEF w
  <2> QED BY <1>2, <2>1
<1>10. CASE Fall
  <2>1. \A u \in Accounts \cup Pollers : visit'[u].pc = "idle"
    BY <1>10 DEF Fall, Away
  <2> QED BY <2>1 DEF AskedFor
<1>11. ASSUME NEW u \in Accounts, SetupWrites(u) \/ PutWrites(u) \/ Grants(u) PROVE AskedFor'
  BY <1>4, <1>11 DEF SetupWrites, PutWrites, Grants
<1>12. ASSUME NEW p \in Pollers, PollWrites(p) PROVE AskedFor'
  BY <1>4, <1>12 DEF PollWrites
<1>13. ASSUME \/ \E u, a, p, held : AddUser(u, a, p, held)
              \/ \E u \in Accounts, p \in DOMAIN Presets0, held \in Bundles :
                   UpsertPreset(u, p, held)
              \/ \E u \in Accounts, p \in DOMAIN presets : RemovePreset(u, p)
              \/ \E u \in Accounts, a \in Handles : RotateHarness(u, a) \/ DeleteHarness(u, a)
              \/ \E g \in Devices : DeviceStart(g) \/ Expire(g)
              \/ UNCHANGED directoryVars
       PROVE  AskedFor'
  BY <1>3, <1>13 DEF AddUser, UpsertPreset, RemovePreset, RotateHarness, DeleteHarness,
                     DeviceStart, Expire,
                     directoryVars
<1> QED BY <1>5, <1>6, <1>7, <1>8, <1>9, <1>10, <1>11, <1>12, <1>13 DEF DirectoryNext

LEMMA AlwaysTyped == DirectorySpec => [](TypeInv /\ AskedFor)
<1>1. DirectoryInit => AskedFor
  <2>1. DirectoryInit => \A u \in Accounts \cup Pollers : visit[u].pc = "idle"
    BY DEF DirectoryInit, Away
  <2> QED BY <2>1 DEF AskedFor
<1> QED BY <1>1, InitTypes, StepTypes, StepAsked, PTL DEF DirectorySpec

\* The variables have their types, and requests hold what there is or was.
THEOREM DirectoryIsTyped == DirectorySpec => []DirectoryTypeOK
<1>1. TypeInv => DirectoryTypeOK
  BY DEF TypeInv
<1> QED BY <1>1, AlwaysTyped, PTL

-----------------------------------------------------------------------------
(* Somebody manages users. *)

\* Nothing yet went the way that may leave nobody: no stray change, no manager deleted.
Orderly == ~strayed /\ ~retired

\* Whoever changes permissions changes somebody else's; and nobody registers an agent
\* before there is anybody.
ManagedInv ==
  /\ SomebodyManagesUsers
  /\ \A u \in Accounts : visit[u].pc = "putting" => visit[u].whose # u
  /\ Orderly => \A u \in Accounts : visit[u].pc = "registering" => DOMAIN users # {}

LEMMA StepOrderly == TypeInv /\ [DirectoryNext]_directoryVars /\ Orderly' => Orderly
<1> SUFFICES ASSUME TypeInv, [DirectoryNext]_directoryVars, Orderly' PROVE Orderly
  OBVIOUS
<1>1. \/ UNCHANGED <<strayed, retired>>
      \/ \E u \in Accounts : PutWrites(u) \/ \E a \in Handles : DeleteHarness(u, a)
  BY Zenon DEF DirectoryNext, directoryVars, SetupReads, SetupWrites, Mints, Adopts, Grants,
               PutReads,
       AddUser, UpsertPreset, RemovePreset, ApproveReads, RegisterReads, RotateHarness,
       DeviceStart, Expire, PollReads, PollWrites, Fall
<1>2. ASSUME NEW u \in Accounts, PutWrites(u) PROVE Orderly
  <2>1. UNCHANGED retired
    BY Zenon, <1>2 DEF PutWrites
  <2>2. CASE UNCHANGED strayed
    BY Zenon, <2>1, <2>2 DEF Orderly
  <2>3. CASE ~UNCHANGED strayed
    <3>1. strayed' = (strayed \/ ~Manages(u))
      BY Zenon, <1>2, <2>3 DEF PutWrites
    <3> QED BY Zenon, <2>1, <3>1 DEF Orderly
  <2> QED BY <2>2, <2>3
<1>3. ASSUME NEW u \in Accounts, NEW a \in Handles, DeleteHarness(u, a) PROVE Orderly
  <2>1. UNCHANGED strayed /\ retired' = (retired \/ Manages(a))
    BY Zenon, <1>3 DEF DeleteHarness
  <2> QED BY Zenon, <2>1 DEF Orderly
<1>4. CASE UNCHANGED <<strayed, retired>>
  BY Zenon, <1>4 DEF Orderly
<1> QED BY <1>1, <1>2, <1>3, <1>4

\* An account that comes takes nothing from those there are.
LEMMA ManagerStays ==
  ASSUME TypeInv, NEW a \in Accounts, a \notin DOMAIN users, NEW held \in SUBSET Permissions,
         NEW preset \in DOMAIN Presets0,
         keys < MaxKeys, keys' = keys + 1, users' = WithUser(a, NewUser(held, preset, keys')),
         NEW m \in DOMAIN users, Manages(m)
  PROVE  m \in DOMAIN users' /\ Manages(m)'
<1>1. DOMAIN users' = DOMAIN users \cup {a} /\ \A b \in DOMAIN users \ {a} : users'[b] = users[b]
  BY NewRow
<1>2. m # a
  OBVIOUS
<1>3. m \in DOMAIN users' /\ users'[m] = users[m]
  BY <1>1, <1>2
<1> QED BY <1>3 DEF Manages

LEMMA StepManaged ==
  ASSUME TypeInv, ManagedInv, [DirectoryNext]_directoryVars, Orderly', DOMAIN users' # {}
  PROVE  \E m \in DOMAIN users' : Manages(m)'
<1>0. Orderly
  BY Zenon, StepOrderly
<1>1. DOMAIN users # {} => \E m \in DOMAIN users : Manages(m)
  BY <1>0 DEF ManagedInv, SomebodyManagesUsers, Orderly
<1>2. CASE UNCHANGED users
  BY <1>1, <1>2 DEF Manages
<1>3. ASSUME NEW a \in Accounts, SetupWrites(a), ~UNCHANGED users
      PROVE  \E m \in DOMAIN users' : Manages(m)'
  <2>1. /\ keys < MaxKeys /\ keys' = keys + 1
        /\ users' = WithUser(a, NewUser(Permissions, "admin", keys'))
    BY <1>3 DEF SetupWrites
  <2>2. "admin" \in DOMAIN Presets0 /\ "manage:users" \in Permissions /\ Permissions \in SUBSET Permissions
    BY Assumed
  <2>3. DOMAIN users' = DOMAIN users \cup {a} /\ users'[a] = NewUser(Permissions, "admin", keys')
    BY <2>1, <2>2, NewRow
  <2>4. NewUser(Permissions, "admin", keys').permissions = Permissions
    BY DEF NewUser
  <2>5. users'[a].permissions = Permissions /\ a \in DOMAIN users'
    BY <2>3, <2>4
  <2> QED BY <2>2, <2>5 DEF Manages
<1>4. ASSUME NEW u \in Accounts, NEW a \in Persons, NEW p \in DOMAIN Presets0, NEW held,
             AddUser(u, a, p, held)
      PROVE  \E m \in DOMAIN users' : Manages(m)'
  <2>1. /\ keys < MaxKeys /\ keys' = keys + 1 /\ users' = WithUser(a, NewUser(held, p, keys'))
        /\ a \notin DOMAIN users /\ Manages(u)
    BY <1>4 DEF AddUser
  <2>2. held \in SUBSET Permissions /\ a \in Accounts
    BY <1>4, AddedHolds DEF Accounts
  <2>3. u \in DOMAIN users
    BY <2>1 DEF Manages
  <2> QED BY <2>1, <2>2, <2>3, ManagerStays
<1>5. ASSUME NEW u \in Accounts, Mints(u), ~UNCHANGED users
      PROVE  \E m \in DOMAIN users' : Manages(m)'
  <2> DEFINE w == visit[u]
             held == presets[w.preset]
  <2>1. Makes(u)
    BY <1>5, MakesOrEnds
  <2>2. /\ w.pc = "registering" /\ keys < MaxKeys /\ keys' = keys + 1
        /\ w.handle \notin DOMAIN users /\ w.handle \in Accounts /\ w.preset \in DOMAIN Presets0
        /\ held \in SUBSET Permissions /\ users' = WithUser(w.handle, NewUser(held, w.preset, keys'))
    BY <2>1, MakesIs DEF Accounts
  <2>3. PICK m \in DOMAIN users : Manages(m)
    BY <1>0, <1>1, <2>2 DEF ManagedInv
  <2> HIDE DEF w, held
  <2> QED BY <2>2, <2>3, ManagerStays
<1>6. ASSUME NEW u \in Accounts, PutWrites(u), ~UNCHANGED users
      PROVE  \E m \in DOMAIN users' : Manages(m)'
  <2> DEFINE w == visit[u]
  <2>1. /\ w.pc = "putting" /\ w.whose \in DOMAIN users
        /\ users' = [users EXCEPT ![w.whose].permissions = w.held]
        /\ strayed' = (strayed \/ ~Manages(u))
    BY <1>6 DEF PutWrites
  <2>2. w.whose # u
    BY <2>1 DEF ManagedInv
  <2>3. Manages(u)
    BY <2>1 DEF Orderly
  <2>4. u \in DOMAIN users
    BY <2>3 DEF Manages
  <2>5. u \in DOMAIN users' /\ users'[u] = users[u]
    BY <2>1, <2>2, <2>4
  <2> QED BY <2>3, <2>5 DEF Manages
<1>7. ASSUME NEW u \in Accounts, Adopts(u) PROVE \E m \in DOMAIN users' : Manages(m)'
  <2> DEFINE a == visit[u].handle
  <2>1. users' = [users EXCEPT ![a].kind = "agent", ![a].owner = u]
    BY <1>7 DEF Adopts
  <2>2. DOMAIN users' = DOMAIN users
    BY <2>1
  <2>3. \A b \in DOMAIN users :
          users'[b] = IF b = a THEN [users[b] EXCEPT !.kind = "agent", !.owner = u] ELSE users[b]
    BY <2>1, Known
  <2>4. \A b \in DOMAIN users : users[b] \in UserRow
    BY Known
  <2>5. \A row \in UserRow :
          [row EXCEPT !.kind = "agent", !.owner = u].permissions = row.permissions
    BY DEF UserRow
  <2>6. \A b \in DOMAIN users : users'[b].permissions = users[b].permissions
    BY <2>3, <2>4, <2>5
  <2> QED BY <1>1, <2>2, <2>6 DEF Manages
<1>8. ASSUME NEW u \in Accounts, NEW a \in Handles, RotateHarness(u, a)
      PROVE  \E m \in DOMAIN users' : Manages(m)'
  <2>1. users' = [users EXCEPT ![a].key = keys']
    BY <1>8 DEF RotateHarness
  <2>2. DOMAIN users' = DOMAIN users
    BY <2>1
  <2>3. \A b \in DOMAIN users :
          users'[b] = IF b = a THEN [users[b] EXCEPT !.key = keys'] ELSE users[b]
    BY <2>1
  <2>4. \A b \in DOMAIN users : users[b] \in UserRow
    BY Known
  <2>5. \A row \in UserRow : [row EXCEPT !.key = keys'].permissions = row.permissions
    BY DEF UserRow
  <2>6. \A b \in DOMAIN users : users'[b].permissions = users[b].permissions
    BY <2>3, <2>4, <2>5
  <2> QED BY <1>1, <2>2, <2>6 DEF Manages
<1>9. ASSUME NEW u \in Accounts, NEW a \in Handles, DeleteHarness(u, a)
      PROVE  \E m \in DOMAIN users' : Manages(m)'
  <2>1. /\ users' = [b \in DOMAIN users \ {a} |-> users[b]] /\ retired' = (retired \/ Manages(a))
        /\ a \in DOMAIN users
    BY <1>9 DEF DeleteHarness, MayTend
  <2>2. PICK m \in DOMAIN users : Manages(m)
    BY <1>1, <2>1
  <2>3. m # a
    BY <2>1, <2>2 DEF Orderly
  <2>4. m \in DOMAIN users' /\ users'[m] = users[m]
    BY <2>1, <2>2, <2>3
  <2> QED BY <2>2, <2>4 DEF Manages
<1>10. ASSUME \/ \E u \in Accounts : SetupReads(u) \/ Grants(u)
              \/ \E u \in Accounts, a \in Accounts, held \in Bundles : PutReads(u, a, held)
              \/ \E u \in Accounts, p \in DOMAIN Presets0, held \in Bundles :
                   UpsertPreset(u, p, held)
              \/ \E u \in Accounts, p \in DOMAIN presets : RemovePreset(u, p)
              \/ \E u \in Accounts, g \in Devices, p \in DOMAIN presets : ApproveReads(u, g, p)
              \/ \E u \in Accounts, a \in Handles, p \in DOMAIN presets : RegisterReads(u, a, p)
              \/ \E g \in Devices :
                   DeviceStart(g) \/ Expire(g) \/ \E p \in Pollers : PollReads(p, g)
              \/ \E p \in Pollers : PollWrites(p)
              \/ Fall \/ UNCHANGED directoryVars
       PROVE  UNCHANGED users
  BY <1>10 DEF SetupReads, Grants, PutReads, UpsertPreset, RemovePreset, ApproveReads,
               RegisterReads,
               DeviceStart, Expire, PollReads, PollWrites, Fall, directoryVars
<1> QED BY <1>2, <1>3, <1>4, <1>5, <1>6, <1>7, <1>8, <1>9, <1>10 DEF DirectoryNext

LEMMA StepWhose ==
  ASSUME TypeInv, ManagedInv, [DirectoryNext]_directoryVars,
         NEW u \in Accounts, (visit[u].pc = "putting")'
  PROVE  (visit[u].whose # u)'
<1>0. visit \in [Accounts \cup Pollers -> VisitRow(keys)] /\ Pollers \cap Accounts = {}
  BY Known, Assumed
<1>1. CASE visit'[u] = visit[u]
  BY <1>1 DEF ManagedInv
<1>2. ASSUME NEW v \in Accounts \cup Pollers, NEW w, visit' = [visit EXCEPT ![v] = w],
             w.pc # "putting"
      PROVE  visit'[u] = visit[u]
  BY <1>0, <1>2
<1>3. ASSUME NEW v \in Accounts \cup Pollers, visit' = [visit EXCEPT ![v] = Away]
      PROVE  visit'[u] = visit[u]
  <2>1. Away.pc # "putting"
    BY DEF Away
  <2> QED BY <1>2, <1>3, <2>1
<1>4. ASSUME NEW v \in Accounts, NEW a \in Accounts, NEW held \in Bundles, PutReads(v, a, held)
      PROVE  (visit[u].whose # u)'
  <2> DEFINE w == [pc |-> "putting", whose |-> a, held |-> held, seen |-> users[a].permissions]
  <2>1. visit' = [visit EXCEPT ![v] = w] /\ w.whose # v
    BY <1>4 DEF PutReads
  <2> HIDE DEF w
  <2>2. CASE u = v
    BY <1>0, <2>1, <2>2
  <2>3. CASE u # v
    <3>1. visit'[u] = visit[u]
      BY <1>0, <2>1, <2>3
    <3> QED BY <1>1, <3>1
  <2> QED BY <2>2, <2>3
<1>5. ASSUME NEW v \in Accounts, SetupReads(v) PROVE visit'[u] = visit[u]
  <2> DEFINE w == [pc |-> "setup"]
  <2>1. visit' = [visit EXCEPT ![v] = w] /\ w.pc # "putting"
    BY <1>5 DEF SetupReads
  <2> HIDE DEF w
  <2> QED BY <1>2, <2>1
<1>6. ASSUME NEW v \in Accounts, NEW p,
             \/ \E a \in Handles : RegisterReads(v, a, p)
             \/ \E g \in Devices : ApproveReads(v, g, p)
      PROVE  visit'[u] = visit[u]
  <2>1. PICK d, a : visit' = [visit EXCEPT ![v] = Registering(d, a, p)]
    BY <1>6 DEF RegisterReads, ApproveReads
  <2>2. Registering(d, a, p).pc # "putting"
    BY DEF Registering
  <2> QED BY <1>2, <2>1, <2>2
<1>7. ASSUME NEW v \in Accounts, Mints(v) PROVE visit'[u] = visit[u]
  <2>1. \/ visit' = [visit EXCEPT ![v] = Away]
        \/ \E w : visit' = [visit EXCEPT ![v] = w] /\ w.pc = "adopting"
    BY <1>7 DEF Mints
  <2> QED BY <1>2, <1>3, <2>1
<1>8. ASSUME NEW v \in Accounts, Adopts(v) PROVE visit'[u] = visit[u]
  <2> DEFINE w == [visit[v] EXCEPT !.pc = "granting"]
  <2>1. visit[v].pc = "adopting" /\ visit' = [visit EXCEPT ![v] = IF visit[v].device = "" THEN Away ELSE w]
    BY <1>8 DEF Adopts
  <2>2. visit[v] \in [pc : {"adopting", "granting"}, device : Target, handle : Handles, key : 1..keys]
    BY <1>0, <2>1, AdoptingIs
  <2>3. w.pc # "putting"
    BY <2>2
  <2> HIDE DEF w
  <2> QED BY <1>2, <1>3, <2>1, <2>3
<1>9. ASSUME NEW p \in Pollers, NEW g \in Devices, PollReads(p, g) PROVE visit'[u] = visit[u]
  <2> DEFINE w == [pc |-> "polling", device |-> g, seen |-> grants[g]]
  <2>1. visit' = [visit EXCEPT ![p] = w] /\ w.pc # "putting"
    BY <1>9 DEF PollReads
  <2> HIDE DEF w
  <2> QED BY <1>2, <2>1
<1>10. ~Fall
  BY <1>0 DEF Fall, Away
<1>11. ASSUME NEW v \in Accounts, SetupWrites(v) \/ PutWrites(v) \/ Grants(v)
       PROVE  visit'[u] = visit[u]
  BY <1>3, <1>11 DEF SetupWrites, PutWrites, Grants
<1>12. ASSUME NEW p \in Pollers, PollWrites(p) PROVE visit'[u] = visit[u]
  BY <1>3, <1>12 DEF PollWrites
<1>13. ASSUME \/ \E v, a, p, held : AddUser(v, a, p, held)
              \/ \E v \in Accounts, p \in DOMAIN Presets0, held \in Bundles :
                   UpsertPreset(v, p, held)
              \/ \E v \in Accounts, p \in DOMAIN presets : RemovePreset(v, p)
              \/ \E v \in Accounts, a \in Handles : RotateHarness(v, a) \/ DeleteHarness(v, a)
              \/ \E g \in Devices : DeviceStart(g) \/ Expire(g)
              \/ UNCHANGED directoryVars
       PROVE  visit'[u] = visit[u]
  BY <1>13 DEF AddUser, UpsertPreset, RemovePreset, RotateHarness, DeleteHarness, DeviceStart,
               Expire,
               directoryVars
<1> QED BY <1>1, <1>4, <1>5, <1>6, <1>7, <1>8, <1>9, <1>10, <1>11, <1>12, <1>13 DEF DirectoryNext

\* Whoever registers an agent is there, and whoever was there is followed by somebody.
LEMMA StepSomebody ==
  ASSUME TypeInv, ManagedInv, [DirectoryNext]_directoryVars, Orderly', DOMAIN users' = {},
         NEW u \in Accounts
  PROVE  (visit[u].pc # "registering")'
<1>0. visit \in [Accounts \cup Pollers -> VisitRow(keys)] /\ Pollers \cap Accounts = {}
  BY Known, Assumed
<1>1. Orderly
  BY Zenon, StepOrderly
<1>2. DOMAIN users = {}
  <2>1. CASE DOMAIN users \subseteq DOMAIN users'
    BY <2>1
  <2>2. ASSUME NEW v \in Accounts, NEW a \in Handles, DeleteHarness(v, a) PROVE DOMAIN users = {}
    <3>1. DOMAIN users' = DOMAIN users \ {a} /\ retired' = (retired \/ Manages(a))
      BY <2>2 DEF DeleteHarness
    <3>2. DOMAIN users # {} => \E m \in DOMAIN users : Manages(m)
      BY <1>1 DEF ManagedInv, SomebodyManagesUsers, Orderly
    <3>3. ~Manages(a)
      BY <3>1 DEF Orderly
    <3> QED BY <3>1, <3>2, <3>3
  <2>3. ASSUME NEW v \in Accounts,
               \/ SetupWrites(v) \/ PutWrites(v) \/ Mints(v) \/ Adopts(v)
               \/ \E a, p, held : AddUser(v, a, p, held)
               \/ \E a \in Handles : RotateHarness(v, a)
        PROVE  DOMAIN users \subseteq DOMAIN users'
    BY <2>3 DEF WithUser, SetupWrites, PutWrites, Mints, Adopts, AddUser, RotateHarness
  <2>4. ASSUME \/ \E v \in Accounts : SetupReads(v) \/ Grants(v)
               \/ \E v \in Accounts, a \in Accounts, held \in Bundles : PutReads(v, a, held)
               \/ \E v \in Accounts, p \in DOMAIN Presets0, held \in Bundles :
                    UpsertPreset(v, p, held)
               \/ \E v \in Accounts, p \in DOMAIN presets : RemovePreset(v, p)
               \/ \E v \in Accounts, g \in Devices, p \in DOMAIN presets : ApproveReads(v, g, p)
               \/ \E v \in Accounts, a \in Handles, p \in DOMAIN presets : RegisterReads(v, a, p)
               \/ \E g \in Devices :
                    DeviceStart(g) \/ Expire(g) \/ \E p \in Pollers : PollReads(p, g)
               \/ \E p \in Pollers : PollWrites(p)
               \/ Fall \/ UNCHANGED directoryVars
        PROVE  UNCHANGED users
    BY <2>4 DEF SetupReads, Grants, PutReads, UpsertPreset, RemovePreset, ApproveReads,
                RegisterReads,
                DeviceStart, Expire, PollReads, PollWrites, Fall, directoryVars
  <2> QED BY <2>1, <2>2, <2>3, <2>4 DEF DirectoryNext
<1>3. CASE visit'[u] = visit[u]
  BY <1>1, <1>2, <1>3 DEF ManagedInv
<1>4. CASE visit'[u] = Away
  BY <1>4 DEF Away
<1>5. ASSUME NEW v \in Accounts \cup Pollers, NEW w, visit' = [visit EXCEPT ![v] = w],
             w.pc # "registering"
      PROVE  (visit[u].pc # "registering")'
  BY <1>0, <1>3, <1>5
<1>6. ASSUME NEW v \in Accounts,
             SetupReads(v) \/ \E a \in Accounts, held \in Bundles : PutReads(v, a, held)
      PROVE  (visit[u].pc # "registering")'
  <2>1. CASE SetupReads(v)
    <3> DEFINE w == [pc |-> "setup"]
    <3>1. visit' = [visit EXCEPT ![v] = w] /\ w.pc # "registering"
      BY <2>1 DEF SetupReads
    <3> HIDE DEF w
    <3> QED BY <1>5, <3>1
  <2>2. ASSUME NEW a \in Accounts, NEW held \in Bundles, PutReads(v, a, held)
        PROVE  (visit[u].pc # "registering")'
    <3> DEFINE w == [pc |-> "putting", whose |-> a, held |-> held, seen |-> users[a].permissions]
    <3>1. visit' = [visit EXCEPT ![v] = w] /\ w.pc # "registering"
      BY <2>2 DEF PutReads
    <3> HIDE DEF w
    <3> QED BY <1>5, <3>1
  <2> QED BY <1>6, <2>1, <2>2
<1>7. ASSUME NEW v \in Accounts, Adopts(v) PROVE (visit[u].pc # "registering")'
  <2>1. visit[v].pc = "adopting"
    BY <1>7 DEF Adopts
  <2>2. visit[v].handle \in Handles /\ visit[v] \in VisitRow(keys)
    BY <1>0, <2>1, VisitAt
  <2> DEFINE w == [visit[v] EXCEPT !.pc = "granting"]
  <2>3. visit' = [visit EXCEPT ![v] = IF visit[v].device = "" THEN Away ELSE w]
    BY <1>7 DEF Adopts
  <2>4. visit[v] \in [pc : {"adopting", "granting"}, device : Target, handle : Handles, key : 1..keys]
    BY <1>0, <2>1, AdoptingIs
  <2>5. w.pc # "registering"
    BY <2>4
  <2> HIDE DEF w
  <2>6. Away.pc # "registering"
    BY DEF Away
  <2> QED BY <1>5, <2>3, <2>5, <2>6
<1>8. ASSUME NEW v \in Accounts, Mints(v) PROVE (visit[u].pc # "registering")'
  <2>1. \/ visit' = [visit EXCEPT ![v] = Away]
        \/ \E w : visit' = [visit EXCEPT ![v] = w] /\ w.pc = "adopting"
    BY <1>8 DEF Mints
  <2>2. Away.pc # "registering"
    BY DEF Away
  <2> QED BY <1>5, <2>1, <2>2
<1>9. ASSUME NEW p \in Pollers, NEW g \in Devices, PollReads(p, g)
      PROVE  (visit[u].pc # "registering")'
  <2> DEFINE w == [pc |-> "polling", device |-> g, seen |-> grants[g]]
  <2>1. visit' = [visit EXCEPT ![p] = w] /\ w.pc # "registering"
    BY <1>9 DEF PollReads
  <2> HIDE DEF w
  <2> QED BY <1>5, <2>1
<1>10. CASE Fall
  <2>1. visit'[u] = Away
    BY <1>10 DEF Fall
  <2> QED BY <1>4, <2>1
<1>11. ASSUME \/ \E v \in Accounts : SetupWrites(v) \/ PutWrites(v) \/ Grants(v)
              \/ \E p \in Pollers : PollWrites(p)
       PROVE  (visit[u].pc # "registering")'
  <2>1. \E v \in Accounts \cup Pollers : visit' = [visit EXCEPT ![v] = Away]
    BY <1>11 DEF SetupWrites, PutWrites, Grants, PollWrites
  <2> QED BY <1>0, <1>3, <1>4, <2>1
<1>12. ~\E v \in Accounts, p \in DOMAIN presets :
          \/ \E a \in Handles : RegisterReads(v, a, p)
          \/ \E g \in Devices : ApproveReads(v, g, p)
  BY <1>2 DEF RegisterReads, ApproveReads
<1>13. ASSUME \/ \E v, a, p, held : AddUser(v, a, p, held)
              \/ \E v \in Accounts, p \in DOMAIN Presets0, held \in Bundles :
                   UpsertPreset(v, p, held)
              \/ \E v \in Accounts, p \in DOMAIN presets : RemovePreset(v, p)
              \/ \E v \in Accounts, a \in Handles : RotateHarness(v, a) \/ DeleteHarness(v, a)
              \/ \E g \in Devices : DeviceStart(g) \/ Expire(g)
              \/ UNCHANGED directoryVars
       PROVE  visit'[u] = visit[u]
  BY <1>13 DEF AddUser, UpsertPreset, RemovePreset, RotateHarness, DeleteHarness, DeviceStart,
               Expire,
               directoryVars
<1> QED BY <1>3, <1>6, <1>7, <1>8, <1>9, <1>10, <1>11, <1>12, <1>13 DEF DirectoryNext

(***************************************************************************)
(* Somebody manages users: whoever changes permissions or adds people      *)
(* manages users and still does afterwards, since nobody changes their     *)
(* own; and the first account holds everything.                            *)
(***************************************************************************)
THEOREM PermissionsAreNotLocked == DirectorySpec => []SomebodyManagesUsers
<1>1. DirectoryInit => ManagedInv
  <2>1. DirectoryInit => DOMAIN users = {} /\ \A u \in Accounts : visit[u].pc = "idle"
    BY DEF DirectoryInit, Away
  <2> QED BY <2>1 DEF ManagedInv, SomebodyManagesUsers
<1>2. TypeInv /\ ManagedInv /\ [DirectoryNext]_directoryVars => ManagedInv'
  <2> SUFFICES ASSUME TypeInv, ManagedInv, [DirectoryNext]_directoryVars PROVE ManagedInv'
    OBVIOUS
  <2>1. SomebodyManagesUsers'
    <3>1. Orderly' /\ DOMAIN users' # {} => \E m \in DOMAIN users' : Manages(m)'
      BY StepManaged
    <3> QED BY <3>1 DEF SomebodyManagesUsers, Orderly
  <2>2. \A u \in Accounts : (visit[u].pc = "putting" => visit[u].whose # u)'
    BY StepWhose
  <2>3. Orderly' => \A u \in Accounts : (visit[u].pc = "registering" => DOMAIN users # {})'
    BY StepSomebody
  <2> QED BY <2>1, <2>2, <2>3 DEF ManagedInv
<1>3. ManagedInv => SomebodyManagesUsers
  BY DEF ManagedInv
<1> QED BY <1>1, <1>2, <1>3, AlwaysTyped, PTL DEF DirectorySpec

-----------------------------------------------------------------------------
(* Tokens, and the accounts of agents. *)

AdoptingRow(w, key) == [pc |-> "adopting", device |-> w.device, handle |-> w.handle, key |-> key]

\* A registration for a device is of the handle that the device asked for.
ForItsHandle(w) == w.device # "" => w.handle = HandleOf[w.device]

\* How a request goes on.
GoesOn(u) ==
  \/ visit'[u] = visit[u]
  \/ Fall /\ visit'[u] = Away
  \/ visit'[u] = Away /\ visit[u].pc \notin {"adopting", "idle"}
  \/ /\ visit[u].pc = "idle" /\ visit'[u].pc \in {"setup", "putting", "registering", "polling"}
     /\ visit'[u].pc = "setup" => u \in Persons
     /\ visit'[u].pc = "registering" => ForItsHandle(visit'[u])
     /\ visit'[u].pc = "polling" =>
          /\ visit'[u].device \in DOMAIN grants /\ visit'[u].seen = grants[visit'[u].device]
          /\ grants[visit'[u].device].status = "approved"
  \/ /\ Makes(u) /\ u \in Accounts /\ keys' = keys + 1
     /\ visit'[u] = AdoptingRow(visit[u], keys')
  \/ /\ Adopts(u) /\ u \in Accounts
     /\ visit'[u] = Away \/ visit'[u] = [visit[u] EXCEPT !.pc = "granting"]

LEMMA RequestsGoOn ==
  ASSUME TypeInv, [DirectoryNext]_directoryVars, NEW u \in Accounts \cup Pollers
  PROVE  GoesOn(u)
<1>0. visit \in [Accounts \cup Pollers -> VisitRow(keys)] /\ Pollers \cap Accounts = {}
  BY Known, Assumed
<1>1. CASE visit'[u] = visit[u]
  BY <1>1 DEF GoesOn
<1>2. ASSUME NEW v \in Accounts \cup Pollers, NEW w, visit' = [visit EXCEPT ![v] = w]
      PROVE  visit'[u] = visit[u] \/ (u = v /\ visit'[u] = w)
  BY <1>0, <1>2
<1>3. ASSUME NEW v \in Accounts \cup Pollers, NEW w, visit' = [visit EXCEPT ![v] = w],
             visit[v].pc = "idle",
             w.pc \in {"setup", "putting", "registering", "polling"},
             w.pc = "setup" => v \in Persons, w.pc = "registering" => ForItsHandle(w),
             w.pc = "polling" => /\ w.device \in DOMAIN grants /\ w.seen = grants[w.device]
                                 /\ grants[w.device].status = "approved"
      PROVE  GoesOn(u)
  BY <1>1, <1>2, <1>3 DEF GoesOn
<1>4. ASSUME NEW v \in Accounts, SetupReads(v) PROVE GoesOn(u)
  <2> DEFINE w == [pc |-> "setup"]
  <2>1. visit' = [visit EXCEPT ![v] = w] /\ w.pc = "setup" /\ visit[v] = Away /\ v \in Persons
    BY <1>4 DEF SetupReads, Arrives
  <2>2. visit[v].pc = "idle"
    BY <2>1 DEF Away
  <2> HIDE DEF w
  <2> QED BY <1>3, <2>1, <2>2
<1>5. ASSUME NEW v \in Accounts, NEW a \in Accounts, NEW held \in Bundles, PutReads(v, a, held)
      PROVE  GoesOn(u)
  <2> DEFINE w == [pc |-> "putting", whose |-> a, held |-> held, seen |-> users[a].permissions]
  <2>1. visit' = [visit EXCEPT ![v] = w] /\ w.pc = "putting" /\ visit[v] = Away
    BY <1>5 DEF PutReads, Arrives
  <2>2. visit[v].pc = "idle"
    BY <2>1 DEF Away
  <2> HIDE DEF w
  <2> QED BY <1>3, <2>1, <2>2
<1>6. ASSUME NEW v \in Accounts, NEW p,
             \/ \E a \in Handles : RegisterReads(v, a, p)
             \/ \E g \in Devices : ApproveReads(v, g, p)
      PROVE  GoesOn(u)
  <2>1. PICK d, a : /\ visit' = [visit EXCEPT ![v] = Registering(d, a, p)]
                    /\ d # "" => a = HandleOf[d]
    BY <1>6 DEF RegisterReads, ApproveReads
  <2>2. Registering(d, a, p).pc = "registering" /\ ForItsHandle(Registering(d, a, p))
    BY <2>1 DEF Registering, ForItsHandle
  <2>3. visit[v] = Away
    BY <1>6 DEF RegisterReads, ApproveReads, Arrives
  <2>4. visit[v].pc = "idle"
    BY <2>3 DEF Away
  <2> QED BY <1>3, <2>1, <2>2, <2>4
<1>7. ASSUME NEW v \in Pollers, NEW g \in Devices, PollReads(v, g) PROVE GoesOn(u)
  <2> DEFINE w == [pc |-> "polling", device |-> g, seen |-> grants[g]]
  <2>1. /\ visit' = [visit EXCEPT ![v] = w] /\ visit[v] = Away
        /\ w.pc = "polling" /\ w.device = g /\ w.seen = grants[g]
        /\ g \in DOMAIN grants /\ grants[g].status = "approved"
    BY <1>7 DEF PollReads, Arrives
  <2>2. visit[v].pc = "idle"
    BY <2>1 DEF Away
  <2> HIDE DEF w
  <2> QED BY <1>3, <2>1, <2>2
<1>8. ASSUME NEW v \in Accounts, Mints(v) PROVE GoesOn(u)
  <2>1. visit[v].pc = "registering"
    BY <1>8 DEF Mints
  <2>2. CASE ~Makes(v)
    <3>1. visit' = [visit EXCEPT ![v] = Away]
      BY <1>8, <2>2, MakesOrEnds
    <3> QED BY <1>1, <1>2, <2>1, <3>1 DEF GoesOn
  <2>3. CASE Makes(v)
    <3> DEFINE w == AdoptingRow(visit[v], keys')
    <3>1. visit' = [visit EXCEPT ![v] = w] /\ keys' = keys + 1
      BY <2>3, MakesIs DEF AdoptingRow
    <3>2. visit'[u] = visit[u] \/ (u = v /\ visit'[u] = w)
      BY <1>2, <3>1
    <3> QED BY <1>1, <2>3, <3>1, <3>2 DEF GoesOn
  <2> QED BY <2>2, <2>3
<1>9. ASSUME NEW v \in Accounts, Adopts(v) PROVE GoesOn(u)
  <2> DEFINE w == [visit[v] EXCEPT !.pc = "granting"]
  <2>1. visit' = [visit EXCEPT ![v] = Away] \/ visit' = [visit EXCEPT ![v] = w]
    BY <1>9 DEF Adopts
  <2> QED BY <1>1, <1>2, <1>9, <2>1 DEF GoesOn
<1>10. ASSUME NEW v \in Accounts \cup Pollers, visit' = [visit EXCEPT ![v] = Away],
              visit[v].pc \in {"setup", "putting", "granting", "polling"}
       PROVE  GoesOn(u)
  BY <1>1, <1>2, <1>10 DEF GoesOn
<1>11. ASSUME NEW v \in Accounts, SetupWrites(v) \/ PutWrites(v) \/ Grants(v) PROVE GoesOn(u)
  BY <1>10, <1>11 DEF SetupWrites, PutWrites, Grants
<1>12. ASSUME NEW p \in Pollers, PollWrites(p) PROVE GoesOn(u)
  BY <1>10, <1>12 DEF PollWrites
<1>13. CASE Fall
  <2>1. visit'[u] = Away
    BY <1>13 DEF Fall
  <2> QED BY <1>13, <2>1 DEF GoesOn
<1>14. ASSUME \/ \E v, a, p, held : AddUser(v, a, p, held)
              \/ \E v \in Accounts, p \in DOMAIN Presets0, held \in Bundles :
                   UpsertPreset(v, p, held)
              \/ \E v \in Accounts, p \in DOMAIN presets : RemovePreset(v, p)
              \/ \E v \in Accounts, a \in Handles : RotateHarness(v, a) \/ DeleteHarness(v, a)
              \/ \E g \in Devices : DeviceStart(g) \/ Expire(g)
              \/ UNCHANGED directoryVars
       PROVE  visit'[u] = visit[u]
  BY <1>14 DEF AddUser, UpsertPreset, RemovePreset, RotateHarness, DeleteHarness, DeviceStart,
               Expire,
               directoryVars
<1> QED BY <1>1, <1>4, <1>5, <1>6, <1>7, <1>8, <1>9, <1>11, <1>12, <1>13, <1>14 DEF DirectoryNext

\* What requests are of.
RequestOf(u, w) ==
  /\ w.pc = "setup" => u \in Persons
  /\ w.pc = "polling" => w.seen.status = "approved" /\ w.seen.token > 0
  /\ w.pc \in {"registering", "adopting", "granting"} => ForItsHandle(w)

RequestInv == \A u \in Accounts \cup Pollers : RequestOf(u, visit[u])

\* A grant holds its token from the approval to the collection, and names its agent.
GrantInv(g) ==
  /\ g \notin DOMAIN grants => Len(handed[g]) = 0
  /\ \A k \in DOMAIN handed[g] : handed[g][k] > 0
  /\ g \in DOMAIN grants /\ grants[g].status = "approved" =>
       grants[g].token > 0 /\ grants[g].agent = HandleOf[g]
  /\ g \in DOMAIN grants \ collided =>
       Len(handed[g]) = (IF grants[g].status = "consumed" THEN 1 ELSE 0)

LEMMA StepRequests ==
  ASSUME TypeInv, RequestInv, \A g \in Devices : GrantInv(g), [DirectoryNext]_directoryVars
  PROVE  RequestInv'
<1> SUFFICES ASSUME NEW u \in Accounts \cup Pollers PROVE RequestOf(u, visit'[u])
  BY DEF RequestInv
<1>1. GoesOn(u) /\ RequestOf(u, visit[u])
  BY RequestsGoOn DEF RequestInv
<1>2. CASE visit'[u] = visit[u]
  BY <1>1, <1>2
<1>3. CASE visit'[u] = Away
  BY <1>3 DEF Away, RequestOf
<1>4. CASE /\ visit'[u].pc \in {"setup", "putting", "registering", "polling"}
           /\ visit'[u].pc = "setup" => u \in Persons
           /\ visit'[u].pc = "registering" => ForItsHandle(visit'[u])
           /\ visit'[u].pc = "polling" =>
                /\ visit'[u].device \in DOMAIN grants /\ visit'[u].seen = grants[visit'[u].device]
                /\ grants[visit'[u].device].status = "approved"
  <2>1. visit'[u].pc = "polling" => visit'[u].seen.status = "approved" /\ visit'[u].seen.token > 0
    <3> SUFFICES ASSUME visit'[u].pc = "polling"
                 PROVE  visit'[u].seen.status = "approved" /\ visit'[u].seen.token > 0
      OBVIOUS
    <3> DEFINE g == visit'[u].device
    <3>1. g \in DOMAIN grants /\ visit'[u].seen = grants[g] /\ grants[g].status = "approved"
      BY <1>4
    <3>2. g \in Devices
      BY <3>1, Known
    <3> HIDE DEF g
    <3>3. GrantInv(g)
      BY <3>2
    <3>4. grants[g].token > 0
      BY <3>1, <3>3 DEF GrantInv
    <3> QED BY <3>1, <3>4
  <2> QED BY <1>4, <2>1 DEF RequestOf
<1>5. CASE Makes(u) /\ u \in Accounts /\ visit'[u] = AdoptingRow(visit[u], keys')
  <2>1. visit[u].pc = "registering"
    BY <1>5, MakesIs
  <2>2. ForItsHandle(visit[u])
    BY <1>1, <2>1 DEF RequestOf
  <2>3. /\ visit'[u].pc = "adopting" /\ visit'[u].device = visit[u].device
        /\ visit'[u].handle = visit[u].handle
    BY <1>5 DEF AdoptingRow
  <2> QED BY <2>2, <2>3 DEF RequestOf, ForItsHandle
<1>6. CASE Adopts(u) /\ visit'[u] = [visit[u] EXCEPT !.pc = "granting"]
  <2>1. visit[u].pc = "adopting" /\ visit[u] \in VisitRow(keys)
    BY <1>6, Known DEF Adopts
  <2>2. visit[u] \in [pc : {"adopting", "granting"}, device : Target, handle : Handles, key : 1..keys]
    BY <2>1, AdoptingIs
  <2>3. /\ visit'[u].pc = "granting" /\ visit'[u].device = visit[u].device
        /\ visit'[u].handle = visit[u].handle
    BY <1>6, <2>2
  <2>4. ForItsHandle(visit[u])
    BY <1>1, <2>1 DEF RequestOf
  <2> QED BY <2>3, <2>4 DEF RequestOf, ForItsHandle
<1> QED BY <1>1, <1>2, <1>3, <1>4, <1>5, <1>6 DEF GoesOn

\* How the account of an agent comes, and whose it becomes.
AccountGoesOn(a) ==
  \/ a \in DOMAIN users /\ users'[a].kind = users[a].kind /\ users'[a].owner = users[a].owner
  \/ \E u \in Accounts : Mints(u) /\ visit'[u].pc = "adopting" /\ visit'[u].handle = a
  \/ \E u \in Accounts : Adopts(u) /\ users'[a].kind = "agent" /\ users'[a].owner = u

LEMMA AccountsGoOn ==
  ASSUME TypeInv, RequestInv, [DirectoryNext]_directoryVars, NEW a \in Handles, a \in DOMAIN users'
  PROVE  AccountGoesOn(a)
<1>0. /\ visit \in [Accounts \cup Pollers -> VisitRow(keys)] /\ Persons \cap Handles = {}
      /\ users = [b \in DOMAIN users |-> users[b]] /\ \A b \in DOMAIN users : users[b] \in UserRow
  BY Known, Assumed
<1>1. CASE a \in DOMAIN users /\ users'[a] = users[a]
  BY <1>1 DEF AccountGoesOn
<1>2. CASE UNCHANGED users
  BY <1>1, <1>2
<1>3. ASSUME NEW b \in Accounts \ {a}, NEW row, users' = WithUser(b, row) PROVE AccountGoesOn(a)
  BY <1>1, <1>3 DEF WithUser
<1>4. ASSUME NEW u \in Accounts, SetupWrites(u) PROVE AccountGoesOn(a)
  <2>1. u \in Persons
    BY <1>4 DEF SetupWrites, RequestInv, RequestOf
  <2>2. u \in Accounts \ {a}
    BY <1>0, <2>1
  <2>3. UNCHANGED users \/ users' = WithUser(u, NewUser(Permissions, "admin", keys'))
    BY <1>4 DEF SetupWrites
  <2> QED BY <1>2, <1>3, <2>2, <2>3
<1>5. ASSUME NEW u \in Accounts, NEW b \in Persons, NEW p, NEW held, AddUser(u, b, p, held)
      PROVE  AccountGoesOn(a)
  <2>1. b \in Accounts \ {a}
    BY <1>0 DEF Accounts
  <2>2. users' = WithUser(b, NewUser(held, p, keys'))
    BY <1>5 DEF AddUser
  <2> QED BY <1>3, <2>1, <2>2
<1>6. ASSUME NEW u \in Accounts, Mints(u) PROVE AccountGoesOn(a)
  <2> DEFINE w == visit[u]
             row == NewUser(presets[w.preset], w.preset, keys')
  <2>1. CASE ~Makes(u)
    BY <1>2, <1>6, <2>1, MakesOrEnds
  <2>2. CASE Makes(u)
    <3> DEFINE next == AdoptingRow(w, keys')
    <3>1. /\ visit' = [visit EXCEPT ![u] = next] /\ users' = WithUser(w.handle, row)
          /\ w.handle \in Accounts
      BY <2>2, MakesIs DEF AdoptingRow, Accounts
    <3>2. next.pc = "adopting" /\ next.handle = w.handle
      BY DEF AdoptingRow
    <3>3. visit'[u] = next
      BY <1>0, <3>1
    <3> HIDE DEF w, next, row
    <3>4. CASE a = w.handle
      BY <1>6, <3>2, <3>3, <3>4 DEF AccountGoesOn
    <3>5. CASE a # w.handle
      BY <1>3, <3>1, <3>5
    <3> QED BY <3>4, <3>5
  <2> QED BY <2>1, <2>2
<1>7. ASSUME NEW u \in Accounts, Adopts(u) PROVE AccountGoesOn(a)
  <2> DEFINE b == visit[u].handle
  <2>1. users' = [users EXCEPT ![b].kind = "agent", ![b].owner = u]
    BY <1>7 DEF Adopts
  <2>2. a \in DOMAIN users
    BY <2>1
  <2>3. users'[a] = IF a = b THEN [users[a] EXCEPT !.kind = "agent", !.owner = u] ELSE users[a]
    BY <1>0, <2>1, <2>2
  <2>4. users[a] \in UserRow
    BY <1>0, <2>2
  <2>5. \A row \in UserRow : /\ [row EXCEPT !.kind = "agent", !.owner = u].kind = "agent"
                               /\ [row EXCEPT !.kind = "agent", !.owner = u].owner = u
    BY DEF UserRow
  <2>6. CASE a = b
    <3>1. users'[a].kind = "agent" /\ users'[a].owner = u
      BY <2>3, <2>4, <2>5, <2>6
    <3> QED BY <1>7, <3>1 DEF AccountGoesOn
  <2>7. CASE a # b
    BY <1>1, <2>2, <2>3, <2>7
  <2> QED BY <2>6, <2>7
<1>8. ASSUME NEW u \in Accounts, PutWrites(u) PROVE AccountGoesOn(a)
  <2> DEFINE w == visit[u]
  <2>1. UNCHANGED users \/ users' = [users EXCEPT ![w.whose].permissions = w.held]
    BY <1>8 DEF PutWrites
  <2>2. CASE users' = [users EXCEPT ![w.whose].permissions = w.held]
    <3>1. a \in DOMAIN users
      BY <2>2
    <3>2. users'[a] = users[a] \/ users'[a] = [users[a] EXCEPT !.permissions = w.held]
      BY <1>0, <2>2, <3>1
    <3>3. users[a] \in UserRow
      BY <1>0, <3>1
    <3>4. \A row \in UserRow : /\ [row EXCEPT !.permissions = w.held].kind = row.kind
                                 /\ [row EXCEPT !.permissions = w.held].owner = row.owner
      BY DEF UserRow
    <3> QED BY <3>1, <3>2, <3>3, <3>4 DEF AccountGoesOn
  <2> QED BY <1>2, <2>1, <2>2
<1>9. ASSUME NEW u \in Accounts, NEW b \in Handles, RotateHarness(u, b) PROVE AccountGoesOn(a)
  <2>1. users' = [users EXCEPT ![b].key = keys']
    BY <1>9 DEF RotateHarness
  <2>2. a \in DOMAIN users
    BY <2>1
  <2>3. users'[a] = users[a] \/ users'[a] = [users[a] EXCEPT !.key = keys']
    BY <1>0, <2>1, <2>2
  <2>4. users[a] \in UserRow
    BY <1>0, <2>2
  <2>5. \A row \in UserRow :
          [row EXCEPT !.key = keys'].kind = row.kind /\ [row EXCEPT !.key = keys'].owner = row.owner
    BY DEF UserRow
  <2> QED BY <2>2, <2>3, <2>4, <2>5 DEF AccountGoesOn
<1>10. ASSUME NEW u \in Accounts, NEW b \in Handles, DeleteHarness(u, b) PROVE AccountGoesOn(a)
  <2>1. users' = [c \in DOMAIN users \ {b} |-> users[c]]
    BY <1>10 DEF DeleteHarness
  <2> QED BY <1>1, <2>1
<1>11. ASSUME \/ \E u \in Accounts : SetupReads(u) \/ Grants(u)
              \/ \E u \in Accounts, b \in Accounts, held \in Bundles : PutReads(u, b, held)
              \/ \E u \in Accounts, p \in DOMAIN Presets0, held \in Bundles :
                   UpsertPreset(u, p, held)
              \/ \E u \in Accounts, p \in DOMAIN presets : RemovePreset(u, p)
              \/ \E u \in Accounts, g \in Devices, p \in DOMAIN presets : ApproveReads(u, g, p)
              \/ \E u \in Accounts, b \in Handles, p \in DOMAIN presets : RegisterReads(u, b, p)
              \/ \E g \in Devices :
                   DeviceStart(g) \/ Expire(g) \/ \E p \in Pollers : PollReads(p, g)
              \/ \E p \in Pollers : PollWrites(p)
              \/ Fall \/ UNCHANGED directoryVars
       PROVE  UNCHANGED users
  BY <1>11 DEF SetupReads, Grants, PutReads, UpsertPreset, RemovePreset, ApproveReads,
               RegisterReads,
               DeviceStart, Expire, PollReads, PollWrites, Fall, directoryVars
<1> QED BY <1>2, <1>4, <1>5, <1>6, <1>7, <1>8, <1>9, <1>10, <1>11 DEF DirectoryNext

\* The account under an agent's handle is an agent's, or on its way to be.
Settled(a) ==
  \/ users[a].kind = "agent" /\ users[a].owner \in Accounts
  \/ a \in orphans
  \/ \E u \in Accounts : visit[u].pc = "adopting" /\ visit[u].handle = a

AgentsInv == \A a \in DOMAIN users \cap Handles : Settled(a)

LEMMA StepAgents ==
  ASSUME TypeInv, RequestInv, AgentsInv, [DirectoryNext]_directoryVars
  PROVE  AgentsInv'
<1> SUFFICES ASSUME NEW a \in Handles, a \in DOMAIN users' PROVE Settled(a)'
  BY DEF AgentsInv
<1>1. orphans \subseteq orphans'
  BY DEF DirectoryNext, directoryVars, SetupReads, SetupWrites, PutWrites, Mints, Adopts, Grants,
         PutReads,
         AddUser, UpsertPreset, RemovePreset, ApproveReads, RegisterReads, RotateHarness,
         DeleteHarness, DeviceStart, Expire, PollReads, PollWrites, Fall
<1>2. ASSUME NEW u \in Accounts, Mints(u), visit'[u].pc = "adopting", visit'[u].handle = a
      PROVE  Settled(a)'
  BY <1>2 DEF Settled
<1>3. ASSUME NEW u \in Accounts, users'[a].kind = "agent", users'[a].owner = u PROVE Settled(a)'
  BY <1>3 DEF Settled
<1>4. ASSUME a \in DOMAIN users, users'[a].kind = users[a].kind, users'[a].owner = users[a].owner
      PROVE  Settled(a)'
  <2>1. Settled(a)
    BY <1>4 DEF AgentsInv
  <2>2. CASE (users[a].kind = "agent" /\ users[a].owner \in Accounts) \/ a \in orphans
    BY <1>1, <1>4, <2>2 DEF Settled
  <2>3. ASSUME NEW u \in Accounts, visit[u].pc = "adopting", visit[u].handle = a PROVE Settled(a)'
    <3>1. GoesOn(u)
      BY RequestsGoOn
    <3>2. CASE visit'[u] = visit[u]
      BY <2>3, <3>2 DEF Settled
    <3>3. CASE Fall
      <4>1. a \in orphans'
        BY <2>3, <3>3 DEF Fall
      <4> QED BY <4>1 DEF Settled
    <3>4. CASE Adopts(u)
      <4>1. users' = [users EXCEPT ![a].kind = "agent", ![a].owner = u]
        BY <2>3, <3>4 DEF Adopts
      <4>2. users = [b \in DOMAIN users |-> users[b]] /\ users[a] \in UserRow
        BY <1>4, Known
      <4>3. users'[a] = [users[a] EXCEPT !.kind = "agent", !.owner = u]
        BY <1>4, <4>1, <4>2
      <4>4. users'[a].kind = "agent" /\ users'[a].owner = u
        BY <4>2, <4>3 DEF UserRow
      <4> QED BY <1>3, <4>4
    <3>5. ~Makes(u)
      BY <2>3 DEF Makes, Mints
    <3> QED BY <2>3, <3>1, <3>2, <3>3, <3>4, <3>5 DEF GoesOn
  <2> QED BY <2>1, <2>2, <2>3 DEF Settled
<1>5. AccountGoesOn(a)
  BY AccountsGoOn
<1> QED BY <1>2, <1>3, <1>4, <1>5 DEF AccountGoesOn

LEMMA StepGrants ==
  ASSUME TypeInv, AskedFor, RequestInv, NEW g \in Devices, GrantInv(g),
         [DirectoryNext]_directoryVars
  PROVE  GrantInv(g)'
<1>0. /\ grants = [h \in DOMAIN grants |-> grants[h]]
      /\ \A h \in DOMAIN grants : grants[h] \in GrantRow
      /\ handed \in [Devices -> Seq(0..keys)] /\ handed[g] \in Seq(0..keys)
  BY Known
<1>1. ASSUME UNCHANGED <<grants, handed, collided>> PROVE GrantInv(g)'
  BY <1>1 DEF GrantInv
<1>2. ASSUME NEW h \in Devices, DeviceStart(h) PROVE GrantInv(g)'
  <2> DEFINE row == [status |-> "pending", token |-> 0, agent |-> "", late |-> FALSE]
  <2>1. /\ h \notin DOMAIN grants
        /\ grants' = [d \in DOMAIN grants \cup {h} |-> IF d = h THEN row ELSE grants[d]]
        /\ UNCHANGED <<handed, collided>>
    BY <1>2 DEF DeviceStart
  <2>2. row.status = "pending"
    OBVIOUS
  <2> HIDE DEF row
  <2>3. CASE g = h
    <3>1. Len(handed[g]) = 0 /\ grants'[g] = row /\ g \in DOMAIN grants'
      BY <2>1, <2>3 DEF GrantInv
    <3>2. DOMAIN handed[g] = {}
      BY <1>0, <3>1
    <3> QED BY <2>1, <2>2, <3>1, <3>2 DEF GrantInv
  <2>4. CASE g # h
    BY <2>1, <2>4 DEF GrantInv
  <2> QED BY <2>3, <2>4
<1>3. ASSUME NEW h \in Devices, Expire(h) PROVE GrantInv(g)'
  <2>1. grants' = [grants EXCEPT ![h].late = TRUE] /\ UNCHANGED <<handed, collided>>
    BY <1>3 DEF Expire
  <2>2. DOMAIN grants' = DOMAIN grants
    BY <2>1
  <2>3. \A row \in GrantRow : /\ [row EXCEPT !.late = TRUE].status = row.status
                               /\ [row EXCEPT !.late = TRUE].token = row.token
                               /\ [row EXCEPT !.late = TRUE].agent = row.agent
    BY DEF GrantRow
  <2>4. ASSUME g \in DOMAIN grants
        PROVE  /\ grants'[g].status = grants[g].status /\ grants'[g].token = grants[g].token
               /\ grants'[g].agent = grants[g].agent
    <3>1. grants'[g] = grants[g] \/ grants'[g] = [grants[g] EXCEPT !.late = TRUE]
      BY <2>1, <2>4
    <3>2. grants[g] \in GrantRow
      BY <1>0, <2>4
    <3> QED BY <2>3, <3>1, <3>2
  <2> QED BY <2>1, <2>2, <2>4 DEF GrantInv
<1>4. ASSUME NEW u \in Accounts, Grants(u) PROVE GrantInv(g)'
  <2> DEFINE w == visit[u]
  <2>1. /\ w.pc = "granting" /\ UNCHANGED handed
        /\ grants' = [grants EXCEPT ![w.device].status = "approved", ![w.device].token = w.key, ![w.device].agent = w.handle]
        /\ collided' = IF grants[w.device].status = "pending" THEN collided ELSE collided \cup {w.device}
    BY <1>4 DEF Grants
  <2>2. w \in VisitRow(keys)
    BY Known
  <2>3. w.key \in 1..keys /\ keys \in Nat
    BY <2>1, <2>2, VisitAt, KeysInNat
  <2>4. w.device \in DOMAIN grants
    BY <2>1 DEF AskedFor
  <2>a. w.device \in Devices /\ "" \notin Devices
    BY <2>4, Known, Assumed
  <2>b. ForItsHandle(w)
    BY <2>1 DEF RequestInv, RequestOf
  <2>8. w.handle = HandleOf[w.device]
    BY <2>a, <2>b DEF ForItsHandle
  <2> HIDE DEF w
  <2>5. DOMAIN grants' = DOMAIN grants
    BY <2>1
  <2>6. CASE g = w.device
    <3>1. grants'[g] = [grants[g] EXCEPT !.status = "approved", !.token = w.key, !.agent = w.handle]
      BY <1>0, <2>1, <2>4, <2>6
    <3>2. grants[g] \in GrantRow
      BY <1>0, <2>4, <2>6
    <3>3. /\ grants'[g].status = "approved" /\ grants'[g].token = w.key
          /\ grants'[g].agent = w.handle
      BY <3>1, <3>2 DEF GrantRow
    <3>4. g \notin collided' => g \notin collided /\ grants[g].status = "pending"
      BY <2>1, <2>6
    <3> QED BY <2>1, <2>3, <2>4, <2>5, <2>6, <2>8, <3>3, <3>4 DEF GrantInv
  <2>7. CASE g # w.device
    <3>1. g \in DOMAIN grants => grants'[g] = grants[g]
      BY <1>0, <2>1, <2>7
    <3>2. g \in collided <=> g \in collided'
      BY <2>1, <2>7
    <3> QED BY <2>1, <2>5, <3>1, <3>2 DEF GrantInv
  <2> QED BY <2>6, <2>7
<1>5. ASSUME NEW p \in Pollers, PollWrites(p) PROVE GrantInv(g)'
  <2> DEFINE w == visit[p]
  <2>1. /\ w.pc = "polling"
        /\ grants' = [grants EXCEPT ![w.device].status = "consumed", ![w.device].token = 0]
        /\ handed' = [handed EXCEPT ![w.device] = Append(handed[w.device], w.seen.token)]
        /\ collided' = IF grants[w.device] = w.seen THEN collided ELSE collided \cup {w.device}
    BY <1>5 DEF PollWrites
  <2>2. /\ w.seen.status = "approved" /\ w.seen.token > 0 /\ w.device \in DOMAIN grants
        /\ w.device \in Devices
    BY <2>1, Known DEF AskedFor, RequestInv, RequestOf
  <2> HIDE DEF w
  <2>3. DOMAIN grants' = DOMAIN grants
    BY <2>1
  <2>4. CASE g = w.device
    <3>1. grants'[g] = [grants[g] EXCEPT !.status = "consumed", !.token = 0]
      BY <1>0, <2>1, <2>2, <2>4
    <3>2. grants[g] \in GrantRow
      BY <1>0, <2>2, <2>4
    <3>3. grants'[g].status = "consumed"
      BY <3>1, <3>2 DEF GrantRow
    <3>4. handed'[g] = Append(handed[g], w.seen.token)
      BY <1>0, <2>1, <2>4
    <3>5. \A k \in DOMAIN handed[g] : handed[g][k] > 0
      BY DEF GrantInv
    <3>6. \A k \in DOMAIN handed'[g] : handed'[g][k] > 0
      BY <1>0, <2>2, <3>4, <3>5
    <3>7. g \notin collided' => Len(handed'[g]) = 1
      <4> SUFFICES ASSUME g \notin collided' PROVE Len(handed'[g]) = 1
        OBVIOUS
      <4>1. g \notin collided /\ grants[g] = w.seen
        BY <2>1, <2>4
      <4>2. Len(handed[g]) = 0
        BY <2>2, <2>4, <4>1 DEF GrantInv
      <4> QED BY <1>0, <3>4, <4>2
    <3> QED BY <2>2, <2>3, <2>4, <3>3, <3>6, <3>7 DEF GrantInv
  <2>5. CASE g # w.device
    <3>1. handed'[g] = handed[g] /\ (g \in DOMAIN grants => grants'[g] = grants[g])
      BY <1>0, <2>1, <2>2, <2>5
    <3>2. g \in collided <=> g \in collided'
      BY <2>1, <2>5
    <3> QED BY <2>3, <3>1, <3>2 DEF GrantInv
  <2> QED BY <2>4, <2>5
<1>6. ASSUME \/ \E u \in Accounts :
                  SetupReads(u) \/ SetupWrites(u) \/ PutWrites(u) \/ Mints(u) \/ Adopts(u)
             \/ \E u \in Accounts, a \in Accounts, held \in Bundles : PutReads(u, a, held)
             \/ \E u, a, p, held : AddUser(u, a, p, held)
             \/ \E u \in Accounts, p \in DOMAIN Presets0, held \in Bundles :
                  UpsertPreset(u, p, held)
             \/ \E u \in Accounts, p \in DOMAIN presets : RemovePreset(u, p)
             \/ \E u \in Accounts, h \in Devices, p \in DOMAIN presets : ApproveReads(u, h, p)
             \/ \E u \in Accounts, a \in Handles, p \in DOMAIN presets : RegisterReads(u, a, p)
             \/ \E u \in Accounts, a \in Handles : RotateHarness(u, a) \/ DeleteHarness(u, a)
             \/ \E h \in Devices, p \in Pollers : PollReads(p, h)
             \/ Fall \/ UNCHANGED directoryVars
      PROVE  UNCHANGED <<grants, handed, collided>>
  BY <1>6 DEF SetupReads, SetupWrites, PutWrites, Mints, Adopts, PutReads, AddUser, UpsertPreset,
              RemovePreset,
              ApproveReads, RegisterReads, RotateHarness, DeleteHarness, PollReads, Fall,
              directoryVars
<1> QED BY <1>1, <1>2, <1>3, <1>4, <1>5, <1>6 DEF DirectoryNext

\* Where a token is that was made for a device: with whoever registers its agent, in its
\* grant, with whoever collects it, or handed over.
Approving(g, k) ==
  \E u \in Accounts : /\ visit[u].pc \in {"adopting", "granting"}
                      /\ visit[u].device = g /\ visit[u].key = k
Granted(g, k) == g \in DOMAIN grants /\ grants[g].token = k
Collecting(g, k) ==
  \E p \in Pollers : visit[p].pc = "polling" /\ visit[p].device = g /\ visit[p].seen.token = k
Handed(g, k) == \E i \in DOMAIN handed[g] : handed[g][i] = k

Held(g, k) == Approving(g, k) \/ Granted(g, k) \/ Collecting(g, k) \/ Handed(g, k)

LEMMA InSequence ==
  ASSUME NEW S, NEW q \in Seq(S)
  PROVE  (\A i \in DOMAIN q : q[i] \in S) /\ (Len(q) = 1 => 1 \in DOMAIN q)
OBVIOUS

\* A token is made for the device of a registration.
MintedFor(g, k) == k = keys' /\ \E u \in Accounts : Makes(u) /\ visit[u].device = g

LEMMA ApprovingBefore ==
  ASSUME TypeInv, [DirectoryNext]_directoryVars, NEW g \in Devices, NEW k \in Nat, Approving(g, k)'
  PROVE  Approving(g, k) \/ MintedFor(g, k)
<1>1. PICK u \in Accounts : visit'[u].pc \in {"adopting", "granting"} /\ visit'[u].device = g /\ visit'[u].key = k
  BY DEF Approving
<1>2. GoesOn(u)
  BY RequestsGoOn
<1>3. Away.pc = "idle"
  BY DEF Away
<1>4. CASE visit'[u] = visit[u]
  BY <1>1, <1>4 DEF Approving
<1>5. CASE Makes(u) /\ keys' = keys + 1 /\ visit'[u] = AdoptingRow(visit[u], keys')
  <2>1. visit'[u].device = visit[u].device /\ visit'[u].key = keys'
    BY <1>5 DEF AdoptingRow
  <2> QED BY <1>1, <1>5, <2>1 DEF MintedFor
<1>6. CASE Adopts(u) /\ visit'[u] = [visit[u] EXCEPT !.pc = "granting"]
  <2>1. visit[u].pc = "adopting" /\ visit[u] \in VisitRow(keys)
    BY <1>6, Known DEF Adopts
  <2>2. visit[u] \in [pc : {"adopting", "granting"}, device : Target, handle : Handles, key : 1..keys]
    BY <2>1, AdoptingIs
  <2>3. visit'[u].device = visit[u].device /\ visit'[u].key = visit[u].key
    BY <1>6, <2>2
  <2> QED BY <1>1, <2>1, <2>3 DEF Approving
<1> QED BY <1>1, <1>2, <1>3, <1>4, <1>5, <1>6 DEF GoesOn

LEMMA CollectingBefore ==
  ASSUME TypeInv, [DirectoryNext]_directoryVars, NEW g \in Devices, NEW k \in Nat, Collecting(g, k)'
  PROVE  Collecting(g, k) \/ Granted(g, k)
<1>1. PICK p \in Pollers : visit'[p].pc = "polling" /\ visit'[p].device = g /\ visit'[p].seen.token = k
  BY DEF Collecting
<1>2. GoesOn(p) /\ p \notin Accounts
  BY RequestsGoOn, Assumed
<1>3. Away.pc = "idle"
  BY DEF Away
<1>4. CASE visit'[p] = visit[p]
  BY <1>1, <1>4 DEF Collecting
<1>5. CASE visit'[p].device \in DOMAIN grants /\ visit'[p].seen = grants[visit'[p].device]
  BY <1>1, <1>5 DEF Granted
<1> QED BY <1>1, <1>2, <1>3, <1>4, <1>5 DEF GoesOn

LEMMA GrantedBefore ==
  ASSUME TypeInv, AskedFor, [DirectoryNext]_directoryVars, NEW g \in Devices, NEW k \in Nat \ {0},
         Granted(g, k)'
  PROVE  Granted(g, k) \/ Approving(g, k)
<1>0. /\ grants = [h \in DOMAIN grants |-> grants[h]] /\ \A h \in DOMAIN grants :
                                                           grants[h] \in GrantRow
      /\ g \in DOMAIN grants' /\ grants'[g].token = k
  BY Known DEF Granted
<1>1. ASSUME UNCHANGED grants PROVE Granted(g, k)
  BY <1>0, <1>1 DEF Granted
<1>2. ASSUME NEW h \in Devices, DeviceStart(h) PROVE Granted(g, k)
  <2> DEFINE row == [status |-> "pending", token |-> 0, agent |-> "", late |-> FALSE]
  <2>1. grants' = [d \in DOMAIN grants \cup {h} |-> IF d = h THEN row ELSE grants[d]]
    BY <1>2 DEF DeviceStart
  <2>2. row.token = 0
    OBVIOUS
  <2> HIDE DEF row
  <2>3. g # h
    BY <1>0, <2>1, <2>2
  <2> QED BY <1>0, <2>1, <2>3 DEF Granted
<1>3. ASSUME NEW h \in Devices, Expire(h) PROVE Granted(g, k)
  <2>1. grants' = [grants EXCEPT ![h].late = TRUE]
    BY <1>3 DEF Expire
  <2>2. g \in DOMAIN grants
    BY <1>0, <2>1
  <2>3. grants'[g] = grants[g] \/ grants'[g] = [grants[g] EXCEPT !.late = TRUE]
    BY <2>1, <2>2
  <2>4. \A row \in GrantRow : [row EXCEPT !.late = TRUE].token = row.token
    BY DEF GrantRow
  <2> QED BY <1>0, <2>2, <2>3, <2>4 DEF Granted
<1>4. ASSUME NEW u \in Accounts, Grants(u) PROVE Granted(g, k) \/ Approving(g, k)
  <2> DEFINE w == visit[u]
  <2>1. /\ w.pc = "granting"
        /\ grants' = [grants EXCEPT ![w.device].status = "approved", ![w.device].token = w.key, ![w.device].agent = w.handle]
    BY <1>4 DEF Grants
  <2>2. g \in DOMAIN grants
    BY <1>0, <2>1
  <2>3. CASE g = w.device
    <3>1. grants'[g] = [grants[g] EXCEPT !.status = "approved", !.token = w.key, !.agent = w.handle]
      BY <1>0, <2>1, <2>2, <2>3
    <3>2. \A row \in GrantRow :
            [row EXCEPT !.status = "approved", !.token = w.key, !.agent = w.handle].token = w.key
      BY DEF GrantRow
    <3>3. w.key = k
      BY <1>0, <2>2, <3>1, <3>2
    <3> QED BY <2>1, <2>3, <3>3 DEF Approving
  <2>4. CASE g # w.device
    <3> HIDE DEF w
    <3>1. grants'[g] = grants[g]
      BY <1>0, <2>1, <2>2, <2>4
    <3> QED BY <1>0, <2>2, <3>1 DEF Granted
  <2> QED BY <2>3, <2>4
<1>5. ASSUME NEW p \in Pollers, PollWrites(p) PROVE Granted(g, k)
  <2> DEFINE d == visit[p].device
  <2>1. grants' = [grants EXCEPT ![d].status = "consumed", ![d].token = 0]
    BY <1>5 DEF PollWrites
  <2>2. g \in DOMAIN grants
    BY <1>0, <2>1
  <2>3. grants'[g] = IF g = d THEN [grants[g] EXCEPT !.status = "consumed", !.token = 0] ELSE grants[g]
    BY <1>0, <2>1, <2>2
  <2>4. \A row \in GrantRow : [row EXCEPT !.status = "consumed", !.token = 0].token = 0
    BY DEF GrantRow
  <2> HIDE DEF d
  <2> QED BY <1>0, <2>2, <2>3, <2>4 DEF Granted
<1>6. ASSUME \/ \E u \in Accounts :
                  SetupReads(u) \/ SetupWrites(u) \/ PutWrites(u) \/ Mints(u) \/ Adopts(u)
             \/ \E u \in Accounts, a \in Accounts, held \in Bundles : PutReads(u, a, held)
             \/ \E u, a, p, held : AddUser(u, a, p, held)
             \/ \E u \in Accounts, p \in DOMAIN Presets0, held \in Bundles :
                  UpsertPreset(u, p, held)
             \/ \E u \in Accounts, p \in DOMAIN presets : RemovePreset(u, p)
             \/ \E u \in Accounts, h \in Devices, p \in DOMAIN presets : ApproveReads(u, h, p)
             \/ \E u \in Accounts, a \in Handles, p \in DOMAIN presets : RegisterReads(u, a, p)
             \/ \E u \in Accounts, a \in Handles : RotateHarness(u, a) \/ DeleteHarness(u, a)
             \/ \E h \in Devices, p \in Pollers : PollReads(p, h)
             \/ Fall \/ UNCHANGED directoryVars
      PROVE  UNCHANGED grants
  BY <1>6 DEF SetupReads, SetupWrites, PutWrites, Mints, Adopts, PutReads, AddUser, UpsertPreset,
              RemovePreset,
              ApproveReads, RegisterReads, RotateHarness, DeleteHarness, PollReads, Fall,
              directoryVars
<1> QED BY <1>1, <1>2, <1>3, <1>4, <1>5, <1>6 DEF DirectoryNext

LEMMA HandedBefore ==
  ASSUME TypeInv, [DirectoryNext]_directoryVars, NEW g \in Devices, NEW k \in Nat, Handed(g, k)'
  PROVE  Handed(g, k) \/ Collecting(g, k)
<1>0. handed \in [Devices -> Seq(0..keys)] /\ handed[g] \in Seq(0..keys)
  BY Known
<1>1. ASSUME UNCHANGED handed PROVE Handed(g, k)
  BY <1>1 DEF Handed
<1>2. ASSUME NEW p \in Pollers, PollWrites(p) PROVE Handed(g, k) \/ Collecting(g, k)
  <2> DEFINE w == visit[p]
  <2>1. w.pc = "polling" /\ handed' = [handed EXCEPT ![w.device] = Append(handed[w.device], w.seen.token)]
    BY <1>2 DEF PollWrites
  <2>2. CASE g = w.device
    <3>1. handed'[g] = Append(handed[g], w.seen.token)
      BY <1>0, <2>1, <2>2
    <3>2. PICK i \in DOMAIN handed'[g] : handed'[g][i] = k
      BY DEF Handed
    <3>3. (i \in DOMAIN handed[g] /\ handed[g][i] = k) \/ w.seen.token = k
      <4> HIDE DEF w
      <4> QED BY <1>0, <3>1, <3>2
    <3> QED BY <2>1, <2>2, <3>3 DEF Handed, Collecting
  <2>3. CASE g # w.device
    <3>1. handed'[g] = handed[g]
      BY <1>0, <2>1, <2>3
    <3> QED BY <3>1 DEF Handed
  <2> QED BY <2>2, <2>3
<1>3. ASSUME \/ \E u \in Accounts : \/ SetupReads(u) \/ SetupWrites(u) \/ PutWrites(u)
                                    \/ Mints(u) \/ Adopts(u) \/ Grants(u)
             \/ \E u \in Accounts, a \in Accounts, held \in Bundles : PutReads(u, a, held)
             \/ \E u, a, p, held : AddUser(u, a, p, held)
             \/ \E u \in Accounts, p \in DOMAIN Presets0, held \in Bundles :
                  UpsertPreset(u, p, held)
             \/ \E u \in Accounts, p \in DOMAIN presets : RemovePreset(u, p)
             \/ \E u \in Accounts, h \in Devices, p \in DOMAIN presets : ApproveReads(u, h, p)
             \/ \E u \in Accounts, a \in Handles, p \in DOMAIN presets : RegisterReads(u, a, p)
             \/ \E u \in Accounts, a \in Handles : RotateHarness(u, a) \/ DeleteHarness(u, a)
             \/ \E h \in Devices : DeviceStart(h) \/ Expire(h) \/ \E p \in Pollers : PollReads(p, h)
             \/ Fall \/ UNCHANGED directoryVars
      PROVE  UNCHANGED handed
  BY <1>3 DEF SetupReads, SetupWrites, PutWrites, Mints, Adopts, Grants, PutReads, AddUser,
              UpsertPreset, RemovePreset,
              ApproveReads, RegisterReads, RotateHarness, DeleteHarness, DeviceStart, Expire,
              PollReads, Fall,
              directoryVars
<1> QED BY <1>1, <1>2, <1>3 DEF DirectoryNext

\* Where a token of a device may be, it was made for that device, and for no other.
MintedInv ==
  /\ minted \in [Devices -> SUBSET (1..keys)]
  /\ \A g, h \in Devices : g # h => minted[g] \cap minted[h] = {}
  /\ \A g \in Devices, k \in Nat \ {0} : Held(g, k) => k \in minted[g]

LEMMA MintedGrows ==
  ASSUME [DirectoryNext]_directoryVars
  PROVE  \/ UNCHANGED minted /\ (keys' = keys \/ keys' = keys + 1)
         \/ \E u \in Accounts : Makes(u)
<1>1. ASSUME NEW u \in Accounts, Mints(u), ~Makes(u) PROVE UNCHANGED <<keys, minted>>
  BY <1>1, MakesOrEnds
<1>2. ASSUME \/ \E u \in Accounts : \/ SetupReads(u) \/ SetupWrites(u) \/ PutWrites(u)
                                    \/ Adopts(u) \/ Grants(u)
             \/ \E u \in Accounts, a \in Accounts, held \in Bundles : PutReads(u, a, held)
             \/ \E u, a, p, held : AddUser(u, a, p, held)
             \/ \E u \in Accounts, p \in DOMAIN Presets0, held \in Bundles :
                  UpsertPreset(u, p, held)
             \/ \E u \in Accounts, p \in DOMAIN presets : RemovePreset(u, p)
             \/ \E u \in Accounts, h \in Devices, p \in DOMAIN presets : ApproveReads(u, h, p)
             \/ \E u \in Accounts, a \in Handles, p \in DOMAIN presets : RegisterReads(u, a, p)
             \/ \E u \in Accounts, a \in Handles : RotateHarness(u, a) \/ DeleteHarness(u, a)
             \/ \E h \in Devices : DeviceStart(h) \/ Expire(h) \/ \E p \in Pollers : PollReads(p, h)
             \/ \E p \in Pollers : PollWrites(p)
             \/ Fall \/ UNCHANGED directoryVars
      PROVE  UNCHANGED minted /\ (keys' = keys \/ keys' = keys + 1)
  BY Zenon, <1>2 DEF SetupReads, SetupWrites, PutWrites, Adopts, Grants, PutReads, AddUser,
     UpsertPreset, RemovePreset, ApproveReads, RegisterReads, RotateHarness, DeleteHarness,
     DeviceStart, Expire, PollReads, PollWrites, Fall, directoryVars
<1> QED BY <1>1, <1>2 DEF DirectoryNext

LEMMA StepMinted ==
  ASSUME TypeInv, AskedFor, MintedInv, [DirectoryNext]_directoryVars
  PROVE  MintedInv'
<1>0. keys \in Nat /\ minted \in [Devices -> SUBSET (1..keys)]
  BY KeysInNat DEF MintedInv
<1>1. /\ minted' \in [Devices -> SUBSET (1..keys')] /\ \A g \in Devices : minted[g] \subseteq minted'[g]
      /\ \A g, h \in Devices : g # h => minted'[g] \cap minted'[h] = {}
      /\ \A g \in Devices, k \in Nat : MintedFor(g, k) => k \in minted'[g]
  <2>1. CASE \E u \in Accounts : Makes(u)
    <3>1. PICK u \in Accounts : Makes(u)
      BY <2>1
    <3>2. /\ keys' = keys + 1 /\ visit[u].pc = "registering"
          /\ minted' = [g \in Devices |-> IF g = visit[u].device THEN minted[g] \cup {keys'}
                                          ELSE minted[g]]
          /\ visit' = [visit EXCEPT ![u] = AdoptingRow(visit[u], keys')]
      BY <3>1, MakesIs DEF AdoptingRow
    <3> DEFINE d == visit[u].device
    <3>3. \A v \in Accounts : Makes(v) => v = u
      <4> SUFFICES ASSUME NEW v \in Accounts, Makes(v), v # u PROVE FALSE
        OBVIOUS
      <4> DEFINE w == AdoptingRow(visit[u], keys')
                 x == AdoptingRow(visit[v], keys')
      <4>1. visit' = [visit EXCEPT ![u] = w] /\ visit' = [visit EXCEPT ![v] = x]
        BY <3>2, MakesIs DEF AdoptingRow
      <4>2. visit[v].pc = "registering" /\ x.pc = "adopting"
        BY MakesIs DEF AdoptingRow
      <4>3. visit \in [Accounts \cup Pollers -> VisitRow(keys)]
        BY Known
      <4> HIDE DEF w, x
      <4> QED BY <4>1, <4>2, <4>3
    <3>4. \A g \in Devices, k \in Nat : MintedFor(g, k) => k = keys' /\ g = d
      BY <3>3 DEF MintedFor
    <3> HIDE DEF d
    <3>5. keys' \in 1..keys' /\ \A n \in 1..keys : n \in 1..keys' /\ n # keys'
      BY <1>0, <3>2
    <3>6. minted' = [g \in Devices |-> IF g = d THEN minted[g] \cup {keys'} ELSE minted[g]]
      BY <3>2 DEF d
    <3>7. \A g \in Devices : /\ minted'[g] = IF g = d THEN minted[g] \cup {keys'} ELSE minted[g]
                             /\ minted[g] \subseteq 1..keys
      BY <1>0, <3>6
    <3>8. minted' \in [Devices -> SUBSET (1..keys')]
      BY <3>5, <3>6, <3>7
    <3>9. \A g, h \in Devices : g # h => minted'[g] \cap minted'[h] = {}
      <4>1. \A g, h \in Devices : g # h => minted[g] \cap minted[h] = {}
        BY DEF MintedInv
      <4>2. \A g \in Devices : keys' \notin minted[g]
        BY <3>5, <3>7
      <4>3. \A g \in Devices : minted'[g] = minted[g] \/ (g = d /\ minted'[g] = minted[g] \cup {keys'})
        BY <3>7
      <4> SUFFICES ASSUME NEW g \in Devices, NEW h \in Devices, g # h
                   PROVE  minted'[g] \cap minted'[h] = {}
        OBVIOUS
      <4>4. minted[g] \cap minted[h] = {} /\ keys' \notin minted[g] /\ keys' \notin minted[h]
        BY <4>1, <4>2
      <4>5. CASE g = d
        <5>1. minted'[h] = minted[h] /\ (minted'[g] = minted[g] \/ minted'[g] = minted[g] \cup {keys'})
          BY <4>3, <4>5
        <5> QED BY <4>4, <5>1
      <4>6. CASE g # d
        <5>1. minted'[g] = minted[g] /\ (minted'[h] = minted[h] \/ minted'[h] = minted[h] \cup {keys'})
          BY <4>3, <4>6
        <5> QED BY <4>4, <5>1
      <4> QED BY <4>5, <4>6
    <3> QED BY <3>4, <3>7, <3>8, <3>9
  <2>2. CASE ~\E u \in Accounts : Makes(u)
    <3>1. UNCHANGED minted /\ (keys' = keys \/ keys' = keys + 1)
      BY <2>2, MintedGrows
    <3>2. \A n \in 1..keys : n \in 1..keys'
      BY <1>0, <3>1
    <3>3. minted' \in [Devices -> SUBSET (1..keys')]
      BY <1>0, <3>1, <3>2
    <3>4. \A g, k : ~MintedFor(g, k)
      BY <2>2 DEF MintedFor
    <3> QED BY <3>1, <3>3, <3>4 DEF MintedInv
  <2> QED BY <2>1, <2>2
<1>2. ASSUME NEW g \in Devices, NEW k \in Nat \ {0}, Held(g, k)'
      PROVE  k \in minted'[g]
  <2>1. Held(g, k) \/ MintedFor(g, k)
    BY <1>2, ApprovingBefore, CollectingBefore, GrantedBefore, HandedBefore DEF Held
  <2> QED BY <1>1, <2>1 DEF MintedInv
<1>3. \A g \in Devices, k \in Nat \ {0} : Held(g, k)' => k \in minted'[g]
  BY <1>2
<1> QED BY <1>1, <1>3 DEF MintedInv

DeviceInv == RequestInv /\ AgentsInv /\ MintedInv /\ \A g \in Devices : GrantInv(g)

LEMMA AlwaysDevices == DirectorySpec => []DeviceInv
<1>1. DirectoryInit => DeviceInv
  <2> SUFFICES ASSUME DirectoryInit PROVE DeviceInv
    OBVIOUS
  <2>1. /\ users = <<>> /\ DOMAIN users = {} /\ DOMAIN grants = {} /\ keys = 0
        /\ \A g \in Devices : handed[g] = <<>> /\ Len(handed[g]) = 0 /\ DOMAIN handed[g] = {}
        /\ \A u \in Accounts \cup Pollers : visit[u].pc = "idle"
        /\ minted = [g \in Devices |-> {}]
    BY DEF DirectoryInit, Away
  <2>2. \A g \in Devices, k \in Nat : ~Held(g, k)
    BY <2>1 DEF Held, Approving, Granted, Collecting, Handed
  <2>3. MintedInv
    BY <2>1, <2>2 DEF MintedInv
  <2>4. RequestInv
    BY <2>1 DEF RequestInv, RequestOf
  <2> QED BY <2>1, <2>3, <2>4 DEF DeviceInv, AgentsInv, GrantInv
<1>2. TypeInv /\ AskedFor /\ DeviceInv /\ [DirectoryNext]_directoryVars => DeviceInv'
  BY StepRequests, StepAgents, StepMinted, StepGrants DEF DeviceInv
<1> QED BY <1>1, <1>2, AlwaysTyped, PTL DEF DirectorySpec

(***************************************************************************)
(* Wherever a token is on its way from the account it is made with to the  *)
(* poll that hands it over (with whoever registers, in the grant, with     *)
(* whoever collects), it was made for that device and for no other; so     *)
(* what a device collects is its own agent's, whoever polls or approves at *)
(* once.  Once only is of those that no two requests collected or approved *)
(* for at a time.  An agent's account is its owner's, or under way to be,  *)
(* unless a crash was there first.                                         *)
(***************************************************************************)
THEOREM DevicesCollectOnce == DirectorySpec => []TokensAreCollectedOnce
<1>1. TypeInv /\ DeviceInv => TokensAreCollectedOnce
  <2> SUFFICES ASSUME TypeInv, DeviceInv PROVE TokensAreCollectedOnce
    OBVIOUS
  <2>1. /\ DOMAIN grants \subseteq Devices /\ handed \in [Devices -> Seq(0..keys)] /\ keys \in Nat
        /\ \A g \in DOMAIN grants : grants[g] \in GrantRow
    BY Known, KeysInNat
  <2>2. \A a \in DOMAIN users \cap Handles :
          \/ users[a].kind = "agent" /\ users[a].owner \in Accounts
          \/ a \in orphans
          \/ \E u \in Accounts : visit[u].pc = "adopting" /\ visit[u].handle = a
    BY DEF DeviceInv, AgentsInv, Settled
  <2>3. ASSUME NEW g \in Devices, NEW k \in DOMAIN handed[g] PROVE handed[g][k] \in minted[g]
    <3>1. handed[g] \in Seq(0..keys) /\ handed[g][k] > 0
      BY <2>1 DEF DeviceInv, GrantInv
    <3>2. handed[g][k] \in 0..keys
      BY <3>1, InSequence
    <3>3. handed[g][k] \in Nat \ {0}
      BY <2>1, <3>1, <3>2
    <3>4. Held(g, handed[g][k])
      BY DEF Held, Handed
    <3> QED BY <3>3, <3>4 DEF DeviceInv, MintedInv
  <2>4. ASSUME NEW g \in DOMAIN grants, grants[g].status = "approved"
        PROVE  grants[g].token \in minted[g] /\ grants[g].agent = HandleOf[g]
    <3>1. g \in Devices
      BY <2>1
    <3>2. grants[g].token > 0 /\ grants[g].agent = HandleOf[g]
      BY <2>4, <3>1 DEF DeviceInv, GrantInv
    <3>3. grants[g].token \in 0..MaxKeys
      BY <2>1 DEF GrantRow
    <3>4. grants[g].token \in Nat \ {0}
      BY <3>2, <3>3, KeyBound
    <3>5. Held(g, grants[g].token)
      BY DEF Held, Granted
    <3> QED BY <3>1, <3>2, <3>4, <3>5 DEF DeviceInv, MintedInv
  <2>5. \A g, h \in Devices : g # h => minted[g] \cap minted[h] = {}
    BY DEF DeviceInv, MintedInv
  <2>6. ASSUME NEW g \in DOMAIN grants \ collided
        PROVE  Len(handed[g]) = (IF grants[g].status = "consumed" THEN 1 ELSE 0)
    BY <2>1 DEF DeviceInv, GrantInv
  <2> QED BY <2>2, <2>3, <2>4, <2>5, <2>6 DEF TokensAreCollectedOnce
<1> QED BY <1>1, AlwaysTyped, AlwaysDevices, PTL
=============================================================================
