------------------------------- MODULE Intake -------------------------------
(***************************************************************************)
(* How tickets become work (intake.py, work_items.py: sync_tracker,        *)
(* integrations.py).  A tracker delivers a ticket whenever it likes and as *)
(* often, people sync a whole tracker, and both look whether there is an   *)
(* item with the ticket's reference, file one if not, record it, and start *)
(* a run if that is wanted: three commits, and after each of them the      *)
(* integration is read again.                                              *)
(***************************************************************************)
EXTENDS Integers, Sequences, FiniteSets

CONSTANTS
  Integrations, KindOf, \* the integrations there may be, and the kind of each
  Tickets, KeyOf,       \* the tickets, and the key a tracker shows each by
  TicketsOf,            \* integration -> the tickets its tracker has
  Configured,           \* the integrations' rows, as they were configured at first
  Places,               \* the repositories
  Workflows, Names,     \* the workflows there are, and what may be named ("": the default)
  Desks,                \* the sessions that take tickets in
  MaxItems, MaxSettings, MaxOutages  \* bounds: items, changes of settings, crashes

IntegrationRow == [place : Places \cup {""}, workflow : Names, autostart : BOOLEAN, secret : BOOLEAN]

ASSUME IntakeAssumption ==
  /\ DOMAIN KindOf = Integrations /\ DOMAIN KeyOf = Tickets
  /\ TicketsOf \in [Integrations -> SUBSET Tickets]
  /\ Configured \in [Integrations -> IntegrationRow]
  /\ \A i \in Integrations : Configured[i].autostart => Configured[i].secret
  /\ MaxItems \in Nat /\ MaxSettings \in Nat /\ MaxOutages \in Nat

VARIABLES
  integrations,  \* id -> Integration row, of those that exist
  items,         \* the WorkItem rows that have an external reference, in order
  desk,          \* session -> what it is doing, and what it has read
  \* History, which the code does not keep:
  recorded,      \* items the trail has an intake or a sync event of
  turnedAway,    \* tickets answered "already imported", or skipped
  raced,         \* references two sessions looked for before either had filed
  dropped,       \* items whose session ended with them half taken in
  settings, outages  \* bounds

intakeVars ==
  <<integrations, items, desk, recorded, turnedAway, raced, dropped, settings, outages>>

ItemRow ==
  [ref : [kind : {KindOf[i] : i \in Integrations}, key : {KeyOf[t] : t \in Tickets}],
   ticket : Tickets, place : Places, runs : Nat]

NoOne == [pc |-> "idle"]

\* An item is known by the kind of tracker and the ticket's key.
Ref(i, t) == [kind |-> KindOf[i], key |-> KeyOf[t]]

\* Fault: a delivery that comes again is filed again.
NeverFound(ref) == FALSE

\* find_by_external_ref.
Found(ref) == \E n \in DOMAIN items : items[n].ref = ref

\* verify: without a secret nothing is the tracker's; what is signed with it, is.
Verified(i) == integrations[i].secret

\* list_issues: a page of what the tracker has, whatever has become of the tickets.
Listings(i) == SUBSET TicketsOf[i]

\* What starts a run, if it is there.
WorkflowOf(i) == IF integrations[i].workflow = "" THEN "ship-a-ticket" ELSE integrations[i].workflow

IntakeInit ==
  /\ integrations = Configured
  /\ items = <<>> /\ desk = [s \in Desks |-> NoOne]
  /\ recorded = {} /\ turnedAway = {} /\ raced = {} /\ dropped = {}
  /\ settings = 0 /\ outages = 0

-----------------------------------------------------------------------------
(* Taking in. *)

Looks(s, w, t, place) ==
  IF Found(Ref(w.from, t))
  THEN /\ turnedAway' = turnedAway \cup {t}
       /\ desk' = [desk EXCEPT ![s] = IF w.pc = "syncing" THEN w ELSE NoOne]
  ELSE /\ desk' = [desk EXCEPT ![s] = [w EXCEPT !.pc = "filing", !.ticket = t, !.place = place,
                                                !.seen = Len(items)]]
       /\ UNCHANGED turnedAway

Taking(how, i, auto, todo) ==
  [pc |-> how, how |-> how, from |-> i, ticket |-> "", place |-> "", auto |-> auto,
   todo |-> todo, seen |-> 0, item |-> 0]

\* accept, of a ticket that its tracker says is new: an integration without a secret
\* takes nothing, and one without a repository files nothing.
Receive(s, i, t) ==
  /\ desk[s] = NoOne /\ i \in DOMAIN integrations /\ t \in TicketsOf[i]
  /\ Verified(i) /\ integrations[i].place # ""
  /\ Looks(s, Taking("receiving", i, FALSE, {}), t, integrations[i].place)
  /\ UNCHANGED <<integrations, items, recorded, raced, dropped, settings, outages>>

\* sync_tracker reads the setting, unless it was told, and what the tracker lists.
SyncStarts(s, i, place, told, listed) ==
  /\ desk[s] = NoOne /\ i \in DOMAIN integrations /\ listed \in Listings(i)
  /\ desk' = [desk EXCEPT ![s] =
       [Taking("syncing", i, IF told = "" THEN integrations[i].autostart ELSE told = "yes",
               listed) EXCEPT !.place = place]]
  /\ UNCHANGED <<integrations, items, recorded, turnedAway, raced, dropped, settings, outages>>

\* Its next ticket; the integration is read again once something was committed.
SyncLooks(s, t) ==
  LET w == desk[s] IN
  /\ w.pc = "syncing" /\ t \in w.todo
  /\ IF w.item = 0 \/ w.from \in DOMAIN integrations
     THEN Looks(s, [w EXCEPT !.todo = @ \ {t}], t, w.place)
     ELSE desk' = [desk EXCEPT ![s] = NoOne] /\ UNCHANGED turnedAway
  /\ UNCHANGED <<integrations, items, recorded, raced, dropped, settings, outages>>

SyncEnds(s) ==
  /\ desk[s].pc = "syncing" /\ desk[s].todo = {}
  /\ desk' = [desk EXCEPT ![s] = NoOne]
  /\ UNCHANGED <<integrations, items, recorded, turnedAway, raced, dropped, settings, outages>>

\* create_work_item.
Files(s) ==
  LET w == desk[s]
      ref == Ref(w.from, w.ticket) IN
  /\ w.pc = "filing" /\ Len(items) < MaxItems
  /\ items' = Append(items, [ref |-> ref, ticket |-> w.ticket, place |-> w.place, runs |-> 0])
  /\ raced' = raced \cup
       (IF \E n \in (w.seen + 1)..Len(items) : items[n].ref = ref THEN {ref} ELSE {})
  /\ desk' = [desk EXCEPT ![s] = [w EXCEPT !.pc = "filed", !.item = Len(items')]]
  /\ UNCHANGED <<integrations, recorded, turnedAway, dropped, settings, outages>>

\* An integration that is gone when it is read again: accept raises, and so does a
\* sync that wants a run.
Raises(s) ==
  LET w == desk[s] IN
  /\ w.pc \in {"filed", "told"} /\ w.from \notin DOMAIN integrations
  /\ w.how = "receiving" \/ (w.pc = "told" /\ w.auto)
  /\ dropped' = dropped \cup {w.item}
  /\ desk' = [desk EXCEPT ![s] = NoOne]
  /\ UNCHANGED <<integrations, items, recorded, turnedAway, raced, settings, outages>>

\* The trail has it: "intake", or "sync".
Tells(s) ==
  LET w == desk[s] IN
  /\ w.pc = "filed" /\ (w.how = "receiving" => w.from \in DOMAIN integrations)
  /\ recorded' = recorded \cup {w.item}
  /\ desk' = [desk EXCEPT ![s].pc = "told"]
  /\ UNCHANGED <<integrations, items, turnedAway, raced, dropped, settings, outages>>

\* _start and _autostart: by the setting as it is now, or as the sync read it; a
\* workflow that is not there starts nothing.
Wanted(w) ==
  IF w.how = "syncing" THEN w.auto
  ELSE w.from \in DOMAIN integrations /\ integrations[w.from].autostart

Starting(s) ==
  LET w == desk[s] IN
  /\ w.pc = "told"
  /\ w.from \in DOMAIN integrations \/ (w.how = "syncing" /\ ~w.auto)
  /\ items' = IF Wanted(w) /\ WorkflowOf(w.from) \in Workflows
              THEN [items EXCEPT ![w.item].runs = @ + 1] ELSE items
  /\ desk' = [desk EXCEPT ![s] = IF w.how = "syncing" THEN [w EXCEPT !.pc = "syncing"] ELSE NoOne]
  /\ UNCHANGED <<integrations, recorded, turnedAway, raced, dropped, settings, outages>>

-----------------------------------------------------------------------------
(* Settings. *)

\* configure: what is given is set, what is not is left; starting by itself takes a
\* secret, as asking for one does.
Configure(i, place, workflow, auto, rotate) ==
  /\ i \in DOMAIN integrations /\ settings < MaxSettings /\ settings' = settings + 1
  /\ integrations' = [integrations EXCEPT
       ![i].place = IF place = "" THEN @ ELSE place,
       ![i].workflow = IF workflow = "" THEN @ ELSE workflow,
       ![i].autostart = IF auto = "" THEN @ ELSE auto = "yes",
       ![i].secret = @ \/ rotate \/ auto = "yes"]
  /\ UNCHANGED <<items, desk, recorded, turnedAway, raced, dropped, outages>>

DeleteIntegration(i) ==
  /\ i \in DOMAIN integrations /\ settings < MaxSettings /\ settings' = settings + 1
  /\ integrations' = [j \in DOMAIN integrations \ {i} |-> integrations[j]]
  /\ UNCHANGED <<items, desk, recorded, turnedAway, raced, dropped, outages>>

Outage ==
  /\ outages < MaxOutages /\ outages' = outages + 1
  /\ dropped' = dropped \cup {desk[s].item : s \in {d \in Desks : desk[d].pc \in {"filed", "told"}}}
  /\ desk' = [s \in Desks |-> NoOne]
  /\ UNCHANGED <<integrations, items, recorded, turnedAway, raced, settings>>

IntakeNext ==
  \/ \E s \in Desks :
       \/ \E i \in Integrations, t \in Tickets : Receive(s, i, t)
       \/ \E i \in Integrations, place \in Places, told \in {"", "yes", "no"} :
            \E listed \in Listings(i) : SyncStarts(s, i, place, told, listed)
       \/ \E t \in Tickets : SyncLooks(s, t)
       \/ SyncEnds(s) \/ Files(s) \/ Raises(s) \/ Tells(s) \/ Starting(s)
  \/ \E i \in Integrations :
       \/ DeleteIntegration(i)
       \/ \E place \in Places \cup {""}, workflow \in Names, auto \in {"", "yes", "no"}, rotate \in BOOLEAN :
            Configure(i, place, workflow, auto, rotate)
  \/ Outage

IntakeSpec == IntakeInit /\ [][IntakeNext]_intakeVars

-----------------------------------------------------------------------------
(* What holds. *)

\* The types of the rows and of what is remembered of them.
IntakeTypeOK ==
  /\ DOMAIN integrations \subseteq Integrations
  /\ \A i \in DOMAIN integrations :
       integrations[i] \in IntegrationRow /\ (integrations[i].autostart => integrations[i].secret)
  /\ items \in Seq(ItemRow)
  /\ recorded \cup dropped \subseteq DOMAIN items /\ turnedAway \subseteq Tickets

(***************************************************************************)
(* A ticket is taken in once, however often and by whatever way it comes:  *)
(* one item for a reference, one run at most for an item, and every item   *)
(* on the trail; unless two sessions looked at once, or one ended between  *)
(* its commits.  And what is turned away has been taken in: if not it,     *)
(* then another ticket with its key, of a tracker of its kind - which the  *)
(* reference cannot tell from it.                                          *)
(***************************************************************************)
TakenInOnce ==
  /\ \A m, n \in DOMAIN items : items[m].ref = items[n].ref => m = n \/ items[n].ref \in raced
  /\ \A n \in DOMAIN items :
       /\ items[n].runs <= 1
       /\ n \in recorded \cup dropped \/ \E s \in Desks : desk[s].pc = "filed" /\ desk[s].item = n
       /\ items[n].runs = 1 => n \in recorded
  /\ \A t \in turnedAway : \E n \in DOMAIN items :
       \/ items[n].ticket = t
       \/ \E i \in Integrations : t \in TicketsOf[i] /\ Ref(i, t) = items[n].ref
=============================================================================
