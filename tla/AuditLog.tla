------------------------------ MODULE AuditLog ------------------------------
(***************************************************************************)
(* The audit trail (store.py): events linked into a hash chain whose head  *)
(* is a row of its own, appended to by the sessions of one or several      *)
(* processes, purged by age against a signed receipt, verified and         *)
(* exported.  An event is stamped (provenance.py) before its session has   *)
(* the lock that appending and purging share, and the lock is the          *)
(* process's own.                                                          *)
(*                                                                         *)
(* A digest is the token [of, algo, over]: what it was made of, with which *)
(* construction, and over which digest.  Rows are never edited and keys    *)
(* never change here, so signatures hold whenever there is one.            *)
(***************************************************************************)
EXTENDS Integers, FiniteSets, Functions, FiniteSetsExt

CONSTANTS
  Sessions,      \* the sessions that write or purge
  Processes, ProcessOf,  \* the processes they belong to
  Installed,     \* how the store may begin: "fresh", "legacy", "unchained"
  MaxEvents, MaxDays, MaxPurges, MaxStops  \* bounds: events, clock, purges, crashes

Keyed == "hmac-sha256-v1"     \* CHAIN_ALGO
Legacy == "sha256"            \* LEGACY_ALGO

NoHash == [of |-> 0, algo |-> "", over |-> 0]   \* "": the hash of nothing

ASSUME AuditAssumption ==
  /\ ProcessOf \in [Sessions -> Processes] /\ Processes # {}
  /\ Installed \subseteq {"fresh", "legacy", "unchained"} /\ Installed # {}
  /\ MaxEvents \in Nat \ {0} /\ MaxDays \in Nat /\ MaxPurges \in Nat /\ MaxStops \in Nat

VARIABLES
  events,       \* the Event rows
  head,         \* AuditChainState: the last link, or NoHash
  checkpoints,  \* the AuditCheckpoint rows
  today,        \* the clock
  writer,       \* session -> where it is, and what it has read
  locked,       \* processes in which a session has _chain_lock
  ids,          \* artifact ids given out so far
  announced,    \* events that webhooks, alert rules and the live feed were told of
  \* History, which the code does not keep:
  written,      \* ids of the events that were ever committed
  mishaps,      \* what went wrong: "fork", "order", "missed", "unkeyed"
  changedBy,    \* the process that last wrote to the chain
  \* bounds:
  purges, stops

auditVars == <<events, head, checkpoints, today, writer, locked, ids, announced,
               written, mishaps, changedBy, purges, stops>>

-----------------------------------------------------------------------------
(* Rows and links. *)

\* Digests, and the rows that carry them.
Hash == [of : 0..MaxEvents, algo : {"", Keyed, Legacy}, over : 0..MaxEvents]
EventRow ==
  [id : 1..MaxEvents, at : 0..MaxDays, prev : Hash, hash : Hash,
   algo : {Keyed, Legacy}, row : 1..MaxEvents]

\* _entry_hash over _canonical: which event, and what it follows.
EntryHash(prev, id, algo) == [of |-> id, algo |-> algo, over |-> prev.of]

Checkpoint == [n : 1..MaxPurges, cut_to : Hash, deleted : 0..MaxEvents]

Earliest(rows) ==   \* sorted by created_at, which keeps the table's order
  CHOOSE e \in rows :
    \A f \in rows : e.at < f.at \/ (e.at = f.at /\ e.row <= f.row)

-----------------------------------------------------------------------------
(* Reading the chain. *)

Entries == {e.hash : e \in events}
Starts == {e \in events : e.prev \notin Entries}

\* _ordered_chain has every event in one line: one start, and no link used twice.
OneLine ==
  /\ Cardinality(Starts) = 1
  /\ \A e, f \in events : e.prev = f.prev => e = f

\* The event nothing follows.
LastHash == (CHOOSE e \in events : \A f \in events : f.prev # e.hash).hash

\* _gap_is_explained, by one of the _valid_checkpoints.
GapIsExplained(e) == \E c \in checkpoints : c.cut_to = e.prev

\* verify_chain.
VerifyOk ==
  IF events = {} THEN checkpoints # {} \/ head = NoHash
  ELSE /\ OneLine
       /\ \A e \in Starts : e.prev = NoHash \/ GapIsExplained(e)
       /\ \A e \in events : EntryHash(e.prev, e.id, e.algo) = e.hash
       /\ \A e, f \in events : e.hash = f.prev /\ e.algo = Keyed => f.algo = Keyed
       /\ head = NoHash \/ head = LastHash

-----------------------------------------------------------------------------
(* Writing. *)

Quiet == [pc |-> "idle", id |-> 0, at |-> 0, link |-> NoHash, chosen |-> {}, cutoff |-> 0,
          left |-> {}]
Lock(s) == ProcessOf[s] \notin locked /\ locked' = locked \cup {ProcessOf[s]}
Unlock(s) == locked' = locked \ {ProcessOf[s]}

\* The store as it is opened: a new one, one that was chained without a key, or one
\* that was not chained at all.
Stored(install) ==
  IF install = "fresh" THEN {}
  ELSE {[id |-> 1, at |-> 0, prev |-> NoHash, algo |-> Legacy, row |-> 1,
         hash |-> IF install = "legacy" THEN EntryHash(NoHash, 1, Legacy) ELSE NoHash]}

\* _init_schema, _backfill_chain: events without a link are given one, of the keyed
\* construction; the column that says which construction it was is left as it is.
Backfilled(rows) ==
  {IF e.hash # NoHash THEN e ELSE [e EXCEPT !.hash = EntryHash(NoHash, e.id, Keyed)] :
     e \in rows}

AuditInit ==
  \E install \in Installed :
    /\ events = Backfilled(Stored(install))
    /\ head = IF install = "fresh" THEN NoHash ELSE (CHOOSE e \in events : TRUE).hash
    /\ mishaps = IF install = "unchained" THEN {"unkeyed"} ELSE {}
    /\ ids = Cardinality(events) /\ written = {e.id : e \in events}
    /\ checkpoints = {} /\ today = 0 /\ locked = {} /\ announced = {}
    /\ writer = [s \in Sessions |-> Quiet]
    /\ changedBy = CHOOSE p \in Processes : TRUE
    /\ purges = 0 /\ stops = 0

\* Record.of: stamped here, before the lock.
Stamp(s) ==
  /\ writer[s].pc = "idle" /\ ids < MaxEvents
  /\ ids' = ids + 1
  /\ writer' = [writer EXCEPT ![s] = [Quiet EXCEPT !.pc = "stamped", !.id = ids', !.at = today]]
  /\ UNCHANGED <<events, head, checkpoints, today, locked, announced, written, mishaps, changedBy, purges, stops>>

\* Fault: the head is read before the lock is there.
LinkUnlocked(s) ==
  /\ writer[s].pc = "stamped"
  /\ UNCHANGED locked
  /\ writer' = [writer EXCEPT ![s].pc = "linked", ![s].link = head]
  /\ UNCHANGED <<events, head, checkpoints, today, ids, announced, written, mishaps, changedBy, purges, stops>>

\* SqlSink.write takes the lock and reads the head.
Link(s) ==
  /\ writer[s].pc = "stamped"
  /\ Lock(s)
  /\ writer' = [writer EXCEPT ![s].pc = "linked", ![s].link = head]
  /\ UNCHANGED <<events, head, checkpoints, today, ids, announced, written, mishaps, changedBy, purges, stops>>

NewEvent(w) ==
  [id |-> w.id, at |-> w.at, prev |-> w.link, hash |-> EntryHash(w.link, w.id, Keyed),
   algo |-> Keyed, row |-> Cardinality(written) + 1]

\* It commits the event and the head together, and gives the lock back.
Commit(s) ==
  LET w == writer[s]
      e == NewEvent(w) IN
  /\ w.pc = "linked"
  /\ events' = events \cup {e}
  /\ head' = e.hash
  /\ written' = written \cup {w.id}
  /\ mishaps' = mishaps
       \cup (IF w.link # head /\ changedBy # ProcessOf[s] THEN {"fork"} ELSE {})
       \cup (IF \E f \in events : f.at > w.at THEN {"order"} ELSE {})
  /\ Unlock(s)
  /\ writer' = [writer EXCEPT ![s].pc = "committed"]
  /\ changedBy' = ProcessOf[s]
  /\ UNCHANGED <<checkpoints, today, ids, announced, purges, stops>>

\* webhooks.deliver, notifications.dispatch and HUB.publish, after the lock.
Announce(s) ==
  /\ writer[s].pc = "committed"
  /\ announced' = announced \cup {writer[s].id}
  /\ writer' = [writer EXCEPT ![s] = Quiet]
  /\ UNCHANGED <<events, head, checkpoints, today, locked, ids, written, mishaps, changedBy, purges, stops>>

-----------------------------------------------------------------------------
(* Purging. *)

\* purge_events chooses its rows before it takes the lock; with none it is done.
Choose(s, cutoff) ==
  LET chosen == {e \in events : e.at < cutoff} IN
  /\ writer[s].pc = "idle" /\ purges < MaxPurges
  /\ cutoff <= today /\ chosen # {}
  /\ purges' = purges + 1
  /\ writer' = [writer EXCEPT ![s] =
                  [Quiet EXCEPT !.pc = "chosen", !.chosen = chosen, !.cutoff = cutoff]]
  /\ UNCHANGED <<events, head, checkpoints, today, locked, ids, announced, written, mishaps, changedBy, stops>>

(***************************************************************************)
(* Then, under the lock, it looks at what will be left and where that      *)
(* starts, ...                                                             *)
(***************************************************************************)
Survey(s) ==
  /\ writer[s].pc = "chosen"
  /\ Lock(s)
  /\ writer' = [writer EXCEPT ![s].pc = "cutting",
                              ![s].left = {e \in events : e.at >= writer[s].cutoff}]
  /\ UNCHANGED <<events, head, checkpoints, today, ids, announced, written, mishaps, changedBy, purges, stops>>

\* Fault: the receipt counts what is left.
ReceiptOfTheRest(w) ==
  [n |-> Cardinality(checkpoints) + 1, deleted |-> Cardinality(w.left),
   cut_to |-> IF w.left = {} THEN NoHash ELSE Earliest(w.left).prev]

Receipt(w) ==
  [n |-> Cardinality(checkpoints) + 1, deleted |-> Cardinality(w.chosen),
   cut_to |-> IF w.left = {} THEN NoHash ELSE Earliest(w.left).prev]

\* ... deletes what it chose, clears the head when nothing is left, signs a receipt
\* and commits.
Cut(s) ==
  LET w == writer[s] IN
  /\ w.pc = "cutting"
  /\ events' = events \ w.chosen
  /\ head' = IF w.left = {} THEN NoHash ELSE head
  /\ checkpoints' = checkpoints \cup {Receipt(w)}
  /\ mishaps' = mishaps
       \cup (IF \E e \in events \ w.chosen : e.at < w.cutoff THEN {"missed"} ELSE {})
       \cup (IF w.left # {e \in events : e.at >= w.cutoff} /\ changedBy # ProcessOf[s]
             THEN {"fork"} ELSE {})
  /\ Unlock(s)
  /\ writer' = [writer EXCEPT ![s] = Quiet]
  /\ changedBy' = ProcessOf[s]
  /\ UNCHANGED <<today, ids, announced, written, purges, stops>>

NextDay ==
  /\ today < MaxDays /\ today' = today + 1
  /\ UNCHANGED <<events, head, checkpoints, writer, locked, ids, announced, written, mishaps, changedBy, purges, stops>>

\* A process goes down, and with it its sessions and its lock.
Stop(p) ==
  /\ stops < MaxStops /\ stops' = stops + 1
  /\ writer' = [s \in Sessions |-> IF ProcessOf[s] = p THEN Quiet ELSE writer[s]]
  /\ locked' = locked \ {p}
  /\ UNCHANGED <<events, head, checkpoints, today, ids, announced, written, mishaps, changedBy, purges>>

AuditNext ==
  \/ \E s \in Sessions :
       \/ Stamp(s) \/ Link(s) \/ Commit(s) \/ Announce(s) \/ Survey(s) \/ Cut(s)
       \/ \E cutoff \in 1..MaxDays : Choose(s, cutoff)
  \/ NextDay
  \/ \E p \in Processes : Stop(p)

AuditSpec == AuditInit /\ [][AuditNext]_auditVars

-----------------------------------------------------------------------------
(* What holds. *)

(***************************************************************************)
(* The types of the variables, and the lock kept by whoever has it.        *)
(***************************************************************************)
AuditTypeOK ==
  /\ events \subseteq EventRow /\ head \in Hash /\ checkpoints \subseteq Checkpoint
  /\ today \in 0..MaxDays /\ ids \in 0..MaxEvents
  /\ announced \subseteq written /\ written \subseteq 1..ids
  /\ locked \subseteq Processes
  /\ \A s \in Sessions :
       /\ writer[s].pc \in {"idle", "stamped", "linked", "committed", "chosen", "cutting"}
       /\ writer[s].id \in 0..ids /\ writer[s].at \in 0..today /\ writer[s].link \in Hash
       /\ writer[s].chosen \cup writer[s].left \subseteq EventRow /\ writer[s].cutoff \in 0..MaxDays
  /\ mishaps \subseteq {"fork", "order", "missed", "unkeyed"} /\ changedBy \in Processes
  /\ purges \in 0..MaxPurges /\ stops \in 0..MaxStops

(***************************************************************************)
(* The chain verifies after any appends, purges and crashes (verify_chain  *)
(* promises to tell tampering from retention), unless one of four things   *)
(* has happened: two processes linked to one head, or one cut behind the   *)
(* other's back; an event was linked behind one stamped later; a purge met *)
(* an old event it had not chosen; or the store was upgraded from before   *)
(* there was a chain.  And a fork is not passed over: as long as nothing   *)
(* was purged, two events on one link make the chain fail to verify.       *)
(***************************************************************************)
ChainVerifies ==
  /\ mishaps = {} => VerifyOk
  /\ "fork" \in mishaps /\ checkpoints = {} => ~VerifyOk

(***************************************************************************)
(* Every event that is gone is in a receipt: what purges say they deleted  *)
(* is never less than what is missing.                                     *)
(***************************************************************************)
ReceiptsCoverWhatIsGone ==
  Cardinality(written) - Cardinality(events)
    <= MapThenSumSet(LAMBDA c : c.deleted, checkpoints)
=============================================================================
