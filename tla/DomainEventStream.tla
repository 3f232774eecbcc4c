-------------------------- MODULE DomainEventStream --------------------------
(***************************************************************************)
(* How committed events reach the subscribers of the engine.  The worker   *)
(* appends the events of a command in one transaction and then publishes   *)
(* them one at a time on a sliding PubSub; a subscriber that sees a        *)
(* sequence number it did not expect reads what lies between from the      *)
(* store, page by page, before it delivers the event it holds.             *)
(*                                                                         *)
(* An event is its sequence number.  The worker's steps are those of       *)
(* CommandEngine, reduced to what decides which events are published and   *)
(* in which order.                                                         *)
(***************************************************************************)
EXTENDS Integers, Sequences, FiniteSets

CONSTANTS Subscribers,
          WindowSize,    \* ORCHESTRATION_EVENT_PUBSUB_CAPACITY
          PageSize,      \* READ_PAGE_SIZE
          MaxSequence,   \* bound: sequence numbers assigned
          MaxPurges,     \* bound: purges
          MaxRestarts    \* bound: restarts of the server

ASSUME SizeAssumption == WindowSize \in Nat \ {0} /\ PageSize \in Nat \ {0}
ASSUME BoundAssumption == MaxSequence \in Nat /\ MaxPurges \in Nat /\ MaxRestarts \in Nat

VARIABLES
  rows, last,          \* orchestration_events and its AUTOINCREMENT counter
  worker,              \* where the worker is
  start,               \* dispatchStartSequence
  model,               \* commandReadModel.snapshotSequence
  outbox,              \* committed events the worker still has to publish
  published,           \* lastPublishedSequence
  phase,               \* per subscriber: detached, waiting or gap
  cursor,              \* per subscriber: the cursor of its stream
  backlog,             \* per subscriber: its part of the PubSub, oldest first
  held,                \* per subscriber: the live event that revealed a gap
  page, more,          \* per subscriber: events read and not yet delivered; a page follows
  purges, restarts

logVars    == <<rows, last>>
workerVars == <<worker, start, model, outbox>>
readVars   == <<phase, cursor, held, page, more>>
vars == <<logVars, workerVars, published, readVars, backlog, purges, restarts>>

Sequences1 == 1 .. MaxSequence

LogOK == last \in 0 .. MaxSequence /\ rows \subseteq 1 .. last

WorkerOK ==
  /\ worker \in {"idle", "committed", "publishing", "failed", "republishing"}
  /\ start \in 0 .. MaxSequence
  /\ model \in 0 .. MaxSequence
  /\ outbox \subseteq Sequences1
  /\ published \in 0 .. MaxSequence

ReadersOK ==
  /\ phase \in [Subscribers -> {"detached", "waiting", "gap"}]
  /\ cursor \in [Subscribers -> 0 .. MaxSequence]
  /\ held \in [Subscribers -> 0 .. MaxSequence]
  /\ page \in [Subscribers -> SUBSET Sequences1]
  /\ more \in [Subscribers -> BOOLEAN]

BacklogOK == backlog \in [Subscribers -> Seq(Sequences1)]

TypeOK == LogOK /\ WorkerOK /\ ReadersOK /\ BacklogOK /\ purges \in Nat /\ restarts \in Nat

\* getHighWaterSequence: MAX(sequence), 0 on an empty table.
IsHighWater(h) ==
  /\ \A r \in rows : r <= h
  /\ IF rows = {} THEN h = 0 ELSE h \in rows

Init ==
  /\ rows = {} /\ last = 0
  /\ worker = "idle" /\ start = 0 /\ model = 0 /\ outbox = {}
  /\ published = 0
  /\ phase = [s \in Subscribers |-> "detached"]
  /\ cursor = [s \in Subscribers |-> 0]
  /\ backlog = [s \in Subscribers |-> <<>>]
  /\ held = [s \in Subscribers |-> 0]
  /\ page = [s \in Subscribers |-> {}]
  /\ more = [s \in Subscribers |-> FALSE]
  /\ purges = 0 /\ restarts = 0

-----------------------------------------------------------------------------
(* The worker *)

\* The transaction of a command appends its events.
Commit ==
  /\ worker = "idle"
  /\ worker' = "committed"
  /\ last' \in (last + 1) .. MaxSequence
  /\ rows' = rows \cup ((last + 1) .. last')
  /\ outbox' = (last + 1) .. last'
  /\ start' = model
  /\ UNCHANGED <<model, published, readVars, backlog, purges, restarts>>

\* commandReadModel is assigned; the publication loop begins.
Assign ==
  /\ worker = "committed"
  /\ worker' = "publishing"
  /\ model' = last
  /\ UNCHANGED <<logVars, start, outbox, published, readVars, backlog, purges, restarts>>

OfferedBlind(queue, e) ==                                        \* (mutant)
  IF Len(queue) >= WindowSize THEN queue ELSE Append(queue, e)

\* PubSub.sliding: a full subscription loses its oldest entry.
Offered(queue, e) ==
  LET longer == Append(queue, e)
  IN IF Len(longer) > WindowSize THEN Tail(longer) ELSE longer

\* Publishing and moving lastPublishedSequence are one step under eventPublicationLock.
PublishNext ==
  /\ worker \in {"publishing", "republishing"}
  /\ \E e \in outbox :
       /\ \A d \in outbox : e <= d
       /\ outbox' = outbox \ {e}
       /\ published' = IF e > published THEN e ELSE published
       /\ backlog' = [s \in Subscribers |->
                        IF phase[s] = "detached" THEN <<>> ELSE Offered(backlog[s], e)]
  /\ UNCHANGED <<logVars, worker, start, model, readVars, purges, restarts>>

PublishDone ==
  /\ worker \in {"publishing", "republishing"}
  /\ outbox = {}
  /\ worker' = "idle"
  /\ UNCHANGED <<logVars, start, model, outbox, published, readVars, backlog, purges, restarts>>

\* A timeout or a defect interrupts the worker between the commit and the end of the
\* publication.
Interrupt ==
  /\ worker \in {"committed", "publishing"}
  /\ worker' = "failed"
  /\ outbox' = {}
  /\ UNCHANGED <<logVars, start, model, published, readVars, backlog, purges, restarts>>

\* reconcileCommandReadModelAfterDispatchFailure reads what follows dispatchStartSequence,
\* projects it and publishes it, the part already published once more.
Reconcile ==
  /\ worker = "failed"
  /\ worker' = "republishing"
  /\ outbox' = {r \in rows : r > start}
  /\ IF outbox' = {} THEN model' = model ELSE \E h \in rows : IsHighWater(h) /\ model' = h
  /\ UNCHANGED <<logVars, start, published, readVars, backlog, purges, restarts>>

\* The read fails: the events stay unpublished.
ReconcileFails ==
  /\ worker = "failed"
  /\ worker' = "idle"
  /\ UNCHANGED <<logVars, start, model, outbox, published, readVars, backlog, purges, restarts>>

-----------------------------------------------------------------------------
(* Subscribers *)

AttachAtHead(s) ==                                               \* (mutant)
  /\ phase[s] = "detached"
  /\ phase' = [phase EXCEPT ![s] = "waiting"]
  /\ cursor' = [cursor EXCEPT ![s] = last]
  /\ UNCHANGED <<logVars, workerVars, published, backlog, held, page, more, purges, restarts>>

\* subscribeDomainEvents: the subscription and its cursor are taken under the lock.
Attach(s) ==
  /\ phase[s] = "detached"
  /\ phase' = [phase EXCEPT ![s] = "waiting"]
  /\ cursor' = [cursor EXCEPT ![s] = published]
  /\ UNCHANGED <<logVars, workerVars, published, backlog, held, page, more, purges, restarts>>

\* The subscriber's scope closes, or a read of the gap fails and the stream dies.
Detach(s) ==
  /\ phase[s] # "detached"
  /\ phase' = [phase EXCEPT ![s] = "detached"]
  /\ cursor' = [cursor EXCEPT ![s] = 0]
  /\ backlog' = [backlog EXCEPT ![s] = <<>>]
  /\ held' = [held EXCEPT ![s] = 0]
  /\ page' = [page EXCEPT ![s] = {}]
  /\ more' = [more EXCEPT ![s] = FALSE]
  /\ UNCHANGED <<logVars, workerVars, published, purges, restarts>>

Taking(s) == phase[s] = "waiting" /\ backlog[s] # <<>>

TakeStale(s) ==
  /\ Taking(s)
  /\ Head(backlog[s]) <= cursor[s]
  /\ backlog' = [backlog EXCEPT ![s] = Tail(@)]
  /\ UNCHANGED <<logVars, workerVars, published, readVars, purges, restarts>>

TakeNext(s) ==
  /\ Taking(s)
  /\ Head(backlog[s]) = cursor[s] + 1
  /\ cursor' = [cursor EXCEPT ![s] = Head(backlog[s])]
  /\ backlog' = [backlog EXCEPT ![s] = Tail(@)]
  /\ UNCHANGED <<logVars, workerVars, published, phase, held, page, more, purges, restarts>>

TakeAcrossGap(s) ==
  /\ Taking(s)
  /\ Head(backlog[s]) > cursor[s] + 1
  /\ phase' = [phase EXCEPT ![s] = "gap"]
  /\ held' = [held EXCEPT ![s] = Head(backlog[s])]
  /\ more' = [more EXCEPT ![s] = TRUE]
  /\ backlog' = [backlog EXCEPT ![s] = Tail(@)]
  /\ UNCHANGED <<logVars, workerVars, published, cursor, page, purges, restarts>>

\* The rows of the gap that are still to be delivered, as the store shows them now.
Missing(s) == {r \in rows : cursor[s] < r /\ r < held[s]}

\* ORDER BY sequence LIMIT PageSize: the first rows of S, or all of them.
IsPage(P, S) ==
  /\ P \subseteq S
  /\ \A q \in P, r \in S \ P : q < r
  /\ Cardinality(P) <= PageSize
  /\ P = S \/ Cardinality(P) = PageSize

\* makeEventStream: one page; another follows a full one.
ReadPage(s) ==
  /\ phase[s] = "gap"
  /\ page[s] = {}
  /\ more[s]
  /\ \E P \in SUBSET Missing(s) :
       /\ IsPage(P, Missing(s))
       /\ page' = [page EXCEPT ![s] = P]
       /\ more' = [more EXCEPT ![s] = Cardinality(P) = PageSize]
  /\ UNCHANGED <<logVars, workerVars, published, phase, cursor, backlog, held, purges, restarts>>

DeliverRead(s) ==
  /\ phase[s] = "gap"
  /\ \E e \in page[s] :
       /\ \A d \in page[s] : e <= d
       /\ cursor' = [cursor EXCEPT ![s] = e]
       /\ page' = [page EXCEPT ![s] = @ \ {e}]
  /\ UNCHANGED <<logVars, workerVars, published, phase, backlog, held, more, purges, restarts>>

DeliverHeld(s) ==
  /\ phase[s] = "gap"
  /\ page[s] = {}
  /\ ~more[s]
  /\ phase' = [phase EXCEPT ![s] = "waiting"]
  /\ cursor' = [cursor EXCEPT ![s] = held[s]]
  /\ held' = [held EXCEPT ![s] = 0]
  /\ UNCHANGED <<logVars, workerVars, published, backlog, page, more, purges, restarts>>

-----------------------------------------------------------------------------
(* The store and the process *)

\* A thread is purged: its rows leave the log, the sequence numbers are not used again.
Purge ==
  /\ purges < MaxPurges
  /\ rows' \in (SUBSET rows) \ {rows}
  /\ purges' = purges + 1
  /\ UNCHANGED <<last, workerVars, published, readVars, backlog, restarts>>

\* The server crashes and starts again: memory is rebuilt from the log.
Restart ==
  /\ restarts < MaxRestarts
  /\ restarts' = restarts + 1
  /\ worker' = "idle" /\ outbox' = {} /\ start' = 0
  /\ \E h \in 0 .. last : IsHighWater(h) /\ published' = h /\ model' = h
  /\ phase' = [s \in Subscribers |-> "detached"]
  /\ cursor' = [s \in Subscribers |-> 0]
  /\ backlog' = [s \in Subscribers |-> <<>>]
  /\ held' = [s \in Subscribers |-> 0]
  /\ page' = [s \in Subscribers |-> {}]
  /\ more' = [s \in Subscribers |-> FALSE]
  /\ UNCHANGED <<logVars, purges>>

Worker == Assign \/ PublishNext \/ PublishDone \/ Reconcile \/ ReconcileFails

Stream(s) == TakeStale(s) \/ TakeNext(s) \/ TakeAcrossGap(s)
             \/ ReadPage(s) \/ DeliverRead(s) \/ DeliverHeld(s)

Next == \/ Commit
        \/ Interrupt
        \/ Worker
        \/ Purge
        \/ Restart
        \/ \E s \in Subscribers : Attach(s) \/ Detach(s) \/ Stream(s)

Spec == Init /\ [][Next]_vars

\* The worker fiber and the consumers' fibers keep running.
FairSpec == Spec /\ WF_vars(Worker) /\ \A s \in Subscribers : WF_vars(Stream(s))

-----------------------------------------------------------------------------
(* Properties *)

\* A subscriber that has drained its subscription has received every event that was
\* published since it attached and is still in the log: an event the sliding window dropped
\* is always followed by one that reveals the gap.  Only while a reconciliation publishes old
\* events again may the window hold nothing that does.
DrainedMeansCaughtUp ==
  \A s \in Subscribers :
    phase[s] = "waiting" /\ backlog[s] = <<>> /\ worker # "republishing"
      => \A r \in rows : r <= published => r <= cursor[s]

\* A gap read stays inside the gap, so that no later event overtakes the one that is held, and
\* between two pages nothing that was not delivered lies below the cursor.
GapReadInOrder ==
  \A s \in Subscribers : phase[s] = "gap" =>
    /\ cursor[s] < held[s] /\ held[s] <= published
    /\ \A r \in page[s] : cursor[s] < r /\ r < held[s]
    /\ \A r \in Missing(s) \ page[s] : more[s] /\ \A q \in page[s] : q < r

position == [s \in Subscribers |-> IF phase[s] = "detached" THEN -1 ELSE cursor[s]]

Reader == INSTANCE LogReader WITH Readers <- Subscribers

\* The safety half of ImplementsReader.
ReaderSteps == Reader!ReaderInit /\ [][Reader!ReaderNext]_(Reader!readerVars)

\* Every subscriber receives the log from the point where it attached, in order, each event
\* once, and, once published, always; whatever the window dropped, whatever a reconciliation
\* published twice.
ImplementsReader == Reader!ReaderSpec

=============================================================================
