---------------------------- MODULE RuntimeJournal ----------------------------
(***************************************************************************)
(* The durable journal of provider events and its only consumer.  Events   *)
(* are appended before anybody sees them.  A drain, started at startup, by *)
(* a live notification or by a poller, hands them page by page to a        *)
(* worker, which applies them to the orchestration engine and to caches of *)
(* its own, and acknowledges a page at a time.  A row that cannot be       *)
(* processed blocks the rows after it until it is quarantined or           *)
(* dead-lettered.  Acknowledged rows of a turn that is still open are kept *)
(* and replayed by the next process, to rebuild the caches.                *)
(***************************************************************************)
EXTENDS Integers, FiniteSets, SequencesExt

CONSTANTS Threads, Turns,
          NoTurn,          \* an event without a turn
          Offered,         \* the events that providers send in this instance
          PageSize,        \* PROVIDER_RUNTIME_REPLAY_PAGE_SIZE
          RetainAccepted,  \* PROVIDER_RUNTIME_EVENT_RETAIN_ACCEPTED
          ScanInterval,    \* PROVIDER_RUNTIME_EVENT_RETENTION_SCAN_INTERVAL
          PoisonLimit,     \* RUNTIME_JOURNAL_POISON_DRAIN_LIMIT
          MaxSequence,     \* bound: sequence numbers assigned
          MaxFaults,       \* bound: reads and transactions that fail
          MaxRestarts,     \* bound: crashes and shutdowns
          MaxPrunes,       \* bound: prunings of settled turns in a running process
          MaxNotices,      \* bound: live notifications
          MaxUpgrades      \* bound: rows that a new version cannot decode

ASSUME PageSizeAssumption == PageSize \in Nat \ {0}
ASSUME LimitAssumption == /\ RetainAccepted \in Nat /\ ScanInterval \in Nat
                          /\ PoisonLimit \in Nat \ {0} /\ MaxSequence \in Nat
ASSUME BoundAssumption == {MaxFaults, MaxRestarts, MaxPrunes, MaxNotices, MaxUpgrades} \subseteq Nat

VARIABLES
  log, stored, garbled,   \* every event by sequence, the rows in the table, those that do not decode
  cursor, opened,         \* last_acked_sequence, provider_runtime_open_turns
  scanned,                \* lastRetentionScanSequence
  phase, rebuilt,         \* the process, and how far rebuildAcceptedOpenTurnState is
  drain,                  \* the holder of runtimeJournalDrainLock and where it is
  queue, quarantine,      \* the rows in the worker, and its steps on an unreplayable one
  pending, blocked,       \* pendingAckedSequence (0 for null), runtimeJournalPageBlocked
  gate, aged,             \* the poison gate; has the head been blocked for long enough?
  live, requested, wake,  \* the live drain fiber, requestedLiveFence, liveDrainWakeups
  count,                  \* how often each bounded event happened
  done, missed,           \* history: rows this process applied, and could not rebuild
  failures,               \* history: how often each row failed in this process
  handled, skipped        \* history: rows some process applied; rows given up

ackVars   == <<cursor, opened, stored, scanned>>
gateVars  == <<gate, aged>>
liveVars  == <<live, requested, wake>>
ownVars   == <<done, missed, failures>>
pastVars  == <<handled, skipped>>
vars == <<log, garbled, ackVars, phase, rebuilt, drain, queue, quarantine, pending, blocked,
          gateVars, liveVars, count, ownVars, pastVars>>

Keys == Threads \X Turns
Kinds == {"output", "turnEnd", "threadEnd"}
Events == [thread : Threads, turn : Turns \cup {NoTurn}, kind : Kinds]
Gap == [thread |-> CHOOSE t \in Threads : TRUE, turn |-> NoTurn, kind |-> "gap"]

ASSUME OfferedAssumption == Offered \subseteq Events \cup {Gap}

Sequences0 == 0 .. MaxSequence

NoDrain == [who |-> "none", fence |-> 0, pc |-> "off", from |-> 0]
NoGate == [cursor |-> -1, count |-> 0]
Asleep == [pc |-> "take", fence |-> 0, ok |-> TRUE]

Bounds == [faults |-> MaxFaults, restarts |-> MaxRestarts,
           prunes |-> MaxPrunes, notices |-> MaxNotices, upgrades |-> MaxUpgrades]

Occur(what) == /\ count[what] < Bounds[what]
               /\ count' = [count EXCEPT ![what] = @ + 1]

TypeOK ==
  /\ log \in Seq(Events \cup {Gap}) /\ Len(log) <= MaxSequence
  /\ stored \subseteq 1 .. Len(log) /\ garbled \subseteq stored
  /\ cursor \in 0 .. Len(log) /\ opened \in [Keys -> 0 .. cursor] /\ scanned \in 0 .. cursor
  /\ phase \in {"prune", "rebuild", "replay", "running", "stopping", "down", "dead"}
  /\ rebuilt \in Sequences0
  /\ drain \in [who : {"none", "start", "live", "poll"}, fence : Sequences0,
                pc : {"off", "flush", "page", "work", "check", "bury"}, from : Sequences0]
  /\ queue \in Seq(stored) /\ Len(queue) <= PageSize
  /\ quarantine \in {"no", "flush", "advance"}
  /\ pending \in 0 .. Len(log) /\ blocked \in BOOLEAN
  /\ gate \in [cursor : -1 .. MaxSequence, count : 0 .. PoisonLimit] /\ aged \in BOOLEAN
  /\ live \in [pc : {"take", "want", "drain", "after", "dead"}, fence : Sequences0, ok : BOOLEAN]
  /\ requested \in 0 .. Len(log) /\ wake \in BOOLEAN
  /\ DOMAIN count = DOMAIN Bounds /\ \A what \in DOMAIN Bounds : count[what] \in 0 .. Bounds[what]
  /\ done \in Seq(1 .. Len(log)) /\ missed \subseteq 1 .. Len(log)
  /\ failures \in [1 .. MaxSequence -> 0 .. PoisonLimit]
  /\ handled \subseteq 1 .. Len(log) /\ skipped \subseteq 1 .. cursor

Init ==
  /\ log = <<>> /\ stored = {} /\ garbled = {}
  /\ cursor = 0 /\ opened = [k \in Keys |-> 0] /\ scanned = 0
  /\ phase = "prune" /\ rebuilt = 0 /\ drain = NoDrain
  /\ queue = <<>> /\ quarantine = "no" /\ pending = 0 /\ blocked = FALSE
  /\ gate = NoGate /\ aged = FALSE
  /\ live = Asleep /\ requested = 0 /\ wake = FALSE
  /\ count = [what \in DOMAIN Bounds |-> 0]
  /\ done = <<>> /\ missed = {} /\ failures = [s \in 1 .. MaxSequence |-> 0]
  /\ handled = {} /\ skipped = {}

-----------------------------------------------------------------------------
(* The journal: rows, the consumer cursor, open turns and retention *)

Alive == phase \notin {"down", "dead"}

Rows(from, to) == {s \in stored : from < s /\ s <= to}

Ascending(seq) == \A i, j \in DOMAIN seq : i < j => seq[i] < seq[j]

InOrder(rows) == CHOOSE seq \in [1 .. Cardinality(rows) -> rows] : Ascending(seq)

Earliest(n, rows) == {s \in rows : Cardinality({r \in rows : r < s}) < n}

Latest(n, rows) == {s \in rows : Cardinality({r \in rows : r > s}) < n}

\* append: a new row.  A duplicate event id consumes a sequence number and adds no row.
Append1(e) ==
  /\ Alive /\ Len(log) < MaxSequence
  /\ log' = Append(log, e)
  /\ stored' = IF e = Gap THEN stored ELSE stored \cup {Len(log) + 1}
  /\ UNCHANGED <<garbled, cursor, opened, scanned, phase, rebuilt, drain, queue,
                 quarantine, pending, blocked, gateVars, liveVars, count, ownVars, pastVars>>

KeyOf(s) == <<log[s].thread, log[s].turn>>

Terminal(s) == log[s].kind \in {"turnEnd", "threadEnd"}

\* recordAckedOpenTurn: output opens its turn at its first row.  A terminal event closes its
\* turn; without a turn, it closes those of the thread, or the only one there is.
RecordAcked(open, s) ==
  LET ofThread == {k \in Keys : k[1] = log[s].thread /\ open[k] # 0}
      close(keys) == [k \in Keys |-> IF k \in keys THEN 0 ELSE open[k]]
  IN  CASE log[s].turn # NoTurn /\ ~Terminal(s) ->
             [open EXCEPT ![KeyOf(s)] = IF @ = 0 \/ s < @ THEN s ELSE @]
        [] log[s].turn # NoTurn /\ Terminal(s) -> close({KeyOf(s)})
        [] log[s].turn = NoTurn /\ log[s].kind = "threadEnd" -> close(ofThread)
        [] log[s].turn = NoTurn /\ log[s].kind = "turnEnd" /\ Cardinality(ofThread) = 1 ->
             close(ofThread)
        [] OTHER -> open

Kept(open, s) == log[s].turn # NoTurn /\ open[KeyOf(s)] \in 1 .. s

SweptOpenTurns(open, through) ==                                        \* (mutant)
  Rows(0, through) \ Latest(RetainAccepted, Rows(0, through))

\* sweepAcceptedHistoryThrough: what it deletes.
Swept(open, through) ==
  LET accepted == Rows(0, through)
  IN  {s \in accepted \ Latest(RetainAccepted, accepted) : ~Kept(open, s)}

\* The scan runs when a terminal event was accepted, and once per interval.
ScanDue(rows, through) ==
  \/ \E s \in rows : Terminal(s)
  \/ through - scanned >= ScanInterval

\* The transaction of advanceConsumerCursor and advanceConsumerCursorThrough.  The hint is
\* moved only when the caller sees the commit.
Acknowledge(through, known) ==
  LET rows == Rows(cursor, through)
      open == FoldLeft(RecordAcked, opened, InOrder(rows))
      scan == ScanDue(rows, through)
  IN  IF cursor >= through
      THEN UNCHANGED <<ackVars, garbled>>
      ELSE /\ cursor' = through
           /\ opened' = open
           /\ stored' = IF scan THEN stored \ Swept(open, through) ELSE stored
           /\ garbled' = garbled \cap stored'
           /\ scanned' = IF scan /\ known THEN through ELSE scanned

\* Whether advanceConsumerCursorThrough, or advanceConsumerCursor, answers true.
CanAdvanceThrough(s) == cursor >= s \/ s \in stored

CanAdvanceTo(s) == cursor >= s \/ Earliest(1, Rows(cursor, Len(log))) = {s}

\* A transaction that fails, with or without its effect.
AcknowledgeFails(through) ==
  /\ Occur("faults")
  /\ UNCHANGED <<ackVars, garbled>> \/ Acknowledge(through, FALSE)

\* flushRuntimeCursor: pendingAckedSequence is kept unless the commit is seen.
FlushSucceeds ==
  /\ IF pending = 0 THEN UNCHANGED <<ackVars, garbled>>
                    ELSE CanAdvanceThrough(pending) /\ Acknowledge(pending, TRUE)
  /\ pending' = 0
  /\ UNCHANGED count

FlushFails == pending # 0 /\ AcknowledgeFails(pending) /\ UNCHANGED pending

\* pruneSettledOpenTurns: which turns are settled is the projections' business.
Prune(keys) ==
  /\ opened' = [k \in Keys |-> IF k \in keys THEN 0 ELSE opened[k]]
  /\ UNCHANGED <<cursor, stored, scanned, garbled>>

\* reconcileSettledOpenTurns, while the process runs.
ReconcileSettled ==
  /\ phase = "running" /\ Occur("prunes")
  /\ \E keys \in SUBSET {k \in Keys : opened[k] # 0} : keys # {} /\ Prune(keys)
  /\ UNCHANGED <<log, phase, rebuilt, drain, queue, quarantine, pending, blocked, gateVars,
                 liveVars, ownVars, pastVars>>

-----------------------------------------------------------------------------
(* The worker: processInputSafely over one row at a time *)

Processing == Alive /\ queue # <<>> /\ quarantine = "no"

ItemDone == queue' = Tail(queue)

\* A row behind one that failed is not looked at.
SkipBlocked ==
  /\ Processing /\ blocked /\ ItemDone
  /\ UNCHANGED <<log, garbled, ackVars, phase, rebuilt, drain, quarantine, pending, blocked,
                 gateVars, liveVars, count, ownVars, pastVars>>
ProcessableAlways == Processing                                         \* (mutant)

Processable == Processing /\ ~blocked

Complete ==
  /\ Processable /\ ItemDone
  /\ done' = Append(done, Head(queue)) /\ handled' = handled \cup {Head(queue)}
  /\ pending' = Head(queue)
  /\ UNCHANGED <<log, garbled, ackVars, phase, rebuilt, drain, quarantine, blocked, gateVars,
                 liveVars, count, missed, failures, skipped>>

Failed(s) == failures' = [failures EXCEPT ![s] = IF @ < PoisonLimit THEN @ + 1 ELSE @]

Fail ==
  /\ Processable /\ ItemDone
  /\ Failed(Head(queue)) /\ blocked' = TRUE
  /\ UNCHANGED <<log, garbled, ackVars, phase, rebuilt, drain, quarantine, pending, gateVars,
                 liveVars, count, done, missed, pastVars>>

\* An identity collision or a stored rejection: quarantineUnreplayableCommand begins.
Collide ==
  /\ Processable
  /\ Failed(Head(queue)) /\ blocked' = TRUE /\ quarantine' = "flush"
  /\ UNCHANGED <<log, garbled, ackVars, phase, rebuilt, drain, queue, pending, gateVars,
                 liveVars, count, done, missed, pastVars>>

QuarantineUnflushed ==                                                  \* (mutant)
  /\ quarantine = "flush" /\ quarantine' = "advance"
  /\ UNCHANGED <<log, garbled, ackVars, phase, rebuilt, drain, queue, pending, blocked, gateVars,
                 liveVars, count, ownVars, pastVars>>

\* The rows before it are acknowledged first.
QuarantineFlush ==
  /\ quarantine = "flush"
  /\ \/ FlushSucceeds /\ quarantine' = "advance" /\ UNCHANGED queue
     \/ FlushFails /\ quarantine' = "no" /\ ItemDone
  /\ UNCHANGED <<log, phase, rebuilt, drain, blocked, gateVars, liveVars, ownVars, pastVars>>

\* Only a commit that is seen lets the rest of the page go on.
QuarantineAdvance ==
  /\ quarantine = "advance" /\ quarantine' = "no" /\ ItemDone
  /\ \/ /\ CanAdvanceTo(Head(queue)) /\ Acknowledge(Head(queue), TRUE)
        /\ blocked' = FALSE /\ UNCHANGED count
     \/ AcknowledgeFails(Head(queue)) /\ UNCHANGED blocked
  /\ skipped' = skipped \cup ({Head(queue)} \cap 1 .. cursor')
  /\ UNCHANGED <<log, phase, rebuilt, drain, pending, gateVars, liveVars, ownVars, handled>>

WorkerIdle == queue = <<>>

Worker == SkipBlocked \/ Complete \/ Fail \/ Collide \/ QuarantineFlush \/ QuarantineAdvance

-----------------------------------------------------------------------------
(* drainRuntimeJournalThrough, one holder of the lock at a time *)

\* The lock is free and the worker has finished what an earlier drain left in it.
Acquire(who, fence) ==
  /\ drain = NoDrain /\ WorkerIdle
  /\ drain' = [who |-> who, fence |-> fence, pc |-> "flush", from |-> 0]

\* The drain returns, drained or blocked, or fails: a failed one ends the startup.
Release(how) ==
  /\ drain' = NoDrain
  /\ phase' = IF drain.who # "start" THEN phase ELSE IF how = "failed" THEN "dead" ELSE "running"
  /\ live' = IF drain.who # "live" THEN live
             ELSE [live EXCEPT !.pc = "after", !.ok = how = "drained"]

At(pc) == drain.pc = pc

GoTo(pc) == drain' = [drain EXCEPT !.pc = pc] /\ UNCHANGED <<phase, live>>

Again == drain' = [drain EXCEPT !.pc = "flush", !.from = 0] /\ UNCHANGED <<phase, live>>

DrainWithoutFlush ==                                                    \* (mutant)
  /\ At("flush") \/ (At("work") /\ WorkerIdle)
  /\ \/ At("flush") /\ GoTo("page") /\ UNCHANGED <<ackVars, garbled, pending, count>>
     \/ At("work") /\ FlushSucceeds /\ GoTo("check")
     \/ At("work") /\ FlushFails /\ Release("failed")
  /\ UNCHANGED <<log, rebuilt, queue, quarantine, blocked, gateVars, requested, wake, ownVars,
                 pastVars>>

\* The flush before the next page and the one behind it.
DrainFlush ==
  /\ At("flush") \/ (At("work") /\ WorkerIdle)
  /\ \/ FlushSucceeds /\ GoTo(IF At("flush") THEN "page" ELSE "check")
     \/ FlushFails /\ Release("failed")
  /\ UNCHANGED <<log, rebuilt, queue, quarantine, blocked, gateVars, requested, wake, ownVars,
                 pastVars>>

DrainReturns ==
  /\ At("page") /\ cursor >= drain.fence /\ Release("drained")
  /\ UNCHANGED <<log, garbled, ackVars, rebuilt, queue, quarantine, pending, blocked, gateVars,
                 requested, wake, count, ownVars, pastVars>>

\* readAfter decodes the whole page: one row that does not decode fails the drain.
Page == Earliest(PageSize, Rows(cursor, drain.fence))

DrainPage ==
  /\ At("page") /\ cursor < drain.fence /\ Page \cap garbled = {}
  /\ queue' = InOrder(Page) /\ blocked' = FALSE
  /\ drain' = [drain EXCEPT !.pc = "work", !.from = cursor]
  /\ UNCHANGED <<log, garbled, ackVars, phase, rebuilt, quarantine, pending, gateVars, liveVars,
                 count, ownVars, pastVars>>

\* A read of the store fails, or a row does not decode.
DrainFails ==
  /\ \/ At("page") /\ Page \cap garbled # {} /\ UNCHANGED count
     \/ At("bury") /\ Earliest(1, Rows(cursor, Len(log))) \cap garbled # {} /\ UNCHANGED count
     \/ (At("page") \/ At("check") \/ At("bury")) /\ Occur("faults")
  /\ Release("failed")
  /\ UNCHANGED <<log, garbled, ackVars, rebuilt, queue, quarantine, pending, blocked, gateVars,
                 requested, wake, ownVars, pastVars>>

DrainNextPage ==
  /\ At("check") /\ ~blocked /\ Again
  /\ UNCHANGED <<log, garbled, ackVars, rebuilt, queue, quarantine, pending, blocked, gateVars,
                 requested, wake, count, ownVars, pastVars>>

GateOfOneDrain == FALSE                                                 \* (mutant)

AnyHead == gate.cursor # NoGate.cursor                                  \* (mutant)

\* noteBlockedDrain: a row is poison after enough blocked drains at one cursor over enough time.
SameHead == gate.cursor = cursor

NoteBlocked ==
  /\ At("check") /\ blocked
  /\ LET n == IF SameHead THEN gate.count + 1 ELSE 1
     IN  /\ gate' = [cursor |-> cursor, count |-> IF n > PoisonLimit THEN PoisonLimit ELSE n]
         /\ aged' = (SameHead /\ aged)
         /\ IF n >= PoisonLimit /\ aged' THEN GoTo("bury") ELSE Release("blocked")
  /\ UNCHANGED <<log, garbled, ackVars, rebuilt, queue, quarantine, pending, blocked, requested,
                 wake, count, ownVars, pastVars>>

\* RUNTIME_JOURNAL_POISON_MIN_BLOCKED_MS pass without progress.
Age ==
  /\ gate # NoGate /\ ~aged /\ aged' = TRUE
  /\ UNCHANGED <<log, garbled, ackVars, phase, rebuilt, drain, queue, quarantine, pending,
                 blocked, gate, liveVars, count, ownVars, pastVars>>

\* deadLetterPoisonHeadRow: the row after the cursor is given up, and the drain goes on.
Bury ==
  /\ At("bury")
  /\ \E s \in Earliest(1, Rows(cursor, Len(log))) \ garbled :
       /\ \/ Acknowledge(s, TRUE) /\ gate' = NoGate /\ aged' = FALSE /\ Again
             /\ UNCHANGED count
          \/ AcknowledgeFails(s) /\ Release("failed") /\ UNCHANGED gateVars
       /\ skipped' = skipped \cup ({s} \cap 1 .. cursor')
  /\ UNCHANGED <<log, rebuilt, queue, quarantine, pending, blocked, requested, wake, ownVars,
                 handled>>

Drain == DrainFlush \/ DrainReturns \/ DrainPage \/ DrainFails \/ DrainNextPage \/ NoteBlocked
         \/ Bury

-----------------------------------------------------------------------------
(* Who drains: the poller and the fiber that live notifications wake *)

\* A poll that finds nothing to do changes nothing.
Poll ==
  /\ phase = "running" /\ (Rows(cursor, Len(log)) # {} \/ pending # 0)
  /\ Acquire("poll", IF stored = {} THEN 0 ELSE Max(stored))
  /\ UNCHANGED <<log, garbled, ackVars, phase, rebuilt, queue, quarantine, pending, blocked,
                 gateVars, liveVars, count, ownVars, pastVars>>

\* Notifications raise the fence and offer a wake-up to a sliding queue of one.
Notify ==
  /\ phase = "running" /\ Occur("notices")
  /\ requested' \in {s \in stored : s > requested}
  /\ wake' = TRUE
  /\ UNCHANGED <<log, garbled, ackVars, phase, rebuilt, drain, queue, quarantine, pending,
                 blocked, gateVars, live, ownVars, pastVars>>

LiveTake ==
  /\ phase = "running" /\ live.pc = "take" /\ wake
  /\ wake' = FALSE /\ live' = [live EXCEPT !.pc = "want", !.fence = requested]
  /\ UNCHANGED <<log, garbled, ackVars, phase, rebuilt, drain, queue, quarantine, pending,
                 blocked, gateVars, requested, count, ownVars, pastVars>>

LiveDrain ==
  /\ phase = "running" /\ live.pc = "want"
  /\ Acquire("live", live.fence) /\ live' = [live EXCEPT !.pc = "drain"]
  /\ UNCHANGED <<log, garbled, ackVars, phase, rebuilt, queue, quarantine, pending, blocked,
                 gateVars, requested, wake, count, ownVars, pastVars>>

\* Again, if the fence moved during the drain and the page was not blocked.  A failed read of
\* the cursor here ends the fiber.
LiveAfter ==
  /\ phase = "running" /\ live.pc = "after"
  /\ \/ /\ requested > live.fence /\ cursor >= live.fence
        /\ live' = [live EXCEPT !.pc = "want", !.fence = requested] /\ UNCHANGED count
     \/ /\ requested <= live.fence \/ cursor < live.fence
        /\ live' = [live EXCEPT !.pc = "take"] /\ UNCHANGED count
     \/ /\ requested > live.fence /\ Occur("faults")
        /\ live' = [live EXCEPT !.pc = "dead"]
  /\ UNCHANGED <<log, garbled, ackVars, phase, rebuilt, drain, queue, quarantine, pending,
                 blocked, gateVars, requested, wake, ownVars, pastVars>>

Live == LiveTake \/ LiveDrain \/ LiveAfter

-----------------------------------------------------------------------------
(* The process: startup, shutdown, crash *)

\* What a process forgets.
Forget ==
  /\ scanned' = 0 /\ rebuilt' = 0 /\ drain' = NoDrain /\ queue' = <<>> /\ quarantine' = "no"
  /\ pending' = 0 /\ blocked' = FALSE /\ gate' = NoGate /\ aged' = FALSE
  /\ live' = Asleep /\ requested' = 0 /\ wake' = FALSE
  /\ done' = <<>> /\ missed' = {} /\ failures' = [s \in 1 .. MaxSequence |-> 0]

Boot ==
  /\ ~Alive /\ phase' = "prune" /\ Forget
  /\ UNCHANGED <<log, stored, garbled, cursor, opened, count, pastVars>>

\* A version that cannot decode a row it finds.
Upgrade ==
  /\ phase = "down" /\ Occur("upgrades")
  /\ \E s \in stored \ garbled : garbled' = garbled \cup {s}
  /\ UNCHANGED <<log, ackVars, phase, rebuilt, drain, queue, quarantine, pending, blocked,
                 gateVars, liveVars, ownVars, pastVars>>

StartPrune ==
  /\ phase = "prune"
  /\ \/ /\ phase' = "rebuild" /\ UNCHANGED count
        /\ \E keys \in SUBSET {k \in Keys : opened[k] # 0} : Prune(keys)
     \/ /\ phase' = "dead" /\ Occur("faults") /\ UNCHANGED <<ackVars, garbled>>
  /\ UNCHANGED <<log, rebuilt, drain, queue, quarantine, pending, blocked, gateVars, liveVars,
                 ownVars, pastVars>>

\* readAcceptedOpenTurnEvents
Accepted == Earliest(PageSize, {s \in Rows(rebuilt, cursor) : Kept(opened, s)})

\* rebuildAcceptedOpenTurnState, a page: each row is processed again or missed.
Rebuild ==
  /\ phase = "rebuild" /\ Accepted \cap garbled = {}
  /\ \E lost \in SUBSET Accepted :
       /\ missed' = missed \cup lost
       /\ done' = done \o InOrder(Accepted \ lost)
       /\ handled' = handled \cup (Accepted \ lost)
  /\ IF Cardinality(Accepted) < PageSize
     THEN phase' = "replay" /\ rebuilt' = 0
     ELSE phase' = "rebuild" /\ rebuilt' = Max(Accepted)
  /\ UNCHANGED <<log, garbled, ackVars, drain, queue, quarantine, pending, blocked, gateVars,
                 liveVars, count, failures, skipped>>

\* A page that cannot be read, or does not decode, ends the startup.
RebuildFails ==
  /\ phase = "rebuild" /\ phase' = "dead"
  /\ \/ Accepted \cap garbled # {} /\ UNCHANGED count
     \/ Occur("faults")
  /\ UNCHANGED <<log, garbled, ackVars, rebuilt, drain, queue, quarantine, pending, blocked,
                 gateVars, liveVars, ownVars, pastVars>>

StartDrain ==
  /\ phase = "replay" /\ Acquire("start", IF stored = {} THEN 0 ELSE Max(stored))
  /\ UNCHANGED <<log, garbled, ackVars, phase, rebuilt, queue, quarantine, pending, blocked,
                 gateVars, liveVars, count, ownVars, pastVars>>

Crash ==
  /\ Alive /\ Occur("restarts") /\ phase' = "down" /\ Forget
  /\ UNCHANGED <<log, stored, garbled, cursor, opened, pastVars>>

\* The producers' scope closes: the drains are interrupted, the worker finishes its rows.
Stop ==
  /\ phase = "running" /\ Occur("restarts") /\ phase' = "stopping"
  /\ drain' = NoDrain /\ live' = Asleep /\ requested' = 0 /\ wake' = FALSE
  /\ UNCHANGED <<log, garbled, ackVars, rebuilt, queue, quarantine, pending, blocked, gateVars,
                 ownVars, pastVars>>

\* The last finalizer flushes the cursor; its failure is only logged.
StopFlush ==
  /\ phase = "stopping" /\ WorkerIdle /\ phase' = "down"
  /\ FlushSucceeds \/ FlushFails
  /\ UNCHANGED <<log, rebuilt, drain, queue, quarantine, blocked, gateVars, liveVars, ownVars,
                 pastVars>>

Start == Boot \/ StartPrune \/ Rebuild \/ RebuildFails \/ StartDrain \/ StopFlush

-----------------------------------------------------------------------------

Next ==
  \/ \E e \in Offered : Append1(e)
  \/ ReconcileSettled \/ Worker \/ Drain \/ Age \/ Poll \/ Notify \/ Live
  \/ Start \/ Upgrade \/ Crash \/ Stop

Spec == Init /\ [][Next]_vars

\* Effect's scheduler runs every fiber that can run, the poller's sleep ends, time passes, and
\* a process that ended is started again.
FairSpec == /\ Spec /\ WF_vars(Worker) /\ WF_vars(Drain) /\ WF_vars(Start)
            /\ WF_vars(Poll) /\ WF_vars(Age)

-----------------------------------------------------------------------------
(* Properties *)

\* In one process a row is applied once and in journal order, the rebuild included: receipts
\* make a repeated command harmless, but text that is buffered in a cache would be doubled
\* ("In-process retries must flush the completed prefix before reading another page",
\* ProviderRuntimeIngestion.ts:2907).
AppliedOnceInOrder == Ascending(done)

\* The cursor passes no row that was neither applied by some process nor given up.
AcknowledgedMeansHandled == {s \in 1 .. cursor : log[s] # Gap} \subseteq handled \cup skipped

\* Once the rebuild is over, this process has applied every acknowledged row of a turn that is
\* still open, since the turn opened, except rows given up or missed by the rebuild: its caches
\* hold the whole text of the turn, however often processes died in the middle of it.
CachesHoldOpenTurns ==
  phase \in {"replay", "running", "stopping"} =>
    \A s \in 1 .. cursor :
      log[s] # Gap /\ Kept(opened, s) => s \in ToSet(done) \cup missed \cup skipped

\* A row that is given up failed in this process, and a dead-lettered one failed in as many
\* drains as the poison gate asks for (less one for a commit that reported a failure): it is
\* never a row behind the poison one.
GivenUpFailed ==
  [][\A s \in skipped' \ skipped :
       failures[s] >= IF At("bury") THEN PoisonLimit - count["faults"] ELSE 1]_vars

\* The defects of flush, quarantine and drain ("could not advance", "could not be quarantined",
\* "is missing rows", "made no progress") are unreachable.
NoDefect ==
  /\ pending # 0 => CanAdvanceThrough(pending)
  /\ quarantine = "advance" => CanAdvanceTo(Head(queue))
  /\ At("page") /\ cursor < drain.fence => Page # {}
  /\ At("check") /\ ~blocked => cursor > drain.from
  /\ At("bury") => Rows(cursor, Len(log)) # {}

\* Whatever fails, every row is acknowledged in the end, unless one does not decode.
JournalDrains == <>[](garbled # {} \/ \A s \in stored : s <= cursor)
================================================================================
