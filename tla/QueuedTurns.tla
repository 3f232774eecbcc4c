---------------------------- MODULE QueuedTurns ----------------------------
(***************************************************************************)
(* Messages that wait for a running turn.  A message sent while its        *)
(* thread's provider is busy becomes a row of queued_turn_promotions.      *)
(* Whoever sees the provider idle drains: it claims the next row, reserves *)
(* the provider session, asks the engine to start the turn and marks the   *)
(* row promoted.  The delivery source starts the turn, or, when it meets   *)
(* another live turn, queues the message again.  The reservation keeps     *)
(* every other drain of the session out until the promoted turn is over.   *)
(*                                                                         *)
(* Three fibers drain: the delivery source, the reader of terminal runtime *)
(* events, and the startup recovery.  All threads of the model share one   *)
(* provider session: its owner Root and the subagent threads below it.     *)
(* Sessions do not interact, except through the source.  A step is what    *)
(* runs between two awaits.                                                *)
(***************************************************************************)
EXTENDS Naturals, FiniteSets, SequencesExt

CONSTANTS Root,        \* the thread that owns the provider session
          Children,    \* subagent threads that share it
          Modes,       \* the dispatch modes in use: "queue", "steer"
          Native,      \* can the provider take a message into a live turn?
          Asks,        \* the other requests in use: "stop", "deleted", "edit"
          Faults,      \* the faults in use: "refuse", "reject", "timeout", "crash", and
                       \* "unnamed" for a turn that ends without its id in the event
          MaxMessages, \* bound: messages, numbered in the order the user sends them
          MaxUnusual   \* bound: other requests and faults, together

Threads == {Root} \cup Children
Messages == 1..MaxMessages

ASSUME ThreadsAssumption == Root \notin Children /\ IsFiniteSet(Children)
ASSUME ModesAssumption == Modes \subseteq {"queue", "steer"} /\ Native \in BOOLEAN
ASSUME AsksAssumption == Asks \subseteq {"stop", "deleted", "edit"}
ASSUME FaultsAssumption == Faults \subseteq {"refuse", "reject", "timeout", "crash", "unnamed"}
ASSUME BoundsAssumption == {MaxMessages, MaxUnusual} \subseteq Nat

VARIABLES
    log,         \* orchestration_events: the intents, in sequence order
    row,         \* queued_turn_promotions, by the sequence of the source event
    dispatched,  \* rows whose thread.turn.dispatch-queued has an accepted receipt
    cursor,      \* last_acked_sequence of the delivery source
    inflight,    \* the delivery behind the cursor is claimed
    quarantined, \* threads with an uncertain delivery
    boot,        \* which process is running (queuedTurnPromotionOwner)
    turn, turns, \* the live provider turn (0 for none); turns begun
    ended,       \* terminal events not yet read by the drain fiber (0 for no turn id)
    running,     \* does the projected session, which lags, have an active turn?
    reservation, \* pendingQueuedDispatchBySessionThread
    draining,    \* drainingQueuedTurns
    fiber,       \* the drain each fiber is in
    src,         \* the delivery source: the step of its handler
    replay,      \* startup recovery waits for the source to pass this sequence; 0 afterwards
    sent,        \* history: how often each message was given to the provider
    faults       \* history: the faults so far

disk    == <<log, row, dispatched, cursor, inflight, quarantined>>
session == <<turn, turns, ended, running>>
memory  == <<reservation, draining, fiber, src, replay>>
vars    == <<disk, boot, session, memory, sent, faults>>

----------------------------------------------------------------------------
(* The log and the table. *)

Seqs == 1..Len(log)
Starts == {"queued", "start"}
Count(kinds) == Cardinality({s \in Seqs : log[s].kind \in kinds})
Gone(t) == \E s \in Seqs : log[s].kind = "deleted" /\ log[s].thread = t

NoRow == [state |-> "none", owner |-> 0, attempt |-> 0]

(* The engine commits an event; it has no row yet. *)
Commit(kind, t, m, mode) ==
    /\ log' = Append(log, [kind |-> kind, thread |-> t, msg |-> m, mode |-> mode])
    /\ row' = Append(row, NoRow)

Active(s) == row[s].state \in {"queued", "promoting"}
Pending(t) == {s \in Seqs : log[s].thread = t /\ Active(s)}
HasPending(t, m) == \E s \in Pending(t) : log[s].msg = m

(* enqueue: ON CONFLICT DO UPDATE ... WHERE the row is settled and older.  A *)
(* conflict is with the same sequence, which is not older, or with an active *)
(* row of the message, which is not settled: the update never applies.       *)
Enqueued(s) ==
    IF row[s].state # "none" \/ HasPending(log[s].thread, log[s].msg)
    THEN row ELSE [row EXCEPT ![s].state = "queued"]

Settled(S, state) ==
    [s \in Seqs |-> IF s \in S THEN [row[s] EXCEPT !.state = state, !.owner = 0] ELSE row[s]]

CancelThreads(T) == Settled(UNION {Pending(t) : t \in T}, "cancelled")

(* claimNext: rows of an earlier process are free again (a lease of this     *)
(* process never expires under its own drain); the latest steer goes first.  *)
Foreign(t) == {s \in Pending(t) : row[s].state = "promoting" /\ row[s].owner # boot}
Claimable(t) == {s \in Pending(t) : row[s].state = "queued"} \cup Foreign(t)
NextClaim(t) ==
    LET steers == {s \in Claimable(t) : log[s].mode = "steer"}
    IN  IF steers # {} THEN Max(steers) ELSE Min(Claimable(t))

----------------------------------------------------------------------------
(* Memory. *)

Fibers == {"source", "terminal", "startup"}
NoDrain == [step |-> "none", todo |-> <<>>, at |-> 0, recover |-> FALSE]
NoReservation == [at |-> 0, attempt |-> 0, turn |-> 0, seen |-> {}]
NoJob == [step |-> "idle", at |-> 0, attempt |-> 0, turn |-> 0, failed |-> FALSE]

Thread(f) == Head(fiber[f].todo)
Goto(f, step) == fiber' = [fiber EXCEPT ![f].step = step]
NextThread(f) == [fiber[f] EXCEPT !.step = "next", !.todo = Tail(@), !.at = 0]

(* drainQueuedTurnsForSession: the thread itself, then the others that wait. *)
SessionQueues(t) == <<t>> \o SetToSeq({u \in Threads \ {t} : Pending(u) # {}})
Drain(queues, recover) ==
    [NoDrain EXCEPT !.step = "next", !.todo = queues, !.recover = recover]
StartDrain(f, queues, recover) == fiber' = [fiber EXCEPT ![f] = Drain(queues, recover)]

Init ==
    /\ log = <<>> /\ row = <<>> /\ dispatched = {} /\ cursor = 0
    /\ inflight = FALSE /\ quarantined = {} /\ boot = 1
    /\ turn = 0 /\ turns = 0 /\ ended = <<>> /\ running = FALSE
    /\ reservation = NoReservation /\ draining = {}
    /\ fiber = [f \in Fibers |-> NoDrain] /\ src = NoJob /\ replay = 0
    /\ sent = [m \in Messages |-> 0] /\ faults = <<>>

CanBeUnusual == Count(Asks) + Len(faults) < MaxUnusual

Fault(kind) == kind \in Faults /\ CanBeUnusual /\ faults' = Append(faults, kind)

----------------------------------------------------------------------------
(* The user and the provider. *)

(* thread.turn.start: the decider looks at the projected session. *)
ShouldQueue(t, mode) == t = Root /\ running /\ (mode = "queue" \/ ~Native)

Unsent == {m \in Messages : \A s \in Seqs : log[s].msg # m}

Send(t, mode) ==
    /\ ~Gone(t) /\ Unsent # {}
    /\ Commit(IF ShouldQueue(t, mode) THEN "queued" ELSE "start", t, Min(Unsent), mode)
    /\ UNCHANGED <<dispatched, cursor, inflight, quarantined, boot, session, memory, sent, faults>>

(* Only the last message of a thread can be edited. *)
Mine(t) == {s \in Seqs : log[s].thread = t /\ log[s].kind \in Starts}
Asked(t, kind) ==
    IF kind = "edit" THEN {log[s].msg : s \in {x \in Mine(t) : \A y \in Mine(t) : y <= x}} ELSE {0}

Ask(t, kind) ==
    /\ CanBeUnusual /\ ~Gone(t)
    /\ \E m \in Asked(t, kind) : Commit(kind, t, m, "none")
    /\ UNCHANGED <<dispatched, cursor, inflight, quarantined, boot, session, memory, sent, faults>>

Ends(id) == turn # 0 /\ turn' = 0 /\ ended' = Append(ended, id)

TurnEnds ==
    /\ Ends(turn)
    /\ UNCHANGED <<disk, boot, turns, running, memory, sent, faults>>

(* Some adapters cannot name a turn that was aborted. *)
TurnAborts ==
    /\ Fault("unnamed")
    /\ Ends(0)
    /\ UNCHANGED <<disk, boot, turns, running, memory, sent>>

(* Ingestion brings the projected session up to date. *)
Project ==
    /\ running # (turn # 0)
    /\ running' = (turn # 0)
    /\ UNCHANGED <<disk, boot, turn, turns, ended, memory, sent, faults>>

----------------------------------------------------------------------------
(* A drain of fiber f, one queue after the other. *)

(* recoverQueuedTurnPromotionsForThread looks first whether there is reason to drain. *)
Visit(f) ==
    /\ fiber[f].step = "next"
    /\ IF fiber[f].todo = <<>>
       THEN fiber' = [fiber EXCEPT ![f] = NoDrain] /\ UNCHANGED row
       ELSE LET t == Thread(f)
                skip == fiber[f].recover /\ (Gone(t) \/ turn # 0)
            IN /\ fiber' = [fiber EXCEPT ![f] =
                               IF skip THEN NextThread(f) ELSE [@ EXCEPT !.step = "guard"]]
               /\ row' = IF fiber[f].recover /\ Gone(t) THEN CancelThreads({t}) ELSE row
    /\ UNCHANGED <<log, dispatched, cursor, inflight, quarantined, boot, session, reservation,
                   draining, src, replay, sent, faults>>

(* (mutant) drainingQueuedTurns is not consulted *)
GuardReservationOnly(f) ==
    /\ fiber[f].step = "guard"
    /\ IF reservation # NoReservation
       THEN fiber' = [fiber EXCEPT ![f] = NextThread(f)] /\ UNCHANGED draining
       ELSE Goto(f, "claim") /\ draining' = draining \cup {Thread(f)}
    /\ UNCHANGED <<disk, boot, session, reservation, src, replay, sent, faults>>

Guard(f) ==
    /\ fiber[f].step = "guard"
    /\ IF Thread(f) \in draining \/ reservation # NoReservation
       THEN fiber' = [fiber EXCEPT ![f] = NextThread(f)] /\ UNCHANGED draining
       ELSE Goto(f, "claim") /\ draining' = draining \cup {Thread(f)}
    /\ UNCHANGED <<disk, boot, session, reservation, src, replay, sent, faults>>

ClaimNext(f) ==
    LET t == Thread(f) IN
    /\ fiber[f].step = "claim"
    /\ IF Claimable(t) = {}
       THEN /\ fiber' = [fiber EXCEPT ![f] = NextThread(f)]
            /\ draining' = draining \ {t}
            /\ UNCHANGED row
       ELSE LET s == NextClaim(t) IN
            /\ row' = [Settled(Foreign(t), "queued") EXCEPT
                         ![s] = [state |-> "promoting", owner |-> boot, attempt |-> @.attempt + 1]]
            /\ fiber' = [fiber EXCEPT ![f].step = "reserve", ![f].at = s]
            /\ UNCHANGED draining
    /\ UNCHANGED <<log, dispatched, cursor, inflight, quarantined, boot, session, reservation,
                   src, replay, sent, faults>>

(* The source event is read; the reservation is set without a second look. *)
Reserve(f) ==
    /\ fiber[f].step = "reserve"
    /\ reservation' = [NoReservation EXCEPT !.at = fiber[f].at,
                                            !.attempt = row[fiber[f].at].attempt]
    /\ Goto(f, "dispatch")
    /\ UNCHANGED <<disk, boot, session, draining, src, replay, sent, faults>>

(* (mutant) the command id of a promotion is new in each attempt *)
DispatchAnew(f) ==
    /\ fiber[f].step = "dispatch"
    /\ ~Gone(Thread(f))
    /\ Commit("start", Thread(f), log[fiber[f].at].msg, log[fiber[f].at].mode)
    /\ dispatched' = dispatched \cup {fiber[f].at}
    /\ Goto(f, "mark")
    /\ UNCHANGED <<cursor, inflight, quarantined, boot, session, reservation, draining, src,
                   replay, sent, faults>>

(* The engine decides.  The command id is fixed per row: a second dispatch  *)
(* is answered from the receipt of the first.                               *)
Dispatch(f) ==
    LET s == fiber[f].at IN
    /\ fiber[f].step = "dispatch"
    /\ s \in dispatched \/ ~Gone(Thread(f))
    /\ IF s \in dispatched THEN UNCHANGED <<log, row>>
       ELSE Commit("start", log[s].thread, log[s].msg, log[s].mode)
    /\ dispatched' = dispatched \cup {s}
    /\ Goto(f, "mark")
    /\ UNCHANGED <<cursor, inflight, quarantined, boot, session, reservation, draining, src,
                   replay, sent, faults>>

Refuse(f) ==
    /\ fiber[f].step = "dispatch"
    /\ fiber[f].at \notin dispatched
    /\ \/ Gone(Thread(f)) /\ UNCHANGED faults
       \/ ~Gone(Thread(f)) /\ Fault("refuse")
    /\ Goto(f, "undo")
    /\ UNCHANGED <<disk, boot, session, reservation, draining, src, replay, sent>>

Owned(s) == row[s].state = "promoting" /\ row[s].owner = boot

MarkPromoted(f) ==
    LET s == fiber[f].at IN
    /\ fiber[f].step = "mark"
    /\ IF Owned(s)
       THEN /\ row' = Settled({s}, "promoted")
            /\ fiber' = [fiber EXCEPT ![f] = NextThread(f)]
            /\ draining' = draining \ {Thread(f)}
       ELSE Goto(f, "undo") /\ UNCHANGED <<row, draining>>
    /\ UNCHANGED <<log, dispatched, cursor, inflight, quarantined, boot, session, reservation,
                   src, replay, sent, faults>>

(* onError: the reservation goes, whoever's it is; the claim is released; the *)
(* error ends the drain, and the turn start of the source that it was part of.*)
Undo(f) ==
    LET s == fiber[f].at IN
    /\ fiber[f].step = "undo"
    /\ reservation' = NoReservation
    /\ row' = IF Owned(s) THEN Settled({s}, "queued") ELSE row
    /\ draining' = draining \ {Thread(f)}
    /\ fiber' = [fiber EXCEPT ![f] = NoDrain]
    /\ src' = IF f = "source" /\ src.step # "idle" THEN [src EXCEPT !.failed = TRUE] ELSE src
    /\ UNCHANGED <<log, dispatched, cursor, inflight, quarantined, boot, session, replay, sent,
                   faults>>

DrainStep(f) ==
    Visit(f) \/ Guard(f) \/ ClaimNext(f) \/ Reserve(f) \/ Dispatch(f) \/ Refuse(f)
    \/ MarkPromoted(f) \/ Undo(f)

----------------------------------------------------------------------------
(* The delivery source, which handles one event at a time. *)

At == cursor + 1
SourceFree == src.step = "idle" /\ fiber["source"].step = "none"
InHand(step) == src.step = step /\ fiber["source"].step = "none"
Step(step) == src' = [src EXCEPT !.step = step]
Due(kinds) == SourceFree /\ At \in Seqs /\ log[At].kind \in kinds

(* thread.turn-queued: the write is replay-safe, so its claim is not modelled. *)
TurnQueued ==
    /\ Due({"queued"})
    /\ row' = Enqueued(At)
    /\ Step("queued")
    /\ UNCHANGED <<log, dispatched, cursor, inflight, quarantined, boot, session, reservation,
                   draining, fiber, replay, sent, faults>>

(* (mutant) no recovery drain after the delivery *)
TurnQueuedOnlySettles ==
    /\ InHand("queued")
    /\ cursor' = At /\ src' = NoJob
    /\ UNCHANGED <<log, row, dispatched, inflight, quarantined, boot, session, reservation,
                   draining, fiber, replay, sent, faults>>

(* The delivery settles, then recoverQueuedTurnAfterDelivery drains. *)
TurnQueuedSettles ==
    /\ InHand("queued")
    /\ cursor' = At /\ src' = NoJob
    /\ StartDrain("source", <<log[At].thread>>, TRUE)
    /\ UNCHANGED <<log, row, dispatched, inflight, quarantined, boot, session, reservation,
                   draining, replay, sent, faults>>

(* skipQuarantinedSideEffect *)
Skip ==
    /\ Due({"start", "stop", "edit"})
    /\ log[At].thread \in quarantined
    /\ cursor' = At
    /\ UNCHANGED <<log, row, dispatched, inflight, quarantined, boot, session, memory, sent, faults>>

(* The handler of a turn start remembers the reservation that is its own. *)
Matches == /\ reservation # NoReservation
           /\ log[reservation.at].thread = log[At].thread
           /\ log[reservation.at].msg = log[At].msg

TurnStart ==
    /\ Due({"start"})
    /\ log[At].thread \notin quarantined
    /\ inflight' = TRUE
    /\ src' = IF Matches
              THEN [NoJob EXCEPT !.step = "look", !.at = reservation.at,
                                 !.attempt = reservation.attempt]
              ELSE [NoJob EXCEPT !.step = "look"]
    /\ UNCHANGED <<log, row, dispatched, cursor, quarantined, boot, session, reservation, draining,
                   fiber, replay, sent, faults>>

IsReserved == src.at # 0 /\ reservation.at = src.at /\ reservation.attempt = src.attempt

(* A live turn that the message cannot join sends it back to the queue. *)
Look ==
    /\ InHand("look")
    /\ src' = IF Gone(log[At].thread) THEN [src EXCEPT !.step = "exit"]
              ELSE IF turn # 0 /\ ~(Native /\ log[At].mode = "steer")
                   THEN [src EXCEPT !.step = "requeue", !.turn = turn]
                   ELSE [src EXCEPT !.step = "send"]
    /\ UNCHANGED <<disk, boot, session, reservation, draining, fiber, replay, sent, faults>>

(* A steer also interrupts that turn: TurnEnds, possible at any time, is that. *)
Requeue ==
    /\ InHand("requeue")
    /\ row' = Enqueued(At)
    /\ Step("bind")
    /\ UNCHANGED <<log, dispatched, cursor, inflight, quarantined, boot, session, reservation,
                   draining, fiber, replay, sent, faults>>

(* The provider takes the message: into the live turn, or as a new one. *)
Hand ==
    /\ turn' = IF turn # 0 THEN turn ELSE turns + 1
    /\ turns' = IF turn # 0 THEN turns ELSE turns + 1
    /\ sent' = [sent EXCEPT ![log[At].msg] = @ + 1]

SendTurn ==
    /\ InHand("send")
    /\ Hand
    /\ src' = [src EXCEPT !.step = "bind", !.turn = turn']
    /\ UNCHANGED <<disk, boot, ended, running, reservation, draining, fiber, replay, faults>>

(* The provider rejects the turn: no terminal event will come. *)
SendRejected ==
    /\ InHand("send")
    /\ Fault("reject")
    /\ reservation' = IF IsReserved THEN NoReservation ELSE reservation
    /\ StartDrain("source", SessionQueues(log[At].thread), FALSE)
    /\ Step("exit")
    /\ UNCHANGED <<disk, boot, session, draining, replay, sent>>

(* The deadline interrupts the handler, before or after the provider acted. *)
SendTimesOut ==
    /\ InHand("send")
    /\ Fault("timeout")
    /\ Hand \/ UNCHANGED <<turn, turns, sent>>
    /\ src' = [src EXCEPT !.step = "exit", !.failed = TRUE]
    /\ UNCHANGED <<disk, boot, ended, running, reservation, draining, fiber, replay>>

(* bindPendingQueuedDispatchToTurn: if that turn is over already, drain now. *)
BindTo(id) ==
    IF IsReserved /\ id \in reservation.seen
    THEN /\ reservation' = NoReservation
         /\ StartDrain("source", SessionQueues(log[At].thread), FALSE)
    ELSE /\ reservation' = IF IsReserved THEN [reservation EXCEPT !.turn = id, !.seen = {}]
                           ELSE reservation
         /\ UNCHANGED fiber

Bind ==
    /\ InHand("bind")
    /\ BindTo(src.turn)
    /\ Step("exit")
    /\ UNCHANGED <<disk, boot, session, draining, replay, sent, faults>>

(* releaseOrphanedQueuedDispatchReservation, whatever the handler came to. *)
Exit ==
    /\ InHand("exit")
    /\ Step(IF IsReserved /\ reservation.turn = 0 /\ ~HasPending(log[At].thread, log[At].msg)
            THEN "orphan" ELSE "settle")
    /\ UNCHANGED <<disk, boot, session, reservation, draining, fiber, replay, sent, faults>>

ReleaseOrphan ==
    /\ InHand("orphan")
    /\ IF turn # 0 THEN BindTo(turn)
       ELSE /\ reservation' = IF IsReserved THEN NoReservation ELSE reservation
            /\ IF src.failed THEN UNCHANGED fiber
               ELSE StartDrain("source", SessionQueues(log[At].thread), FALSE)
    /\ Step("settle")
    /\ UNCHANGED <<disk, boot, session, draining, replay, sent, faults>>

SettleStart ==
    /\ InHand("settle")
    /\ cursor' = At /\ inflight' = FALSE /\ src' = NoJob
    /\ quarantined' = IF src.failed THEN quarantined \cup {log[At].thread} ELSE quarantined
    /\ UNCHANGED <<log, row, dispatched, boot, session, reservation, draining, fiber, replay, sent,
                   faults>>

(* processThreadSessionStop: the owner's stop empties every queue of the session. *)
Stopped == LET t == log[At].thread
           IN  IF t = Root THEN {t} \cup {u \in Threads : Pending(u) # {}} ELSE {t}

SessionStop ==
    /\ Due({"stop"})
    /\ log[At].thread \notin quarantined
    /\ inflight' = TRUE
    /\ row' = CancelThreads(Stopped)
    /\ draining' = draining \ Stopped
    /\ reservation' = IF /\ reservation # NoReservation
                         /\ log[At].thread = Root \/ log[reservation.at].thread \in Stopped
                      THEN NoReservation ELSE reservation
    /\ Step("stop")
    /\ UNCHANGED <<log, dispatched, cursor, quarantined, boot, session, fiber, replay, sent, faults>>

(* The runtime of the session is stopped; its turn may end with an event. *)
StopTurn ==
    /\ turn' = 0
    /\ \/ UNCHANGED ended
       \/ turn # 0 /\ ended' = Append(ended, turn)
       \/ turn # 0 /\ "unnamed" \in Faults /\ ended' = Append(ended, 0)

SessionStopped ==
    /\ InHand("stop")
    /\ IF log[At].thread = Root THEN StopTurn ELSE UNCHANGED <<turn, ended>>
    /\ cursor' = At /\ inflight' = FALSE /\ src' = NoJob
    /\ UNCHANGED <<log, row, dispatched, quarantined, boot, turns, running, reservation, draining,
                   fiber, replay, sent, faults>>

(* thread.message-edit-resend-requested *)
Edit ==
    /\ Due({"edit"})
    /\ log[At].thread \notin quarantined
    /\ inflight' = TRUE
    /\ IF HasPending(log[At].thread, log[At].msg)
       THEN Step("edit") /\ UNCHANGED running
       ELSE /\ src' = [NoJob EXCEPT !.step = "replace", !.turn = IF running THEN turn ELSE 0]
            /\ running' = FALSE
    /\ UNCHANGED <<log, row, dispatched, cursor, quarantined, boot, turn, turns, ended,
                   reservation, draining, fiber, replay, sent, faults>>

(* A message that still waits is taken out of the queue, unless it is claimed. *)
EditQueued ==
    /\ InHand("edit")
    /\ row' = Settled({s \in Pending(log[At].thread) :
                         log[s].msg = log[At].msg /\ row[s].state = "queued"}, "cancelled")
    /\ Step("resend")
    /\ UNCHANGED <<log, dispatched, cursor, inflight, quarantined, boot, session, reservation,
                   draining, fiber, replay, sent, faults>>

(* The runtime is stopped if a turn was running; the thread's queue is emptied. *)
EditSent ==
    /\ InHand("replace")
    /\ IF src.turn # 0 THEN StopTurn ELSE UNCHANGED <<turn, ended>>
    /\ row' = CancelThreads({log[At].thread})
    /\ Step("resend")
    /\ UNCHANGED <<log, dispatched, cursor, inflight, quarantined, boot, turns, running,
                   reservation, draining, fiber, replay, sent, faults>>

Resend ==
    /\ InHand("resend")
    /\ IF Gone(log[At].thread) THEN UNCHANGED <<log, row>>
       ELSE Commit(IF ShouldQueue(log[At].thread, "queue") THEN "queued" ELSE "start",
                   log[At].thread, log[At].msg, "queue")
    /\ src' = [src EXCEPT !.step = "settle", !.failed = Gone(log[At].thread)]
    /\ UNCHANGED <<dispatched, cursor, inflight, quarantined, boot, session, reservation,
                   draining, fiber, replay, sent, faults>>

ThreadDeleted ==
    /\ Due({"deleted"})
    /\ row' = CancelThreads({log[At].thread})
    /\ cursor' = At
    /\ UNCHANGED <<log, dispatched, inflight, quarantined, boot, session, memory, sent, faults>>

SourceStep ==
    \/ TurnQueued \/ TurnQueuedSettles \/ Skip \/ TurnStart \/ Look \/ Requeue \/ SendTurn
    \/ Bind \/ Exit \/ ReleaseOrphan \/ SettleStart \/ SessionStop \/ SessionStopped
    \/ Edit \/ EditQueued \/ EditSent \/ Resend \/ ThreadDeleted

----------------------------------------------------------------------------
(* The reader of terminal events: processQueueDrainEvent. *)

(* An event without a turn id says nothing while a turn is live; an event of *)
(* a turn waits in an unbound reservation; a bound one is released by its    *)
(* own turn only.                                                            *)
(* (mutant) the end of a turn is not remembered by a reservation without a turn *)
TerminalEventForgotten ==
    LET id == Head(ended)
        held == reservation # NoReservation
        kept == IF id = 0 THEN turn # 0 ELSE reservation.turn # id
    IN  /\ fiber["terminal"].step = "none" /\ ended # <<>>
        /\ ended' = Tail(ended)
        /\ reservation' = IF held /\ kept THEN reservation ELSE NoReservation
        /\ IF held /\ kept THEN UNCHANGED fiber
           ELSE StartDrain("terminal", SessionQueues(Root), FALSE)
        /\ UNCHANGED <<disk, boot, turn, turns, running, draining, src, replay, sent, faults>>

TerminalEvent ==
    LET id == Head(ended)
        held == reservation # NoReservation
        kept == IF id = 0 THEN turn # 0 ELSE reservation.turn # id
        absorb == held /\ id # 0 /\ reservation.turn = 0
    IN  /\ fiber["terminal"].step = "none" /\ ended # <<>>
        /\ ended' = Tail(ended)
        /\ reservation' = CASE absorb -> [reservation EXCEPT !.seen = @ \cup {id}]
                            [] held /\ kept /\ ~absorb -> reservation
                            [] OTHER -> NoReservation
        /\ IF held /\ kept THEN UNCHANGED fiber
           ELSE StartDrain("terminal", SessionQueues(Root), FALSE)
        /\ UNCHANGED <<disk, boot, turn, turns, running, draining, src, replay, sent, faults>>

----------------------------------------------------------------------------
(* Restart. *)

(* A new process: the provider's turn died with the old one, and the startup *)
(* settles it in the projection.  A turn start or stop that was under way is *)
(* uncertain; it is not repeated.                                            *)
Crash ==
    /\ Fault("crash")
    /\ boot' = boot + 1
    /\ turn' = 0 /\ ended' = <<>> /\ running' = FALSE
    /\ reservation' = NoReservation /\ draining' = {}
    /\ fiber' = [f \in Fibers |-> NoDrain] /\ src' = NoJob
    /\ replay' = Len(log)
    /\ inflight' = FALSE
    /\ cursor' = IF inflight THEN At ELSE cursor
    /\ quarantined' = IF inflight THEN quarantined \cup {log[At].thread} ELSE quarantined
    /\ UNCHANGED <<log, row, dispatched, turns, sent>>

(* recoverQueuedTurnPromotions, once the source has replayed the log. *)
RecoverQueues ==
    /\ replay # 0 /\ (cursor > replay \/ (cursor = replay /\ SourceFree))
    /\ replay' = 0
    /\ StartDrain("startup", SetToSeq({t \in Threads : Pending(t) # {}}), TRUE)
    /\ UNCHANGED <<disk, boot, session, reservation, draining, src, sent, faults>>

----------------------------------------------------------------------------
Next ==
    \/ \E t \in Threads, mode \in Modes : Send(t, mode)
    \/ \E t \in Threads, kind \in Asks : Ask(t, kind)
    \/ TurnEnds \/ TurnAborts \/ Project
    \/ \E f \in Fibers : DrainStep(f)
    \/ SourceStep \/ SendRejected \/ SendTimesOut
    \/ TerminalEvent \/ Crash \/ RecoverQueues

Spec == Init /\ [][Next]_vars

(* The process keeps running its fibers, turns end, and ingestion catches up. *)
FairSpec ==
    /\ Spec
    /\ \A f \in Fibers : WF_vars(DrainStep(f))
    /\ WF_vars(SourceStep) /\ WF_vars(TerminalEvent) /\ WF_vars(RecoverQueues)
    /\ WF_vars(TurnEnds) /\ WF_vars(Project)

----------------------------------------------------------------------------
(* Properties. *)

Intents == {"queued", "start", "stop", "deleted", "edit"}
Jobs == {"idle", "queued", "look", "requeue", "send", "bind", "exit", "orphan", "settle", "stop",
         "edit", "replace", "resend"}

Events == [kind : Intents, thread : Threads, msg : 0..MaxMessages, mode : Modes \cup {"queue", "none"}]
Rows == [state : {"none", "queued", "promoting", "promoted", "cancelled"}, owner : Nat, attempt : Nat]

DiskOK ==
    /\ log \in Seq(Events) /\ row \in Seq(Rows) /\ Len(row) = Len(log)
    /\ \A s \in Seqs : row[s].owner <= boot
    /\ dispatched \subseteq Seqs /\ cursor \in 0..Len(log)
    /\ inflight \in BOOLEAN /\ quarantined \subseteq Threads /\ boot \in Nat \ {0}

SessionOK ==
    /\ turns \in Nat /\ turn \in 0..turns /\ running \in BOOLEAN
    /\ ended \in Seq(Nat) /\ \A i \in DOMAIN ended : ended[i] <= turns

MemoryOK ==
    /\ reservation \in [at : 0..Len(log), attempt : Nat, turn : 0..turns, seen : SUBSET (1..turns)]
    /\ draining \subseteq Threads
    /\ fiber \in [Fibers ->
           [step : {"none", "next", "guard", "claim", "reserve", "dispatch", "mark", "undo"},
            todo : Seq(Threads), at : 0..Len(log), recover : BOOLEAN]]
    /\ src \in [step : Jobs, at : 0..Len(log), attempt : Nat, turn : 0..turns, failed : BOOLEAN]
    /\ replay \in 0..Len(log)

(* Rows and memory have the shape of the code's records; whatever is claimed, *)
(* reserved or acknowledged is in the log.                                    *)
TypeOK ==
    /\ DiskOK /\ SessionOK /\ MemoryOK
    /\ sent \in [Messages -> Nat] /\ faults \in Seq(Faults)

Resends(m) == {s \in Seqs : log[s].kind = "edit" /\ log[s].msg = m}

(* A message reaches the provider once, and once more for each time the user  *)
(* edits it: through re-queues, retried promotions, interrupted handlers and  *)
(* restarts between the dispatch of a promotion and the update of its row.    *)
SentOnce == \A m \in Messages : sent[m] <= 1 + Cardinality(Resends(m))

Waited(s) == log[s].kind = "queued" /\ log[s].mode = "queue" /\ row[s].state # "cancelled"
Undisturbed == \A s \in Seqs : log[s].kind \notin {"stop", "edit"}

(* The messages that wait in a thread are promoted in the order in which the  *)
(* user sent them, whichever fibers drain it and wherever a process dies.     *)
(* (A stop opens the thread to a second drain while the first is under way,   *)
(* and an edited message gets a new place; both may change the order.)        *)
OldestFirst ==
    Undisturbed =>
        \A s, q \in Seqs : /\ s < q /\ log[s].thread = log[q].thread
                           /\ Waited(s) /\ Waited(q) /\ row[q].state = "promoted"
                           => row[s].state = "promoted"

Waits(m) == \E s \in Seqs : log[s].kind = "queued" /\ log[s].msg = m /\ Active(s)

(* A message that the decider queued does not wait for ever: a terminal event *)
(* or the recovery drain after its delivery promotes it.                      *)
QueuedSettles == \A m \in Messages : Waits(m) ~> ~Waits(m)

(* A reservation, which keeps every drain of the session out, is released.    *)
ReservationEnds == reservation # NoReservation ~> reservation = NoReservation

=============================================================================
