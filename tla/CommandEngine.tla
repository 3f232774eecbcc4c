--------------------------- MODULE CommandEngine ---------------------------
(***************************************************************************)
(* The orchestration command engine: callers dispatch commands into three  *)
(* priority lanes, one worker takes them, looks the command's receipt up,  *)
(* decides it against the in-memory read model, commits its events and its *)
(* receipt in one SQLite transaction, publishes the events and settles the *)
(* caller.  Timeouts interrupt the worker anywhere, defects and store      *)
(* errors send it through reconciliation, and the process may restart.     *)
(*                                                                         *)
(* An envelope is one call of dispatch.  Retries are several envelopes     *)
(* with the same command id; a colliding client uses the same id with      *)
(* another request.  The log holds, for every event, the envelope whose    *)
(* transaction appended it: the event's command id is cmd[envelope].       *)
(* Deferred projections, which run between the commit and the publication, *)
(* are the subject of module ProjectionCatchUp.                           *)
(***************************************************************************)
EXTENDS Integers, Sequences, FiniteSets

CONSTANTS Envelopes,     \* calls of dispatch
          Commands,      \* command ids
          Requests,      \* command contents, with the principal that sends them
          LaneOf,        \* the lane of a request's command type
          PrintOf,       \* the fingerprint of a request
          OwnerOf,       \* the principal that sends a request
          HolderOf,      \* the principal that uploaded the attachments of a content, or None
          Asks,          \* bound: the requests an envelope may carry under a command id
          Capacity,      \* ORCHESTRATION_COMMAND_QUEUE_CAPACITY
          Reserve,       \* ORCHESTRATION_COMMAND_CONTROL_RESERVE
          MaxEvents,     \* bound: events one command produces
          MaxRestarts,   \* bound: crashes and restarts of the server
          None           \* no envelope, no command, no request, no receipt

Lanes == {"control", "user", "normal"}

Prints == {PrintOf[r] : r \in Requests}
Owners == {OwnerOf[r] : r \in Requests}

ASSUME RequestAssumption == /\ LaneOf \in [Requests -> Lanes]
                            /\ DOMAIN PrintOf = Requests
                            /\ DOMAIN OwnerOf = Requests
                            /\ HolderOf \in [Prints -> Owners \cup {None}]

ASSUME AsksAssumption == Asks \in [Envelopes -> [Commands -> SUBSET Requests]]

ASSUME NoneAssumption == None \notin Envelopes \cup Commands \cup Requests

\* tryAdmitOrchestrationCommand throws on any other policy.
ASSUME PolicyAssumption == /\ Capacity \in Nat \ {0}
                           /\ Reserve \in 1 .. (Capacity - 1)

ASSUME BoundAssumption == MaxEvents \in Nat \ {0} /\ MaxRestarts \in Nat

VARIABLES
  phase, outstanding,           \* engineAdmissionState
  lanes, wake,                  \* commandQueues; wake is the number of tokens
  cmd, req, exec, reply,        \* the envelopes: content, executionState, outcome
  pc, cur, start, cause,        \* the worker and the envelope it processes
  pubNext, pubEnd,              \* the events the worker has still to publish
  applied, snapshot,            \* commandReadModel: events projected, snapshotSequence
  published,                    \* the events offered to the PubSub of this process
  log, receipts,                \* SQLite: orchestration_events, command receipts
  claim,                        \* SQLite: the state of the attachments of a content
  missed,                       \* history: a failed reconciliation left the memory behind
  passed,                       \* history: lower-lane envelopes taken before this one
  restarts

admission == <<phase, outstanding, lanes, wake>>
callers   == <<cmd, req, exec, reply>>
worker    == <<pc, cur, start, cause, pubNext, pubEnd>>
memory    == <<applied, snapshot, published>>
durable   == <<log, receipts, claim>>
history   == <<missed, passed, restarts>>

vars == <<admission, callers, worker, memory, durable, history>>

-----------------------------------------------------------------------------
Causes == {"none", "timeout", "defect", "store", "invariant", "unclaimed"}

ReplyKinds == {"accepted", "rejected", "previouslyRejected", "collision", "timeout",
               "internal", "store", "overloaded", "stopped", "lost"}

Answer(kind, seq) == [kind |-> kind, seq |-> seq]
Replies == [kind : ReplyKinds, seq : Nat]

Receipts == [status : {"accepted", "rejected"}, print : Prints, seq : Nat]

ASSUME NoneIsNoReceipt == None \notin Receipts /\ None \notin Replies

\* The region of processEnvelope that Effect.timeoutOption interrupts.
Timed == {"lookup", "decide", "commit", "assign", "publish", "settle"}

\* The handlers that follow a failure of that region; nothing interrupts them.
Recovery == {"reconcile", "republish", "resolve", "fail"}

\* Everything that runs under maintenanceLock.
Locked == Timed \cup Recovery

Taking == {"wake", "control", "user", "normal"}

PCs == Taking \cup {"lock", "finish", "exited"} \cup Locked

Queued == Len(lanes["control"]) + Len(lanes["user"]) + Len(lanes["normal"])

Events == 1 .. Len(log)

AdmissionOK == /\ phase \in {"running", "quiescing", "draining", "stopped"}
               /\ outstanding \in Nat
               /\ lanes \in [Lanes -> Seq(Envelopes)]
               /\ wake \in Nat

CallersOK == /\ cmd \in [Envelopes -> Commands \cup {None}]
             /\ req \in [Envelopes -> Requests \cup {None}]
             /\ exec \in [Envelopes -> {"free", "queued", "in-flight", "abandoned"}]
             /\ reply \in [Envelopes -> Replies \cup {None}]

WorkerOK == /\ pc \in PCs
            /\ cur \in Envelopes \cup {None}
            /\ cause \in Causes
            /\ start \in Nat /\ pubNext \in Nat /\ pubEnd \in Nat

MemoryOK == applied \subseteq Nat /\ snapshot \in Nat /\ published \subseteq Nat

DurableOK == /\ log \in Seq(Envelopes)
             /\ receipts \in [Commands -> Receipts \cup {None}]
             /\ claim \in [Prints -> {"staged", "claimed", "deleting"}]

HistoryOK == /\ missed \in BOOLEAN
             /\ passed \in [Envelopes -> Nat]
             /\ restarts \in 0 .. MaxRestarts

\* The counters never go below zero, the worker is always at a step it knows, and the
\* tables hold what their columns may hold.
TypeOK == AdmissionOK /\ CallersOK /\ WorkerOK /\ MemoryOK /\ DurableOK /\ HistoryOK

Init ==
  /\ phase = "running"
  /\ outstanding = 0
  /\ lanes = [l \in Lanes |-> <<>>]
  /\ wake = 0
  /\ cmd = [e \in Envelopes |-> None]
  /\ req = [e \in Envelopes |-> None]
  /\ exec = [e \in Envelopes |-> "free"]
  /\ reply = [e \in Envelopes |-> None]
  /\ pc = "wake"
  /\ cur = None
  /\ start = 0
  /\ cause = "none"
  /\ pubNext = 1
  /\ pubEnd = 0
  /\ applied = {}
  /\ snapshot = 0
  /\ published = {}
  /\ log = <<>>
  /\ receipts = [c \in Commands |-> None]
  /\ claim = [p \in Prints |-> "staged"]
  /\ missed = FALSE
  /\ passed = [e \in Envelopes |-> 0]
  /\ restarts = 0

-----------------------------------------------------------------------------
(* Admission.                                                              *)

\* usesReservedCommandAdmission, the control lane and the reserve share one list.
IsControl(r) == LaneOf[r] = "control"

AdmissionLimit(r) == IF IsControl(r) THEN Capacity ELSE Capacity - Reserve

Stopping(r) == \/ phase \in {"draining", "stopped"}
               \/ phase = "quiescing" /\ ~IsControl(r)

\* (mutant) One pending token is enough.
WakeCoalesced == 1

WakeOffered == wake + 1

\* dispatch up to its answer: the phase, the queues, the counter and the wake token.
Admit(e, c, r) ==
  /\ exec[e] = "free" /\ reply[e] = None
  /\ ~Stopping(r)
  /\ Queued < AdmissionLimit(r)
  /\ lanes' = [lanes EXCEPT ![LaneOf[r]] = Append(@, e)]
  /\ wake' = WakeOffered
  /\ outstanding' = outstanding + 1
  /\ cmd' = [cmd EXCEPT ![e] = c]
  /\ req' = [req EXCEPT ![e] = r]
  /\ exec' = [exec EXCEPT ![e] = "queued"]
  /\ UNCHANGED <<phase, reply, worker, memory, durable, history>>

Refuse(e, c, r) ==
  /\ exec[e] = "free" /\ reply[e] = None
  /\ Stopping(r) \/ Queued >= AdmissionLimit(r)
  /\ cmd' = [cmd EXCEPT ![e] = c]
  /\ req' = [req EXCEPT ![e] = r]
  /\ reply' = [reply EXCEPT ![e] = Answer(IF Stopping(r) THEN "stopped" ELSE "overloaded", 0)]
  /\ UNCHANGED <<exec, admission, worker, memory, durable, history>>

\* The caller's own timer: it gives up only while the worker has not started.
Abandon(e) ==
  /\ exec[e] = "queued" /\ reply[e] = None
  /\ exec' = [exec EXCEPT ![e] = "abandoned"]
  /\ reply' = [reply EXCEPT ![e] = Answer("timeout", 0)]
  /\ UNCHANGED <<cmd, req, admission, worker, memory, durable, history>>

Quiesce ==
  /\ phase = "running"
  /\ phase' = "quiescing"
  /\ UNCHANGED <<outstanding, lanes, wake, callers, worker, memory, durable, history>>

\* stop: close admission and the queues, let the worker drain them, wait for it.
StopBegin ==
  /\ phase \in {"running", "quiescing"}
  /\ phase' = "draining"
  /\ UNCHANGED <<outstanding, lanes, wake, callers, worker, memory, durable, history>>

StopEnd ==
  /\ phase = "draining"
  /\ pc = "exited"
  /\ outstanding = 0
  /\ phase' = "stopped"
  /\ UNCHANGED <<outstanding, lanes, wake, callers, worker, memory, durable, history>>

-----------------------------------------------------------------------------
(* The worker takes an envelope: a token first, then the lanes in order.   *)

\* (mutant) The worker goes straight to the user lane.
TakeWakeForUser ==
  /\ pc = "wake"
  /\ wake > 0
  /\ wake' = wake - 1
  /\ pc' = "user"
  /\ UNCHANGED <<phase, outstanding, lanes, cur, start, cause, pubNext, pubEnd,
                 callers, memory, durable, history>>

TakeWake ==
  /\ pc = "wake"
  /\ wake > 0
  /\ wake' = wake - 1
  /\ pc' = "control"
  /\ UNCHANGED <<phase, outstanding, lanes, cur, start, cause, pubNext, pubEnd,
                 callers, memory, durable, history>>

\* The queues of a draining engine end once they are empty, and so does the worker.
WorkerExit ==
  /\ pc = "wake"
  /\ wake = 0
  /\ phase = "draining"
  /\ pc' = "exited"
  /\ UNCHANGED <<cur, start, cause, pubNext, pubEnd, admission, callers, memory, durable, history>>

\* The lanes an envelope of lane l should have been taken before.
Below(l) == CASE l = "control" -> {"user", "normal"} [] l = "user" -> {"normal"} [] OTHER -> {}

InLane(e, l) == \E i \in DOMAIN lanes[l] : lanes[l][i] = e

\* processEnvelope reads the snapshot sequence before it waits for maintenanceLock.
TakeFrom(l) ==
  /\ pc = l
  /\ lanes[l] # <<>>
  /\ cur' = Head(lanes[l])
  /\ lanes' = [lanes EXCEPT ![l] = Tail(@)]
  /\ start' = snapshot
  /\ cause' = "none"
  /\ pc' = "lock"
  /\ passed' = [e \in Envelopes |->
                  IF \E m \in Lanes : l \in Below(m) /\ InLane(e, m)
                    THEN passed[e] + 1 ELSE IF e = cur' THEN 0 ELSE passed[e]]
  /\ UNCHANGED <<phase, outstanding, wake, pubNext, pubEnd, missed, restarts,
                 callers, memory, durable>>

\* A poll that finds its lane empty goes on to the next one; the last lane is a take.
PollEmpty(l, next) ==
  /\ pc = l
  /\ lanes[l] = <<>>
  /\ pc' = next
  /\ UNCHANGED <<cur, start, cause, pubNext, pubEnd, admission, callers, memory, durable, history>>

Take == \/ TakeWake
        \/ \E l \in Lanes : TakeFrom(l)
        \/ PollEmpty("control", "user")
        \/ PollEmpty("user", "normal")

-----------------------------------------------------------------------------
(* processEnvelope.                                                        *)

Goto(next) == /\ pc' = next
              /\ UNCHANGED <<cur, start, cause, pubNext, pubEnd>>

\* The first settlement of the result Deferred wins, and an abandoning caller left.
Settle(kind, seq) ==
  reply' = [reply EXCEPT ![cur] = IF @ = None THEN Answer(kind, seq) ELSE @]

Conclude(kind, seq) ==
  /\ Settle(kind, seq)
  /\ Goto("finish")
  /\ UNCHANGED <<cmd, req, exec, admission, memory, durable, history>>

Fail(why) ==
  /\ pc' = "reconcile"
  /\ cause' = why
  /\ UNCHANGED <<cur, start, pubNext, pubEnd, admission, callers, memory, durable, history>>

\* (mutant) The throw kills the worker fiber.
BuildDefectEscapes ==
  /\ pc = "lock"
  /\ Goto("exited")
  /\ UNCHANGED <<admission, callers, memory, durable, history>>

\* A throw while the effect is built, before the lock: the fingerprint, say.
BuildDefect ==
  /\ pc = "lock"
  /\ Conclude("internal", 0)

\* (mutant) The execution state is left alone.
BeginUnmarked ==
  /\ pc = "lock"
  /\ exec[cur] = "queued"
  /\ Goto("lookup")
  /\ UNCHANGED <<admission, callers, memory, durable, history>>

Begin ==
  /\ pc = "lock"
  /\ exec[cur] = "queued"
  /\ exec' = [exec EXCEPT ![cur] = "in-flight"]
  /\ Goto("lookup")
  /\ UNCHANGED <<cmd, req, reply, admission, memory, durable, history>>

\* The budget ran out in the queue, but the caller's timer has not fired yet.
BeginExpired ==
  /\ pc = "lock"
  /\ exec[cur] = "queued"
  /\ exec' = [exec EXCEPT ![cur] = "in-flight"]
  /\ pc' = "reconcile"
  /\ cause' = "timeout"
  /\ UNCHANGED <<cur, start, pubNext, pubEnd, cmd, req, reply, admission, memory, durable, history>>

\* (mutant) The early return leaves without finishing the envelope.
SkipUnfinished ==
  /\ pc = "lock"
  /\ exec[cur] = "abandoned"
  /\ pc' = "wake"
  /\ cur' = None
  /\ UNCHANGED <<start, cause, pubNext, pubEnd, admission, callers, memory, durable, history>>

\* (mutant) The early return finishes the envelope a first time.
SkipFinishesTwice ==
  /\ pc = "lock"
  /\ exec[cur] = "abandoned"
  /\ outstanding' = outstanding - 1
  /\ Goto("finish")
  /\ UNCHANGED <<phase, lanes, wake, callers, memory, durable, history>>

SkipAbandoned ==
  /\ pc = "lock"
  /\ exec[cur] = "abandoned"
  /\ Goto("finish")
  /\ UNCHANGED <<admission, callers, memory, durable, history>>

Receipt == receipts[cmd[cur]]
SamePrint == Receipt.print = PrintOf[req[cur]]

\* (mutant) Anybody's claim will do.
ClaimedByAnybody ==
  LET p == PrintOf[req[cur]] IN HolderOf[p] = None \/ claim[p] = "claimed"

\* exactIdentity of validateAcceptedAttachmentRetry: the attachments are claimed now, and by
\* the principal of the retry.  Thread, message and set of ids are part of the fingerprint.
ExactIdentity ==
  LET p == PrintOf[req[cur]]
  IN  HolderOf[p] = None \/ (claim[p] = "claimed" /\ HolderOf[p] = OwnerOf[req[cur]])

LookupFresh ==
  /\ pc = "lookup"
  /\ Receipt = None
  /\ Goto("decide")
  /\ UNCHANGED <<admission, callers, memory, durable, history>>

\* (mutant) The fingerprint is not compared.
StoredAnswerOfAnyContent ==
  IF Receipt.status = "accepted" THEN Answer("accepted", Receipt.seq)
                                 ELSE Answer("previouslyRejected", 0)

\* The answer a stored receipt gives a command, in the order the code tests it.
StoredAnswer ==
  CASE ~SamePrint                                   -> Answer("collision", 0)
    [] SamePrint /\ Receipt.status = "rejected"     -> Answer("previouslyRejected", 0)
    [] SamePrint /\ Receipt.status = "accepted" /\ ~ExactIdentity
                                                    -> Answer("previouslyRejected", 0)
    [] OTHER                                        -> Answer("accepted", Receipt.seq)

Unclaimed == SamePrint /\ Receipt.status = "accepted" /\ ~ExactIdentity

LookupStored ==
  /\ pc = "lookup"
  /\ Receipt # None
  /\ ~Unclaimed
  /\ Conclude(StoredAnswer.kind, StoredAnswer.seq)

\* validateAcceptedAttachmentRetry fails the effect, so this answer is reconciled first.
LookupUnclaimed ==
  /\ pc = "lookup"
  /\ Receipt # None
  /\ Unclaimed
  /\ Fail("unclaimed")

Decide ==
  /\ pc = "decide"
  /\ Goto("commit")
  /\ UNCHANGED <<admission, callers, memory, durable, history>>

\* The decider, an attachment claim or an empty decision refuses; a transaction rolls back.
RefuseCommand ==
  /\ pc \in {"decide", "commit"}
  /\ Fail("invariant")

\* (mutant) The receipt is not part of the transaction.
CommitWithoutReceipt(n) ==
  /\ pc = "commit"
  /\ receipts[cmd[cur]] = None
  /\ log' = log \o [i \in 1 .. n |-> cur]
  /\ pubNext' = Len(log) + 1
  /\ pubEnd' = Len(log) + n
  /\ pc' = "assign"
  /\ UNCHANGED <<receipts, claim, cur, start, cause, admission, callers, memory, history>>

\* findServerOwned and claimForAcceptedTurn: the sender's attachments, and not on their way out.
Claimable(r) ==
  LET p == PrintOf[r]
  IN  HolderOf[p] = None \/ (HolderOf[p] = OwnerOf[r] /\ claim[p] # "deleting")

\* One transaction: the claim, the events, their hot projections and the receipt.
Commit(n) ==
  LET c == cmd[cur]
      p == PrintOf[req[cur]]
      last == Len(log) + n
  IN  /\ pc = "commit"
      /\ receipts[c] = None
      /\ Claimable(req[cur])
      /\ claim' = IF HolderOf[p] = None THEN claim ELSE [claim EXCEPT ![p] = "claimed"]
      /\ log' = log \o [i \in 1 .. n |-> cur]
      /\ receipts' = [receipts EXCEPT ![c] =
            [status |-> "accepted", print |-> p, seq |-> last]]
      /\ pubNext' = Len(log) + 1
      /\ pubEnd' = last
      /\ pc' = "assign"
      /\ UNCHANGED <<cur, start, cause, admission, callers, memory, history>>

\* commandReadModel := nextCommandReadModel
Assign ==
  /\ pc = "assign"
  /\ applied' = applied \cup (pubNext .. pubEnd)
  /\ snapshot' = pubEnd
  /\ Goto("publish")
  /\ UNCHANGED <<published, admission, callers, durable, history>>

PublishNext ==
  /\ pc \in {"publish", "republish"}
  /\ pubNext <= pubEnd
  /\ published' = published \cup {pubNext}
  /\ pubNext' = pubNext + 1
  /\ UNCHANGED <<pc, cur, start, cause, pubEnd, applied, snapshot,
                 admission, callers, durable, history>>

PublishDone ==
  /\ pc \in {"publish", "republish"}
  /\ pubNext > pubEnd
  /\ Goto(IF pc = "publish" THEN "settle" ELSE "resolve")
  /\ UNCHANGED <<admission, callers, memory, durable, history>>

SettleAccepted ==
  /\ pc = "settle"
  /\ Conclude("accepted", pubEnd)

-----------------------------------------------------------------------------
(* What interrupts the timed region, and the recovery that follows.        *)

\* (mutant) An expired budget is handled as a refusal.
TimeoutAsRefusal == pc \in Timed /\ Fail("invariant")

Timeout == pc \in Timed /\ Fail("timeout")

StoreError == pc \in {"lookup", "decide", "commit"} /\ Fail("store")

WorkerDefect == pc \in Timed /\ Fail("defect")

\* (mutant) The events are published again, but not projected.
ReconcileWithoutModel ==
  /\ pc = "reconcile"
  /\ pubNext' = start + 1
  /\ pubEnd' = Len(log)
  /\ pc' = "republish"
  /\ UNCHANGED <<cur, start, cause, memory, admission, callers, durable, history>>

\* (mutant) The events are projected, but not published.
ReconcileSilently ==
  /\ pc = "reconcile"
  /\ applied' = applied \cup (start + 1 .. Len(log))
  /\ snapshot' = IF Len(log) > start THEN Len(log) ELSE snapshot
  /\ pc' = "resolve"
  /\ UNCHANGED <<cur, start, cause, pubNext, pubEnd, published, admission, callers,
                 durable, history>>

\* reconcileCommandReadModelAfterDispatchFailure, up to the publications.
Reconcile ==
  /\ pc = "reconcile"
  /\ applied' = applied \cup (start + 1 .. Len(log))
  /\ snapshot' = IF Len(log) > start THEN Len(log) ELSE snapshot
  /\ pubNext' = start + 1
  /\ pubEnd' = Len(log)
  /\ pc' = "republish"
  /\ UNCHANGED <<cur, start, cause, published, admission, callers, durable, history>>

\* Memory lacks an event of the store, or live subscribers were not offered it.
Behind == ~ (Events \subseteq applied \cap published)

\* Its failure is logged and swallowed: memory may stay behind the store.
ReconcileFails ==
  /\ pc = "reconcile"
  /\ Goto("resolve")
  /\ missed' = (missed \/ Behind)
  /\ UNCHANGED <<passed, restarts, admission, callers, memory, durable>>

\* A defect inside a recovery handler: the typed handler falls through to the crash
\* handler, and the crash handler to the safety net of runEnvelope.
RecoveryDefect ==
  /\ pc \in Recovery
  /\ IF cause # "defect"
       THEN /\ pc' = "reconcile" /\ cause' = "defect"
            /\ UNCHANGED <<cur, start, pubNext, pubEnd, reply, missed>>
       ELSE /\ Settle("internal", 0)
            /\ Goto("finish")
            /\ missed' = (missed \/ Behind)
  /\ UNCHANGED <<cmd, req, exec, passed, restarts, admission, memory, durable>>

\* resolveStoredCommandOutcome finds a receipt.
ResolveStored ==
  /\ pc = "resolve"
  /\ cause \in {"timeout", "defect"}
  /\ Receipt # None
  /\ Conclude(StoredAnswer.kind, StoredAnswer.seq)

\* It finds an accepted one, but the attachments' rows cannot be read: that error is told.
ResolveUnchecked ==
  /\ pc = "resolve"
  /\ cause \in {"timeout", "defect"}
  /\ Receipt # None /\ SamePrint /\ Receipt.status = "accepted"
  /\ HolderOf[PrintOf[req[cur]]] # None
  /\ Conclude("store", 0)

\* It finds none, or the receipt cannot be read.
ResolveUnknown ==
  /\ pc = "resolve"
  /\ cause \in {"timeout", "defect"}
  /\ Conclude(IF cause = "timeout" THEN "timeout" ELSE "internal", 0)

\* The rejected receipt: ON CONFLICT DO NOTHING, and an insert error is swallowed.
RecordRejection ==
  /\ pc = "resolve"
  /\ cause = "invariant"
  /\ \/ receipts[cmd[cur]] = None
        /\ receipts' = [receipts EXCEPT ![cmd[cur]] =
              [status |-> "rejected", print |-> PrintOf[req[cur]], seq |-> snapshot]]
     \/ receipts' = receipts
  /\ Goto("fail")
  /\ UNCHANGED <<log, claim, admission, callers, memory, history>>

FailCaller ==
  \/ pc = "fail" /\ Conclude("rejected", 0)
  \/ pc = "resolve" /\ cause = "store" /\ Conclude("store", 0)
  \/ pc = "resolve" /\ cause = "unclaimed" /\ Conclude("previouslyRejected", 0)

\* finishEnvelope, ensured whatever happened; the locals of processEnvelope are gone.
Finish ==
  /\ pc = "finish"
  /\ outstanding' = outstanding - 1
  /\ pc' = "wake" /\ cur' = None /\ cause' = "none"
  /\ start' = 0 /\ pubNext' = 1 /\ pubEnd' = 0
  /\ UNCHANGED <<phase, lanes, wake, callers, memory, durable, history>>

-----------------------------------------------------------------------------
(* The rest of the process.                                                *)

\* refreshCommandReadModel and a successful repair: the model is read back from the
\* projections, whose snapshot sequence trails while the deferred phase lags.
Refresh ==
  /\ pc \notin Locked
  /\ applied' = Events
  /\ snapshot' \in 0 .. Len(log)
  /\ missed' = (missed /\ ~(Events \subseteq published))
  /\ UNCHANGED <<published, admission, callers, worker, durable, passed, restarts>>

\* A rollback, an edit, a deletion or a repair gives claimed attachments up for good.  What
\* expires or is cancelled unclaimed is one of the refusals of RefuseCommand.
Release(p) ==
  /\ claim[p] = "claimed"
  /\ claim' = [claim EXCEPT ![p] = "deleting"]
  /\ UNCHANGED <<log, receipts, admission, callers, worker, memory, history>>

\* A crash, or the end of a stopped engine, and the start of the next process: memory
\* is rebuilt from the store, and subscribers start at its high water.
Restart ==
  /\ restarts < MaxRestarts
  /\ restarts' = restarts + 1
  /\ phase' = "running"
  /\ outstanding' = 0
  /\ lanes' = [l \in Lanes |-> <<>>]
  /\ wake' = 0
  /\ reply' = [e \in Envelopes |->
                  IF exec[e] # "free" /\ reply[e] = None THEN Answer("lost", 0) ELSE reply[e]]
  /\ pc' = "wake" /\ cur' = None /\ cause' = "none"
  /\ start' = 0 /\ pubNext' = 1 /\ pubEnd' = 0
  /\ applied' = Events
  /\ snapshot' = Len(log)
  /\ published' = Events
  /\ missed' = FALSE
  /\ UNCHANGED <<cmd, req, exec, passed, durable>>

Worker ==
  \/ Take \/ WorkerExit
  \/ BuildDefect \/ Begin \/ BeginExpired \/ SkipAbandoned
  \/ LookupFresh \/ LookupStored \/ LookupUnclaimed
  \/ Decide \/ RefuseCommand
  \/ \E n \in 1 .. MaxEvents : Commit(n)
  \/ Assign \/ PublishNext \/ PublishDone \/ SettleAccepted
  \/ Timeout \/ StoreError \/ WorkerDefect
  \/ Reconcile \/ ReconcileFails \/ RecoveryDefect
  \/ ResolveStored \/ ResolveUnchecked \/ ResolveUnknown \/ RecordRejection \/ FailCaller
  \/ Finish

Environment ==
  \/ \E e \in Envelopes, c \in Commands : \E r \in Asks[e][c] : Admit(e, c, r) \/ Refuse(e, c, r)
  \/ \E e \in Envelopes : Abandon(e)
  \/ Quiesce \/ StopBegin
  \/ \E p \in Prints : Release(p)
  \/ Refresh \/ Restart

Next == Worker \/ StopEnd \/ Environment

Spec == Init /\ [][Next]_vars

\* The runtime keeps running the worker's fiber and the fiber that called stop.
Fairness == WF_vars(Worker) /\ WF_vars(StopEnd)

FairSpec == Spec /\ Fairness

-----------------------------------------------------------------------------
(* Safety.                                                                 *)

HeldEnvelope == IF cur # None THEN 1 ELSE 0

\* The counter that drain and stop wait for counts every admitted envelope that is not
\* finished, whichever way it left: skipped, failed, crashed or settled.
OutstandingCountsUnfinished == outstanding = Queued + HeldEnvelope

\* A queued stop is overtaken by at most one command of a lower lane, the one the
\* worker was already reaching for; likewise a user action by one background command.
OvertakenAtMostOnce == \A e \in Envelopes : passed[e] <= 1

\* However often a command id is dispatched, by retries, by collisions or across
\* restarts, one transaction at most appends its events, and an accepted receipt
\* carries the sequence and the fingerprint of exactly that transaction.
CommittedAtMostOnce ==
  \A i \in Events :
    LET e == log[i]
        receipt == receipts[cmd[e]]
    IN  /\ receipt # None
        /\ receipt.status = "accepted"
        /\ receipt.print = PrintOf[req[e]]
        /\ i <= receipt.seq /\ receipt.seq \in Events
        /\ \A j \in i .. receipt.seq : log[j] = e

\* A caller that was told its command timed out before it started can rely on it: the
\* abandoned envelope never commits, even if the worker had already taken it and was
\* waiting for the maintenance lock.
AbandonedNeverCommits ==
  \A e \in Envelopes : exec[e] = "abandoned" => \A i \in Events : log[i] # e

\* A transaction never meets a receipt of its own command, so the branch that reports
\* a receipt "appeared while the command was committing" is never taken.
CommitMeetsNoReceipt == pc \in {"decide", "commit"} => Receipt = None

\* The decider validates a command against every event committed so far, also after
\* commits whose worker was interrupted before it updated the model; only a
\* reconciliation that failed itself leaves it behind.
DecidesOnEveryCommit == pc \in {"decide", "commit"} /\ ~missed => Events \subseteq applied

\* A caller that learns the sequence of its command finds the events up to it offered
\* to the live subscribers, also when the worker was interrupted between two
\* publications, unless the reconciliation failed.
AcceptedMeansPublished ==
  \A e \in Envelopes :
    reply[e] # None /\ reply[e].kind = "accepted" /\ ~missed
      => 1 .. reply[e].seq \subseteq published

\* A refusal of the decider told to a caller is never the fate of a command that
\* committed: an accepted receipt excludes it, before and after.
RejectedNeverCommitted ==
  \A e \in Envelopes :
    reply[e] # None /\ reply[e].kind = "rejected" => \A i \in Events : log[i] # e

-----------------------------------------------------------------------------
(* Liveness.                                                               *)

\* Every admitted command is answered, though any of its steps may time out, fail or
\* throw.
EveryCommandAnswered == \A e \in Envelopes : exec[e] = "queued" ~> reply[e] # None

\* stop ends: the queues drain, every envelope is finished and the counter reaches
\* zero, unless the process dies first.
StopCompletes == phase = "draining" ~> phase \in {"stopped", "running"}

-----------------------------------------------------------------------------
(* Refinement.                                                             *)

ASSUME NoneIsNoCall == None \notin [cmd : Commands, req : Requests]

asked == [e \in Envelopes |-> IF cmd[e] = None THEN None ELSE [cmd |-> cmd[e], req |-> req[e]]]

Ledger == INSTANCE CommandLedger
  WITH Calls <- Envelopes, decision <- receipts, files <- claim, answer <- reply

\* The engine implements the ledger: command ids are decided once, nobody but the principal
\* whose attachments a command carries has it accepted or is told so, and every answer that
\* reports a decision is true when it is given.
ImplementsLedger == Ledger!LedgerSpec

=============================================================================
