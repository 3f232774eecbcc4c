------------------------- MODULE CommandEngineProofs -------------------------
(***************************************************************************)
(* Theorems about CommandEngine, for every set of calls, commands and      *)
(* requests, every capacity and every number of restarts.  The second part *)
(* is about what the engine tells of a decision and what it promises as a  *)
(* whole: a transaction never meets the receipt of its own command, a      *)
(* refusal is never told of a call whose events are in the log, every      *)
(* decision is taken on the command model of the whole log, what the model *)
(* holds has been published, a command of a lower lane overtakes one that  *)
(* waits in a higher at most once, and the engine implements               *)
(* CommandLedger.                                                          *)
(***************************************************************************)
EXTENDS CommandEngine, TLAPS

\* An envelope that was admitted: it has a command and a request, and keeps them.
Known(e) == cmd[e] \in Commands /\ req[e] \in Requests /\ exec[e] # "free"

HandInv ==
  /\ (cur = None) <=> (pc \in Taking \cup {"exited"})
  /\ cur # None => Known(cur)
  /\ \A l \in Lanes : \A i \in DOMAIN lanes[l] : Known(lanes[l][i])

IInv == TypeOK /\ HandInv /\ OutstandingCountsUnfinished

\* An envelope at the end of a lane is one more that is queued.
LEMMA AppendCounts ==
  ASSUME lanes \in [Lanes -> Seq(Envelopes)], NEW l \in Lanes, NEW e \in Envelopes,
         lanes' = [lanes EXCEPT ![l] = Append(@, e)]
  PROVE  Queued' = Queued + 1 /\ Queued \in Nat
<1>1. Len(lanes'[l]) = Len(lanes[l]) + 1 /\ \A m \in Lanes \ {l} : lanes'[m] = lanes[m]
  OBVIOUS
<1>2. \A m \in Lanes : Len(lanes[m]) \in Nat
  OBVIOUS
<1>3. CASE l = "control"
  BY <1>1, <1>2, <1>3 DEF Queued, Lanes
<1>4. CASE l = "user"
  BY <1>1, <1>2, <1>4 DEF Queued, Lanes
<1>5. CASE l = "normal"
  BY <1>1, <1>2, <1>5 DEF Queued, Lanes
<1>6. QED
  BY <1>3, <1>4, <1>5 DEF Lanes

\* An envelope taken from the front of a lane is one less that is queued.
LEMMA TailCounts ==
  ASSUME lanes \in [Lanes -> Seq(Envelopes)], NEW l \in Lanes, lanes[l] # <<>>,
         lanes' = [lanes EXCEPT ![l] = Tail(@)]
  PROVE  Queued' = Queued - 1 /\ Queued \in Nat
<1>1. Len(lanes'[l]) = Len(lanes[l]) - 1 /\ \A m \in Lanes \ {l} : lanes'[m] = lanes[m]
  OBVIOUS
<1>2. \A m \in Lanes : Len(lanes[m]) \in Nat
  OBVIOUS
<1>3. CASE l = "control"
  BY <1>1, <1>2, <1>3 DEF Queued, Lanes
<1>4. CASE l = "user"
  BY <1>1, <1>2, <1>4 DEF Queued, Lanes
<1>5. CASE l = "normal"
  BY <1>1, <1>2, <1>5 DEF Queued, Lanes
<1>6. QED
  BY <1>3, <1>4, <1>5 DEF Lanes

LEMMA InitIInv == Init => IInv
<1> SUFFICES ASSUME Init PROVE IInv
  OBVIOUS
<1> USE DEF Init
<1>1. AdmissionOK /\ CallersOK
  BY DEF AdmissionOK, CallersOK, Lanes
<1>2. WorkerOK
  BY DEF WorkerOK, PCs, Taking, Causes
<1>3. MemoryOK /\ DurableOK
  BY DEF MemoryOK, DurableOK
<1>4. HistoryOK
  <2>1. missed \in BOOLEAN
    OBVIOUS
  <2>2. passed \in [Envelopes -> Nat] /\ restarts \in 0 .. MaxRestarts
    BY BoundAssumption
  <2>3. QED
    BY <2>1, <2>2 DEF HistoryOK
<1>5. HandInv
  BY DEF HandInv, Taking, Lanes
<1>6. OutstandingCountsUnfinished
  BY DEF OutstandingCountsUnfinished, Queued, HeldEnvelope, Lanes
<1>7. QED
  BY <1>1, <1>2, <1>3, <1>4, <1>5, <1>6 DEF IInv, TypeOK

LEMMA AdmitIInv == ASSUME IInv, NEW e \in Envelopes, NEW c \in Commands, NEW r \in Requests,
                          Admit(e, c, r)
                   PROVE  IInv'
<1> USE DEF IInv, TypeOK, Admit
<1>1. LaneOf[r] \in Lanes
  BY RequestAssumption
<1>2. AdmissionOK' /\ CallersOK'
  BY <1>1 DEF AdmissionOK, CallersOK, WakeOffered
<1>3. WorkerOK' /\ MemoryOK' /\ DurableOK' /\ HistoryOK'
  BY DEF WorkerOK, MemoryOK, DurableOK, HistoryOK, worker, memory, durable, history
<1>4. HandInv'
  <2>1. UNCHANGED <<pc, cur>> /\ exec[e] = "free" /\ exec' = [exec EXCEPT ![e] = "queued"]
    BY DEF worker
  <2>2. cmd' = [cmd EXCEPT ![e] = c] /\ req' = [req EXCEPT ![e] = r]
    OBVIOUS
  <2>3. QED
    BY <2>1, <2>2 DEF HandInv, Known, CallersOK
<1>5. OutstandingCountsUnfinished'
  <2>1. Queued' = Queued + 1 /\ Queued \in Nat
    BY <1>1, AppendCounts DEF AdmissionOK
  <2>2. HeldEnvelope' = HeldEnvelope /\ HeldEnvelope \in Nat
    BY DEF HeldEnvelope, worker
  <2>3. QED
    BY <2>1, <2>2 DEF OutstandingCountsUnfinished
<1>6. QED
  BY <1>2, <1>3, <1>4, <1>5

LEMMA TakeFromIInv == ASSUME IInv, NEW l \in Lanes, TakeFrom(l)
                      PROVE  IInv'
<1> USE DEF IInv, TypeOK, TakeFrom
<1>1. cur' \in Envelopes /\ cur' = lanes[l][1]
  BY DEF AdmissionOK
<1>2. Known(cur')
  BY <1>1 DEF HandInv, AdmissionOK
<1>3. AdmissionOK' /\ CallersOK'
  BY DEF AdmissionOK, CallersOK, callers
<1>4. WorkerOK' /\ MemoryOK' /\ DurableOK'
  BY <1>1 DEF WorkerOK, MemoryOK, DurableOK, PCs, Causes, memory, durable
<1>5. HistoryOK'
  BY DEF HistoryOK
<1>6. HandInv'
  BY <1>1, <1>2, NoneAssumption DEF HandInv, Known, AdmissionOK, Taking, callers
<1>7. OutstandingCountsUnfinished'
  <2>1. Queued' = Queued - 1 /\ Queued \in Nat
    BY TailCounts DEF AdmissionOK
  <2>2. HeldEnvelope = 0 /\ HeldEnvelope' = 1
    BY <1>1, NoneAssumption DEF HeldEnvelope, HandInv, Taking, Lanes
  <2>3. QED
    BY <2>1, <2>2 DEF OutstandingCountsUnfinished
<1>8. QED
  BY <1>3, <1>4, <1>5, <1>6, <1>7

\* Lengths of lanes add up to a number.
LEMMA QueuedIsNat == AdmissionOK => Queued \in Nat
<1> SUFFICES ASSUME AdmissionOK PROVE Queued \in Nat
  OBVIOUS
<1> DEFINE c == Len(lanes["control"])
           u == Len(lanes["user"])
           n == Len(lanes["normal"])
<1>1. c \in Nat /\ u \in Nat /\ n \in Nat
  BY DEF AdmissionOK, Lanes
<1>2. Queued = c + u + n
  BY DEF Queued
<1> HIDE DEF c, u, n
<1>3. QED
  BY <1>1, <1>2

Idle == Taking \cup {"exited"}

\* Between taking an envelope and finishing it, a step touches neither the queues nor
\* the envelope in hand.
LEMMA ProcessingKeepsHand ==
  ASSUME IInv, pc \notin Idle, pc' \notin Idle, UNCHANGED <<cur, admission, cmd, req>>,
         \A e \in Envelopes : exec[e] # "free" => exec'[e] # "free"
  PROVE  AdmissionOK' /\ HandInv' /\ OutstandingCountsUnfinished'
<1> USE DEF IInv, TypeOK, admission
<1>1. AdmissionOK'
  BY DEF AdmissionOK
<1>2. cur \in Envelopes
  BY DEF HandInv, Idle, WorkerOK
<1>3. \A e \in Envelopes : Known(e) => Known(e)'
  BY DEF Known
<1>4. \A l \in Lanes : \A i \in DOMAIN lanes[l] : lanes[l][i] \in Envelopes
  BY DEF AdmissionOK
<1>5. HandInv'
  BY <1>2, <1>3, <1>4 DEF HandInv, Idle
<1>6. OutstandingCountsUnfinished'
  BY DEF OutstandingCountsUnfinished, Queued, HeldEnvelope
<1>7. QED
  BY <1>1, <1>5, <1>6

\* A call that fails in its timed region leaves it for a handler.
LEMMA FailIInv ==
  ASSUME IInv, pc \in Timed, NEW why \in Causes, Fail(why)
  PROVE  IInv'
<1> USE DEF IInv, TypeOK, Fail
<1>1. AdmissionOK' /\ HandInv' /\ OutstandingCountsUnfinished'
  BY ProcessingKeepsHand DEF Timed, Idle, Taking, callers
<1>2. WorkerOK' /\ CallersOK'
  BY DEF WorkerOK, CallersOK, PCs, Locked, Recovery, callers
<1>3. MemoryOK' /\ DurableOK' /\ HistoryOK'
  BY DEF MemoryOK, DurableOK, HistoryOK, memory, durable, history
<1>4. QED
  BY <1>1, <1>2, <1>3

\* A call that is settled keeps its place until the worker has finished it.
LEMMA ConcludeIInv ==
  ASSUME IInv, pc \notin Idle, NEW kind \in ReplyKinds, NEW seq \in Nat, Conclude(kind, seq)
  PROVE  IInv'
<1> USE DEF IInv, TypeOK, Conclude
<1>1. AdmissionOK' /\ HandInv' /\ OutstandingCountsUnfinished'
  BY ProcessingKeepsHand DEF Goto, Idle, Taking
<1>2. Answer(kind, seq) \in Replies
  BY DEF Answer, Replies
<1>3. CallersOK'
  BY <1>2 DEF CallersOK, Settle
<1>4. WorkerOK'
  BY DEF WorkerOK, PCs, Goto
<1>5. MemoryOK' /\ DurableOK' /\ HistoryOK'
  BY DEF MemoryOK, DurableOK, HistoryOK, memory, durable, history
<1>6. QED
  BY <1>1, <1>3, <1>4, <1>5

\* A receipt yields a reply.
LEMMA StoredAnswerType ==
  ASSUME IInv, pc \notin Idle, Receipt # None
  PROVE  StoredAnswer.kind \in ReplyKinds /\ StoredAnswer.seq \in Nat
<1>1. Receipt \in Receipts
  BY DEF IInv, TypeOK, HandInv, Known, DurableOK, WorkerOK, Idle, Receipt
<1>2. Receipt.seq \in Nat
  BY <1>1 DEF Receipts
<1>3. QED
  BY <1>2 DEF StoredAnswer, Answer, ReplyKinds

LEMMA CommitIInv == ASSUME IInv, NEW n \in 1 .. MaxEvents, Commit(n)
                    PROVE  IInv'
<1> USE DEF IInv, TypeOK, Commit
<1>1. AdmissionOK' /\ HandInv' /\ OutstandingCountsUnfinished'
  BY ProcessingKeepsHand DEF Idle, Taking, callers
<1>2. cur \in Envelopes /\ Known(cur)
  BY DEF HandInv, Taking, WorkerOK
<1>3. n \in Nat /\ Len(log) \in Nat
  BY BoundAssumption DEF DurableOK
<1>4. WorkerOK' /\ CallersOK'
  BY <1>3 DEF WorkerOK, CallersOK, PCs, Locked, Timed, callers
<1>5. log' \in Seq(Envelopes)
  <2>1. [i \in 1 .. n |-> cur] \in Seq(Envelopes)
    BY ONLY <1>2, <1>3
  <2>2. log \in Seq(Envelopes)
    BY DEF DurableOK
  <2>3. log' = log \o [i \in 1 .. n |-> cur]
    OBVIOUS
  <2>4. QED
    BY ONLY <2>1, <2>2, <2>3
<1>6. receipts' \in [Commands -> Receipts \cup {None}]
  <2>1. PrintOf[req[cur]] \in Prints
    BY <1>2 DEF Known, Prints
  <2>2. [status |-> "accepted", print |-> PrintOf[req[cur]], seq |-> Len(log) + n] \in Receipts
    BY <2>1, <1>3 DEF Receipts
  <2>3. QED
    BY <2>2 DEF DurableOK
<1>7. MemoryOK' /\ HistoryOK'
  BY DEF MemoryOK, HistoryOK, memory, history
<1>8. claim' \in [Prints -> {"staged", "claimed", "deleting"}]
  BY DEF DurableOK
<1>9. QED
  BY <1>1, <1>4, <1>5, <1>6, <1>7, <1>8 DEF DurableOK

LEMMA RecordRejectionIInv == ASSUME IInv, RecordRejection
                             PROVE  IInv'
<1> USE DEF IInv, TypeOK, RecordRejection, Goto
<1>1. AdmissionOK' /\ HandInv' /\ OutstandingCountsUnfinished'
  BY ProcessingKeepsHand DEF Idle, Taking, callers
<1>2. WorkerOK' /\ CallersOK' /\ MemoryOK' /\ HistoryOK'
  BY DEF WorkerOK, CallersOK, MemoryOK, HistoryOK, PCs, Locked, Recovery, callers, memory, history
<1>3. cur \in Envelopes /\ Known(cur)
  BY DEF HandInv, Taking, WorkerOK
<1>4. [status |-> "rejected", print |-> PrintOf[req[cur]], seq |-> snapshot] \in Receipts
  BY <1>3 DEF Known, Prints, Receipts, MemoryOK
<1>5. DurableOK'
  BY <1>4 DEF DurableOK
<1>6. QED
  BY <1>1, <1>2, <1>5

\* No step of the worker loses an envelope or counts one twice.
LEMMA WorkerIInv == ASSUME IInv, Worker PROVE IInv'
<1> USE DEF IInv, TypeOK
<1>1. CASE TakeWake
  <2>1. AdmissionOK' /\ CallersOK' /\ WorkerOK'
    BY <1>1 DEF TakeWake, AdmissionOK, CallersOK, WorkerOK, PCs, Taking, callers
  <2>2. MemoryOK' /\ DurableOK' /\ HistoryOK'
    BY <1>1 DEF TakeWake, MemoryOK, DurableOK, HistoryOK, memory, durable, history
  <2>3. HandInv' /\ OutstandingCountsUnfinished'
    BY <1>1 DEF TakeWake, HandInv, Known, Taking, OutstandingCountsUnfinished, Queued, HeldEnvelope, callers
  <2>4. QED
    BY <2>1, <2>2, <2>3
<1>2. CASE \E l \in Lanes : TakeFrom(l)
  BY <1>2, TakeFromIInv
<1>3. CASE PollEmpty("control", "user")
  <2>1. AdmissionOK' /\ CallersOK' /\ WorkerOK'
    BY <1>3 DEF PollEmpty, AdmissionOK, CallersOK, WorkerOK, PCs, Taking, admission, callers
  <2>2. MemoryOK' /\ DurableOK' /\ HistoryOK'
    BY <1>3 DEF PollEmpty, MemoryOK, DurableOK, HistoryOK, memory, durable, history
  <2>3. HandInv' /\ OutstandingCountsUnfinished'
    BY <1>3, NoneAssumption DEF PollEmpty, HandInv, Known, Taking, OutstandingCountsUnfinished, Queued, HeldEnvelope,
       Timed, Recovery, Locked, admission, callers
  <2>4. QED
    BY <2>1, <2>2, <2>3
<1>4. CASE PollEmpty("user", "normal")
  <2>1. AdmissionOK' /\ CallersOK' /\ WorkerOK'
    BY <1>4 DEF PollEmpty, AdmissionOK, CallersOK, WorkerOK, PCs, Taking, admission, callers
  <2>2. MemoryOK' /\ DurableOK' /\ HistoryOK'
    BY <1>4 DEF PollEmpty, MemoryOK, DurableOK, HistoryOK, memory, durable, history
  <2>3. HandInv' /\ OutstandingCountsUnfinished'
    BY <1>4, NoneAssumption DEF PollEmpty, HandInv, Known, Taking, OutstandingCountsUnfinished, Queued, HeldEnvelope,
       Timed, Recovery, Locked, admission, callers
  <2>4. QED
    BY <2>1, <2>2, <2>3
<1>5. CASE WorkerExit
  <2>1. AdmissionOK' /\ CallersOK' /\ WorkerOK'
    BY <1>5 DEF WorkerExit, AdmissionOK, CallersOK, WorkerOK, PCs, Taking, admission, callers
  <2>2. MemoryOK' /\ DurableOK' /\ HistoryOK'
    BY <1>5 DEF WorkerExit, MemoryOK, DurableOK, HistoryOK, memory, durable, history
  <2>3. HandInv' /\ OutstandingCountsUnfinished'
    BY <1>5, NoneAssumption DEF WorkerExit, HandInv, Known, Taking, OutstandingCountsUnfinished, Queued, HeldEnvelope,
       Timed, Recovery, Locked, admission, callers
  <2>4. QED
    BY <2>1, <2>2, <2>3
<1>6. CASE BuildDefect
  <2>1. "internal" \in ReplyKinds /\ 0 \in Nat /\ pc \notin Idle
    BY <1>6 DEF BuildDefect, ReplyKinds, WorkerOK, Idle, Taking
  <2>2. QED
    BY <2>1, <1>6, ConcludeIInv DEF BuildDefect
<1>7. CASE Begin
  <2>1. AdmissionOK' /\ HandInv' /\ OutstandingCountsUnfinished'
    BY <1>7, ProcessingKeepsHand DEF Begin, Goto, Idle, Taking, callers, CallersOK
  <2>2. WorkerOK'
    BY <1>7 DEF Begin, Goto, WorkerOK, PCs, Locked, Timed, Recovery, Causes, MemoryOK, DurableOK
  <2>3. CallersOK'
    BY <1>7 DEF Begin, CallersOK, callers
  <2>4. MemoryOK'
    BY <1>7 DEF Begin, MemoryOK, WorkerOK, DurableOK, memory
  <2>5. DurableOK' /\ HistoryOK'
    BY <1>7 DEF Begin, DurableOK, HistoryOK, durable, history
  <2>6. QED
    BY <2>1, <2>2, <2>3, <2>4, <2>5
<1>8. CASE BeginExpired
  <2>1. AdmissionOK' /\ HandInv' /\ OutstandingCountsUnfinished'
    BY <1>8, ProcessingKeepsHand DEF BeginExpired, Goto, Idle, Taking, callers, CallersOK
  <2>2. WorkerOK'
    BY <1>8 DEF BeginExpired, Goto, WorkerOK, PCs, Locked, Timed, Recovery, Causes, MemoryOK, DurableOK
  <2>3. CallersOK'
    BY <1>8 DEF BeginExpired, CallersOK, callers
  <2>4. MemoryOK'
    BY <1>8 DEF BeginExpired, MemoryOK, WorkerOK, DurableOK, memory
  <2>5. DurableOK' /\ HistoryOK'
    BY <1>8 DEF BeginExpired, DurableOK, HistoryOK, durable, history
  <2>6. QED
    BY <2>1, <2>2, <2>3, <2>4, <2>5
<1>9. CASE SkipAbandoned
  <2>1. AdmissionOK' /\ HandInv' /\ OutstandingCountsUnfinished'
    BY <1>9, ProcessingKeepsHand DEF SkipAbandoned, Goto, Idle, Taking, callers, CallersOK
  <2>2. WorkerOK'
    BY <1>9 DEF SkipAbandoned, Goto, WorkerOK, PCs, Locked, Timed, Recovery, Causes, MemoryOK, DurableOK
  <2>3. CallersOK'
    BY <1>9 DEF SkipAbandoned, CallersOK, callers
  <2>4. MemoryOK'
    BY <1>9 DEF SkipAbandoned, MemoryOK, WorkerOK, DurableOK, memory
  <2>5. DurableOK' /\ HistoryOK'
    BY <1>9 DEF SkipAbandoned, DurableOK, HistoryOK, durable, history
  <2>6. QED
    BY <2>1, <2>2, <2>3, <2>4, <2>5
<1>10. CASE LookupFresh
  <2>1. AdmissionOK' /\ HandInv' /\ OutstandingCountsUnfinished'
    BY <1>10, ProcessingKeepsHand DEF LookupFresh, Goto, Idle, Taking, callers, CallersOK
  <2>2. WorkerOK'
    BY <1>10 DEF LookupFresh, Goto, WorkerOK, PCs, Locked, Timed, Recovery, Causes, MemoryOK, DurableOK
  <2>3. CallersOK'
    BY <1>10 DEF LookupFresh, CallersOK, callers
  <2>4. MemoryOK'
    BY <1>10 DEF LookupFresh, MemoryOK, WorkerOK, DurableOK, memory
  <2>5. DurableOK' /\ HistoryOK'
    BY <1>10 DEF LookupFresh, DurableOK, HistoryOK, durable, history
  <2>6. QED
    BY <2>1, <2>2, <2>3, <2>4, <2>5
<1>11. CASE LookupStored
  <2>1. pc \notin Idle /\ Receipt # None
    BY <1>11 DEF LookupStored, Idle, Taking
  <2>2. QED
    BY <2>1, <1>11, StoredAnswerType, ConcludeIInv DEF LookupStored
<1>12. CASE LookupUnclaimed
  BY <1>12, FailIInv DEF LookupUnclaimed, Timed, Causes
<1>13. CASE Decide
  <2>1. AdmissionOK' /\ HandInv' /\ OutstandingCountsUnfinished'
    BY <1>13, ProcessingKeepsHand DEF Decide, Goto, Idle, Taking, callers, CallersOK
  <2>2. WorkerOK'
    BY <1>13 DEF Decide, Goto, WorkerOK, PCs, Locked, Timed, Recovery, Causes, MemoryOK, DurableOK
  <2>3. CallersOK'
    BY <1>13 DEF Decide, CallersOK, callers
  <2>4. MemoryOK'
    BY <1>13 DEF Decide, MemoryOK, WorkerOK, DurableOK, memory
  <2>5. DurableOK' /\ HistoryOK'
    BY <1>13 DEF Decide, DurableOK, HistoryOK, durable, history
  <2>6. QED
    BY <2>1, <2>2, <2>3, <2>4, <2>5
<1>14. CASE RefuseCommand
  BY <1>14, FailIInv DEF RefuseCommand, Timed, Causes
<1>15. CASE \E n \in 1 .. MaxEvents : Commit(n)
  BY <1>15, CommitIInv
<1>16. CASE Assign
  <2>1. AdmissionOK' /\ HandInv' /\ OutstandingCountsUnfinished'
    BY <1>16, ProcessingKeepsHand DEF Assign, Goto, Idle, Taking, callers, CallersOK
  <2>2. WorkerOK'
    BY <1>16 DEF Assign, Goto, WorkerOK, PCs, Locked, Timed, Recovery, Causes, MemoryOK, DurableOK
  <2>3. CallersOK'
    BY <1>16 DEF Assign, CallersOK, callers
  <2>4. MemoryOK'
    BY <1>16 DEF Assign, MemoryOK, WorkerOK, DurableOK, memory
  <2>5. DurableOK' /\ HistoryOK'
    BY <1>16 DEF Assign, DurableOK, HistoryOK, durable, history
  <2>6. QED
    BY <2>1, <2>2, <2>3, <2>4, <2>5
<1>17. CASE PublishNext
  <2>1. AdmissionOK' /\ HandInv' /\ OutstandingCountsUnfinished'
    BY <1>17, ProcessingKeepsHand DEF PublishNext, Goto, Idle, Taking, callers, CallersOK
  <2>2. WorkerOK'
    BY <1>17 DEF PublishNext, Goto, WorkerOK, PCs, Locked, Timed, Recovery, Causes, MemoryOK, DurableOK
  <2>3. CallersOK'
    BY <1>17 DEF PublishNext, CallersOK, callers
  <2>4. MemoryOK'
    BY <1>17 DEF PublishNext, MemoryOK, WorkerOK, DurableOK, memory
  <2>5. DurableOK' /\ HistoryOK'
    BY <1>17 DEF PublishNext, DurableOK, HistoryOK, durable, history
  <2>6. QED
    BY <2>1, <2>2, <2>3, <2>4, <2>5
<1>18. CASE PublishDone
  <2>1. AdmissionOK' /\ HandInv' /\ OutstandingCountsUnfinished'
    BY <1>18, ProcessingKeepsHand DEF PublishDone, Goto, Idle, Taking, callers, CallersOK
  <2>2. WorkerOK'
    BY <1>18 DEF PublishDone, Goto, WorkerOK, PCs, Locked, Timed, Recovery, Causes, MemoryOK, DurableOK
  <2>3. CallersOK'
    BY <1>18 DEF PublishDone, CallersOK, callers
  <2>4. MemoryOK'
    BY <1>18 DEF PublishDone, MemoryOK, WorkerOK, DurableOK, memory
  <2>5. DurableOK' /\ HistoryOK'
    BY <1>18 DEF PublishDone, DurableOK, HistoryOK, durable, history
  <2>6. QED
    BY <2>1, <2>2, <2>3, <2>4, <2>5
<1>19. CASE SettleAccepted
  <2>1. "accepted" \in ReplyKinds /\ pubEnd \in Nat /\ pc \notin Idle
    BY <1>19 DEF SettleAccepted, ReplyKinds, WorkerOK, Idle, Taking
  <2>2. QED
    BY <2>1, <1>19, ConcludeIInv DEF SettleAccepted
<1>20. CASE Timeout
  BY <1>20, FailIInv DEF Timeout, Timed, Causes
<1>21. CASE StoreError
  BY <1>21, FailIInv DEF StoreError, Timed, Causes
<1>22. CASE WorkerDefect
  BY <1>22, FailIInv DEF WorkerDefect, Timed, Causes
<1>23. CASE Reconcile
  <2>1. AdmissionOK' /\ HandInv' /\ OutstandingCountsUnfinished'
    BY <1>23, ProcessingKeepsHand DEF Reconcile, Goto, Idle, Taking, callers, CallersOK
  <2>2. WorkerOK'
    BY <1>23 DEF Reconcile, Goto, WorkerOK, PCs, Locked, Timed, Recovery, Causes, MemoryOK, DurableOK
  <2>3. CallersOK'
    BY <1>23 DEF Reconcile, CallersOK, callers
  <2>4. MemoryOK'
    <3>1. start + 1 .. Len(log) \subseteq Nat /\ Len(log) \in Nat
      BY DEF WorkerOK, DurableOK
    <3>2. QED
      BY <3>1, <1>23 DEF Reconcile, MemoryOK
  <2>5. DurableOK' /\ HistoryOK'
    BY <1>23 DEF Reconcile, DurableOK, HistoryOK, durable, history
  <2>6. QED
    BY <2>1, <2>2, <2>3, <2>4, <2>5
<1>24. CASE ReconcileFails
  <2>1. AdmissionOK' /\ HandInv' /\ OutstandingCountsUnfinished'
    BY <1>24, ProcessingKeepsHand DEF ReconcileFails, Goto, Idle, Taking, callers, CallersOK
  <2>2. WorkerOK'
    BY <1>24 DEF ReconcileFails, Goto, WorkerOK, PCs, Locked, Timed, Recovery, Causes, MemoryOK, DurableOK
  <2>3. CallersOK'
    BY <1>24 DEF ReconcileFails, CallersOK, callers
  <2>4. MemoryOK'
    BY <1>24 DEF ReconcileFails, MemoryOK, WorkerOK, DurableOK, memory
  <2>5. DurableOK' /\ HistoryOK'
    <3>1. missed' \in BOOLEAN
      BY <1>24 DEF ReconcileFails
    <3>2. QED
      BY <3>1, <1>24 DEF ReconcileFails, DurableOK, HistoryOK, durable
  <2>6. QED
    BY <2>1, <2>2, <2>3, <2>4, <2>5
<1>25. CASE RecoveryDefect
  <2>1. AdmissionOK' /\ HandInv' /\ OutstandingCountsUnfinished'
    BY <1>25, ProcessingKeepsHand DEF RecoveryDefect, Recovery, Goto, Idle, Taking
  <2>2. WorkerOK'
    BY <1>25 DEF RecoveryDefect, Goto, WorkerOK, PCs, Locked, Recovery, Causes
  <2>3. Answer("internal", 0) \in Replies
    BY DEF Answer, Replies, ReplyKinds
  <2>4. CallersOK'
    BY <1>25, <2>3 DEF RecoveryDefect, CallersOK, Settle
  <2>5. missed' \in BOOLEAN
    BY <1>25 DEF RecoveryDefect, HistoryOK
  <2>6. MemoryOK' /\ DurableOK' /\ HistoryOK'
    BY <1>25, <2>5 DEF RecoveryDefect, MemoryOK, DurableOK, HistoryOK, memory, durable
  <2>7. QED
    BY <2>1, <2>2, <2>4, <2>6
<1>26. CASE ResolveStored
  <2>1. pc \notin Idle /\ Receipt # None
    BY <1>26 DEF ResolveStored, Idle, Taking
  <2>2. QED
    BY <2>1, <1>26, StoredAnswerType, ConcludeIInv DEF ResolveStored
<1>27. CASE ResolveUnchecked \/ ResolveUnknown
  <2>1. {"timeout", "internal", "store"} \subseteq ReplyKinds /\ pc \notin Idle
    BY <1>27 DEF ResolveUnchecked, ResolveUnknown, ReplyKinds, Idle, Taking
  <2>2. QED
    BY <2>1, <1>27, ConcludeIInv DEF ResolveUnchecked, ResolveUnknown
<1>28. CASE RecordRejection
  BY <1>28, RecordRejectionIInv
<1>29. CASE FailCaller
  <2>1. {"rejected", "store", "previouslyRejected"} \subseteq ReplyKinds /\ pc \notin Idle
    BY <1>29 DEF FailCaller, ReplyKinds, Idle, Taking
  <2>2. QED
    BY <2>1, <1>29, ConcludeIInv DEF FailCaller
<1>30. CASE Finish
  <2>1. HeldEnvelope = 1 /\ HeldEnvelope' = 0
    BY <1>30, NoneAssumption DEF Finish, HeldEnvelope, HandInv, Taking
  <2>2. Queued' = Queued /\ Queued \in Nat
    BY <1>30, QueuedIsNat DEF Finish, Queued
  <2>3. OutstandingCountsUnfinished' /\ outstanding' \in Nat
    BY <1>30, <2>1, <2>2 DEF Finish, OutstandingCountsUnfinished
  <2>4. AdmissionOK' /\ CallersOK' /\ WorkerOK'
    BY <1>30, <2>3 DEF Finish, AdmissionOK, CallersOK, WorkerOK, PCs, Taking, Causes, callers
  <2>5. MemoryOK' /\ DurableOK' /\ HistoryOK'
    BY <1>30 DEF Finish, MemoryOK, DurableOK, HistoryOK, memory, durable, history
  <2>6. HandInv'
    BY <1>30, NoneAssumption DEF Finish, HandInv, Known, Taking, callers
  <2>7. QED
    BY <2>3, <2>4, <2>5, <2>6
<1>31. QED
  BY <1>1, <1>2, <1>3, <1>4, <1>5, <1>6, <1>7, <1>8, <1>9, <1>10, <1>11, <1>12, <1>13, <1>14, <1>15, <1>16, <1>17, <1>18, <1>19, <1>20, <1>21, <1>22, <1>23, <1>24, <1>25, <1>26, <1>27, <1>28, <1>29, <1>30 DEF Worker, Take

LEMMA RefuseIInv == ASSUME IInv, NEW e \in Envelopes, NEW c \in Commands, NEW r \in Requests,
                           Refuse(e, c, r)
                    PROVE  IInv'
<1> USE DEF IInv, TypeOK, Refuse
<1>1. {Answer("stopped", 0), Answer("overloaded", 0)} \subseteq Replies
  BY DEF Answer, Replies, ReplyKinds
<1>2. AdmissionOK' /\ CallersOK'
  BY <1>1 DEF AdmissionOK, CallersOK, admission
<1>3. WorkerOK' /\ MemoryOK' /\ DurableOK' /\ HistoryOK'
  BY DEF WorkerOK, MemoryOK, DurableOK, HistoryOK, worker, memory, durable, history
<1>4. \A k \in Envelopes : Known(k) => Known(k)'
  BY DEF Known, CallersOK
<1>5. HandInv' /\ OutstandingCountsUnfinished'
  BY <1>4 DEF HandInv, AdmissionOK, WorkerOK, OutstandingCountsUnfinished, Queued, HeldEnvelope,
              admission, worker
<1>6. QED
  BY <1>2, <1>3, <1>5

LEMMA AbandonIInv == ASSUME IInv, NEW e \in Envelopes, Abandon(e)
                     PROVE  IInv'
<1> USE DEF IInv, TypeOK, Abandon
<1>1. Answer("timeout", 0) \in Replies
  BY DEF Answer, Replies, ReplyKinds
<1>2. AdmissionOK' /\ CallersOK'
  BY <1>1 DEF AdmissionOK, CallersOK, admission
<1>3. WorkerOK' /\ MemoryOK' /\ DurableOK' /\ HistoryOK'
  BY DEF WorkerOK, MemoryOK, DurableOK, HistoryOK, worker, memory, durable, history
<1>4. \A k \in Envelopes : Known(k) => Known(k)'
  BY DEF Known, CallersOK
<1>5. HandInv' /\ OutstandingCountsUnfinished'
  BY <1>4 DEF HandInv, AdmissionOK, WorkerOK, OutstandingCountsUnfinished, Queued, HeldEnvelope,
              admission, worker
<1>6. QED
  BY <1>2, <1>3, <1>5

\* Quiesce, the two halves of stop, and refresh leave envelopes, queues and worker alone.
LEMMA PhaseIInv == ASSUME IInv, Quiesce \/ StopBegin \/ StopEnd
                   PROVE  IInv'
<1> USE DEF IInv, TypeOK
<1>1. AdmissionOK' /\ UNCHANGED <<outstanding, lanes, callers, worker, memory, durable, history>>
  BY DEF Quiesce, StopBegin, StopEnd, AdmissionOK
<1>2. CallersOK' /\ WorkerOK' /\ MemoryOK' /\ DurableOK' /\ HistoryOK'
  BY <1>1 DEF CallersOK, WorkerOK, MemoryOK, DurableOK, HistoryOK, callers, worker, memory,
              durable, history
<1>3. HandInv' /\ OutstandingCountsUnfinished'
  BY <1>1 DEF HandInv, Known, OutstandingCountsUnfinished, Queued, HeldEnvelope, callers, worker
<1>4. QED
  BY <1>1, <1>2, <1>3

LEMMA RefreshIInv == ASSUME IInv, Refresh
                     PROVE  IInv'
<1> USE DEF IInv, TypeOK, Refresh
<1>1. Len(log) \in Nat /\ Events \subseteq Nat /\ 0 .. Len(log) \subseteq Nat
  BY DEF Events, DurableOK
<1>2. AdmissionOK' /\ CallersOK' /\ WorkerOK' /\ DurableOK'
  BY DEF AdmissionOK, CallersOK, WorkerOK, DurableOK, admission, callers, worker, durable
<1>3. MemoryOK'
  BY <1>1 DEF MemoryOK
<1>4. missed' \in BOOLEAN
  OBVIOUS
<1>5. HistoryOK'
  BY <1>4 DEF HistoryOK
<1>6. HandInv' /\ OutstandingCountsUnfinished'
  BY DEF HandInv, Known, OutstandingCountsUnfinished, Queued, HeldEnvelope, admission, callers, worker
<1>7. QED
  BY <1>2, <1>3, <1>5, <1>6

LEMMA RestartIInv == ASSUME IInv, Restart
                     PROVE  IInv'
<1> USE DEF IInv, TypeOK, Restart
<1>1. Len(log) \in Nat /\ Events \subseteq Nat
  BY DEF Events, DurableOK
<1>2. AdmissionOK'
  BY DEF AdmissionOK, Lanes
<1>3. Answer("lost", 0) \in Replies
  BY DEF Answer, Replies, ReplyKinds
<1>4. CallersOK'
  BY <1>3 DEF CallersOK
<1>5. WorkerOK'
  BY DEF WorkerOK, PCs, Taking, Causes
<1>6. MemoryOK' /\ DurableOK'
  BY <1>1 DEF MemoryOK, DurableOK, durable
<1>7. missed' \in BOOLEAN
  OBVIOUS
<1>8. restarts' \in 0 .. MaxRestarts
  BY BoundAssumption DEF HistoryOK
<1>9. HistoryOK'
  BY <1>7, <1>8 DEF HistoryOK
<1>10. HandInv'
  BY DEF HandInv, Taking
<1>11. OutstandingCountsUnfinished'
  BY DEF OutstandingCountsUnfinished, Queued, HeldEnvelope, Lanes
<1>12. QED
  BY <1>2, <1>4, <1>5, <1>6, <1>9, <1>10, <1>11

LEMMA ReleaseIInv == ASSUME IInv, NEW p \in Prints, Release(p)
                     PROVE  IInv'
<1> USE DEF IInv, TypeOK, Release
<1>1. AdmissionOK' /\ CallersOK' /\ WorkerOK' /\ MemoryOK' /\ HistoryOK'
  BY DEF AdmissionOK, CallersOK, WorkerOK, MemoryOK, HistoryOK, admission, callers, worker, memory, history
<1>2. DurableOK'
  BY DEF DurableOK
<1>3. HandInv' /\ OutstandingCountsUnfinished'
  BY DEF HandInv, Known, OutstandingCountsUnfinished, Queued, HeldEnvelope, admission, callers, worker
<1>4. QED
  BY <1>1, <1>2, <1>3

LEMMA NextIInv == IInv /\ [Next]_vars => IInv'
<1> SUFFICES ASSUME IInv, [Next]_vars PROVE IInv'
  OBVIOUS
<1>1. CASE Worker
  BY <1>1, WorkerIInv
<1>2. CASE StopEnd
  BY <1>2, PhaseIInv
<1>3. CASE Environment
  BY <1>3, AsksAssumption, AdmitIInv, RefuseIInv, AbandonIInv, PhaseIInv, ReleaseIInv, RefreshIInv, RestartIInv
     DEF Environment
<1>4. CASE UNCHANGED vars
  BY <1>4 DEF IInv, TypeOK, AdmissionOK, CallersOK, WorkerOK, MemoryOK, DurableOK, HistoryOK,
     HandInv, Known, OutstandingCountsUnfinished, Queued, HeldEnvelope, vars, admission, callers,
     worker, memory, durable, history
<1>5. QED
  BY <1>1, <1>2, <1>3, <1>4 DEF Next

LEMMA Invariance == Spec => []IInv
<1>1. QED
  BY InitIInv, NextIInv, PTL DEF Spec

\* The types of every variable hold in every reachable state; in particular the counter of
\* outstanding envelopes, which finishEnvelope decrements, never goes below zero.
THEOREM TypeCorrect == Spec => []TypeOK
<1>1. IInv => TypeOK
  BY DEF IInv
<1>2. QED
  BY <1>1, Invariance, PTL

\* drain and stop wait for exactly the envelopes that are not finished, whatever path each
\* of them takes through the worker.
THEOREM OutstandingCorrect == Spec => []OutstandingCountsUnfinished
<1>1. IInv => OutstandingCountsUnfinished
  BY DEF IInv
<1>2. QED
  BY <1>1, Invariance, PTL

-----------------------------------------------------------------------------
(* One transaction per command id.                                         *)

\* The event of an envelope is appended only while the envelope is in flight, a state
\* that neither its caller nor the worker can take back.
CommitInv ==
  /\ \A i \in Events : Known(log[i]) /\ exec[log[i]] = "in-flight"
  /\ pc \in {"lookup", "decide", "commit"} => exec[cur] = "in-flight"
  /\ CommittedAtMostOnce

\* Steps that leave the store alone.
LEMMA QuietCommitInv ==
  ASSUME IInv, CommitInv, UNCHANGED <<log, receipts>>,
         \A e \in Envelopes : Known(e) => cmd'[e] = cmd[e] /\ req'[e] = req[e],
         \A e \in Envelopes : exec[e] = "in-flight" => exec'[e] = "in-flight",
         pc' \in {"lookup", "decide", "commit"} => exec'[cur'] = "in-flight"
  PROVE  CommitInv'
<1>1. \A i \in Events : log[i] \in Envelopes
  BY DEF IInv, TypeOK, DurableOK, Events
<1>2. \A i \in Events' : Known(log[i])' /\ exec'[log'[i]] = "in-flight"
  BY <1>1 DEF CommitInv, Known, Events
<1>3. CommittedAtMostOnce'
  BY <1>1 DEF CommitInv, CommittedAtMostOnce, Events
<1>4. QED
  BY <1>2, <1>3 DEF CommitInv

\* A transaction whose command has no receipt appends the events of a call that has none.
LEMMA CommitCommitInv ==
  ASSUME IInv, CommitInv, NEW n \in 1 .. MaxEvents, Commit(n)
  PROVE  CommitInv'
<1> DEFINE c == cmd[cur]
           last == Len(log) + n
<1>1. cur \in Envelopes /\ Known(cur) /\ exec[cur] = "in-flight"
  BY DEF IInv, TypeOK, HandInv, Taking, WorkerOK, Commit, CommitInv
<1>2. n \in Nat /\ n >= 1 /\ Len(log) \in Nat /\ log \in Seq(Envelopes)
  BY BoundAssumption DEF IInv, TypeOK, DurableOK
<1>3. log' = log \o [i \in 1 .. n |-> cur] /\ UNCHANGED <<cur, cmd, req, exec, reply>> /\ pc' = "assign"
  BY DEF Commit, callers
<1>4. Events' = 1 .. last
  BY <1>1, <1>2, <1>3 DEF Events
<1>5. \A i \in Events : i \in Events' /\ log'[i] = log[i]
  BY <1>1, <1>2, <1>3, <1>4 DEF Events
<1>6. \A i \in Events' \ Events : log'[i] = cur
  BY <1>1, <1>2, <1>3, <1>4 DEF Events
<1>7. \A i \in Events' : Known(log[i])' /\ exec'[log'[i]] = "in-flight"
  BY <1>1, <1>3, <1>5, <1>6 DEF CommitInv, Known
<1>8. receipts'[c] = [status |-> "accepted", print |-> PrintOf[req[cur]], seq |-> last]
  BY <1>1 DEF Commit, IInv, TypeOK, DurableOK, Known
<1>9. \A i \in Events : cmd[log[i]] # c /\ receipts'[cmd[log[i]]] = receipts[cmd[log[i]]]
  <2>1. \A i \in Events : receipts[cmd[log[i]]] # None /\ cmd[log[i]] \in Commands
    BY DEF CommitInv, CommittedAtMostOnce, Known
  <2>2. receipts[c] = None /\ receipts \in [Commands -> Receipts \cup {None}]
    BY DEF Commit, IInv, TypeOK, DurableOK
  <2>3. QED
    BY <2>1, <2>2 DEF Commit
<1>10. ASSUME NEW i \in Events'
       PROVE  LET e == log'[i]
                  receipt == receipts'[cmd'[e]]
              IN  /\ receipt # None
                  /\ receipt.status = "accepted"
                  /\ receipt.print = PrintOf[req'[e]]
                  /\ i <= receipt.seq /\ receipt.seq \in Events'
                  /\ \A j \in i .. receipt.seq : log'[j] = e
  <2>1. CASE i \in Events
    <3>1. receipts'[cmd'[log'[i]]] = receipts[cmd[log[i]]] /\ log'[i] = log[i] /\ req' = req
      BY <1>3, <1>5, <1>9, <2>1
    <3>2. receipts[cmd[log[i]]].seq \in Events
      BY <2>1 DEF CommitInv, CommittedAtMostOnce
    <3>3. \A j \in i .. receipts[cmd[log[i]]].seq : j \in Events
      BY <3>2, <2>1, <1>2 DEF Events
    <3>4. QED
      BY <3>1, <3>2, <3>3, <1>5, <2>1 DEF CommitInv, CommittedAtMostOnce
  <2>2. CASE i \notin Events
    <3>1. log'[i] = cur /\ cmd'[log'[i]] = c /\ req' = req
      BY <1>3, <1>6, <2>2
    <3>2. receipts'[c].seq = last /\ receipts'[c].status = "accepted"
          /\ receipts'[c].print = PrintOf[req[cur]]
      BY <1>8
    <3>3. receipts'[c] # None
      BY <1>8, NoneIsNoReceipt, <1>1, <1>2 DEF Known, Receipts, Prints
    <3>4. i <= last /\ last \in Events' /\ last \in Nat
      BY <1>2, <1>4
    <3>5. \A j \in i .. last : log'[j] = cur
      BY <1>2, <1>4, <1>6, <2>2 DEF Events
    <3>6. QED
      BY <3>1, <3>2, <3>3, <3>4, <3>5
  <2>3. QED
    BY <2>1, <2>2
<1>11. CommittedAtMostOnce'
  BY <1>10 DEF CommittedAtMostOnce
<1>12. QED
  BY <1>3, <1>7, <1>11 DEF CommitInv

\* A rejection is recorded where the command has no receipt: no accepted one is replaced.
LEMMA RejectionCommitInv ==
  ASSUME IInv, CommitInv, RecordRejection
  PROVE  CommitInv'
<1>1. UNCHANGED <<log, cmd, req, exec>> /\ pc' = "fail"
  BY DEF RecordRejection, Goto, callers
<1>2. \A i \in Events : receipts'[cmd[log[i]]] = receipts[cmd[log[i]]]
  <2>1. \A i \in Events : receipts[cmd[log[i]]] # None /\ cmd[log[i]] \in Commands
    BY DEF CommitInv, CommittedAtMostOnce, Known
  <2>2. QED
    BY <2>1 DEF RecordRejection, IInv, TypeOK, DurableOK
<1>3. CommittedAtMostOnce'
  BY <1>1, <1>2 DEF CommitInv, CommittedAtMostOnce, Events
<1>4. QED
  BY <1>1, <1>3 DEF CommitInv, Known, Events

\* No other step of the worker touches log or receipts.
LEMMA WorkerCommitInv == ASSUME IInv, CommitInv, Worker PROVE CommitInv'
<1> USE QuietCommitInv
<1>1. CASE TakeWake
  <2>1. UNCHANGED <<log, receipts, cmd, req>>
    BY <1>1 DEF TakeWake, callers, durable
  <2>2. \A e \in Envelopes : exec[e] = "in-flight" => exec'[e] = "in-flight"
    BY <1>1 DEF TakeWake, callers, IInv, TypeOK, CallersOK
  <2>3. pc' \in {"lookup", "decide", "commit"} => exec'[cur'] = "in-flight"
    BY <1>1 DEF TakeWake, callers
  <2>4. QED
    BY <2>1, <2>2, <2>3
<1>2. CASE WorkerExit
  <2>1. UNCHANGED <<log, receipts, cmd, req>>
    BY <1>2 DEF WorkerExit, callers, durable
  <2>2. \A e \in Envelopes : exec[e] = "in-flight" => exec'[e] = "in-flight"
    BY <1>2 DEF WorkerExit, callers, IInv, TypeOK, CallersOK
  <2>3. pc' \in {"lookup", "decide", "commit"} => exec'[cur'] = "in-flight"
    BY <1>2 DEF WorkerExit, callers
  <2>4. QED
    BY <2>1, <2>2, <2>3
<1>3. CASE BuildDefect
  <2>1. UNCHANGED <<log, receipts, cmd, req>>
    BY <1>3 DEF BuildDefect, Conclude, Settle, Goto, callers, durable
  <2>2. \A e \in Envelopes : exec[e] = "in-flight" => exec'[e] = "in-flight"
    BY <1>3 DEF BuildDefect, Conclude, Settle, Goto, callers, IInv, TypeOK, CallersOK
  <2>3. pc' \in {"lookup", "decide", "commit"} => exec'[cur'] = "in-flight"
    BY <1>3 DEF BuildDefect, Conclude, Settle, Goto, callers
  <2>4. QED
    BY <2>1, <2>2, <2>3
<1>4. CASE SkipAbandoned
  <2>1. UNCHANGED <<log, receipts, cmd, req>>
    BY <1>4 DEF SkipAbandoned, Goto, callers, durable
  <2>2. \A e \in Envelopes : exec[e] = "in-flight" => exec'[e] = "in-flight"
    BY <1>4 DEF SkipAbandoned, Goto, callers, IInv, TypeOK, CallersOK
  <2>3. pc' \in {"lookup", "decide", "commit"} => exec'[cur'] = "in-flight"
    BY <1>4 DEF SkipAbandoned, Goto, callers
  <2>4. QED
    BY <2>1, <2>2, <2>3
<1>5. CASE LookupStored
  <2>1. UNCHANGED <<log, receipts, cmd, req>>
    BY <1>5 DEF LookupStored, Conclude, Settle, Goto, callers, durable
  <2>2. \A e \in Envelopes : exec[e] = "in-flight" => exec'[e] = "in-flight"
    BY <1>5 DEF LookupStored, Conclude, Settle, Goto, callers, IInv, TypeOK, CallersOK
  <2>3. pc' \in {"lookup", "decide", "commit"} => exec'[cur'] = "in-flight"
    BY <1>5 DEF LookupStored, Conclude, Settle, Goto, callers
  <2>4. QED
    BY <2>1, <2>2, <2>3
<1>6. CASE LookupUnclaimed
  <2>1. UNCHANGED <<log, receipts, cmd, req>>
    BY <1>6 DEF LookupUnclaimed, Fail, callers, durable
  <2>2. \A e \in Envelopes : exec[e] = "in-flight" => exec'[e] = "in-flight"
    BY <1>6 DEF LookupUnclaimed, Fail, callers, IInv, TypeOK, CallersOK
  <2>3. pc' \in {"lookup", "decide", "commit"} => exec'[cur'] = "in-flight"
    BY <1>6 DEF LookupUnclaimed, Fail, callers
  <2>4. QED
    BY <2>1, <2>2, <2>3
<1>7. CASE RefuseCommand
  <2>1. UNCHANGED <<log, receipts, cmd, req>>
    BY <1>7 DEF RefuseCommand, Fail, callers, durable
  <2>2. \A e \in Envelopes : exec[e] = "in-flight" => exec'[e] = "in-flight"
    BY <1>7 DEF RefuseCommand, Fail, callers, IInv, TypeOK, CallersOK
  <2>3. pc' \in {"lookup", "decide", "commit"} => exec'[cur'] = "in-flight"
    BY <1>7 DEF RefuseCommand, Fail, callers
  <2>4. QED
    BY <2>1, <2>2, <2>3
<1>8. CASE Assign
  <2>1. UNCHANGED <<log, receipts, cmd, req>>
    BY <1>8 DEF Assign, Goto, callers, durable
  <2>2. \A e \in Envelopes : exec[e] = "in-flight" => exec'[e] = "in-flight"
    BY <1>8 DEF Assign, Goto, callers, IInv, TypeOK, CallersOK
  <2>3. pc' \in {"lookup", "decide", "commit"} => exec'[cur'] = "in-flight"
    BY <1>8 DEF Assign, Goto, callers
  <2>4. QED
    BY <2>1, <2>2, <2>3
<1>9. CASE PublishNext
  <2>1. UNCHANGED <<log, receipts, cmd, req>>
    BY <1>9 DEF PublishNext, callers, durable
  <2>2. \A e \in Envelopes : exec[e] = "in-flight" => exec'[e] = "in-flight"
    BY <1>9 DEF PublishNext, callers, IInv, TypeOK, CallersOK
  <2>3. pc' \in {"lookup", "decide", "commit"} => exec'[cur'] = "in-flight"
    BY <1>9 DEF PublishNext, callers, CommitInv
  <2>4. QED
    BY <2>1, <2>2, <2>3
<1>10. CASE PublishDone
  <2>1. UNCHANGED <<log, receipts, cmd, req>>
    BY <1>10 DEF PublishDone, Goto, callers, durable
  <2>2. \A e \in Envelopes : exec[e] = "in-flight" => exec'[e] = "in-flight"
    BY <1>10 DEF PublishDone, Goto, callers, IInv, TypeOK, CallersOK
  <2>3. pc' \in {"lookup", "decide", "commit"} => exec'[cur'] = "in-flight"
    BY <1>10 DEF PublishDone, Goto, callers
  <2>4. QED
    BY <2>1, <2>2, <2>3
<1>11. CASE SettleAccepted
  <2>1. UNCHANGED <<log, receipts, cmd, req>>
    BY <1>11 DEF SettleAccepted, Conclude, Settle, Goto, callers, durable
  <2>2. \A e \in Envelopes : exec[e] = "in-flight" => exec'[e] = "in-flight"
    BY <1>11 DEF SettleAccepted, Conclude, Settle, Goto, callers, IInv, TypeOK, CallersOK
  <2>3. pc' \in {"lookup", "decide", "commit"} => exec'[cur'] = "in-flight"
    BY <1>11 DEF SettleAccepted, Conclude, Settle, Goto, callers
  <2>4. QED
    BY <2>1, <2>2, <2>3
<1>12. CASE Timeout
  <2>1. UNCHANGED <<log, receipts, cmd, req>>
    BY <1>12 DEF Timeout, Fail, callers, durable
  <2>2. \A e \in Envelopes : exec[e] = "in-flight" => exec'[e] = "in-flight"
    BY <1>12 DEF Timeout, Fail, callers, IInv, TypeOK, CallersOK
  <2>3. pc' \in {"lookup", "decide", "commit"} => exec'[cur'] = "in-flight"
    BY <1>12 DEF Timeout, Fail, callers
  <2>4. QED
    BY <2>1, <2>2, <2>3
<1>13. CASE StoreError
  <2>1. UNCHANGED <<log, receipts, cmd, req>>
    BY <1>13 DEF StoreError, Fail, callers, durable
  <2>2. \A e \in Envelopes : exec[e] = "in-flight" => exec'[e] = "in-flight"
    BY <1>13 DEF StoreError, Fail, callers, IInv, TypeOK, CallersOK
  <2>3. pc' \in {"lookup", "decide", "commit"} => exec'[cur'] = "in-flight"
    BY <1>13 DEF StoreError, Fail, callers
  <2>4. QED
    BY <2>1, <2>2, <2>3
<1>14. CASE WorkerDefect
  <2>1. UNCHANGED <<log, receipts, cmd, req>>
    BY <1>14 DEF WorkerDefect, Fail, callers, durable
  <2>2. \A e \in Envelopes : exec[e] = "in-flight" => exec'[e] = "in-flight"
    BY <1>14 DEF WorkerDefect, Fail, callers, IInv, TypeOK, CallersOK
  <2>3. pc' \in {"lookup", "decide", "commit"} => exec'[cur'] = "in-flight"
    BY <1>14 DEF WorkerDefect, Fail, callers
  <2>4. QED
    BY <2>1, <2>2, <2>3
<1>15. CASE Reconcile
  <2>1. UNCHANGED <<log, receipts, cmd, req>>
    BY <1>15 DEF Reconcile, callers, durable
  <2>2. \A e \in Envelopes : exec[e] = "in-flight" => exec'[e] = "in-flight"
    BY <1>15 DEF Reconcile, callers, IInv, TypeOK, CallersOK
  <2>3. pc' \in {"lookup", "decide", "commit"} => exec'[cur'] = "in-flight"
    BY <1>15 DEF Reconcile, callers
  <2>4. QED
    BY <2>1, <2>2, <2>3
<1>16. CASE ReconcileFails
  <2>1. UNCHANGED <<log, receipts, cmd, req>>
    BY <1>16 DEF ReconcileFails, Goto, callers, durable
  <2>2. \A e \in Envelopes : exec[e] = "in-flight" => exec'[e] = "in-flight"
    BY <1>16 DEF ReconcileFails, Goto, callers, IInv, TypeOK, CallersOK
  <2>3. pc' \in {"lookup", "decide", "commit"} => exec'[cur'] = "in-flight"
    BY <1>16 DEF ReconcileFails, Goto, callers
  <2>4. QED
    BY <2>1, <2>2, <2>3
<1>17. CASE RecoveryDefect
  <2>1. UNCHANGED <<log, receipts, cmd, req>>
    BY <1>17 DEF RecoveryDefect, Settle, Goto, Recovery, callers, durable
  <2>2. \A e \in Envelopes : exec[e] = "in-flight" => exec'[e] = "in-flight"
    BY <1>17 DEF RecoveryDefect, Settle, Goto, Recovery, callers, IInv, TypeOK, CallersOK
  <2>3. pc' \in {"lookup", "decide", "commit"} => exec'[cur'] = "in-flight"
    BY <1>17 DEF RecoveryDefect, Settle, Goto, Recovery, callers
  <2>4. QED
    BY <2>1, <2>2, <2>3
<1>18. CASE ResolveStored
  <2>1. UNCHANGED <<log, receipts, cmd, req>>
    BY <1>18 DEF ResolveStored, Conclude, Settle, Goto, callers, durable
  <2>2. \A e \in Envelopes : exec[e] = "in-flight" => exec'[e] = "in-flight"
    BY <1>18 DEF ResolveStored, Conclude, Settle, Goto, callers, IInv, TypeOK, CallersOK
  <2>3. pc' \in {"lookup", "decide", "commit"} => exec'[cur'] = "in-flight"
    BY <1>18 DEF ResolveStored, Conclude, Settle, Goto, callers
  <2>4. QED
    BY <2>1, <2>2, <2>3
<1>19. CASE ResolveUnchecked \/ ResolveUnknown
  <2>1. UNCHANGED <<log, receipts, cmd, req>>
    BY <1>19 DEF ResolveUnchecked, ResolveUnknown, Conclude, Settle, Goto, callers, durable
  <2>2. \A e \in Envelopes : exec[e] = "in-flight" => exec'[e] = "in-flight"
    BY <1>19 DEF ResolveUnchecked, ResolveUnknown, Conclude, Settle, Goto, callers, IInv, TypeOK, CallersOK
  <2>3. pc' \in {"lookup", "decide", "commit"} => exec'[cur'] = "in-flight"
    BY <1>19 DEF ResolveUnchecked, ResolveUnknown, Conclude, Settle, Goto, callers
  <2>4. QED
    BY <2>1, <2>2, <2>3
<1>20. CASE FailCaller
  <2>1. UNCHANGED <<log, receipts, cmd, req>>
    BY <1>20 DEF FailCaller, Conclude, Settle, Goto, callers, durable
  <2>2. \A e \in Envelopes : exec[e] = "in-flight" => exec'[e] = "in-flight"
    BY <1>20 DEF FailCaller, Conclude, Settle, Goto, callers, IInv, TypeOK, CallersOK
  <2>3. pc' \in {"lookup", "decide", "commit"} => exec'[cur'] = "in-flight"
    BY <1>20 DEF FailCaller, Conclude, Settle, Goto, callers
  <2>4. QED
    BY <2>1, <2>2, <2>3
<1>21. CASE Finish
  <2>1. UNCHANGED <<log, receipts, cmd, req>>
    BY <1>21 DEF Finish, callers, durable
  <2>2. \A e \in Envelopes : exec[e] = "in-flight" => exec'[e] = "in-flight"
    BY <1>21 DEF Finish, callers, IInv, TypeOK, CallersOK
  <2>3. pc' \in {"lookup", "decide", "commit"} => exec'[cur'] = "in-flight"
    BY <1>21 DEF Finish, callers
  <2>4. QED
    BY <2>1, <2>2, <2>3
<1>22. CASE BeginExpired
  <2>1. UNCHANGED <<log, receipts, cmd, req>>
    BY <1>22 DEF BeginExpired, callers, durable
  <2>2. \A e \in Envelopes : exec[e] = "in-flight" => exec'[e] = "in-flight"
    BY <1>22 DEF BeginExpired, callers, IInv, TypeOK, CallersOK
  <2>3. pc' \in {"lookup", "decide", "commit"} => exec'[cur'] = "in-flight"
    BY <1>22 DEF BeginExpired, callers
  <2>4. QED
    BY <2>1, <2>2, <2>3
<1>23. CASE Begin
  <2>1. UNCHANGED <<log, receipts, cmd, req>>
    BY <1>23 DEF Begin, Goto, callers, durable
  <2>2. \A e \in Envelopes : exec[e] = "in-flight" => exec'[e] = "in-flight"
    BY <1>23 DEF Begin, Goto, callers, IInv, TypeOK, CallersOK
  <2>3. pc' \in {"lookup", "decide", "commit"} => exec'[cur'] = "in-flight"
    BY <1>23 DEF Begin, Goto, callers, IInv, TypeOK, CallersOK, WorkerOK, HandInv, Taking
  <2>4. QED
    BY <2>1, <2>2, <2>3
<1>24. CASE LookupFresh
  <2>1. UNCHANGED <<log, receipts, cmd, req>>
    BY <1>24 DEF LookupFresh, Goto, CommitInv, callers, durable
  <2>2. \A e \in Envelopes : exec[e] = "in-flight" => exec'[e] = "in-flight"
    BY <1>24 DEF LookupFresh, Goto, CommitInv, callers, IInv, TypeOK, CallersOK
  <2>3. pc' \in {"lookup", "decide", "commit"} => exec'[cur'] = "in-flight"
    BY <1>24 DEF LookupFresh, Goto, CommitInv, callers
  <2>4. QED
    BY <2>1, <2>2, <2>3
<1>25. CASE Decide
  <2>1. UNCHANGED <<log, receipts, cmd, req>>
    BY <1>25 DEF Decide, Goto, CommitInv, callers, durable
  <2>2. \A e \in Envelopes : exec[e] = "in-flight" => exec'[e] = "in-flight"
    BY <1>25 DEF Decide, Goto, CommitInv, callers, IInv, TypeOK, CallersOK
  <2>3. pc' \in {"lookup", "decide", "commit"} => exec'[cur'] = "in-flight"
    BY <1>25 DEF Decide, Goto, CommitInv, callers
  <2>4. QED
    BY <2>1, <2>2, <2>3
<1>26. CASE \E l \in Lanes : TakeFrom(l)
  <2>1. UNCHANGED <<log, receipts, cmd, req>>
    BY <1>26 DEF TakeFrom, callers, durable
  <2>2. \A e \in Envelopes : exec[e] = "in-flight" => exec'[e] = "in-flight"
    BY <1>26 DEF TakeFrom, callers, IInv, TypeOK, CallersOK
  <2>3. pc' \in {"lookup", "decide", "commit"} => exec'[cur'] = "in-flight"
    BY <1>26 DEF TakeFrom, callers
  <2>4. QED
    BY <2>1, <2>2, <2>3
<1>27. CASE PollEmpty("control", "user") \/ PollEmpty("user", "normal")
  <2>1. UNCHANGED <<log, receipts, cmd, req>>
    BY <1>27 DEF PollEmpty, callers, durable
  <2>2. \A e \in Envelopes : exec[e] = "in-flight" => exec'[e] = "in-flight"
    BY <1>27 DEF PollEmpty, callers, IInv, TypeOK, CallersOK
  <2>3. pc' \in {"lookup", "decide", "commit"} => exec'[cur'] = "in-flight"
    BY <1>27 DEF PollEmpty, callers
  <2>4. QED
    BY <2>1, <2>2, <2>3
<1>28. CASE \E n \in 1 .. MaxEvents : Commit(n)
  BY <1>28, CommitCommitInv
<1>29. CASE RecordRejection
  BY <1>29, RejectionCommitInv
<1>30. QED
  BY <1>1, <1>2, <1>3, <1>4, <1>5, <1>6, <1>7, <1>8, <1>9, <1>10, <1>11, <1>12, <1>13, <1>14, <1>15, <1>16, <1>17, <1>18, <1>19, <1>20, <1>21, <1>22, <1>23, <1>24, <1>25, <1>26, <1>27, <1>28, <1>29 DEF Worker, Take

LEMMA NextCommitInv == IInv /\ CommitInv /\ [Next]_vars => CommitInv'
<1> SUFFICES ASSUME IInv, CommitInv, [Next]_vars PROVE CommitInv'
  OBVIOUS
<1> USE QuietCommitInv
<1>1. CASE Worker
  BY <1>1, WorkerCommitInv
<1>2. CASE StopEnd
  BY <1>2 DEF StopEnd, CommitInv, callers, worker, durable
<1>3. CASE \E e \in Envelopes, c \in Commands : \E r \in Asks[e][c] : Admit(e, c, r) \/ Refuse(e, c, r)
  <2>1. PICK e \in Envelopes, c \in Commands, r \in Requests : Admit(e, c, r) \/ Refuse(e, c, r)
    BY <1>3, AsksAssumption
  <2>2. UNCHANGED <<log, receipts, pc, cur>> /\ exec[e] = "free"
    BY <2>1 DEF Admit, Refuse, durable, worker
  <2>3. \A k \in Envelopes : Known(k) => cmd'[k] = cmd[k] /\ req'[k] = req[k]
    BY <2>1, <2>2 DEF Admit, Refuse, Known, IInv, TypeOK, CallersOK
  <2>4. \A k \in Envelopes : exec[k] = "in-flight" => exec'[k] = "in-flight"
    BY <2>1, <2>2 DEF Admit, Refuse, IInv, TypeOK, CallersOK
  <2>5. pc \in {"lookup", "decide", "commit"} => cur \in Envelopes
    BY DEF IInv, TypeOK, HandInv, Taking, WorkerOK
  <2>6. QED
    BY <2>2, <2>3, <2>4, <2>5 DEF CommitInv
<1>4. CASE \E e \in Envelopes : Abandon(e)
  <2>1. PICK e \in Envelopes : Abandon(e)
    BY <1>4
  <2>2. UNCHANGED <<log, receipts, pc, cur, cmd, req>> /\ exec[e] = "queued"
    BY <2>1 DEF Abandon, durable, worker
  <2>3. \A k \in Envelopes : exec[k] = "in-flight" => exec'[k] = "in-flight"
    BY <2>1 DEF Abandon, IInv, TypeOK, CallersOK
  <2>4. pc \in {"lookup", "decide", "commit"} => cur \in Envelopes
    BY DEF IInv, TypeOK, HandInv, Taking, WorkerOK
  <2>5. QED
    BY <2>2, <2>3, <2>4 DEF CommitInv
<1>5. CASE Quiesce \/ StopBegin \/ Refresh \/ \E p \in Prints : Release(p)
  BY <1>5 DEF Quiesce, StopBegin, Refresh, Release, CommitInv, callers, worker, durable
<1>6. CASE Restart
  BY <1>6 DEF Restart, CommitInv, durable
<1>7. CASE UNCHANGED vars
  BY <1>7 DEF CommitInv, vars, callers, worker, durable
<1>8. QED
  BY <1>1, <1>2, <1>3, <1>4, <1>5, <1>6, <1>7 DEF Next, Environment

LEMMA CommitInvariance == Spec => []CommitInv
<1>1. Init => CommitInv
  BY DEF Init, CommitInv, CommittedAtMostOnce, Events
<1>2. QED
  BY <1>1, NextCommitInv, Invariance, PTL DEF Spec

\* However many calls carry one command id, whatever fails between their steps and however
\* often the server restarts: one transaction appends its events, and its receipt says so.
THEOREM CommittedAtMostOnceCorrect == Spec => []CommittedAtMostOnce
<1>1. CommitInv => CommittedAtMostOnce
  BY DEF CommitInv
<1>2. QED
  BY <1>1, CommitInvariance, PTL

\* A caller that gave up on a queued command can dispatch it under a new id: the abandoned
\* envelope never commits.
THEOREM AbandonedNeverCommitsCorrect == Spec => []AbandonedNeverCommits
<1>1. CommitInv => AbandonedNeverCommits
  BY DEF CommitInv, AbandonedNeverCommits
<1>2. QED
  BY <1>1, CommitInvariance, PTL

-----------------------------------------------------------------------------
(* What the engine tells about a decision, and what it promises as a whole *)

Before == {"decide", "commit"}

Rejected(e) == reply[e] # None /\ reply[e].kind = "rejected"

\* A call under the lock is in flight, which no other call with its envelope can be.
LockedInFlight == pc \in Locked => exec[cur] = "in-flight"

\* A refusal is on its way to its caller, and the call has no event.
Refusing == pc \in Recovery /\ cause = "invariant"

RefusedUncommitted == /\ pc = "fail" => cause = "invariant"
                      /\ Refusing => \A i \in Events : log[i] # cur

\* A refused call is done: it has no event, and the worker never begins it again.
RejectedDone ==
  \A e \in Envelopes : Rejected(e) =>
    /\ exec[e] = "in-flight"
    /\ e = cur => pc \in {"lock", "finish"}
    /\ \A i \in Events : log[i] # e

DecisionInv == CommitMeetsNoReceipt /\ LockedInFlight /\ RefusedUncommitted /\ RejectedDone

\* A call whose command has no receipt has no event.
LEMMA NoReceiptNoEvent ==
  ASSUME CommitInv, Receipt = None
  PROVE  \A i \in Events : log[i] # cur
BY DEF CommitInv, CommittedAtMostOnce, Receipt

\* Steps that only move the worker.
LEMMA MoveDecisionInv ==
  ASSUME IInv, CommitInv, DecisionInv, UNCHANGED <<callers, durable>>,
         pc' \in Before => cur' = cur /\ Receipt = None,
         pc' \in Locked => cur' = cur /\ pc \in Locked,
         pc' = "fail" => pc = "fail" /\ cause' = cause,
         Refusing' => cur' = cur /\ (Refusing \/ Receipt = None),
         cur' = None \/ pc' \in {"lock", "finish"} \/ (cur' = cur /\ pc \notin {"lock", "finish"})
  PROVE  DecisionInv'
<1>1. UNCHANGED <<log, receipts, cmd, req, exec, reply>> /\ Events' = Events
  BY DEF callers, durable, Events
<1>2. CommitMeetsNoReceipt'
  BY <1>1 DEF CommitMeetsNoReceipt, Before, Receipt
<1>3. LockedInFlight'
  BY <1>1 DEF DecisionInv, LockedInFlight
<1>4. RefusedUncommitted'
  <2>1. Refusing' => \A i \in Events' : log'[i] # cur'
    BY <1>1, NoReceiptNoEvent DEF DecisionInv, RefusedUncommitted
  <2>2. pc' = "fail" => cause' = "invariant"
    BY DEF DecisionInv, RefusedUncommitted
  <2>3. QED
    BY <2>1, <2>2 DEF RefusedUncommitted
<1>5. RejectedDone'
  BY <1>1, NoneAssumption DEF DecisionInv, RejectedDone, Rejected
<1>6. QED
  BY <1>2, <1>3, <1>4, <1>5 DEF DecisionInv

\* Steps that settle the caller and go to the end of the envelope.
LEMMA SettleDecisionInv ==
  ASSUME IInv, CommitInv, DecisionInv, UNCHANGED <<cmd, req, exec, cur, durable>>,
         pc' = "finish", cur # None,
         \A e \in Envelopes : e # cur => reply'[e] = reply[e],
         \/ reply'[cur] = reply[cur]
         \/ reply'[cur].kind # "rejected"
         \/ pc = "fail"
  PROVE  DecisionInv'
<1>1. UNCHANGED <<log, receipts>> /\ Events' = Events
  BY DEF durable, Events
<1>2. CommitMeetsNoReceipt' /\ LockedInFlight' /\ RefusedUncommitted'
  BY DEF CommitMeetsNoReceipt, LockedInFlight, RefusedUncommitted, Refusing, Locked, Timed, Recovery
<1>3. ASSUME NEW e \in Envelopes, Rejected(e)'
      PROVE  exec'[e] = "in-flight" /\ \A i \in Events' : log'[i] # e
  <2>1. CASE Rejected(e)
    BY <2>1, <1>1 DEF DecisionInv, RejectedDone
  <2>2. CASE ~Rejected(e)
    <3>1. e = cur /\ pc = "fail"
      BY <1>3, <2>2 DEF Rejected
    <3>2. Refusing /\ pc \in Locked
      BY <3>1 DEF DecisionInv, RefusedUncommitted, Refusing, Locked, Recovery
    <3>3. QED
      BY <1>1, <3>1, <3>2 DEF DecisionInv, RefusedUncommitted, LockedInFlight
  <2>3. QED
    BY <2>1, <2>2
<1>4. RejectedDone'
  BY <1>3 DEF RejectedDone
<1>5. QED
  BY <1>2, <1>4 DEF DecisionInv

LEMMA InitDecisionInv == Init => DecisionInv
BY DEF Init, DecisionInv, CommitMeetsNoReceipt, LockedInFlight, RefusedUncommitted, Refusing,
       RejectedDone, Rejected, Events, Locked, Timed, Recovery


\* The worker takes an envelope: one that is in a lane, so no call that was told anything.
LEMMA TakeDecisionInv ==
  ASSUME IInv, CommitInv, DecisionInv, Take PROVE DecisionInv'
<1> USE MoveDecisionInv DEF callers, durable, Before, Locked, Timed, Recovery, Refusing
<1>1. CASE TakeWake
  BY <1>1 DEF TakeWake
<1>2. CASE \E l \in Lanes : TakeFrom(l)
  BY <1>2 DEF TakeFrom
<1>3. CASE PollEmpty("control", "user") \/ PollEmpty("user", "normal")
  BY <1>3 DEF PollEmpty
<1>4. QED
  BY <1>1, <1>2, <1>3 DEF Take

\* The steps of the timed region and of the reconciliation that settle nobody.
LEMMA PlainDecisionInv ==
  ASSUME IInv, CommitInv, DecisionInv,
         \/ WorkerExit \/ SkipAbandoned \/ LookupFresh \/ LookupUnclaimed
         \/ Decide \/ RefuseCommand \/ Assign \/ PublishNext \/ PublishDone
         \/ Timeout \/ StoreError \/ WorkerDefect \/ Reconcile \/ ReconcileFails \/ Finish
  PROVE  DecisionInv'
<1> USE MoveDecisionInv DEF callers, durable, Before, Locked, Timed, Recovery, Refusing
<1>1. CASE WorkerExit
  BY <1>1 DEF WorkerExit
<1>2. CASE SkipAbandoned
  BY <1>2 DEF SkipAbandoned, Goto
<1>3. CASE LookupFresh
  BY <1>3 DEF LookupFresh, Goto
<1>4. CASE LookupUnclaimed
  BY <1>4 DEF LookupUnclaimed, Fail
<1>5. CASE Decide
  BY <1>5 DEF Decide, Goto, DecisionInv, CommitMeetsNoReceipt
<1>6. CASE RefuseCommand
  BY <1>6 DEF RefuseCommand, Fail, DecisionInv, CommitMeetsNoReceipt
<1>7. CASE Assign
  BY <1>7 DEF Assign, Goto
<1>8. CASE PublishNext
  BY <1>8 DEF PublishNext
<1>9. CASE PublishDone
  BY <1>9 DEF PublishDone, Goto
<1>10. CASE Timeout
  BY <1>10 DEF Timeout, Fail
<1>11. CASE StoreError
  BY <1>11 DEF StoreError, Fail
<1>12. CASE WorkerDefect
  BY <1>12 DEF WorkerDefect, Fail
<1>13. CASE Reconcile
  BY <1>13 DEF Reconcile
<1>14. CASE ReconcileFails
  BY <1>14 DEF ReconcileFails, Goto
<1>15. CASE Finish
  BY <1>15 DEF Finish
<1>16. QED
  BY <1>1, <1>2, <1>3, <1>4, <1>5, <1>6, <1>7, <1>8, <1>9, <1>10, <1>11, <1>12, <1>13, <1>14, <1>15

\* The steps that settle the caller.
LEMMA AnswerDecisionInv ==
  ASSUME IInv, CommitInv, DecisionInv,
         \/ BuildDefect \/ LookupStored \/ SettleAccepted
         \/ ResolveStored \/ ResolveUnchecked \/ ResolveUnknown \/ FailCaller
  PROVE  DecisionInv'
<1>1. reply \in [Envelopes -> Replies \cup {None}]
  BY DEF IInv, TypeOK, CallersOK
<1>2. (cur = None) <=> (pc \in Taking \cup {"exited"})
  BY DEF IInv, HandInv
<1>3. \A kind : (kind # "rejected" \/ pc = "fail") /\ pc \notin Taking \cup {"exited"}
        => \A seq : Conclude(kind, seq) => DecisionInv'
  <2> SUFFICES ASSUME NEW kind, NEW seq, kind # "rejected" \/ pc = "fail",
                      pc \notin Taking \cup {"exited"}, Conclude(kind, seq)
               PROVE  DecisionInv'
    OBVIOUS
  <2>1. /\ UNCHANGED <<cmd, req, exec, cur, durable>> /\ pc' = "finish" /\ cur # None
        /\ \A e \in Envelopes : e # cur => reply'[e] = reply[e]
    BY <1>1, <1>2 DEF Conclude, Goto, Settle
  <2>2. \/ reply'[cur] = reply[cur]
        \/ reply'[cur] = Answer(kind, seq)
    BY <1>1, <2>1 DEF Conclude, Settle, IInv, TypeOK, WorkerOK
  <2>3. QED
    <3>1. kind # "rejected" => Answer(kind, seq).kind # "rejected"
      BY DEF Answer
    <3>2. QED
      BY <2>1, <2>2, <3>1, SettleDecisionInv
<1>4. StoredAnswer.kind # "rejected"
  BY DEF StoredAnswer, Answer
<1>5. CASE BuildDefect
  BY <1>3, <1>5 DEF BuildDefect, Taking
<1>6. CASE LookupStored
  BY <1>3, <1>4, <1>6 DEF LookupStored, Taking
<1>7. CASE SettleAccepted
  BY <1>3, <1>7 DEF SettleAccepted, Taking
<1>8. CASE ResolveStored
  BY <1>3, <1>4, <1>8 DEF ResolveStored, Taking
<1>9. CASE ResolveUnchecked \/ ResolveUnknown
  BY <1>3, <1>9 DEF ResolveUnchecked, ResolveUnknown, Taking
<1>10. CASE FailCaller
  BY <1>3, <1>10 DEF FailCaller, Taking
<1>11. QED
  BY <1>5, <1>6, <1>7, <1>8, <1>9, <1>10

\* The worker starts a call: its envelope was queued, so it was never refused.
LEMMA BeginDecisionInv ==
  ASSUME IInv, CommitInv, DecisionInv, Begin \/ BeginExpired
  PROVE  DecisionInv'
<1>1. /\ UNCHANGED <<cur, cmd, req, reply, log, receipts>> /\ Events' = Events
      /\ pc = "lock" /\ exec[cur] = "queued" /\ exec' = [exec EXCEPT ![cur] = "in-flight"]
      /\ pc' = "lookup" \/ (pc' = "reconcile" /\ cause' = "timeout")
  BY DEF Begin, BeginExpired, Goto, durable, Events
<1>2. cur \in Envelopes /\ exec \in [Envelopes -> {"free", "queued", "in-flight", "abandoned"}]
  BY <1>1 DEF IInv, TypeOK, CallersOK, WorkerOK, HandInv, Taking
<1>3. CommitMeetsNoReceipt' /\ LockedInFlight' /\ RefusedUncommitted'
  BY <1>1, <1>2 DEF CommitMeetsNoReceipt, LockedInFlight, RefusedUncommitted, Refusing, Recovery
<1>4. RejectedDone'
  BY <1>1, <1>2 DEF DecisionInv, RejectedDone, Rejected
<1>5. QED
  BY <1>3, <1>4 DEF DecisionInv

\* The transaction appends events of a call that nobody refused.
LEMMA CommitDecisionInv ==
  ASSUME IInv, CommitInv, DecisionInv, NEW n \in 1 .. MaxEvents, Commit(n)
  PROVE  DecisionInv'
<1>1. /\ UNCHANGED <<cur, cmd, req, exec, reply>> /\ pc = "commit" /\ pc' = "assign"
      /\ log' = log \o [i \in 1 .. n |-> cur]
  BY DEF Commit, callers
<1>2. cur \in Envelopes /\ log \in Seq(Envelopes) /\ n \in Nat
  BY <1>1 DEF IInv, TypeOK, DurableOK, WorkerOK, HandInv, Taking
<1>3. \A i \in Events' : log'[i] = cur \/ \E j \in Events : log'[i] = log[j]
  <2>1. Len(log) \in Nat /\ Events' = 1 .. (Len(log) + n)
    BY <1>1, <1>2 DEF Events
  <2>2. \A i \in Events : log'[i] = log[i]
    BY <1>1, <1>2 DEF Events
  <2>3. \A i \in Events' \ Events : log'[i] = cur
    BY <1>1, <1>2, <2>1 DEF Events
  <2>4. QED
    BY <2>2, <2>3
<1>4. exec[cur] = "in-flight" /\ ~Rejected(cur)
  BY <1>1, <1>2 DEF DecisionInv, LockedInFlight, RejectedDone, Locked, Timed
<1>5. CommitMeetsNoReceipt' /\ LockedInFlight' /\ RefusedUncommitted'
  BY <1>1, <1>4 DEF CommitMeetsNoReceipt, LockedInFlight, RefusedUncommitted, Refusing, Recovery
<1>6. RejectedDone'
  BY <1>1, <1>3, <1>4 DEF DecisionInv, RejectedDone, Rejected
<1>7. QED
  BY <1>5, <1>6 DEF DecisionInv

\* A refusal is recorded only where the command has no receipt; otherwise the cause is another.
LEMMA RecoverDecisionInv ==
  ASSUME IInv, CommitInv, DecisionInv, RecordRejection \/ RecoveryDefect
  PROVE  DecisionInv'
<1>1. CASE RecordRejection
  <2>1. /\ UNCHANGED <<cur, cause, log, callers>> /\ pc = "resolve" /\ pc' = "fail"
        /\ cause = "invariant" /\ Events' = Events
    BY <1>1 DEF RecordRejection, Goto, Events
  <2>2. Refusing /\ pc \in Locked
    BY <2>1 DEF Refusing, Locked, Recovery
  <2>3. CommitMeetsNoReceipt' /\ LockedInFlight' /\ RefusedUncommitted'
    BY <2>1, <2>2 DEF CommitMeetsNoReceipt, DecisionInv, LockedInFlight, RefusedUncommitted,
                      callers
  <2>4. RejectedDone'
    BY <2>1 DEF DecisionInv, RejectedDone, Rejected, callers
  <2>5. QED
    BY <2>3, <2>4 DEF DecisionInv
<1>2. CASE RecoveryDefect /\ cause # "defect"
  BY <1>2, NoneAssumption, MoveDecisionInv
     DEF RecoveryDefect, callers, durable, Before, Locked, Recovery, Timed, Refusing
<1>3. CASE RecoveryDefect /\ cause = "defect"
  <2>1. /\ UNCHANGED <<cmd, req, exec, cur, durable>> /\ pc' = "finish" /\ Settle("internal", 0)
    BY <1>3 DEF RecoveryDefect, Goto
  <2>2. cur # None /\ cur \in Envelopes /\ reply \in [Envelopes -> Replies \cup {None}]
    BY <1>3 DEF RecoveryDefect, Recovery, IInv, TypeOK, CallersOK, WorkerOK, HandInv, Taking
  <2>3. reply'[cur] = reply[cur] \/ reply'[cur] = Answer("internal", 0)
    BY <2>1, <2>2 DEF Settle
  <2>4. Answer("internal", 0).kind # "rejected"
    BY DEF Answer
  <2>5. \A e \in Envelopes : e # cur => reply'[e] = reply[e]
    BY <2>1, <2>2 DEF Settle
  <2>6. QED
    BY <2>1, <2>2, <2>3, <2>4, <2>5, SettleDecisionInv
<1>4. QED
  BY <1>1, <1>2, <1>3

\* What callers and the rest of the process do.
LEMMA EnvironmentDecisionInv ==
  ASSUME IInv, CommitInv, DecisionInv, Environment \/ StopEnd \/ UNCHANGED vars
  PROVE  DecisionInv'
<1>1. CASE \E e \in Envelopes, c \in Commands : \E r \in Asks[e][c] : Admit(e, c, r) \/ Refuse(e, c, r)
  <2>1. PICK e \in Envelopes, c \in Commands, r \in Requests : Admit(e, c, r) \/ Refuse(e, c, r)
    BY <1>1, AsksAssumption
  <2>2. UNCHANGED <<log, receipts, pc, cur, cause>> /\ Events' = Events /\ exec[e] = "free"
    BY <2>1 DEF Admit, Refuse, durable, worker, Events
  <2>3. cur # None => cur \in Envelopes /\ exec[cur] # "free"
    BY DEF IInv, TypeOK, WorkerOK, HandInv, Known
  <2>4. \A k \in Envelopes : exec[k] # "free" => cmd'[k] = cmd[k] /\ exec'[k] = exec[k]
    BY <2>1, <2>2 DEF Admit, Refuse, IInv, TypeOK, CallersOK
  <2>5. \A k \in Envelopes : Rejected(k)' => Rejected(k)
    BY <2>1, <2>2 DEF Admit, Refuse, Rejected, Answer, IInv, TypeOK, CallersOK
  <2>6. pc \in Locked => cur # None
    BY DEF IInv, HandInv, Locked, Timed, Recovery, Taking
  <2>7. CommitMeetsNoReceipt'
    BY <2>2, <2>3, <2>4, <2>6 DEF CommitMeetsNoReceipt, DecisionInv, Receipt, Locked, Timed
  <2>8. LockedInFlight' /\ RefusedUncommitted'
    BY <2>2, <2>3, <2>4, <2>6 DEF DecisionInv, LockedInFlight, RefusedUncommitted, Refusing
  <2>9. RejectedDone'
    BY <2>2, <2>4, <2>5 DEF DecisionInv, RejectedDone
  <2>10. QED
    BY <2>7, <2>8, <2>9 DEF DecisionInv
<1>2. CASE \E e \in Envelopes : Abandon(e)
  <2>1. PICK e \in Envelopes : Abandon(e)
    BY <1>2
  <2>2. UNCHANGED <<log, receipts, pc, cur, cause, cmd>> /\ Events' = Events /\ exec[e] = "queued"
    BY <2>1 DEF Abandon, durable, worker, Events
  <2>3. \A k \in Envelopes : exec[k] = "in-flight" => exec'[k] = "in-flight"
    BY <2>1, <2>2 DEF Abandon, IInv, TypeOK, CallersOK
  <2>4. \A k \in Envelopes : Rejected(k)' => Rejected(k)
    BY <2>1 DEF Abandon, Rejected, Answer, IInv, TypeOK, CallersOK
  <2>5. pc \in Locked => cur \in Envelopes
    BY DEF IInv, TypeOK, WorkerOK, HandInv, Locked, Timed, Recovery, Taking
  <2>6. CommitMeetsNoReceipt' /\ RefusedUncommitted'
    BY <2>2 DEF CommitMeetsNoReceipt, DecisionInv, Receipt, RefusedUncommitted, Refusing
  <2>7. LockedInFlight'
    BY <2>2, <2>3, <2>5 DEF DecisionInv, LockedInFlight
  <2>8. RejectedDone'
    BY <2>2, <2>3, <2>4 DEF DecisionInv, RejectedDone
  <2>9. QED
    BY <2>6, <2>7, <2>8 DEF DecisionInv
<1>3. CASE Quiesce \/ StopBegin \/ (\E p \in Prints : Release(p)) \/ Refresh \/ StopEnd \/ UNCHANGED vars
  <2>1. UNCHANGED <<callers, worker, log, receipts>>
    BY <1>3 DEF Quiesce, StopBegin, Release, Refresh, StopEnd, vars, durable
  <2>2. QED
    BY <2>1 DEF DecisionInv, CommitMeetsNoReceipt, LockedInFlight, RefusedUncommitted, Refusing,
                RejectedDone, Rejected, Receipt, Events, callers, worker
<1>4. CASE Restart
  <2>1. /\ UNCHANGED <<log, exec>> /\ Events' = Events /\ pc' = "wake" /\ cur' = None
        /\ \A e \in Envelopes : Rejected(e)' => Rejected(e)
    BY <1>4 DEF Restart, durable, Events, Rejected, Answer
  <2>2. CommitMeetsNoReceipt' /\ LockedInFlight' /\ RefusedUncommitted'
    BY <2>1 DEF CommitMeetsNoReceipt, LockedInFlight, RefusedUncommitted, Refusing, Locked, Timed,
                Recovery
  <2>3. RejectedDone'
    BY <2>1, NoneAssumption DEF DecisionInv, RejectedDone
  <2>4. QED
    BY <2>2, <2>3 DEF DecisionInv
<1>5. QED
  BY <1>1, <1>2, <1>3, <1>4 DEF Environment

LEMMA DecisionInvariance == Spec => []DecisionInv
<1>1. IInv /\ CommitInv /\ DecisionInv /\ [Next]_vars => DecisionInv'
  <2> SUFFICES ASSUME IInv, CommitInv, DecisionInv, [Next]_vars PROVE DecisionInv'
    OBVIOUS
  <2>1. CASE Worker
    BY <2>1, TakeDecisionInv, PlainDecisionInv, AnswerDecisionInv, BeginDecisionInv,
       CommitDecisionInv, RecoverDecisionInv DEF Worker
  <2>2. CASE StopEnd \/ Environment \/ UNCHANGED vars
    BY <2>2, EnvironmentDecisionInv
  <2>3. QED
    BY <2>1, <2>2 DEF Next
<1>2. QED
  BY <1>1, InitDecisionInv, Invariance, CommitInvariance, PTL DEF Spec

\* Whatever fails and whoever retries, a transaction never finds a receipt of its command:
\* the defect "appeared while the command was committing" is unreachable.
THEOREM CommitMeetsNoReceiptCorrect == Spec => []CommitMeetsNoReceipt
<1>1. DecisionInv => CommitMeetsNoReceipt
  BY DEF DecisionInv
<1>2. QED
  BY <1>1, DecisionInvariance, PTL

\* A caller that is told the decider refused its command can dispatch another: the refused
\* call has no event, then or later.
THEOREM RejectedNeverCommittedCorrect == Spec => []RejectedNeverCommitted
<1>1. DecisionInv => RejectedNeverCommitted
  BY DEF DecisionInv, RejectedDone, Rejected, RejectedNeverCommitted
<1>2. QED
  BY <1>1, DecisionInvariance, PTL

-----------------------------------------------------------------------------
(* Memory and subscribers follow the store. *)

\* The steps that bring memory and subscribers what the store has.
Bringing == {"assign", "publish", "republish", "reconcile"}

\* Memory and the live subscribers have every event of the store.
CaughtUp == Events \subseteq applied \cap published

\* Nothing that is remembered, recorded or told is ahead of the store.
Bounded ==
  /\ snapshot <= Len(log) /\ start <= Len(log)
  /\ pc \in {"assign", "publish", "republish", "settle"} => pubEnd = Len(log)
  /\ \A c \in Commands : receipts[c] # None => receipts[c].seq <= Len(log)
  /\ \A e \in Envelopes : reply[e] # None /\ reply[e].kind = "accepted" => reply[e].seq <= Len(log)

\* Unless a reconciliation failed, memory and subscribers have everything up to where the call in
\* hand began, and everything but in the steps that bring them what is new.
Following ==
  /\ 1 .. start \subseteq applied \cap published
  /\ pc \notin Bringing => CaughtUp
  /\ pc = "assign" => 1 .. (pubNext - 1) \subseteq applied \cap published
  /\ pc \in {"publish", "republish"} => Events \subseteq applied /\ 1 .. (pubNext - 1) \subseteq published

MemoryInv == Bounded /\ (~missed => Following) /\ AcceptedMeansPublished

\* The last publication is done.
Offered == pc \in {"publish", "republish"} /\ pubNext > pubEnd

\* Steps that change neither memory nor store, and tell of an acceptance only where memory is caught up.
LEMMA MovesMemoryInv ==
  ASSUME IInv, TypeOK', MemoryInv, UNCHANGED <<memory, log, missed>>,
         \A c \in Commands : receipts'[c] = receipts[c] \/ receipts'[c].seq <= Len(log),
         start' = start \/ start' = 0 \/ (start' = snapshot /\ pc \notin Bringing),
         \/ UNCHANGED <<pc, pubNext, pubEnd>>
         \/ pc' = "reconcile"
         \/ pc' \notin Bringing \cup {"settle"} /\ (pc \notin Bringing \/ Offered)
         \/ pc' = "settle" /\ pubEnd' = pubEnd /\ pc = "publish" /\ Offered,
         \A e \in Envelopes : reply'[e] # None /\ reply'[e].kind = "accepted" =>
           reply'[e] = reply[e] \/ (reply'[e].seq <= Len(log) /\ pc \notin Bringing)
  PROVE  MemoryInv'
<1>1. /\ Len(log) \in Nat /\ {snapshot, start, pubNext, pubEnd} \subseteq Nat
      /\ Events = 1 .. Len(log) /\ Events' = Events
      /\ \A e \in Envelopes : reply'[e] # None => reply'[e].seq \in Nat
  BY DEF IInv, TypeOK, DurableOK, MemoryOK, WorkerOK, CallersOK, Replies, Events
<1>2. UNCHANGED <<applied, snapshot, published>>
  BY DEF memory
<1>3. Bounded'
  BY <1>1, <1>2 DEF MemoryInv, Bounded, Bringing
<1>4. ~missed => Following'
  <2> SUFFICES ASSUME ~missed PROVE Following'
    OBVIOUS
  <2>1. pc \notin Bringing \/ Offered => CaughtUp
    BY <1>1 DEF MemoryInv, Bounded, Following, CaughtUp, Offered, Bringing
  <2>2. 1 .. start' \subseteq applied \cap published
    BY <1>1, <2>1 DEF MemoryInv, Bounded, Following, CaughtUp, Bringing
  <2>3. QED
    BY <1>1, <1>2, <2>1, <2>2 DEF MemoryInv, Following, CaughtUp, Bringing
<1>5. AcceptedMeansPublished'
  <2> SUFFICES ASSUME NEW e \in Envelopes, reply'[e] # None, reply'[e].kind = "accepted", ~missed
               PROVE  1 .. reply'[e].seq \subseteq published
    BY <1>2 DEF AcceptedMeansPublished
  <2>1. CASE reply'[e] = reply[e]
    BY <2>1 DEF MemoryInv, AcceptedMeansPublished
  <2>2. CASE reply'[e].seq <= Len(log) /\ pc \notin Bringing
    <3>1. 1 .. Len(log) \subseteq published
      BY <1>1, <2>2 DEF MemoryInv, Following, CaughtUp, Bringing
    <3>2. QED
      BY <1>1, <2>2, <3>1
  <2>3. QED
    BY <2>1, <2>2
<1>6. QED
  BY <1>3, <1>4, <1>5 DEF MemoryInv

\* The types of what the memory invariant compares.
LEMMA MemoryTypes ==
  ASSUME IInv
  PROVE  /\ Len(log) \in Nat /\ {snapshot, start, pubNext, pubEnd} \subseteq Nat
         /\ Events = 1 .. Len(log)
         /\ \A e \in Envelopes : reply[e] # None => reply[e].seq \in Nat
         /\ \A c \in Commands : receipts[c] # None => receipts[c].seq \in Nat
BY DEF IInv, TypeOK, DurableOK, MemoryOK, WorkerOK, CallersOK, Replies, Receipts, Events

\* The steps of the worker that settle nobody and touch neither memory nor store.
LEMMA WorkerMovesMemoryInv ==
  ASSUME IInv, TypeOK', MemoryInv,
         \/ Take \/ WorkerExit \/ Begin \/ BeginExpired \/ SkipAbandoned \/ LookupFresh \/ LookupUnclaimed
         \/ Decide \/ RefuseCommand \/ PublishDone \/ Timeout \/ StoreError \/ WorkerDefect \/ Finish
         \/ (RecoveryDefect /\ cause # "defect")
  PROVE  MemoryInv'
<1> USE MovesMemoryInv DEF durable, callers, history, Bringing, Offered
<1>1. CASE Take
  BY <1>1 DEF Take, TakeWake, TakeFrom, PollEmpty, Lanes
<1>2. CASE WorkerExit
  BY <1>2 DEF WorkerExit
<1>3. CASE Begin \/ BeginExpired \/ SkipAbandoned
  BY <1>3 DEF Begin, BeginExpired, SkipAbandoned, Goto
<1>4. CASE LookupFresh \/ LookupUnclaimed
  BY <1>4 DEF LookupFresh, LookupUnclaimed, Goto, Fail
<1>5. CASE Decide \/ RefuseCommand
  BY <1>5 DEF Decide, RefuseCommand, Goto, Fail
<1>6. CASE PublishDone
  <2>1. pubNext \in Nat /\ pubEnd \in Nat
    BY MemoryTypes
  <2>2. QED
    BY <1>6, <2>1 DEF PublishDone, Goto
<1>7. CASE Timeout \/ StoreError \/ WorkerDefect
  BY <1>7 DEF Timeout, StoreError, WorkerDefect, Fail
<1>8. CASE Finish
  BY <1>8 DEF Finish
<1>9. CASE RecoveryDefect /\ cause # "defect"
  BY <1>9 DEF RecoveryDefect
<1>10. QED
  BY <1>1, <1>2, <1>3, <1>4, <1>5, <1>6, <1>7, <1>8, <1>9

\* The steps that settle the caller: an acceptance is told with the sequence of a receipt.
LEMMA TellsMemoryInv ==
  ASSUME IInv, TypeOK', MemoryInv,
         BuildDefect \/ LookupStored \/ SettleAccepted \/ ResolveStored \/ ResolveUnchecked \/ ResolveUnknown \/ FailCaller
  PROVE  MemoryInv'
<1>1. ASSUME NEW kind, NEW seq, Conclude(kind, seq), pc \notin Bringing,
             kind = "accepted" => seq <= Len(log)
      PROVE  MemoryInv'
  <2>1. /\ UNCHANGED <<memory, log, missed, receipts, start>> /\ pc' = "finish"
        /\ reply' = [reply EXCEPT ![cur] = IF @ = None THEN Answer(kind, seq) ELSE @]
    BY <1>1 DEF Conclude, Goto, Settle, durable, history
  <2>2. reply \in [Envelopes -> Replies \cup {None}]
    BY DEF IInv, TypeOK, CallersOK
  <2>3. \A e \in Envelopes : reply'[e] = reply[e] \/ reply'[e] = Answer(kind, seq)
    BY <2>1, <2>2
  <2>4. Answer(kind, seq).kind = kind /\ Answer(kind, seq).seq = seq
    BY DEF Answer
  <2>5. \A e \in Envelopes : reply'[e] # None /\ reply'[e].kind = "accepted" =>
           reply'[e] = reply[e] \/ (reply'[e].seq <= Len(log) /\ pc \notin Bringing)
    BY <1>1, <2>3, <2>4
  <2>6. QED
    BY <1>1, <2>1, <2>5, MovesMemoryInv DEF Bringing
<1>2. StoredAnswer.kind = "accepted" => StoredAnswer.seq = Receipt.seq
  BY DEF StoredAnswer, Answer
<1>3. pc \in {"lookup", "resolve"} /\ Receipt # None => Receipt.seq <= Len(log)
  BY DEF MemoryInv, Bounded, Receipt, IInv, HandInv, Known, Taking
<1>4. CASE BuildDefect
  BY <1>1, <1>4 DEF BuildDefect, Bringing
<1>5. CASE LookupStored
  BY <1>1, <1>2, <1>3, <1>5 DEF LookupStored, Bringing
<1>6. CASE SettleAccepted
  BY <1>1, <1>6, MemoryTypes DEF SettleAccepted, Bringing, MemoryInv, Bounded
<1>7. CASE ResolveStored
  BY <1>1, <1>2, <1>3, <1>7 DEF ResolveStored, Bringing
<1>8. CASE ResolveUnchecked \/ ResolveUnknown
  BY <1>1, <1>8 DEF ResolveUnchecked, ResolveUnknown, Bringing
<1>9. CASE FailCaller
  BY <1>1, <1>9 DEF FailCaller, Bringing
<1>10. QED
  BY <1>4, <1>5, <1>6, <1>7, <1>8, <1>9

\* The transaction writes behind what memory has, and the model takes exactly that over.
LEMMA CommitMemoryInv ==
  ASSUME IInv, TypeOK', MemoryInv, (\E n \in 1 .. MaxEvents : Commit(n)) \/ Assign
  PROVE  MemoryInv'
<1>1. CASE \E n \in 1 .. MaxEvents : Commit(n)
  <2>1. PICK n \in 1 .. MaxEvents : Commit(n)
    BY <1>1
  <2>2. /\ UNCHANGED <<applied, snapshot, published, start, missed, reply>>
        /\ pc = "commit" /\ pc' = "assign" /\ pubNext' = Len(log) + 1 /\ pubEnd' = Len(log) + n
        /\ log' = log \o [i \in 1 .. n |-> cur] /\ log \in Seq(Envelopes) /\ n \in Nat /\ cur \in Envelopes
    BY <2>1 DEF Commit, memory, callers, history, IInv, TypeOK, DurableOK, HandInv, Known, Taking, WorkerOK
  <2>3. Len(log') = Len(log) + n /\ Len(log) \in Nat
    <3>1. [i \in 1 .. n |-> cur] \in Seq(Envelopes) /\ Len([i \in 1 .. n |-> cur]) = n
      BY <2>2
    <3>2. QED
      BY <2>2, <3>1
  <2>4. \A c \in Commands : receipts'[c] = receipts[c] \/ receipts'[c].seq = Len(log) + n
    BY <2>1 DEF Commit, IInv, TypeOK, DurableOK
  <2>5. Bounded'
    <3>1. snapshot' <= Len(log') /\ start' <= Len(log') /\ pubEnd' = Len(log')
      BY <2>2, <2>3, MemoryTypes DEF MemoryInv, Bounded
    <3>2. \A seq \in Nat : seq <= Len(log) => seq <= Len(log')
      BY <2>2, <2>3
    <3>3. \A c \in Commands : receipts[c] # None => receipts[c].seq <= Len(log')
      BY <3>2, MemoryTypes DEF MemoryInv, Bounded
    <3>4. \A e \in Envelopes : reply[e] # None /\ reply[e].kind = "accepted" => reply[e].seq <= Len(log')
      BY <3>2, MemoryTypes DEF MemoryInv, Bounded
    <3>5. \A c \in Commands : receipts'[c] # None => receipts'[c].seq <= Len(log')
      BY <2>2, <2>3, <2>4, <3>3
    <3>6. QED
      BY <2>2, <3>1, <3>4, <3>5 DEF Bounded
  <2>6. ~missed => Following'
    BY <2>2, <2>3, MemoryTypes DEF MemoryInv, Following, CaughtUp, Bringing
  <2>7. AcceptedMeansPublished'
    BY <2>2 DEF MemoryInv, AcceptedMeansPublished
  <2>8. QED
    BY <2>2, <2>5, <2>6, <2>7 DEF MemoryInv
<1>2. CASE Assign
  <2>1. /\ UNCHANGED <<published, start, missed, reply, log, receipts, pubNext, pubEnd>> /\ Events' = Events
        /\ pc = "assign" /\ pc' = "publish" /\ snapshot' = pubEnd /\ pubEnd = Len(log)
        /\ applied' = applied \cup (pubNext .. pubEnd)
    BY <1>2 DEF Assign, Goto, callers, durable, history, Events, MemoryInv, Bounded
  <2>2. Bounded'
    BY <2>1, MemoryTypes DEF MemoryInv, Bounded
  <2>3. ~missed => Following'
    <3> SUFFICES ASSUME ~missed PROVE Following'
      OBVIOUS
    <3>1. 1 .. start \subseteq applied' \cap published /\ 1 .. (pubNext - 1) \subseteq applied \cap published
      BY <2>1 DEF MemoryInv, Following
    <3>2. Events \subseteq applied'
      BY <2>1, <3>1, MemoryTypes
    <3>3. QED
      BY <2>1, <3>1, <3>2 DEF Following, Bringing
  <2>4. AcceptedMeansPublished'
    BY <2>1 DEF MemoryInv, AcceptedMeansPublished
  <2>5. QED
    BY <2>1, <2>2, <2>3, <2>4 DEF MemoryInv
<1>3. QED
  BY <1>1, <1>2

\* Publications follow one another to the end of the store.
LEMMA PublishMemoryInv ==
  ASSUME IInv, TypeOK', MemoryInv, PublishNext
  PROVE  MemoryInv'
<1>1. /\ UNCHANGED <<applied, snapshot, start, pc, pubEnd, missed, reply, log, receipts>> /\ Events' = Events
      /\ pc \in {"publish", "republish"} /\ pubNext' = pubNext + 1
      /\ published' = published \cup {pubNext}
  BY DEF PublishNext, callers, durable, history, Events
<1>2. Bounded'
  BY <1>1 DEF MemoryInv, Bounded
<1>3. ~missed => Following'
  <2> SUFFICES ASSUME ~missed PROVE Following'
    OBVIOUS
  <2>1. 1 .. (pubNext' - 1) \subseteq published'
    <3>1. \A i \in 1 .. pubNext : i = pubNext \/ i \in 1 .. (pubNext - 1)
      BY MemoryTypes
    <3>2. pubNext' - 1 = pubNext
      BY <1>1, MemoryTypes
    <3>3. QED
      BY <1>1, <3>1, <3>2 DEF MemoryInv, Following
  <2>2. QED
    BY <1>1, <2>1 DEF MemoryInv, Following, Bringing
<1>4. AcceptedMeansPublished'
  BY <1>1 DEF MemoryInv, AcceptedMeansPublished
<1>5. QED
  BY <1>1, <1>2, <1>3, <1>4 DEF MemoryInv

\* The reconciliation brings what was committed since the call in hand began; one that fails says so
\* where something is missing.
LEMMA RecoverMemoryInv ==
  ASSUME IInv, TypeOK', MemoryInv,
         Reconcile \/ ReconcileFails \/ (RecoveryDefect /\ cause = "defect") \/ RecordRejection
  PROVE  MemoryInv'
<1>1. CASE Reconcile
  <2>1. /\ UNCHANGED <<published, start, missed, reply, log, receipts>> /\ Events' = Events
        /\ pc = "reconcile" /\ pc' = "republish" /\ pubNext' = start + 1 /\ pubEnd' = Len(log)
        /\ applied' = applied \cup ((start + 1) .. Len(log))
        /\ snapshot' = IF Len(log) > start THEN Len(log) ELSE snapshot
    BY <1>1 DEF Reconcile, callers, durable, history, Events
  <2>2. Bounded'
    BY <2>1, MemoryTypes DEF MemoryInv, Bounded
  <2>3. ~missed => Following'
    <3> SUFFICES ASSUME ~missed PROVE Following'
      OBVIOUS
    <3>1. 1 .. start \subseteq applied \cap published
      BY DEF MemoryInv, Following
    <3>2. start \in Nat /\ Events = 1 .. Len(log) /\ Len(log) \in Nat
      BY MemoryTypes
    <3>3. Events \subseteq applied'
      BY <2>1, <3>1, <3>2
    <3>4. pubNext' - 1 = start
      BY <2>1, <3>2
    <3>5. QED
      BY <2>1, <3>1, <3>3, <3>4 DEF Following, Bringing
  <2>4. AcceptedMeansPublished'
    BY <2>1 DEF MemoryInv, AcceptedMeansPublished
  <2>5. QED
    BY <2>1, <2>2, <2>3, <2>4 DEF MemoryInv
<1>2. CASE ReconcileFails \/ (RecoveryDefect /\ cause = "defect")
  <2>1. /\ UNCHANGED <<applied, snapshot, published, start, log, receipts>> /\ Events' = Events
        /\ pc' \in {"resolve", "finish"} /\ missed' = (missed \/ Behind)
        /\ \A e \in Envelopes : reply'[e] = reply[e] \/ reply'[e] = Answer("internal", 0)
    BY <1>2 DEF ReconcileFails, RecoveryDefect, Settle, Goto, memory, callers, durable, Events,
       IInv, TypeOK, CallersOK
  <2>2. ~missed' => ~missed /\ CaughtUp
    BY <2>1 DEF Behind, CaughtUp
  <2>3. \A e \in Envelopes : reply'[e] # None /\ reply'[e].kind = "accepted" => reply'[e] = reply[e]
    BY <2>1 DEF Answer
  <2>4. Bounded'
    BY <2>1, <2>3 DEF MemoryInv, Bounded
  <2>5. ~missed' => Following'
    BY <2>1, <2>2 DEF MemoryInv, Following, CaughtUp
  <2>6. AcceptedMeansPublished'
    BY <2>1, <2>2, <2>3 DEF MemoryInv, AcceptedMeansPublished
  <2>7. QED
    BY <2>4, <2>5, <2>6 DEF MemoryInv
<1>3. CASE RecordRejection
  <2>1. /\ UNCHANGED <<memory, log, missed, start, reply>> /\ pc = "resolve" /\ pc' = "fail"
        /\ \A c \in Commands : receipts'[c] = receipts[c] \/ receipts'[c].seq = snapshot
    BY <1>3 DEF RecordRejection, Goto, callers, history, IInv, TypeOK, DurableOK
  <2>2. \A c \in Commands : receipts'[c] = receipts[c] \/ receipts'[c].seq <= Len(log)
    BY <2>1 DEF MemoryInv, Bounded
  <2>3. QED
    BY <2>1, <2>2, MovesMemoryInv DEF Bringing
<1>4. QED
  BY <1>1, <1>2, <1>3

\* What callers and the rest of the process do.
LEMMA EnvironmentMemoryInv ==
  ASSUME IInv, TypeOK', MemoryInv, Environment \/ StopEnd \/ UNCHANGED vars
  PROVE  MemoryInv'
<1>1. CASE \E e \in Envelopes, c \in Commands : \E r \in Asks[e][c] : Admit(e, c, r) \/ Refuse(e, c, r)
  <2>1. PICK e \in Envelopes, c \in Commands, r \in Requests : Admit(e, c, r) \/ Refuse(e, c, r)
    BY <1>1, AsksAssumption
  <2>2. UNCHANGED <<memory, log, missed, receipts, start, pc, pubNext, pubEnd>>
    BY <2>1 DEF Admit, Refuse, worker, durable, history
  <2>3. \A k \in Envelopes : reply'[k] = reply[k] \/ reply'[k].kind # "accepted"
    BY <2>1 DEF Admit, Refuse, Answer, IInv, TypeOK, CallersOK
  <2>4. QED
    BY <2>2, <2>3, MovesMemoryInv
<1>2. CASE \E e \in Envelopes : Abandon(e)
  <2>1. PICK e \in Envelopes : Abandon(e)
    BY <1>2
  <2>2. UNCHANGED <<memory, log, missed, receipts, start, pc, pubNext, pubEnd>>
    BY <2>1 DEF Abandon, worker, durable, history
  <2>3. \A k \in Envelopes : reply'[k] = reply[k] \/ reply'[k].kind # "accepted"
    BY <2>1 DEF Abandon, Answer, IInv, TypeOK, CallersOK
  <2>4. QED
    BY <2>2, <2>3, MovesMemoryInv
<1>3. CASE Quiesce \/ StopBegin \/ (\E p \in Prints : Release(p)) \/ StopEnd \/ UNCHANGED vars
  <2>1. UNCHANGED <<memory, log, missed, receipts, start, pc, pubNext, pubEnd, reply>>
    BY <1>3 DEF Quiesce, StopBegin, Release, StopEnd, vars, worker, callers, durable, history
  <2>2. QED
    BY <2>1, MovesMemoryInv
<1>4. CASE Refresh
  <2>1. /\ UNCHANGED <<published, log, receipts, reply, start, pc, pubNext, pubEnd>> /\ Events' = Events
        /\ pc \notin Bringing \cup {"settle"} /\ applied' = Events /\ snapshot' \in 0 .. Len(log)
        /\ missed' = (missed /\ ~(Events \subseteq published))
    BY <1>4 DEF Refresh, callers, worker, durable, Events, Locked, Timed, Recovery, Bringing
  <2>2. Bounded'
    BY <2>1, MemoryTypes DEF MemoryInv, Bounded, Bringing
  <2>3. ~missed' => Events \subseteq published
    BY <2>1 DEF MemoryInv, Following, CaughtUp
  <2>4. 1 .. start \subseteq Events
    BY MemoryTypes DEF MemoryInv, Bounded
  <2>5. ~missed' => Following'
    BY <2>1, <2>3, <2>4 DEF Following, CaughtUp, Bringing
  <2>6. AcceptedMeansPublished'
    <3> SUFFICES ASSUME NEW e \in Envelopes, reply[e] # None, reply[e].kind = "accepted", ~missed'
                 PROVE  1 .. reply[e].seq \subseteq published
      BY <2>1 DEF AcceptedMeansPublished
    <3>1. reply[e].seq \in Nat /\ reply[e].seq <= Len(log)
      BY MemoryTypes DEF MemoryInv, Bounded
    <3>2. Events = 1 .. Len(log) /\ Len(log) \in Nat
      BY MemoryTypes
    <3>3. 1 .. reply[e].seq \subseteq Events
      BY <3>1, <3>2
    <3>4. QED
      BY <2>3, <3>3
  <2>7. QED
    BY <2>2, <2>5, <2>6 DEF MemoryInv
<1>5. CASE Restart
  <2>1. /\ UNCHANGED <<log, receipts>> /\ Events' = Events /\ pc' = "wake" /\ start' = 0
        /\ applied' = Events /\ snapshot' = Len(log) /\ published' = Events
        /\ \A e \in Envelopes : reply'[e] = reply[e] \/ reply'[e] = Answer("lost", 0)
    BY <1>5 DEF Restart, durable, Events
  <2>2. \A e \in Envelopes : reply'[e] # None /\ reply'[e].kind = "accepted" => reply'[e] = reply[e]
    BY <2>1 DEF Answer
  <2>3. Bounded'
    BY <2>1, <2>2, MemoryTypes DEF MemoryInv, Bounded
  <2>4. Following'
    BY <2>1 DEF Following, CaughtUp
  <2>5. AcceptedMeansPublished'
    <3> SUFFICES ASSUME NEW e \in Envelopes, reply'[e] # None, reply'[e].kind = "accepted"
                 PROVE  1 .. reply'[e].seq \subseteq published'
      BY DEF AcceptedMeansPublished
    <3>1. 1 .. reply[e].seq \subseteq Events
      BY <2>2, MemoryTypes DEF MemoryInv, Bounded
    <3>2. QED
      BY <2>1, <2>2, <3>1
  <2>6. QED
    BY <2>3, <2>4, <2>5 DEF MemoryInv
<1>6. QED
  BY <1>1, <1>2, <1>3, <1>4, <1>5 DEF Environment

\* The memory invariant holds in every state.
LEMMA MemoryInvariance == Spec => []MemoryInv
<1>1. Init => MemoryInv
  BY DEF Init, MemoryInv, Bounded, Following, CaughtUp, Bringing, Events, AcceptedMeansPublished
<1>2. IInv /\ MemoryInv /\ [Next]_vars => MemoryInv'
  <2> SUFFICES ASSUME IInv, MemoryInv, [Next]_vars PROVE MemoryInv'
    OBVIOUS
  <2>1. TypeOK'
    BY NextIInv DEF IInv
  <2>2. CASE Worker
    BY <2>1, <2>2, WorkerMovesMemoryInv, TellsMemoryInv, CommitMemoryInv, PublishMemoryInv, RecoverMemoryInv DEF Worker
  <2>3. CASE StopEnd \/ Environment \/ UNCHANGED vars
    BY <2>1, <2>3, EnvironmentMemoryInv
  <2>4. QED
    BY <2>2, <2>3 DEF Next
<1>3. QED
  BY <1>1, <1>2, Invariance, PTL DEF Spec

\* The decider validates a command against every event committed so far, also after calls that were
\* interrupted between their transaction and the update of the model, unless a reconciliation failed.
THEOREM DecidesOnEveryCommitCorrect == Spec => []DecidesOnEveryCommit
<1>1. MemoryInv => DecidesOnEveryCommit
  BY DEF MemoryInv, Following, CaughtUp, Bringing, DecidesOnEveryCommit
<1>2. QED
  BY <1>1, MemoryInvariance, PTL

\* Whoever learns the sequence of a command finds the events up to it offered to the live
\* subscribers, also after interrupted publications and restarts, unless a reconciliation failed.
THEOREM AcceptedMeansPublishedCorrect == Spec => []AcceptedMeansPublished
<1>1. MemoryInv => AcceptedMeansPublished
  BY DEF MemoryInv
<1>2. QED
  BY <1>1, MemoryInvariance, PTL

-----------------------------------------------------------------------------
(* Priority. *)

\* A call that waits is passed over only by the worker that was beyond its lane when it came.
PassedInv ==
  \A e \in Envelopes :
    /\ passed[e] \in {0, 1}
    /\ exec[e] = "free" => passed[e] = 0
    /\ pc \in {"user", "normal"} /\ InLane(e, "control") => passed[e] = 0
    /\ pc = "normal" /\ InLane(e, "user") => passed[e] = 0

\* Steps that take nothing from the lanes: who waits in front of the worker is not passed over.
LEMMA KeepsPassedInv ==
  ASSUME PassedInv, UNCHANGED passed,
         \A e \in Envelopes :
           /\ exec'[e] = "free" => exec[e] = "free"
           /\ pc' \in {"user", "normal"} /\ InLane(e, "control")' =>
                passed[e] = 0 \/ (pc \in {"user", "normal"} /\ InLane(e, "control"))
           /\ pc' = "normal" /\ InLane(e, "user")' => passed[e] = 0 \/ (pc = "normal" /\ InLane(e, "user"))
  PROVE  PassedInv'
BY DEF PassedInv

\* Taking from a lane passes over those above it, which the worker was already beyond.
LEMMA TakeFromPassedInv ==
  ASSUME IInv, PassedInv, NEW l \in Lanes, TakeFrom(l)
  PROVE  PassedInv'
<1>1. /\ pc = l /\ pc' = "lock" /\ exec' = exec /\ cur' = lanes[l][1] /\ lanes[l] # <<>>
      /\ lanes \in [Lanes -> Seq(Envelopes)] /\ l \in {"control", "user", "normal"}
      /\ passed' = [e \in Envelopes |->
                      IF \E m \in Lanes : l \in Below(m) /\ InLane(e, m)
                        THEN passed[e] + 1 ELSE IF e = cur' THEN 0 ELSE passed[e]]
  BY DEF TakeFrom, callers, IInv, TypeOK, AdmissionOK, Lanes
<1>2. ASSUME NEW e \in Envelopes, NEW m \in Lanes, l \in Below(m), InLane(e, m)
      PROVE  passed[e] = 0 /\ exec[e] # "free"
  <2>1. (m = "control" /\ l \in {"user", "normal"}) \/ (m = "user" /\ l = "normal")
    BY <1>1, <1>2 DEF Below, Lanes
  <2>2. exec[e] # "free"
    BY <1>2 DEF InLane, IInv, HandInv, Known
  <2>3. QED
    BY <1>1, <1>2, <2>1, <2>2 DEF PassedInv
<1>3. ASSUME NEW e \in Envelopes
      PROVE  passed'[e] \in {0, 1} /\ (exec[e] = "free" => passed'[e] = 0)
  <2>1. CASE \E m \in Lanes : l \in Below(m) /\ InLane(e, m)
    BY <1>1, <1>2, <2>1
  <2>2. CASE ~(\E m \in Lanes : l \in Below(m) /\ InLane(e, m))
    BY <1>1, <2>2 DEF PassedInv
  <2>3. QED
    BY <2>1, <2>2
<1>4. QED
  BY <1>1, <1>3 DEF PassedInv

\* No step passes over a call that it passed over before.
LEMMA NextPassedInv ==
  ASSUME IInv, PassedInv, [Next]_vars
  PROVE  PassedInv'
<1>1. CASE \E l \in Lanes : TakeFrom(l)
  BY <1>1, TakeFromPassedInv
<1>2. CASE PollEmpty("control", "user") \/ PollEmpty("user", "normal")
  <2>1. UNCHANGED <<passed, exec, lanes>>
    BY <1>2 DEF PollEmpty, callers, admission, history
  <2>2. \A e \in Envelopes, l \in Lanes : InLane(e, l)' <=> InLane(e, l)
    BY <2>1 DEF InLane
  <2>3. \/ pc' = "user" /\ \A e \in Envelopes : ~InLane(e, "control")
        \/ pc = "user" /\ pc' = "normal" /\ \A e \in Envelopes : ~InLane(e, "user")
    BY <1>2 DEF PollEmpty, InLane
  <2>4. QED
    BY <2>1, <2>2, <2>3, KeepsPassedInv DEF Lanes
<1>3. CASE \E e \in Envelopes, c \in Commands : \E r \in Asks[e][c] : Admit(e, c, r)
  <2>1. PICK e \in Envelopes, c \in Commands, r \in Requests : Admit(e, c, r)
    BY <1>3, AsksAssumption
  <2>2. /\ UNCHANGED <<passed, pc>> /\ exec[e] = "free" /\ exec' = [exec EXCEPT ![e] = "queued"]
        /\ exec \in [Envelopes -> {"free", "queued", "in-flight", "abandoned"}]
        /\ lanes' = [lanes EXCEPT ![LaneOf[r]] = Append(@, e)] /\ lanes \in [Lanes -> Seq(Envelopes)]
    BY <2>1 DEF Admit, worker, history, IInv, TypeOK, CallersOK, AdmissionOK
  <2>3. passed[e] = 0
    BY <2>2 DEF PassedInv
  <2>4. ASSUME NEW k \in Envelopes, NEW l \in Lanes, InLane(k, l)' PROVE k = e \/ InLane(k, l)
    <3>1. PICK i \in DOMAIN lanes'[l] : lanes'[l][i] = k
      BY <2>4 DEF InLane
    <3>2. CASE lanes'[l] = lanes[l]
      BY <3>1, <3>2 DEF InLane
    <3>3. CASE lanes'[l] = Append(lanes[l], e)
      <4>1. lanes[l] \in Seq(Envelopes)
        BY <2>2
      <4>2. i = Len(lanes[l]) + 1 \/ i \in DOMAIN lanes[l]
        BY <3>1, <3>3, <4>1
      <4>3. QED
        BY <3>1, <3>3, <4>1, <4>2 DEF InLane
    <3>4. QED
      BY <2>2, <3>2, <3>3
  <2>5. QED
    BY <2>2, <2>3, <2>4, KeepsPassedInv DEF Lanes
<1>4. CASE Restart
  <2>1. UNCHANGED <<passed, exec>> /\ pc' = "wake"
    BY <1>4 DEF Restart
  <2>2. QED
    BY <2>1, KeepsPassedInv
<1>5. CASE \/ \E e \in Envelopes, c \in Commands : \E r \in Asks[e][c] : Refuse(e, c, r)
           \/ \E e \in Envelopes : Abandon(e)
           \/ Quiesce \/ StopBegin \/ StopEnd \/ (\E p \in Prints : Release(p)) \/ Refresh \/ UNCHANGED vars
  <2>1. /\ UNCHANGED <<passed, pc, lanes>>
        /\ \A e \in Envelopes : exec'[e] = exec[e] \/ exec'[e] = "abandoned"
    BY <1>5 DEF Refuse, Abandon, Quiesce, StopBegin, StopEnd, Release, Refresh, vars, worker, admission, callers, history,
       IInv, TypeOK, CallersOK
  <2>2. \A e \in Envelopes, l \in Lanes : InLane(e, l)' <=> InLane(e, l)
    BY <2>1 DEF InLane
  <2>3. QED
    BY <2>1, <2>2, KeepsPassedInv DEF Lanes
<1>6. ASSUME UNCHANGED passed, pc' \notin {"user", "normal"},
             \A e \in Envelopes : exec'[e] = exec[e] \/ exec'[e] = "in-flight"
      PROVE  PassedInv'
  BY <1>6, KeepsPassedInv
<1>7. exec \in [Envelopes -> {"free", "queued", "in-flight", "abandoned"}]
  BY DEF IInv, TypeOK, CallersOK
<1>8. CASE TakeWake \/ WorkerExit \/ BuildDefect \/ Begin \/ BeginExpired \/ SkipAbandoned \/ Finish
  BY <1>6, <1>7, <1>8 DEF TakeWake, WorkerExit, BuildDefect, Begin, BeginExpired, SkipAbandoned, Finish,
     Conclude, Goto, callers, history
<1>9. CASE \/ LookupFresh \/ LookupStored \/ LookupUnclaimed \/ Decide \/ RefuseCommand
           \/ Timeout \/ StoreError \/ WorkerDefect
  BY <1>6, <1>9 DEF LookupFresh, LookupStored, LookupUnclaimed, Decide, RefuseCommand, Timeout, StoreError,
     WorkerDefect, Conclude, Fail, Goto, callers, history
<1>10. CASE \/ \E n \in 1 .. MaxEvents : Commit(n)
            \/ Assign \/ PublishNext \/ PublishDone \/ SettleAccepted
  BY <1>6, <1>10 DEF Commit, Assign, PublishNext, PublishDone, SettleAccepted, Conclude, Goto, callers, history
<1>11. CASE \/ Reconcile \/ ReconcileFails \/ RecoveryDefect \/ ResolveStored \/ ResolveUnchecked \/ ResolveUnknown
            \/ RecordRejection \/ FailCaller
  BY <1>6, <1>11 DEF Reconcile, ReconcileFails, RecoveryDefect, ResolveStored, ResolveUnchecked, ResolveUnknown, RecordRejection,
     FailCaller, Conclude, Goto, callers, history
<1>12. QED
  BY <1>1, <1>2, <1>3, <1>4, <1>5, <1>8, <1>9, <1>10, <1>11 DEF Next, Environment, Worker, Take

\* A command of a higher lane that waits is overtaken by one command of a lower lane at most: the
\* one the worker was already reaching for when it came.
THEOREM OvertakenAtMostOnceCorrect == Spec => []OvertakenAtMostOnce
<1>1. Init => PassedInv
  BY DEF Init, PassedInv, InLane, Lanes
<1>2. IInv /\ PassedInv /\ [Next]_vars => PassedInv'
  BY NextPassedInv
<1>3. PassedInv => OvertakenAtMostOnce
  <2> SUFFICES ASSUME PassedInv, NEW e \in Envelopes PROVE passed[e] <= 1
    BY DEF OvertakenAtMostOnce
  <2>1. passed[e] \in {0, 1}
    BY DEF PassedInv
  <2>2. QED
    BY <2>1
<1>4. QED
  BY <1>1, <1>2, <1>3, Invariance, PTL DEF Spec

-----------------------------------------------------------------------------
(* The ledger. *)

\* A call has a command and a request once it was admitted or refused.
Submitted ==
  \A e \in Envelopes :
    /\ exec[e] = "free" /\ reply[e] = None => cmd[e] = None
    /\ exec[e] # "free" => cmd[e] \in Commands /\ req[e] \in Requests

\* What the worker knows of the receipt of the call in hand.
KnowsReceipt ==
  /\ pc \in {"assign", "publish", "settle"} =>
       /\ Receipt # None /\ SamePrint /\ Receipt.status = "accepted" /\ Receipt.seq = pubEnd
       /\ Ledger!Entitled(req[cur])
  /\ pc \in Recovery /\ cause = "invariant" => Receipt = None \/ (pc = "fail" /\ Receipt.status = "rejected")
  /\ pc \in Recovery /\ cause = "unclaimed" => Receipt # None /\ Unclaimed

LedgerInv == Submitted /\ KnowsReceipt

\* Steps that leave the receipts alone keep what the worker knows of the one of the call in hand.
LEMMA StaysKnown ==
  ASSUME KnowsReceipt, receipts' = receipts,
         pc' \in {"assign", "publish", "settle"} \cup Recovery =>
           cur' = cur /\ cmd'[cur] = cmd[cur] /\ req'[cur] = req[cur],
         pc' \in {"assign", "publish", "settle"} =>
           pc \in {"assign", "publish", "settle"} /\ pubEnd' = pubEnd,
         pc' \in Recovery =>
           \/ pc \in Recovery /\ cause' = cause /\ (pc = "fail" => pc' = "fail")
           \/ cause' \notin {"invariant", "unclaimed"}
           \/ cause' = "invariant" /\ Receipt = None
           \/ cause' = "unclaimed" /\ Receipt # None /\ Unclaimed,
         pc' \in Recovery => claim' = claim \/ (~ExactIdentity => ~ExactIdentity')
  PROVE  KnowsReceipt'
<1>1. CASE pc' \in {"assign", "publish", "settle"} \cup Recovery
  <2>1. Receipt' = Receipt /\ SamePrint' = SamePrint
    BY <1>1 DEF Receipt, SamePrint
  <2>2. pc' \in Recovery /\ Unclaimed => Unclaimed'
    BY <1>1, <2>1 DEF Unclaimed, ExactIdentity
  <2>3. QED
    BY <1>1, <2>1, <2>2 DEF KnowsReceipt, Recovery
<1>2. CASE pc' \notin {"assign", "publish", "settle"} \cup Recovery
  BY <1>2 DEF KnowsReceipt
<1>3. QED
  BY <1>1, <1>2

\* The steps of the worker keep what it knows of the receipt.
LEMMA WorkerKnows ==
  ASSUME IInv, DecisionInv, LedgerInv, Worker
  PROVE  KnowsReceipt'
<1> USE StaysKnown DEF LedgerInv, Recovery
<1>1. CASE Take \/ WorkerExit \/ BuildDefect \/ Begin \/ SkipAbandoned \/ LookupFresh \/ LookupStored \/ Decide
  <2>1. UNCHANGED receipts /\ pc' \notin {"assign", "publish", "settle"} \cup Recovery
    BY <1>1 DEF Take, TakeWake, TakeFrom, PollEmpty, Lanes, WorkerExit, BuildDefect, Begin, SkipAbandoned,
       LookupFresh, LookupStored, Decide, Conclude, Goto, durable
  <2>2. QED
    BY <2>1
<1>2. CASE BeginExpired \/ Timeout \/ StoreError \/ WorkerDefect
  <2>1. /\ UNCHANGED <<receipts, claim, cur, cmd, req>> /\ pc' = "reconcile"
        /\ cause' \in {"timeout", "store", "defect"}
    BY <1>2 DEF BeginExpired, Timeout, StoreError, WorkerDefect, Fail, callers, durable
  <2>2. QED
    BY <2>1
<1>3. CASE LookupUnclaimed
  BY <1>3 DEF LookupUnclaimed, Fail, callers, durable
<1>4. CASE RefuseCommand
  BY <1>4 DEF RefuseCommand, Fail, callers, durable, DecisionInv, CommitMeetsNoReceipt
<1>5. CASE \E n \in 1 .. MaxEvents : Commit(n)
  <2>1. PICK n \in 1 .. MaxEvents : Commit(n)
    BY <1>5
  <2>2. /\ UNCHANGED <<cur, cmd, req>> /\ pc' = "assign" /\ pubEnd' = Len(log) + n /\ cmd[cur] \in Commands
        /\ receipts \in [Commands -> Receipts \cup {None}]
        /\ receipts' = [receipts EXCEPT ![cmd[cur]] =
              [status |-> "accepted", print |-> PrintOf[req[cur]], seq |-> Len(log) + n]]
    BY <2>1 DEF Commit, callers, IInv, TypeOK, DurableOK, HandInv, Known, Taking
  <2>3. /\ receipts'[cmd[cur]] = [status |-> "accepted", print |-> PrintOf[req[cur]], seq |-> Len(log) + n]
        /\ Ledger!Entitled(req[cur])
    BY <2>1, <2>2 DEF Commit, Claimable, Ledger!Entitled
  <2>4. TypeOK'
    BY <1>5, NextIInv DEF IInv, Next, Worker
  <2>5. receipts'[cmd[cur]] # None
    <3>1. receipts'[cmd[cur]] \in Receipts
      <4>1. Len(log) + n \in Nat
        BY <2>2, <2>4 DEF TypeOK, WorkerOK
      <4>2. PrintOf[req[cur]] \in Prints
        BY <2>1 DEF Commit, IInv, HandInv, Known, Taking, Prints
      <4>3. QED
        BY <2>3, <4>1, <4>2 DEF Receipts
    <3>2. QED
      BY <3>1, NoneIsNoReceipt
  <2>6. QED
    BY <2>2, <2>3, <2>5 DEF KnowsReceipt, Receipt, SamePrint
<1>6. CASE Assign \/ PublishNext \/ SettleAccepted
  BY <1>6 DEF Assign, PublishNext, SettleAccepted, Conclude, Goto, callers, durable
<1>7. CASE PublishDone
  BY <1>7 DEF PublishDone, Goto, callers, durable
<1>8. CASE Reconcile \/ ReconcileFails
  BY <1>8 DEF Reconcile, ReconcileFails, Goto, callers, durable
<1>9. CASE RecoveryDefect
  BY <1>9 DEF RecoveryDefect, Goto, durable
<1>10. CASE ResolveStored \/ ResolveUnchecked \/ ResolveUnknown \/ FailCaller
  BY <1>10 DEF ResolveStored, ResolveUnchecked, ResolveUnknown, FailCaller, Conclude, Goto, durable
<1>11. CASE RecordRejection
  <2>1. /\ UNCHANGED <<cur, cmd, req, cause>> /\ pc = "resolve" /\ pc' = "fail" /\ cause = "invariant"
        /\ cmd[cur] \in Commands /\ receipts \in [Commands -> Receipts \cup {None}]
    BY <1>11 DEF RecordRejection, Goto, callers, IInv, TypeOK, DurableOK, HandInv, Known, Taking
  <2>2. \/ receipts'[cmd[cur]] = [status |-> "rejected", print |-> PrintOf[req[cur]], seq |-> snapshot]
        \/ receipts'[cmd[cur]] = receipts[cmd[cur]]
    BY <1>11, <2>1 DEF RecordRejection
  <2>3. receipts[cmd[cur]] = None
    BY <2>1 DEF KnowsReceipt, Receipt
  <2>4. QED
    BY <2>1, <2>2, <2>3 DEF KnowsReceipt, Receipt
<1>12. CASE Finish
  BY <1>12 DEF Finish, durable
<1>13. QED
  BY <1>1, <1>2, <1>3, <1>4, <1>5, <1>6, <1>7, <1>8, <1>9, <1>10, <1>11, <1>12 DEF Worker

\* Every step keeps what is known of the calls and of the receipt in hand.
LEMMA NextLedgerInv ==
  ASSUME IInv, DecisionInv, LedgerInv, [Next]_vars
  PROVE  LedgerInv'
<1>1. /\ exec \in [Envelopes -> {"free", "queued", "in-flight", "abandoned"}]
      /\ reply \in [Envelopes -> Replies \cup {None}]
      /\ cmd \in [Envelopes -> Commands \cup {None}] /\ req \in [Envelopes -> Requests \cup {None}]
  BY DEF IInv, TypeOK, CallersOK
<1>2. CASE Worker
  <2>1. UNCHANGED <<cmd, req>>
    BY <1>2 DEF Worker, Take, TakeWake, TakeFrom, PollEmpty, WorkerExit, BuildDefect, Begin, BeginExpired,
       SkipAbandoned, LookupFresh, LookupStored, LookupUnclaimed, Decide, RefuseCommand, Commit, Assign,
       PublishNext, PublishDone, SettleAccepted, Timeout, StoreError, WorkerDefect, Reconcile, ReconcileFails,
       RecoveryDefect, ResolveStored, ResolveUnchecked, ResolveUnknown, RecordRejection, FailCaller, Finish, Conclude, Fail, callers
  <2>2. \A e \in Envelopes : exec'[e] = exec[e] \/ (exec[e] = "queued" /\ exec'[e] = "in-flight")
    BY <1>1, <1>2 DEF Worker, Take, TakeWake, TakeFrom, PollEmpty, WorkerExit, BuildDefect, Begin, BeginExpired,
       SkipAbandoned, LookupFresh, LookupStored, LookupUnclaimed, Decide, RefuseCommand, Commit, Assign,
       PublishNext, PublishDone, SettleAccepted, Timeout, StoreError, WorkerDefect, Reconcile, ReconcileFails,
       RecoveryDefect, ResolveStored, ResolveUnchecked, ResolveUnknown, RecordRejection, FailCaller, Finish, Conclude, Fail, callers
  <2>3. \A e \in Envelopes : reply[e] # None => reply'[e] # None
    BY <1>1, <1>2 DEF Worker, Take, TakeWake, TakeFrom, PollEmpty, WorkerExit, BuildDefect, Begin, BeginExpired,
       SkipAbandoned, LookupFresh, LookupStored, LookupUnclaimed, Decide, RefuseCommand, Commit, Assign,
       PublishNext, PublishDone, SettleAccepted, Timeout, StoreError, WorkerDefect, Reconcile, ReconcileFails,
       RecoveryDefect, ResolveStored, ResolveUnchecked, ResolveUnknown, RecordRejection, FailCaller, Finish, Conclude, Settle,
       Fail, callers
  <2>4. Submitted'
    BY <2>1, <2>2, <2>3 DEF LedgerInv, Submitted
  <2>5. QED
    BY <1>2, <2>4, WorkerKnows DEF LedgerInv
<1>3. CASE \E e \in Envelopes, c \in Commands : \E r \in Asks[e][c] : Admit(e, c, r) \/ Refuse(e, c, r)
  <2>1. PICK e \in Envelopes, c \in Commands, r \in Requests : Admit(e, c, r) \/ Refuse(e, c, r)
    BY <1>3, AsksAssumption
  <2>2. /\ UNCHANGED <<receipts, claim, pc, cur, cause, pubEnd>> /\ exec[e] = "free"
        /\ cmd' = [cmd EXCEPT ![e] = c] /\ req' = [req EXCEPT ![e] = r]
    BY <2>1 DEF Admit, Refuse, durable, worker
  <2>3. \A k \in Envelopes : k # e => /\ cmd'[k] = cmd[k] /\ req'[k] = req[k]
                                      /\ exec'[k] = exec[k] /\ reply'[k] = reply[k]
    BY <1>1, <2>1 DEF Admit, Refuse
  <2>4. cmd'[e] = c /\ req'[e] = r /\ (exec'[e] # "free" \/ reply'[e] # None)
    <3>1. Answer("stopped", 0) # None /\ Answer("overloaded", 0) # None
      BY NoneIsNoReceipt DEF Answer, Replies, ReplyKinds
    <3>2. QED
      BY <1>1, <2>1, <2>2, <3>1 DEF Admit, Refuse
  <2>5. Submitted'
    BY <2>3, <2>4 DEF LedgerInv, Submitted
  <2>6. pc \in {"assign", "publish", "settle"} \cup Recovery => cur \in Envelopes /\ cur # e
    BY <2>2 DEF IInv, TypeOK, WorkerOK, HandInv, Known, Recovery, Taking
  <2>7. KnowsReceipt'
    BY <2>2, <2>3, <2>6, StaysKnown DEF LedgerInv
  <2>8. QED
    BY <2>5, <2>7 DEF LedgerInv
<1>4. CASE \E e \in Envelopes : Abandon(e)
  <2>1. PICK e \in Envelopes : Abandon(e)
    BY <1>4
  <2>2. /\ UNCHANGED <<receipts, claim, pc, cur, cause, pubEnd, cmd, req>>
        /\ \A k \in Envelopes : exec[k] # "free" <=> exec'[k] # "free"
        /\ \A k \in Envelopes : exec[k] = "free" => reply'[k] = reply[k]
    BY <1>1, <2>1 DEF Abandon, durable, worker
  <2>3. QED
    BY <2>2, StaysKnown DEF LedgerInv, Submitted
<1>5. CASE Quiesce \/ StopBegin \/ StopEnd \/ Refresh \/ UNCHANGED vars
  <2>1. UNCHANGED <<receipts, claim, pc, cur, cause, pubEnd, cmd, req, exec, reply>>
    BY <1>5 DEF Quiesce, StopBegin, StopEnd, Refresh, vars, callers, worker, durable
  <2>2. QED
    BY <2>1, StaysKnown DEF LedgerInv, Submitted
<1>6. CASE \E p \in Prints : Release(p)
  <2>1. PICK p \in Prints : Release(p)
    BY <1>6
  <2>2. UNCHANGED <<receipts, pc, cur, cause, pubEnd, cmd, req, exec, reply>>
    BY <2>1 DEF Release, callers, worker
  <2>3. pc \in Recovery => PrintOf[req[cur]] \in Prints
    BY DEF IInv, HandInv, Known, Taking, Recovery, Prints
  <2>4. \A q \in Prints : claim'[q] = "claimed" => claim[q] = "claimed"
    BY <2>1 DEF Release, IInv, TypeOK, DurableOK
  <2>5. pc' \in Recovery => (~ExactIdentity => ~ExactIdentity')
    BY <2>2, <2>3, <2>4 DEF ExactIdentity
  <2>6. KnowsReceipt'
    BY <2>2, <2>5, StaysKnown DEF LedgerInv
  <2>7. QED
    BY <2>2, <2>6 DEF LedgerInv, Submitted
<1>7. CASE Restart
  <2>1. UNCHANGED <<receipts, cmd, req, exec>> /\ pc' = "wake" /\ \A e \in Envelopes : reply'[e] = None => reply[e] = None
    BY <1>7 DEF Restart, durable
  <2>2. QED
    BY <2>1, StaysKnown DEF LedgerInv, Submitted, Recovery
<1>8. QED
  BY <1>2, <1>3, <1>4, <1>5, <1>6, <1>7 DEF Next, Environment

-----------------------------------------------------------------------------
(* The steps of the ledger *)

\* The content of a call that was submitted is what the ledger was asked.
LEMMA AskedFacts ==
  ASSUME NEW e \in Envelopes, cmd[e] \in Commands, req[e] \in Requests
  PROVE  asked[e] = [cmd |-> cmd[e], req |-> req[e]] /\ asked[e] # None
<1>1. cmd[e] # None /\ [cmd |-> cmd[e], req |-> req[e]] # None
  BY NoneAssumption, NoneIsNoCall
<1>2. QED
  BY <1>1 DEF asked

\* Telling a caller is a step of the ledger when the answer is true.
LEMMA TellImplements ==
  ASSUME IInv, NEW e \in Envelopes, cmd[e] \in Commands, req[e] \in Requests, reply[e] = None,
         UNCHANGED <<receipts, claim, log, cmd, req>>, NEW kind \in ReplyKinds, NEW seq \in 0 .. Len(log),
         reply' = [reply EXCEPT ![e] = Answer(kind, seq)],
         Ledger!Truthful(e, Answer(kind, seq))
  PROVE  Ledger!Tell(e)
<1>1. asked' = asked
  BY DEF asked
<1>2. reply'[e] = Answer(kind, seq)
  BY DEF IInv, TypeOK, CallersOK
<1>3. Answer(kind, seq) \in Ledger!Answers
  BY DEF Ledger!Answers, Ledger!Uninformative, Answer, ReplyKinds
<1>4. QED
  BY <1>1, <1>2, <1>3, AskedFacts DEF Ledger!Tell

\* So is the end of an envelope, unless its caller was told before.
LEMMA ConcludeImplements ==
  ASSUME IInv, pc \notin Idle, NEW kind \in ReplyKinds, NEW seq \in 0 .. Len(log),
         Settle(kind, seq), UNCHANGED <<receipts, claim, log, cmd, req>>, Ledger!Truthful(cur, Answer(kind, seq))
  PROVE  [Ledger!LedgerNext]_(Ledger!ledgerVars)
<1>1. PICK e \in Envelopes : e = cur /\ cmd[e] \in Commands /\ req[e] \in Requests
  BY DEF IInv, TypeOK, WorkerOK, HandInv, Known, Idle
<1>2. CASE reply[e] = None
  <2>1. reply' = [reply EXCEPT ![e] = Answer(kind, seq)]
    BY <1>1, <1>2 DEF Settle, IInv, TypeOK, CallersOK
  <2>2. Ledger!Truthful(e, Answer(kind, seq))
    BY <1>1
  <2>3. Ledger!Tell(e)
    BY <1>1, <1>2, <2>1, <2>2, TellImplements
  <2>4. QED
    BY <2>3 DEF Ledger!LedgerNext
<1>3. CASE reply[e] # None
  <2>1. reply' = reply
    BY <1>1, <1>3 DEF Settle, IInv, TypeOK, CallersOK
  <2>2. asked' = asked
    BY DEF asked
  <2>3. QED
    BY <2>1, <2>2 DEF Ledger!ledgerVars
<1>4. QED
  BY <1>2, <1>3

\* Steps that tell nobody, ask nothing and decide nothing.
LEMMA StutterImplements ==
  ASSUME UNCHANGED <<receipts, claim, log, cmd, req, reply>>
  PROVE  [Ledger!LedgerNext]_(Ledger!ledgerVars)
BY DEF Ledger!ledgerVars, asked

\* What a stored receipt says of the call in hand is true.
LEMMA StoredIsTrue ==
  ASSUME IInv, MemoryInv, pc \notin Idle, Receipt # None
  PROVE  /\ StoredAnswer.kind \in ReplyKinds /\ StoredAnswer.seq \in 0 .. Len(log)
         /\ Ledger!Truthful(cur, Answer(StoredAnswer.kind, StoredAnswer.seq))
<1>1. cur \in Envelopes /\ cmd[cur] \in Commands /\ req[cur] \in Requests
  BY DEF IInv, TypeOK, WorkerOK, HandInv, Known, Idle
<1>2. asked[cur].cmd = cmd[cur] /\ asked[cur].req = req[cur]
  <2>1. asked[cur] = [cmd |-> cmd[cur], req |-> req[cur]]
    BY <1>1, AskedFacts
  <2>2. QED
    BY <2>1
<1>3. Receipt \in Receipts /\ Receipt.seq <= Len(log) /\ Len(log) \in Nat
  BY <1>1, MemoryTypes DEF Receipt, IInv, TypeOK, DurableOK, MemoryInv, Bounded
<1>4. Receipt.status \in {"accepted", "rejected"} /\ Receipt.seq \in 0 .. Len(log) /\ 0 \in 0 .. Len(log)
  BY <1>3 DEF Receipts
<1>5. CASE ~SamePrint
  <2>1. StoredAnswer = Answer("collision", 0)
    BY <1>5 DEF StoredAnswer
  <2>2. QED
    BY <1>2, <1>4, <1>5, <2>1 DEF Answer, ReplyKinds, Ledger!Truthful, SamePrint, Receipt
<1>6. CASE SamePrint /\ (Receipt.status = "rejected" \/ ~ExactIdentity)
  <2>1. StoredAnswer = Answer("previouslyRejected", 0)
    BY <1>4, <1>6 DEF StoredAnswer
  <2>2. QED
    BY <1>2, <1>4, <1>6, <2>1 DEF Answer, ReplyKinds, Ledger!Truthful, Ledger!Entitled, Ledger!Attaching,
       SamePrint, ExactIdentity, Receipt
<1>7. CASE SamePrint /\ Receipt.status = "accepted" /\ ExactIdentity
  <2>1. StoredAnswer = Answer("accepted", Receipt.seq)
    BY <1>7 DEF StoredAnswer
  <2>2. QED
    BY <1>2, <1>4, <1>7, <2>1 DEF Answer, ReplyKinds, Ledger!Truthful, Ledger!Entitled, SamePrint, ExactIdentity, Receipt
<1>8. QED
  BY <1>4, <1>5, <1>6, <1>7

\* Every answer the worker gives is true when it gives it.
LEMMA AnswerImplements ==
  ASSUME IInv, DecisionInv, MemoryInv, LedgerInv,
         \/ BuildDefect \/ LookupStored \/ SettleAccepted \/ ResolveStored \/ ResolveUnchecked \/ ResolveUnknown \/ FailCaller
         \/ (RecoveryDefect /\ cause = "defect")
  PROVE  [Ledger!LedgerNext]_(Ledger!ledgerVars)
<1>1. pc \notin Idle
  BY DEF Idle, Taking, Recovery, BuildDefect, LookupStored, SettleAccepted, ResolveStored, ResolveUnchecked, ResolveUnknown,
     FailCaller, RecoveryDefect
<1>2. /\ cur \in Envelopes /\ asked[cur] = [cmd |-> cmd[cur], req |-> req[cur]]
      /\ Len(log) \in Nat /\ 0 \in 0 .. Len(log)
  <2>1. cur \in Envelopes /\ cmd[cur] \in Commands /\ req[cur] \in Requests
    BY <1>1 DEF IInv, TypeOK, WorkerOK, HandInv, Known, Idle
  <2>2. QED
    BY <2>1, AskedFacts, MemoryTypes
<1>3. \A kind \in ReplyKinds, seq \in 0 .. Len(log) :
        Settle(kind, seq) /\ UNCHANGED <<receipts, claim, log, cmd, req>> /\ Ledger!Truthful(cur, Answer(kind, seq))
          => [Ledger!LedgerNext]_(Ledger!ledgerVars)
  BY <1>1, ConcludeImplements
<1>4. \A kind \in {"internal", "timeout", "store"} : kind \in ReplyKinds /\ Ledger!Truthful(cur, Answer(kind, 0))
  BY DEF ReplyKinds, Ledger!Truthful, Ledger!Uninformative, Answer
<1>5. ASSUME NEW kind \in ReplyKinds, NEW seq \in 0 .. Len(log), Conclude(kind, seq),
             Ledger!Truthful(cur, Answer(kind, seq))
      PROVE  [Ledger!LedgerNext]_(Ledger!ledgerVars)
  BY <1>3, <1>5 DEF Conclude, durable
<1>6. CASE BuildDefect
  BY <1>2, <1>4, <1>5, <1>6 DEF BuildDefect
<1>7. CASE LookupStored
  BY <1>1, <1>5, <1>7, StoredIsTrue DEF LookupStored
<1>8. CASE SettleAccepted
  <2>1. pubEnd \in 0 .. Len(log) /\ "accepted" \in ReplyKinds
    BY <1>8, <1>2 DEF SettleAccepted, MemoryInv, Bounded, ReplyKinds
  <2>2. Ledger!Truthful(cur, Answer("accepted", pubEnd))
    BY <1>2, <1>8 DEF SettleAccepted, LedgerInv, KnowsReceipt, Receipt, SamePrint, Ledger!Truthful, Answer
  <2>3. Conclude("accepted", pubEnd)
    BY <1>8 DEF SettleAccepted
  <2>4. PICK seq \in 0 .. Len(log) : seq = pubEnd
    BY <2>1
  <2>5. QED
    BY <1>3, <2>1, <2>2, <2>3, <2>4 DEF Conclude, durable, Settle
<1>9. CASE ResolveStored
  BY <1>1, <1>5, <1>9, StoredIsTrue DEF ResolveStored
<1>10. CASE ResolveUnchecked \/ ResolveUnknown
  BY <1>2, <1>4, <1>5, <1>10 DEF ResolveUnchecked, ResolveUnknown
<1>11. CASE FailCaller
  <2>1. CASE pc = "fail" /\ Conclude("rejected", 0)
    <3>1. Receipt = None \/ Receipt.status = "rejected"
      BY <2>1 DEF DecisionInv, RefusedUncommitted, LedgerInv, KnowsReceipt, Recovery
    <3>2. Ledger!Truthful(cur, Answer("rejected", 0))
      BY <1>2, <3>1 DEF Ledger!Truthful, Answer, Receipt
    <3>3. QED
      BY <1>2, <1>5, <2>1, <3>2 DEF ReplyKinds
  <2>2. CASE pc = "resolve" /\ cause = "store" /\ Conclude("store", 0)
    BY <1>2, <1>4, <1>5, <2>2
  <2>3. CASE pc = "resolve" /\ cause = "unclaimed" /\ Conclude("previouslyRejected", 0)
    <3>1. Receipt # None /\ Unclaimed
      BY <2>3 DEF LedgerInv, KnowsReceipt, Recovery
    <3>2. Ledger!Truthful(cur, Answer("previouslyRejected", 0))
      BY <1>2, <3>1 DEF Ledger!Truthful, Ledger!Entitled, Ledger!Attaching, Answer, Receipt, Unclaimed,
         SamePrint, ExactIdentity
    <3>3. QED
      BY <1>2, <1>5, <2>3, <3>2 DEF ReplyKinds
  <2>4. QED
    BY <1>11, <2>1, <2>2, <2>3 DEF FailCaller
<1>12. CASE RecoveryDefect /\ cause = "defect"
  BY <1>2, <1>3, <1>4, <1>12 DEF RecoveryDefect, durable
<1>13. QED
  BY <1>6, <1>7, <1>8, <1>9, <1>10, <1>11, <1>12

\* A transaction accepts its command, and the receipt of a refusal rejects it: nothing else decides.
LEMMA DecideImplements ==
  ASSUME IInv, DecisionInv, MemoryInv, LedgerInv, (\E n \in 1 .. MaxEvents : Commit(n)) \/ RecordRejection
  PROVE  [Ledger!LedgerNext]_(Ledger!ledgerVars)
<1>1. PICK e \in Envelopes : e = cur /\ cmd[e] \in Commands /\ req[e] \in Requests
  <2>1. pc \notin Taking \cup {"exited"}
    BY DEF Commit, RecordRejection, Taking
  <2>2. QED
    BY <2>1 DEF IInv, TypeOK, WorkerOK, HandInv, Known
<1>2. UNCHANGED <<cmd, req, reply>> /\ asked' = asked
  BY DEF Commit, RecordRejection, callers, asked
<1>3. asked[e].cmd = cmd[e] /\ asked[e].req = req[e] /\ asked[e] # None
  <2>1. asked[e] = [cmd |-> cmd[e], req |-> req[e]] /\ asked[e] # None
    BY <1>1, AskedFacts
  <2>2. QED
    BY <2>1
<1>4. CASE \E n \in 1 .. MaxEvents : Commit(n)
  <2>1. PICK n \in 1 .. MaxEvents : Commit(n)
    BY <1>4
  <2>2. Ledger!Accept(e, n)
    BY <1>1, <1>2, <1>3, <2>1 DEF Commit, Claimable, Ledger!Accept, Ledger!Undecided, Ledger!Entitled, Ledger!Attaching
  <2>3. QED
    BY <2>2 DEF Ledger!LedgerNext
<1>5. CASE RecordRejection /\ receipts' # receipts
  <2>1. /\ receipts[cmd[e]] = None /\ log' = log /\ claim' = claim
        /\ receipts' = [receipts EXCEPT ![cmd[e]] =
              [status |-> "rejected", print |-> PrintOf[req[e]], seq |-> snapshot]]
    BY <1>1, <1>5 DEF RecordRejection
  <2>2. snapshot \in 0 .. Len(log)
    BY MemoryTypes DEF MemoryInv, Bounded
  <2>3. Ledger!Reject(e)
    BY <1>1, <1>2, <1>3, <2>1, <2>2 DEF Ledger!Reject, Ledger!Undecided
  <2>4. QED
    BY <2>3 DEF Ledger!LedgerNext
<1>6. CASE RecordRejection /\ receipts' = receipts
  BY <1>2, <1>6, StutterImplements DEF RecordRejection
<1>7. QED
  BY <1>4, <1>5, <1>6

\* Callers ask, give up, or lose their answer with the process.
LEMMA EnvironmentImplements ==
  ASSUME IInv, LedgerInv, Environment \/ StopEnd
  PROVE  [Ledger!LedgerNext]_(Ledger!ledgerVars)
<1>1. /\ cmd \in [Envelopes -> Commands \cup {None}] /\ req \in [Envelopes -> Requests \cup {None}]
      /\ reply \in [Envelopes -> Replies \cup {None}]
  BY DEF IInv, TypeOK, CallersOK
<1>2. CASE \E e \in Envelopes, c \in Commands : \E r \in Asks[e][c] : Admit(e, c, r) \/ Refuse(e, c, r)
  <2>1. PICK e \in Envelopes, c \in Commands, r \in Requests : Admit(e, c, r) \/ Refuse(e, c, r)
    BY <1>2, AsksAssumption
  <2>2. /\ UNCHANGED <<receipts, claim, log>> /\ exec[e] = "free" /\ reply[e] = None
        /\ cmd' = [cmd EXCEPT ![e] = c] /\ req' = [req EXCEPT ![e] = r]
    BY <2>1 DEF Admit, Refuse, durable
  <2>3. asked[e] = None
    BY <2>2 DEF LedgerInv, Submitted, asked
  <2>4. asked' = [asked EXCEPT ![e] = [cmd |-> c, req |-> r]]
    BY <1>1, <2>2, NoneAssumption DEF asked
  <2>5. reply' = reply \/ \E a \in {"overloaded", "stopped"} : reply' = [reply EXCEPT ![e] = [kind |-> a, seq |-> 0]]
    BY <2>1 DEF Admit, Refuse, Answer
  <2>6. Ledger!Submit(e, c, r)
    BY <2>2, <2>3, <2>4, <2>5 DEF Ledger!Submit
  <2>7. QED
    BY <2>6 DEF Ledger!LedgerNext
<1>3. CASE \E e \in Envelopes : Abandon(e)
  <2>1. PICK e \in Envelopes : Abandon(e)
    BY <1>3
  <2>2. /\ UNCHANGED <<receipts, claim, log, cmd, req>> /\ reply[e] = None
        /\ reply' = [reply EXCEPT ![e] = Answer("timeout", 0)]
        /\ cmd[e] \in Commands /\ req[e] \in Requests
    BY <2>1 DEF Abandon, durable, LedgerInv, Submitted
  <2>3. "timeout" \in ReplyKinds /\ 0 \in 0 .. Len(log) /\ Ledger!Truthful(e, Answer("timeout", 0))
    BY MemoryTypes DEF ReplyKinds, Ledger!Truthful, Ledger!Uninformative, Answer
  <2>4. Ledger!Tell(e)
    BY <2>2, <2>3, TellImplements
  <2>5. QED
    BY <2>4 DEF Ledger!LedgerNext
<1>4. CASE Quiesce \/ StopBegin \/ StopEnd \/ Refresh
  <2>1. UNCHANGED <<receipts, claim, log, cmd, req, reply>>
    BY <1>4 DEF Quiesce, StopBegin, StopEnd, Refresh, callers, durable
  <2>2. QED
    BY <2>1, StutterImplements
<1>5. CASE Restart
  <2>1. asked' = asked /\ UNCHANGED <<receipts, claim, log>>
    BY <1>5 DEF Restart, durable, asked
  <2>2. \A e \in Envelopes : reply[e] = None => (exec[e] # "free" <=> asked[e] # None)
    <3> SUFFICES ASSUME NEW e \in Envelopes, reply[e] = None PROVE exec[e] # "free" <=> asked[e] # None
      OBVIOUS
    <3>1. CASE exec[e] = "free"
      BY <3>1 DEF LedgerInv, Submitted, asked
    <3>2. CASE exec[e] # "free"
      BY <3>2, AskedFacts DEF LedgerInv, Submitted
    <3>3. QED
      BY <3>1, <3>2
  <2>3. reply' = [e \in Envelopes |-> IF asked[e] # None /\ reply[e] = None
                                       THEN [kind |-> "lost", seq |-> 0] ELSE reply[e]]
    <3>1. reply' = [e \in Envelopes |-> IF exec[e] # "free" /\ reply[e] = None
                                         THEN Answer("lost", 0) ELSE reply[e]]
      BY <1>5 DEF Restart
    <3>2. QED
      BY <2>2, <3>1 DEF Answer
  <2>4. Ledger!Lose
    BY <2>1, <2>3 DEF Ledger!Lose
  <2>5. QED
    BY <2>4 DEF Ledger!LedgerNext
<1>6. CASE \E p \in Prints : Release(p)
  <2>1. PICK p \in Prints : Release(p)
    BY <1>6
  <2>2. asked' = asked /\ UNCHANGED <<receipts, log, reply>>
    BY <2>1 DEF Release, callers, asked
  <2>3. p \in DOMAIN claim
    BY DEF IInv, TypeOK, DurableOK
  <2>4. Ledger!Release(p)
    BY <2>1, <2>2 DEF Release, Ledger!Release
  <2>5. QED
    BY <2>3, <2>4 DEF Ledger!LedgerNext
<1>7. QED
  BY <1>2, <1>3, <1>4, <1>5, <1>6 DEF Environment

\* Every step of the engine is a step of the ledger or leaves the ledger as it is.
LEMMA StepImplements ==
  ASSUME IInv, DecisionInv, MemoryInv, LedgerInv, [Next]_vars
  PROVE  [Ledger!LedgerNext]_(Ledger!ledgerVars)
<1>1. CASE UNCHANGED vars
  <2>1. UNCHANGED <<receipts, claim, log, cmd, req, reply>>
    BY <1>1 DEF vars, callers, durable
  <2>2. QED
    BY <2>1, StutterImplements
<1>2. CASE Environment \/ StopEnd
  BY <1>2, EnvironmentImplements
<1>3. CASE (\E n \in 1 .. MaxEvents : Commit(n)) \/ RecordRejection
  BY <1>3, DecideImplements
<1>4. CASE \/ BuildDefect \/ LookupStored \/ SettleAccepted \/ ResolveStored \/ ResolveUnchecked \/ ResolveUnknown \/ FailCaller
           \/ (RecoveryDefect /\ cause = "defect")
  BY <1>4, AnswerImplements
<1>5. CASE \/ Take \/ WorkerExit \/ Begin \/ BeginExpired \/ SkipAbandoned \/ LookupFresh \/ LookupUnclaimed
           \/ Decide \/ RefuseCommand \/ Assign \/ PublishNext \/ PublishDone \/ Timeout \/ StoreError
           \/ WorkerDefect \/ Reconcile \/ ReconcileFails \/ Finish \/ (RecoveryDefect /\ cause # "defect")
  <2>1. UNCHANGED <<receipts, claim, log, cmd, req, reply>>
    BY <1>5 DEF Take, TakeWake, TakeFrom, PollEmpty, WorkerExit, Begin, BeginExpired, SkipAbandoned, LookupFresh,
       LookupUnclaimed, Decide, RefuseCommand, Assign, PublishNext, PublishDone, Timeout, StoreError,
       WorkerDefect, Reconcile, ReconcileFails, Finish, RecoveryDefect, Fail, callers, durable
  <2>2. QED
    BY <2>1, StutterImplements
<1>6. QED
  BY <1>1, <1>2, <1>3, <1>4, <1>5 DEF Next, Worker

\* The engine implements the ledger: whatever retries, collisions, timeouts, defects and restarts do,
\* a command id is decided once, its events enter the log in one block, and every answer that reports
\* a decision is true when it is given.
THEOREM EngineImplementsLedger == Spec => ImplementsLedger
<1>1. Init => LedgerInv /\ Ledger!LedgerInit
  <2> SUFFICES ASSUME Init PROVE LedgerInv /\ Ledger!LedgerInit
    OBVIOUS
  <2>1. LedgerInv
    BY DEF Init, LedgerInv, Submitted, KnowsReceipt, Recovery
  <2>2. asked = [e \in Envelopes |-> None]
    BY DEF Init, asked
  <2>3. QED
    BY <2>1, <2>2 DEF Init, Prints, Ledger!LedgerInit
<1>2. IInv /\ DecisionInv /\ LedgerInv /\ [Next]_vars => LedgerInv'
  BY NextLedgerInv
<1>3. IInv /\ DecisionInv /\ MemoryInv /\ LedgerInv /\ [Next]_vars => [Ledger!LedgerNext]_(Ledger!ledgerVars)
  BY StepImplements
<1>4. QED
  BY <1>1, <1>2, <1>3, Invariance, DecisionInvariance, MemoryInvariance, PTL DEF Spec, ImplementsLedger, Ledger!LedgerSpec

==============================================================================
