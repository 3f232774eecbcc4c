----------------------- MODULE DomainEventStreamProofs -----------------------
(***************************************************************************)
(* Theorems about DomainEventStream, for every set of subscribers, every   *)
(* window, page size and number of events, purges and restarts.            *)
(***************************************************************************)
EXTENDS DomainEventStream, TLAPS

\* What is announced, or about to be, is committed.
Order == published <= last /\ \A e \in outbox : e <= last

\* The first publication announces only new events.
Fresh == worker \in {"committed", "publishing"} => \A e \in outbox : e > published

\* A reconciliation goes through the rows after start in order.
Again == worker = "republishing" =>
           /\ \A e \in outbox : e > start
           /\ \A r \in rows : r > start => r \in outbox \/ \A e \in outbox : r < e

\* No stream is ahead of the announcements, and only a gap holds rows.
Behind(s) ==
  /\ cursor[s] <= published
  /\ \A i \in 1 .. Len(backlog[s]) : backlog[s][i] <= published
  /\ phase[s] # "gap" => page[s] = {} /\ ~more[s]

\* Something the subscriber has still to see reveals the row r.
Shown(s, r) ==
  \/ \E i \in 1 .. Len(backlog[s]) : r <= backlog[s][i]
  \/ phase[s] = "gap" /\ r <= held[s]
  \/ worker = "republishing" /\ \E e \in outbox : r <= e

Covered(s) == phase[s] # "detached" =>
                \A r \in rows : cursor[s] < r /\ r <= published => Shown(s, r)

InGap(s) == phase[s] = "gap" =>
              /\ cursor[s] < held[s] /\ held[s] <= published
              /\ \A r \in page[s] : cursor[s] < r /\ r < held[s]
              /\ \A r \in Missing(s) \ page[s] : more[s] /\ \A q \in page[s] : q < r

StreamInv == Order /\ Fresh /\ Again
             /\ \A s \in Subscribers : Behind(s) /\ Covered(s) /\ InGap(s)

IInv == TypeOK /\ StreamInv

\* The rows of a gap are sequence numbers.
LEMMA MissingFacts == ASSUME LogOK, NEW s \in Subscribers PROVE Missing(s) \subseteq Sequences1
<1>1. rows \subseteq 1 .. last /\ last \in 0 .. MaxSequence /\ MaxSequence \in Nat
  BY BoundAssumption DEF LogOK
<1>2. rows \subseteq Sequences1
  BY <1>1 DEF Sequences1
<1>3. QED
  BY <1>2 DEF Missing

\* A window that takes an element contains it, and otherwise only what it contained.
LEMMA OfferedFacts ==
  ASSUME NEW q \in Seq(Sequences1), NEW e \in Sequences1
  PROVE  /\ Offered(q, e) \in Seq(Sequences1)
         /\ \A i \in 1 .. Len(Offered(q, e)) :
              Offered(q, e)[i] = e \/ \E j \in 1 .. Len(q) : Offered(q, e)[i] = q[j]
         /\ \E i \in 1 .. Len(Offered(q, e)) : Offered(q, e)[i] = e
<1> DEFINE longer == Append(q, e)
<1>1. /\ longer \in Seq(Sequences1) /\ Len(longer) = Len(q) + 1 /\ Len(q) \in Nat
      /\ longer[Len(q) + 1] = e /\ \A j \in 1 .. Len(q) : longer[j] = q[j]
  OBVIOUS
<1> HIDE DEF longer
<1>2. CASE Len(longer) > WindowSize
  <2>1. Offered(q, e) = Tail(longer)
    BY <1>2 DEF Offered, longer
  <2>2. /\ Tail(longer) \in Seq(Sequences1) /\ Len(Tail(longer)) = Len(q)
        /\ \A i \in 1 .. Len(q) : Tail(longer)[i] = longer[i + 1]
    BY <1>1
  <2>3. Len(q) >= 1
    BY <1>1, <1>2, SizeAssumption
  <2>4. Tail(longer)[Len(q)] = e
    BY <1>1, <2>2, <2>3
  <2>5. \A i \in 1 .. Len(q) : Tail(longer)[i] = e \/ \E j \in 1 .. Len(q) : Tail(longer)[i] = q[j]
    <3> SUFFICES ASSUME NEW i \in 1 .. Len(q)
                 PROVE  Tail(longer)[i] = e \/ \E j \in 1 .. Len(q) : Tail(longer)[i] = q[j]
      OBVIOUS
    <3>1. CASE i = Len(q)
      BY <2>4, <3>1
    <3>2. CASE i # Len(q)
      BY <1>1, <2>2, <3>2
    <3>3. QED
      BY <3>1, <3>2
  <2>6. QED
    BY <1>1, <2>1, <2>2, <2>3, <2>4, <2>5
<1>3. CASE ~(Len(longer) > WindowSize)
  <2>1. Offered(q, e) = longer
    BY <1>3 DEF Offered, longer
  <2>2. QED
    BY <1>1, <2>1
<1>4. QED
  BY <1>2, <1>3

\* The rest of a queue.
LEMMA TailFacts ==
  ASSUME NEW q \in Seq(Sequences1), q # <<>>
  PROVE  /\ Head(q) = q[1] /\ Head(q) \in Sequences1 /\ Len(q) \in Nat \ {0}
         /\ Tail(q) \in Seq(Sequences1) /\ Len(Tail(q)) = Len(q) - 1
         /\ \A i \in 1 .. Len(Tail(q)) : Tail(q)[i] = q[i + 1]
OBVIOUS

LEMMA InitIInv == Init => IInv
<1> SUFFICES ASSUME Init PROVE IInv
  OBVIOUS
<1>1. LogOK /\ WorkerOK /\ BacklogOK /\ purges \in Nat /\ restarts \in Nat
  BY BoundAssumption DEF Init, LogOK, WorkerOK, BacklogOK
<1>2. ReadersOK
  <2>1. more \in [Subscribers -> BOOLEAN]
    BY DEF Init
  <2>2. QED
    BY <2>1, BoundAssumption DEF Init, ReadersOK
<1>3. StreamInv
  BY DEF Init, StreamInv, Order, Fresh, Again, Behind, Covered, InGap
<1>4. QED
  BY <1>1, <1>2, <1>3 DEF IInv, TypeOK

LEMMA CommitIInv == ASSUME IInv, Commit PROVE IInv'
<1> USE DEF IInv, TypeOK, Commit
<1>1. LogOK' /\ WorkerOK'
  BY BoundAssumption DEF LogOK, WorkerOK, Sequences1, logVars, workerVars, readVars
<1>2. more' \in [Subscribers -> BOOLEAN]
  BY DEF ReadersOK, readVars
<1>3. ReadersOK'
  BY <1>2 DEF ReadersOK, readVars
<1>4. BacklogOK' /\ purges' \in Nat /\ restarts' \in Nat
  BY DEF BacklogOK, Offered, WorkerOK, Sequences1
<1>5. Order' /\ Fresh' /\ Again'
  BY DEF StreamInv, Order, Fresh, Again, LogOK, WorkerOK, Sequences1, logVars, workerVars, readVars
<1>6. ASSUME NEW s \in Subscribers
      PROVE  Behind(s)' /\ Covered(s)' /\ InGap(s)'
  <2>1. Behind(s)'
    BY <1>6 DEF StreamInv, Behind, Order, LogOK, WorkerOK, ReadersOK, BacklogOK, Sequences1, logVars, workerVars, readVars
  <2>2. Covered(s)'
    BY <1>6 DEF StreamInv, Behind, Covered, Shown, Order, LogOK, WorkerOK, ReadersOK, BacklogOK, Sequences1, logVars, workerVars, readVars
  <2>3. InGap(s)'
    BY <1>6 DEF StreamInv, InGap, Missing, Order, LogOK, WorkerOK, ReadersOK, Sequences1, logVars, workerVars, readVars
  <2>4. QED
    BY <2>1, <2>2, <2>3
<1>7. QED
  BY <1>1, <1>3, <1>4, <1>5, <1>6 DEF StreamInv

LEMMA AssignIInv == ASSUME IInv, Assign PROVE IInv'
<1> USE DEF IInv, TypeOK, Assign
<1>1. LogOK' /\ WorkerOK'
  BY DEF LogOK, WorkerOK, Sequences1, logVars, workerVars, readVars
<1>2. more' \in [Subscribers -> BOOLEAN]
  BY DEF ReadersOK, readVars
<1>3. ReadersOK'
  BY <1>2 DEF ReadersOK, readVars
<1>4. BacklogOK' /\ purges' \in Nat /\ restarts' \in Nat
  BY DEF BacklogOK, Offered, WorkerOK, Sequences1
<1>5. Order' /\ Fresh' /\ Again'
  BY DEF StreamInv, Order, Fresh, Again, LogOK, WorkerOK, Sequences1, logVars, workerVars, readVars
<1>6. ASSUME NEW s \in Subscribers
      PROVE  Behind(s)' /\ Covered(s)' /\ InGap(s)'
  <2>1. Behind(s)'
    BY <1>6 DEF StreamInv, Behind, Order, LogOK, WorkerOK, ReadersOK, BacklogOK, Sequences1, logVars, workerVars, readVars
  <2>2. Covered(s)'
    BY <1>6 DEF StreamInv, Behind, Covered, Shown, Order, LogOK, WorkerOK, ReadersOK, BacklogOK, Sequences1, logVars, workerVars, readVars
  <2>3. InGap(s)'
    BY <1>6 DEF StreamInv, InGap, Missing, Order, LogOK, WorkerOK, ReadersOK, Sequences1, logVars, workerVars, readVars
  <2>4. QED
    BY <2>1, <2>2, <2>3
<1>7. QED
  BY <1>1, <1>3, <1>4, <1>5, <1>6 DEF StreamInv

LEMMA PublishNextIInv == ASSUME IInv, PublishNext PROVE IInv'
<1> USE DEF IInv, TypeOK, PublishNext
<1>1. LogOK' /\ WorkerOK'
  BY DEF LogOK, WorkerOK, Sequences1, logVars, workerVars, readVars
<1>2. more' \in [Subscribers -> BOOLEAN]
  BY DEF ReadersOK, readVars
<1>3. ReadersOK'
  BY <1>2 DEF ReadersOK, readVars
<1>4. BacklogOK' /\ purges' \in Nat /\ restarts' \in Nat
  <2>1. PICK e \in outbox : backlog' = [s \in Subscribers |->
                               IF phase[s] = "detached" THEN <<>> ELSE Offered(backlog[s], e)]
    OBVIOUS
  <2>2. \A s \in Subscribers : Offered(backlog[s], e) \in Seq(Sequences1)
    BY OfferedFacts DEF BacklogOK, WorkerOK
  <2>3. QED
    BY <2>1, <2>2 DEF BacklogOK
<1>5. Order' /\ Fresh' /\ Again'
  BY DEF StreamInv, Order, Fresh, Again, LogOK, WorkerOK, Sequences1, logVars, workerVars, readVars
<1>6. ASSUME NEW s \in Subscribers
      PROVE  Behind(s)' /\ Covered(s)' /\ InGap(s)'
  <2> PICK e \in outbox :
        /\ \A d \in outbox : e <= d
        /\ outbox' = outbox \ {e}
        /\ published' = IF e > published THEN e ELSE published
        /\ backlog' = [t \in Subscribers |->
                         IF phase[t] = "detached" THEN <<>> ELSE Offered(backlog[t], e)]
    OBVIOUS
  <2>a. e \in Sequences1 /\ backlog[s] \in Seq(Sequences1) /\ published \in 0 .. MaxSequence
    BY <1>6 DEF WorkerOK, BacklogOK
  <2>b. e <= published' /\ published <= published' /\ published' \in 0 .. MaxSequence
    BY <2>a, BoundAssumption DEF Sequences1
  <2>d. /\ \A i \in 1 .. Len(Offered(backlog[s], e)) :
             Offered(backlog[s], e)[i] = e
             \/ \E j \in 1 .. Len(backlog[s]) : Offered(backlog[s], e)[i] = backlog[s][j]
        /\ \E i \in 1 .. Len(Offered(backlog[s], e)) : Offered(backlog[s], e)[i] = e
    BY ONLY <2>a, OfferedFacts
  <2>c. \A i \in 1 .. Len(backlog[s]) : backlog[s][i] \in Sequences1
    BY <2>a
  <2>1. Behind(s)'
    <3>1. cursor'[s] <= published' /\ (phase'[s] # "gap" => page'[s] = {} /\ ~more'[s])
      BY <1>6, <2>a, <2>b, BoundAssumption DEF StreamInv, Behind, ReadersOK, readVars
    <3>2. \A i \in 1 .. Len(backlog'[s]) : backlog'[s][i] <= published'
      <4>1. CASE phase[s] = "detached"
        BY <1>6, <4>1
      <4>2. CASE phase[s] # "detached"
        <5>1. backlog'[s] = Offered(backlog[s], e)
          BY <1>6, <4>2
        <5>2. \A j \in 1 .. Len(backlog[s]) : backlog[s][j] <= published'
          BY <1>6, <2>a, <2>b, <2>c, BoundAssumption DEF StreamInv, Behind, Sequences1
        <5>3. QED
          BY <2>b, <2>d, <5>1, <5>2
      <4>3. QED
        BY <4>1, <4>2
    <3>3. QED
      BY <3>1, <3>2 DEF Behind
  <2>2. Covered(s)'
    <3> SUFFICES ASSUME phase'[s] # "detached", NEW r \in rows', cursor'[s] < r, r <= published'
                 PROVE  Shown(s, r)'
      BY DEF Covered
    <3>0. r \in rows /\ r \in 1 .. last /\ last \in Nat /\ phase[s] # "detached"
      BY BoundAssumption DEF LogOK, logVars, readVars
    <3>1. CASE r <= e
      <4>1. backlog'[s] = Offered(backlog[s], e)
        BY <1>6, <3>0
      <4>2. \E i \in 1 .. Len(backlog'[s]) : backlog'[s][i] = e
        BY <2>d, <4>1
      <4>3. QED
        BY <3>1, <4>2 DEF Shown
    <3>2. CASE ~(r <= e)
      <4>1. e < r /\ r <= published
        BY <2>a, <2>b, <3>0, <3>2, BoundAssumption DEF Sequences1
      <4>2. worker = "republishing"
        BY <2>a, <4>1, <3>0, BoundAssumption DEF StreamInv, Fresh, Sequences1
      <4>3. start < r
        BY <2>a, <3>0, <4>1, <4>2, BoundAssumption DEF StreamInv, Again, WorkerOK, Sequences1
      <4>4. r \in outbox
        BY <2>a, <3>0, <4>1, <4>2, <4>3, BoundAssumption DEF StreamInv, Again, WorkerOK, Sequences1
      <4>5. r \in outbox' /\ worker' = "republishing" /\ r <= r
        BY <2>a, <3>0, <4>1, <4>2, <4>4, BoundAssumption DEF Sequences1
      <4>6. QED
        BY <4>5 DEF Shown
    <3>3. QED
      BY <3>1, <3>2
  <2>3. InGap(s)'
    BY <1>6 DEF StreamInv, InGap, Missing, Order, LogOK, WorkerOK, ReadersOK, Sequences1, logVars, workerVars, readVars
  <2>4. QED
    BY <2>1, <2>2, <2>3
<1>7. QED
  BY <1>1, <1>3, <1>4, <1>5, <1>6 DEF StreamInv

LEMMA PublishDoneIInv == ASSUME IInv, PublishDone PROVE IInv'
<1> USE DEF IInv, TypeOK, PublishDone
<1>1. LogOK' /\ WorkerOK'
  BY DEF LogOK, WorkerOK, Sequences1, logVars, workerVars, readVars
<1>2. more' \in [Subscribers -> BOOLEAN]
  BY DEF ReadersOK, readVars
<1>3. ReadersOK'
  BY <1>2 DEF ReadersOK, readVars
<1>4. BacklogOK' /\ purges' \in Nat /\ restarts' \in Nat
  BY DEF BacklogOK, Offered, WorkerOK, Sequences1
<1>5. Order' /\ Fresh' /\ Again'
  BY DEF StreamInv, Order, Fresh, Again, LogOK, WorkerOK, Sequences1, logVars, workerVars, readVars
<1>6. ASSUME NEW s \in Subscribers
      PROVE  Behind(s)' /\ Covered(s)' /\ InGap(s)'
  <2>1. Behind(s)'
    BY <1>6 DEF StreamInv, Behind, Order, LogOK, WorkerOK, ReadersOK, BacklogOK, Sequences1, logVars, workerVars, readVars
  <2>2. Covered(s)'
    BY <1>6 DEF StreamInv, Behind, Covered, Shown, Order, LogOK, WorkerOK, ReadersOK, BacklogOK, Sequences1, logVars, workerVars, readVars
  <2>3. InGap(s)'
    BY <1>6 DEF StreamInv, InGap, Missing, Order, LogOK, WorkerOK, ReadersOK, Sequences1, logVars, workerVars, readVars
  <2>4. QED
    BY <2>1, <2>2, <2>3
<1>7. QED
  BY <1>1, <1>3, <1>4, <1>5, <1>6 DEF StreamInv

LEMMA InterruptIInv == ASSUME IInv, Interrupt PROVE IInv'
<1> USE DEF IInv, TypeOK, Interrupt
<1>1. LogOK' /\ WorkerOK'
  BY DEF LogOK, WorkerOK, Sequences1, logVars, workerVars, readVars
<1>2. more' \in [Subscribers -> BOOLEAN]
  BY DEF ReadersOK, readVars
<1>3. ReadersOK'
  BY <1>2 DEF ReadersOK, readVars
<1>4. BacklogOK' /\ purges' \in Nat /\ restarts' \in Nat
  BY DEF BacklogOK, Offered, WorkerOK, Sequences1
<1>5. Order' /\ Fresh' /\ Again'
  BY DEF StreamInv, Order, Fresh, Again, LogOK, WorkerOK, Sequences1, logVars, workerVars, readVars
<1>6. ASSUME NEW s \in Subscribers
      PROVE  Behind(s)' /\ Covered(s)' /\ InGap(s)'
  <2>1. Behind(s)'
    BY <1>6 DEF StreamInv, Behind, Order, LogOK, WorkerOK, ReadersOK, BacklogOK, Sequences1, logVars, workerVars, readVars
  <2>2. Covered(s)'
    BY <1>6 DEF StreamInv, Behind, Covered, Shown, Order, LogOK, WorkerOK, ReadersOK, BacklogOK, Sequences1, logVars, workerVars, readVars
  <2>3. InGap(s)'
    BY <1>6 DEF StreamInv, InGap, Missing, Order, LogOK, WorkerOK, ReadersOK, Sequences1, logVars, workerVars, readVars
  <2>4. QED
    BY <2>1, <2>2, <2>3
<1>7. QED
  BY <1>1, <1>3, <1>4, <1>5, <1>6 DEF StreamInv

LEMMA ReconcileIInv == ASSUME IInv, Reconcile PROVE IInv'
<1> USE DEF IInv, TypeOK, Reconcile
<1>1. LogOK' /\ WorkerOK'
  <2>1. LogOK' /\ rows \subseteq Sequences1
    BY BoundAssumption DEF LogOK, Sequences1, logVars
  <2>2. model' \in 0 .. MaxSequence
    BY <2>1, BoundAssumption DEF WorkerOK, Sequences1
  <2>3. QED
    BY <2>1, <2>2 DEF WorkerOK
<1>2. more' \in [Subscribers -> BOOLEAN]
  BY DEF ReadersOK, readVars
<1>3. ReadersOK'
  BY <1>2 DEF ReadersOK, readVars
<1>4. BacklogOK' /\ purges' \in Nat /\ restarts' \in Nat
  BY DEF BacklogOK, Offered, WorkerOK, Sequences1
<1>5. Order' /\ Fresh' /\ Again'
  BY DEF StreamInv, Order, Fresh, Again, LogOK, WorkerOK, Sequences1, logVars, workerVars, readVars, IsHighWater
<1>6. ASSUME NEW s \in Subscribers
      PROVE  Behind(s)' /\ Covered(s)' /\ InGap(s)'
  <2>1. Behind(s)'
    BY <1>6 DEF StreamInv, Behind, Order, LogOK, WorkerOK, ReadersOK, BacklogOK, Sequences1, logVars, workerVars, readVars
  <2>2. Covered(s)'
    BY <1>6 DEF StreamInv, Behind, Covered, Shown, Order, LogOK, WorkerOK, ReadersOK, BacklogOK, Sequences1, logVars, workerVars, readVars
  <2>3. InGap(s)'
    BY <1>6 DEF StreamInv, InGap, Missing, Order, LogOK, WorkerOK, ReadersOK, Sequences1, logVars, workerVars, readVars
  <2>4. QED
    BY <2>1, <2>2, <2>3
<1>7. QED
  BY <1>1, <1>3, <1>4, <1>5, <1>6 DEF StreamInv

LEMMA ReconcileFailsIInv == ASSUME IInv, ReconcileFails PROVE IInv'
<1> USE DEF IInv, TypeOK, ReconcileFails
<1>1. LogOK' /\ WorkerOK'
  BY DEF LogOK, WorkerOK, Sequences1, logVars, workerVars, readVars
<1>2. more' \in [Subscribers -> BOOLEAN]
  BY DEF ReadersOK, readVars
<1>3. ReadersOK'
  BY <1>2 DEF ReadersOK, readVars
<1>4. BacklogOK' /\ purges' \in Nat /\ restarts' \in Nat
  BY DEF BacklogOK, Offered, WorkerOK, Sequences1
<1>5. Order' /\ Fresh' /\ Again'
  BY DEF StreamInv, Order, Fresh, Again, LogOK, WorkerOK, Sequences1, logVars, workerVars, readVars
<1>6. ASSUME NEW s \in Subscribers
      PROVE  Behind(s)' /\ Covered(s)' /\ InGap(s)'
  <2>1. Behind(s)'
    BY <1>6 DEF StreamInv, Behind, Order, LogOK, WorkerOK, ReadersOK, BacklogOK, Sequences1, logVars, workerVars, readVars
  <2>2. Covered(s)'
    BY <1>6 DEF StreamInv, Behind, Covered, Shown, Order, LogOK, WorkerOK, ReadersOK, BacklogOK, Sequences1, logVars, workerVars, readVars
  <2>3. InGap(s)'
    BY <1>6 DEF StreamInv, InGap, Missing, Order, LogOK, WorkerOK, ReadersOK, Sequences1, logVars, workerVars, readVars
  <2>4. QED
    BY <2>1, <2>2, <2>3
<1>7. QED
  BY <1>1, <1>3, <1>4, <1>5, <1>6 DEF StreamInv

LEMMA PurgeIInv == ASSUME IInv, Purge PROVE IInv'
<1> USE DEF IInv, TypeOK, Purge
<1>1. LogOK' /\ WorkerOK'
  BY DEF LogOK, WorkerOK, Sequences1, logVars, workerVars, readVars
<1>2. more' \in [Subscribers -> BOOLEAN]
  BY DEF ReadersOK, readVars
<1>3. ReadersOK'
  BY <1>2 DEF ReadersOK, readVars
<1>4. BacklogOK' /\ purges' \in Nat /\ restarts' \in Nat
  BY DEF BacklogOK, Offered, WorkerOK, Sequences1
<1>5. Order' /\ Fresh' /\ Again'
  BY DEF StreamInv, Order, Fresh, Again, LogOK, WorkerOK, Sequences1, logVars, workerVars, readVars
<1>6. ASSUME NEW s \in Subscribers
      PROVE  Behind(s)' /\ Covered(s)' /\ InGap(s)'
  <2>1. Behind(s)'
    BY <1>6 DEF StreamInv, Behind, Order, LogOK, WorkerOK, ReadersOK, BacklogOK, Sequences1, logVars, workerVars, readVars
  <2>2. Covered(s)'
    BY <1>6 DEF StreamInv, Behind, Covered, Shown, Order, LogOK, WorkerOK, ReadersOK, BacklogOK, Sequences1, logVars, workerVars, readVars
  <2>3. InGap(s)'
    BY <1>6 DEF StreamInv, InGap, Missing, Order, LogOK, WorkerOK, ReadersOK, Sequences1, logVars, workerVars, readVars
  <2>4. QED
    BY <2>1, <2>2, <2>3
<1>7. QED
  BY <1>1, <1>3, <1>4, <1>5, <1>6 DEF StreamInv

LEMMA RestartIInv == ASSUME IInv, Restart PROVE IInv'
<1> USE DEF IInv, TypeOK, Restart
<1>1. LogOK' /\ WorkerOK'
  BY BoundAssumption DEF LogOK, WorkerOK, Sequences1, logVars, workerVars, readVars, IsHighWater
<1>2. more' \in [Subscribers -> BOOLEAN]
  BY DEF ReadersOK, readVars
<1>3. ReadersOK'
  BY <1>2, BoundAssumption DEF ReadersOK, readVars
<1>4. BacklogOK' /\ purges' \in Nat /\ restarts' \in Nat
  BY DEF BacklogOK, Offered, WorkerOK, Sequences1
<1>5. Order' /\ Fresh' /\ Again'
  BY DEF StreamInv, Order, Fresh, Again, LogOK, WorkerOK, Sequences1, logVars, workerVars, readVars, IsHighWater
<1>6. ASSUME NEW s \in Subscribers
      PROVE  Behind(s)' /\ Covered(s)' /\ InGap(s)'
  <2>1. Behind(s)'
    BY <1>6 DEF StreamInv, Behind, Order, LogOK, WorkerOK, ReadersOK, BacklogOK, Sequences1, logVars, workerVars, readVars
  <2>2. Covered(s)'
    BY <1>6 DEF StreamInv, Behind, Covered, Shown, Order, LogOK, WorkerOK, ReadersOK, BacklogOK, Sequences1, logVars, workerVars, readVars
  <2>3. InGap(s)'
    BY <1>6 DEF StreamInv, InGap, Missing, Order, LogOK, WorkerOK, ReadersOK, Sequences1, logVars, workerVars, readVars
  <2>4. QED
    BY <2>1, <2>2, <2>3
<1>7. QED
  BY <1>1, <1>3, <1>4, <1>5, <1>6 DEF StreamInv

LEMMA AttachIInv == ASSUME IInv, NEW s \in Subscribers, Attach(s) PROVE IInv'
<1> USE DEF IInv, TypeOK, Attach
<1>1. LogOK' /\ WorkerOK'
  BY DEF LogOK, WorkerOK, logVars, workerVars
<1>2. more' \in [Subscribers -> BOOLEAN]
  BY DEF ReadersOK, readVars
<1>3. ReadersOK'
  <2>1. phase' \in [Subscribers -> {"detached", "waiting", "gap"}]
    BY DEF ReadersOK, readVars
  <2>2. cursor' \in [Subscribers -> 0 .. MaxSequence]
    BY TailFacts DEF ReadersOK, WorkerOK, BacklogOK, Sequences1, readVars
  <2>3. held' \in [Subscribers -> 0 .. MaxSequence]
    BY TailFacts, BoundAssumption DEF ReadersOK, BacklogOK, Sequences1, readVars
  <2>4. page' \in [Subscribers -> SUBSET Sequences1]
    BY DEF ReadersOK, LogOK, Missing, Sequences1, readVars
  <2>5. QED
    BY <1>2, <2>1, <2>2, <2>3, <2>4 DEF ReadersOK
<1>4. BacklogOK' /\ purges' \in Nat /\ restarts' \in Nat
  BY DEF BacklogOK
<1>5. Order' /\ Fresh' /\ Again'
  BY DEF StreamInv, Order, Fresh, Again, logVars, workerVars
<1>6. ASSUME NEW t \in Subscribers
      PROVE  Behind(t)' /\ Covered(t)' /\ InGap(t)'
  <2>1. Behind(t)'
    BY <1>6 DEF StreamInv, Behind, WorkerOK, ReadersOK, BacklogOK, Sequences1, logVars, workerVars, readVars
  <2>2. Covered(t)'
    <3>1. CASE t = s
      BY <1>6, <3>1 DEF Covered, LogOK, WorkerOK, ReadersOK, logVars
    <3>2. CASE t # s
      BY <1>6, <3>2 DEF StreamInv, Covered, Shown, ReadersOK, BacklogOK, logVars, workerVars
    <3>3. QED
      BY <3>1, <3>2
  <2>3. InGap(t)'
    BY <1>6 DEF StreamInv, Behind, InGap, Missing, IsPage, LogOK, WorkerOK, ReadersOK, BacklogOK, Sequences1, logVars, workerVars, readVars
  <2>4. QED
    BY <2>1, <2>2, <2>3
<1>7. QED
  BY <1>1, <1>3, <1>4, <1>5, <1>6 DEF StreamInv

LEMMA DetachIInv == ASSUME IInv, NEW s \in Subscribers, Detach(s) PROVE IInv'
<1> USE DEF IInv, TypeOK, Detach
<1>1. LogOK' /\ WorkerOK'
  BY DEF LogOK, WorkerOK, logVars, workerVars
<1>2. more' \in [Subscribers -> BOOLEAN]
  BY DEF ReadersOK, readVars
<1>3. ReadersOK'
  <2>1. phase' \in [Subscribers -> {"detached", "waiting", "gap"}]
    BY DEF ReadersOK, readVars
  <2>2. cursor' \in [Subscribers -> 0 .. MaxSequence]
    BY BoundAssumption DEF ReadersOK
  <2>3. held' \in [Subscribers -> 0 .. MaxSequence]
    BY TailFacts, BoundAssumption DEF ReadersOK, BacklogOK, Sequences1, readVars
  <2>4. page' \in [Subscribers -> SUBSET Sequences1]
    BY DEF ReadersOK, LogOK, Missing, Sequences1, readVars
  <2>5. QED
    BY <1>2, <2>1, <2>2, <2>3, <2>4 DEF ReadersOK
<1>4. BacklogOK' /\ purges' \in Nat /\ restarts' \in Nat
  BY DEF BacklogOK
<1>5. Order' /\ Fresh' /\ Again'
  BY DEF StreamInv, Order, Fresh, Again, logVars, workerVars
<1>6. ASSUME NEW t \in Subscribers
      PROVE  Behind(t)' /\ Covered(t)' /\ InGap(t)'
  <2>1. Behind(t)'
    BY <1>6 DEF StreamInv, Behind, WorkerOK, ReadersOK, BacklogOK, Sequences1, logVars, workerVars, readVars
  <2>2. Covered(t)'
    <3>1. CASE t = s
      BY <1>6, <3>1 DEF Covered, LogOK, WorkerOK, ReadersOK, logVars
    <3>2. CASE t # s
      BY <1>6, <3>2 DEF StreamInv, Covered, Shown, ReadersOK, BacklogOK, logVars, workerVars
    <3>3. QED
      BY <3>1, <3>2
  <2>3. InGap(t)'
    BY <1>6 DEF StreamInv, Behind, InGap, Missing, IsPage, LogOK, WorkerOK, ReadersOK, BacklogOK, Sequences1, logVars, workerVars, readVars
  <2>4. QED
    BY <2>1, <2>2, <2>3
<1>7. QED
  BY <1>1, <1>3, <1>4, <1>5, <1>6 DEF StreamInv

LEMMA TakeStaleIInv == ASSUME IInv, NEW s \in Subscribers, TakeStale(s) PROVE IInv'
<1> USE DEF IInv, TypeOK, TakeStale, Taking
<1>1. LogOK' /\ WorkerOK'
  BY DEF LogOK, WorkerOK, logVars, workerVars
<1>2. more' \in [Subscribers -> BOOLEAN]
  BY DEF ReadersOK, readVars
<1>3. ReadersOK'
  <2>1. phase' \in [Subscribers -> {"detached", "waiting", "gap"}]
    BY DEF ReadersOK, readVars
  <2>2. cursor' \in [Subscribers -> 0 .. MaxSequence]
    BY TailFacts DEF ReadersOK, WorkerOK, BacklogOK, Sequences1, readVars
  <2>3. held' \in [Subscribers -> 0 .. MaxSequence]
    BY TailFacts, BoundAssumption DEF ReadersOK, BacklogOK, Sequences1, readVars
  <2>4. page' \in [Subscribers -> SUBSET Sequences1]
    BY DEF ReadersOK, LogOK, Missing, Sequences1, readVars
  <2>5. QED
    BY <1>2, <2>1, <2>2, <2>3, <2>4 DEF ReadersOK
<1>4. BacklogOK' /\ purges' \in Nat /\ restarts' \in Nat
  BY DEF BacklogOK
<1>5. Order' /\ Fresh' /\ Again'
  BY DEF StreamInv, Order, Fresh, Again, logVars, workerVars
<1>6. ASSUME NEW t \in Subscribers
      PROVE  Behind(t)' /\ Covered(t)' /\ InGap(t)'
  <2>1. Behind(t)'
    BY <1>6 DEF StreamInv, Behind, WorkerOK, ReadersOK, BacklogOK, Sequences1, logVars, workerVars, readVars
  <2>2. Covered(t)'
    <3>1. CASE t = s
      <4> SUFFICES ASSUME NEW r \in rows', cursor'[s] < r, r <= published' PROVE Shown(s, r)'
        BY <3>1 DEF Covered
      <4>1. backlog[s] \in Seq(Sequences1) /\ backlog'[s] = Tail(backlog[s]) /\ r \in 1 .. last
        BY DEF BacklogOK, LogOK, logVars
      <4>2. cursor[s] <= cursor'[s] /\ cursor[s] \in 0 .. MaxSequence
        BY <4>1, TailFacts DEF ReadersOK, readVars, Sequences1
      <4>3. Shown(s, r)
        <5>1. r \in rows /\ r <= published /\ phase[s] # "detached"
          BY DEF logVars
        <5>2. cursor[s] < r
          <6>1. cursor'[s] \in 0 .. MaxSequence
            BY <1>3 DEF ReadersOK
          <6>2. QED
            BY <4>1, <4>2, <6>1, BoundAssumption DEF LogOK
        <5>3. QED
          BY <5>1, <5>2 DEF StreamInv, Covered
      <4>4. CASE \E i \in 1 .. Len(backlog[s]) : r <= backlog[s][i]
        <5>1. PICK i \in 1 .. Len(backlog[s]) : r <= backlog[s][i]
          BY <4>4
        <5>2. CASE i = 1
          BY <4>1, <5>1, <5>2, TailFacts DEF Shown, ReadersOK, LogOK, Sequences1, readVars
        <5>3. CASE i # 1
          <6>1. i - 1 \in 1 .. Len(Tail(backlog[s])) /\ Tail(backlog[s])[i - 1] = backlog[s][i]
            BY <4>1, <5>1, <5>3, TailFacts
          <6>2. QED
            BY <4>1, <5>1, <6>1 DEF Shown
        <5>4. QED
          BY <5>2, <5>3
      <4>5. CASE worker = "republishing" /\ \E e \in outbox : r <= e
        BY <4>5 DEF Shown, workerVars
      <4>6. QED
        BY <4>3, <4>4, <4>5 DEF Shown
    <3>2. CASE t # s
      BY <1>6, <3>2 DEF StreamInv, Covered, Shown, ReadersOK, BacklogOK, logVars, workerVars, readVars
    <3>3. QED
      BY <3>1, <3>2
  <2>3. InGap(t)'
    BY <1>6 DEF StreamInv, Behind, InGap, Missing, IsPage, LogOK, WorkerOK, ReadersOK, BacklogOK, Sequences1, logVars, workerVars, readVars
  <2>4. QED
    BY <2>1, <2>2, <2>3
<1>7. QED
  BY <1>1, <1>3, <1>4, <1>5, <1>6 DEF StreamInv

LEMMA TakeNextIInv == ASSUME IInv, NEW s \in Subscribers, TakeNext(s) PROVE IInv'
<1> USE DEF IInv, TypeOK, TakeNext, Taking
<1>1. LogOK' /\ WorkerOK'
  BY DEF LogOK, WorkerOK, logVars, workerVars
<1>2. more' \in [Subscribers -> BOOLEAN]
  BY DEF ReadersOK, readVars
<1>3. ReadersOK'
  <2>1. phase' \in [Subscribers -> {"detached", "waiting", "gap"}]
    BY DEF ReadersOK, readVars
  <2>2. cursor' \in [Subscribers -> 0 .. MaxSequence]
    BY TailFacts DEF ReadersOK, WorkerOK, BacklogOK, Sequences1, readVars
  <2>3. held' \in [Subscribers -> 0 .. MaxSequence]
    BY TailFacts, BoundAssumption DEF ReadersOK, BacklogOK, Sequences1, readVars
  <2>4. page' \in [Subscribers -> SUBSET Sequences1]
    BY DEF ReadersOK, LogOK, Missing, Sequences1, readVars
  <2>5. QED
    BY <1>2, <2>1, <2>2, <2>3, <2>4 DEF ReadersOK
<1>4. BacklogOK' /\ purges' \in Nat /\ restarts' \in Nat
  BY DEF BacklogOK
<1>5. Order' /\ Fresh' /\ Again'
  BY DEF StreamInv, Order, Fresh, Again, logVars, workerVars
<1>6. ASSUME NEW t \in Subscribers
      PROVE  Behind(t)' /\ Covered(t)' /\ InGap(t)'
  <2>1. Behind(t)'
    BY <1>6 DEF StreamInv, Behind, WorkerOK, ReadersOK, BacklogOK, Sequences1, logVars, workerVars, readVars
  <2>2. Covered(t)'
    <3>1. CASE t = s
      <4> SUFFICES ASSUME NEW r \in rows', cursor'[s] < r, r <= published' PROVE Shown(s, r)'
        BY <3>1 DEF Covered
      <4>1. backlog[s] \in Seq(Sequences1) /\ backlog'[s] = Tail(backlog[s]) /\ r \in 1 .. last
        BY DEF BacklogOK, LogOK, logVars
      <4>2. cursor[s] <= cursor'[s] /\ cursor[s] \in 0 .. MaxSequence
        BY <4>1, TailFacts DEF ReadersOK, readVars, Sequences1
      <4>3. Shown(s, r)
        <5>1. r \in rows /\ r <= published /\ phase[s] # "detached"
          BY DEF logVars
        <5>2. cursor[s] < r
          <6>1. cursor'[s] \in 0 .. MaxSequence
            BY <1>3 DEF ReadersOK
          <6>2. QED
            BY <4>1, <4>2, <6>1, BoundAssumption DEF LogOK
        <5>3. QED
          BY <5>1, <5>2 DEF StreamInv, Covered
      <4>4. CASE \E i \in 1 .. Len(backlog[s]) : r <= backlog[s][i]
        <5>1. PICK i \in 1 .. Len(backlog[s]) : r <= backlog[s][i]
          BY <4>4
        <5>2. CASE i = 1
          BY <4>1, <5>1, <5>2, TailFacts DEF Shown, ReadersOK, LogOK, Sequences1, readVars
        <5>3. CASE i # 1
          <6>1. i - 1 \in 1 .. Len(Tail(backlog[s])) /\ Tail(backlog[s])[i - 1] = backlog[s][i]
            BY <4>1, <5>1, <5>3, TailFacts
          <6>2. QED
            BY <4>1, <5>1, <6>1 DEF Shown
        <5>4. QED
          BY <5>2, <5>3
      <4>5. CASE worker = "republishing" /\ \E e \in outbox : r <= e
        BY <4>5 DEF Shown, workerVars
      <4>6. QED
        BY <4>3, <4>4, <4>5 DEF Shown
    <3>2. CASE t # s
      BY <1>6, <3>2 DEF StreamInv, Covered, Shown, ReadersOK, BacklogOK, logVars, workerVars, readVars
    <3>3. QED
      BY <3>1, <3>2
  <2>3. InGap(t)'
    BY <1>6 DEF StreamInv, Behind, InGap, Missing, IsPage, LogOK, WorkerOK, ReadersOK, BacklogOK, Sequences1, logVars, workerVars, readVars
  <2>4. QED
    BY <2>1, <2>2, <2>3
<1>7. QED
  BY <1>1, <1>3, <1>4, <1>5, <1>6 DEF StreamInv

LEMMA TakeAcrossGapIInv == ASSUME IInv, NEW s \in Subscribers, TakeAcrossGap(s) PROVE IInv'
<1> USE DEF IInv, TypeOK, TakeAcrossGap, Taking
<1>1. LogOK' /\ WorkerOK'
  BY DEF LogOK, WorkerOK, logVars, workerVars
<1>2. more' \in [Subscribers -> BOOLEAN]
  BY DEF ReadersOK, readVars
<1>3. ReadersOK'
  <2>1. phase' \in [Subscribers -> {"detached", "waiting", "gap"}]
    BY DEF ReadersOK, readVars
  <2>2. cursor' \in [Subscribers -> 0 .. MaxSequence]
    BY TailFacts DEF ReadersOK, WorkerOK, BacklogOK, Sequences1, readVars
  <2>3. held' \in [Subscribers -> 0 .. MaxSequence]
    BY TailFacts, BoundAssumption DEF ReadersOK, BacklogOK, Sequences1, readVars
  <2>4. page' \in [Subscribers -> SUBSET Sequences1]
    BY DEF ReadersOK, LogOK, Missing, Sequences1, readVars
  <2>5. QED
    BY <1>2, <2>1, <2>2, <2>3, <2>4 DEF ReadersOK
<1>4. BacklogOK' /\ purges' \in Nat /\ restarts' \in Nat
  BY DEF BacklogOK
<1>5. Order' /\ Fresh' /\ Again'
  BY DEF StreamInv, Order, Fresh, Again, logVars, workerVars
<1>6. ASSUME NEW t \in Subscribers
      PROVE  Behind(t)' /\ Covered(t)' /\ InGap(t)'
  <2>1. Behind(t)'
    BY <1>6 DEF StreamInv, Behind, WorkerOK, ReadersOK, BacklogOK, Sequences1, logVars, workerVars, readVars
  <2>2. Covered(t)'
    <3>1. CASE t = s
      <4> SUFFICES ASSUME NEW r \in rows', cursor'[s] < r, r <= published' PROVE Shown(s, r)'
        BY <3>1 DEF Covered
      <4>1. backlog[s] \in Seq(Sequences1) /\ backlog'[s] = Tail(backlog[s]) /\ r \in 1 .. last
        BY DEF BacklogOK, LogOK, logVars
      <4>2. cursor[s] <= cursor'[s] /\ cursor[s] \in 0 .. MaxSequence
        BY <4>1, TailFacts DEF ReadersOK, readVars, Sequences1
      <4>3. Shown(s, r)
        <5>1. r \in rows /\ r <= published /\ phase[s] # "detached"
          BY DEF logVars
        <5>2. cursor[s] < r
          <6>1. cursor'[s] \in 0 .. MaxSequence
            BY <1>3 DEF ReadersOK
          <6>2. QED
            BY <4>1, <4>2, <6>1, BoundAssumption DEF LogOK
        <5>3. QED
          BY <5>1, <5>2 DEF StreamInv, Covered
      <4>4. CASE \E i \in 1 .. Len(backlog[s]) : r <= backlog[s][i]
        <5>1. PICK i \in 1 .. Len(backlog[s]) : r <= backlog[s][i]
          BY <4>4
        <5>2. CASE i = 1
          BY <4>1, <5>1, <5>2, TailFacts DEF Shown, ReadersOK, LogOK, Sequences1, readVars
        <5>3. CASE i # 1
          <6>1. i - 1 \in 1 .. Len(Tail(backlog[s])) /\ Tail(backlog[s])[i - 1] = backlog[s][i]
            BY <4>1, <5>1, <5>3, TailFacts
          <6>2. QED
            BY <4>1, <5>1, <6>1 DEF Shown
        <5>4. QED
          BY <5>2, <5>3
      <4>5. CASE worker = "republishing" /\ \E e \in outbox : r <= e
        BY <4>5 DEF Shown, workerVars
      <4>6. QED
        BY <4>3, <4>4, <4>5 DEF Shown
    <3>2. CASE t # s
      BY <1>6, <3>2 DEF StreamInv, Covered, Shown, ReadersOK, BacklogOK, logVars, workerVars, readVars
    <3>3. QED
      BY <3>1, <3>2
  <2>3. InGap(t)'
    <3>1. CASE t = s
      <4>1. backlog[s] \in Seq(Sequences1) /\ held'[s] = Head(backlog[s]) /\ more'[s] /\ page'[s] = {}
        BY DEF BacklogOK, ReadersOK, StreamInv, Behind
      <4>2. held'[s] \in Sequences1 /\ held'[s] <= published
        BY <4>1, TailFacts DEF StreamInv, Behind
      <4>3. cursor'[s] < held'[s]
        BY <4>1, <4>2, BoundAssumption DEF ReadersOK, Sequences1
      <4>4. QED
        BY <3>1, <4>1, <4>2, <4>3 DEF InGap
    <3>2. CASE t # s
      BY <1>6, <3>2 DEF StreamInv, InGap, Missing, ReadersOK, logVars
    <3>3. QED
      BY <3>1, <3>2
  <2>4. QED
    BY <2>1, <2>2, <2>3
<1>7. QED
  BY <1>1, <1>3, <1>4, <1>5, <1>6 DEF StreamInv

LEMMA ReadPageIInv == ASSUME IInv, NEW s \in Subscribers, ReadPage(s) PROVE IInv'
<1> USE DEF IInv, TypeOK, ReadPage
<1>1. LogOK' /\ WorkerOK'
  BY DEF LogOK, WorkerOK, logVars, workerVars
<1>2. more' \in [Subscribers -> BOOLEAN]
  BY DEF ReadersOK, readVars
<1>3. ReadersOK'
  <2>1. phase' \in [Subscribers -> {"detached", "waiting", "gap"}]
    BY DEF ReadersOK, readVars
  <2>2. cursor' \in [Subscribers -> 0 .. MaxSequence]
    BY TailFacts DEF ReadersOK, WorkerOK, BacklogOK, Sequences1, readVars
  <2>3. held' \in [Subscribers -> 0 .. MaxSequence]
    BY TailFacts, BoundAssumption DEF ReadersOK, BacklogOK, Sequences1, readVars
  <2>4. page' \in [Subscribers -> SUBSET Sequences1]
    <3>1. Missing(s) \subseteq Sequences1
      BY MissingFacts
    <3>2. QED
      BY <3>1 DEF ReadersOK
  <2>5. QED
    BY <1>2, <2>1, <2>2, <2>3, <2>4 DEF ReadersOK
<1>4. BacklogOK' /\ purges' \in Nat /\ restarts' \in Nat
  BY DEF BacklogOK
<1>5. Order' /\ Fresh' /\ Again'
  BY DEF StreamInv, Order, Fresh, Again, logVars, workerVars
<1>6. ASSUME NEW t \in Subscribers
      PROVE  Behind(t)' /\ Covered(t)' /\ InGap(t)'
  <2>1. Behind(t)'
    BY <1>6 DEF StreamInv, Behind, WorkerOK, ReadersOK, BacklogOK, Sequences1, logVars, workerVars, readVars
  <2>2. Covered(t)'
    BY <1>6 DEF StreamInv, Behind, Covered, Shown, InGap, LogOK, WorkerOK, ReadersOK, BacklogOK, Sequences1, logVars, workerVars, readVars
  <2>3. InGap(t)'
    BY <1>6 DEF StreamInv, Behind, InGap, Missing, IsPage, LogOK, WorkerOK, ReadersOK, BacklogOK, Sequences1, logVars, workerVars, readVars
  <2>4. QED
    BY <2>1, <2>2, <2>3
<1>7. QED
  BY <1>1, <1>3, <1>4, <1>5, <1>6 DEF StreamInv

LEMMA DeliverReadIInv == ASSUME IInv, NEW s \in Subscribers, DeliverRead(s) PROVE IInv'
<1> USE DEF IInv, TypeOK, DeliverRead
<1>1. LogOK' /\ WorkerOK'
  BY DEF LogOK, WorkerOK, logVars, workerVars
<1>2. more' \in [Subscribers -> BOOLEAN]
  BY DEF ReadersOK, readVars
<1>3. ReadersOK'
  <2>1. phase' \in [Subscribers -> {"detached", "waiting", "gap"}]
    BY DEF ReadersOK, readVars
  <2>2. cursor' \in [Subscribers -> 0 .. MaxSequence]
    BY TailFacts DEF ReadersOK, WorkerOK, BacklogOK, Sequences1, readVars
  <2>3. held' \in [Subscribers -> 0 .. MaxSequence]
    BY TailFacts, BoundAssumption DEF ReadersOK, BacklogOK, Sequences1, readVars
  <2>4. page' \in [Subscribers -> SUBSET Sequences1]
    BY DEF ReadersOK, LogOK, Missing, Sequences1, readVars
  <2>5. QED
    BY <1>2, <2>1, <2>2, <2>3, <2>4 DEF ReadersOK
<1>4. BacklogOK' /\ purges' \in Nat /\ restarts' \in Nat
  BY DEF BacklogOK
<1>5. Order' /\ Fresh' /\ Again'
  BY DEF StreamInv, Order, Fresh, Again, logVars, workerVars
<1>6. ASSUME NEW t \in Subscribers
      PROVE  Behind(t)' /\ Covered(t)' /\ InGap(t)'
  <2>1. Behind(t)'
    BY <1>6 DEF StreamInv, Behind, InGap, WorkerOK, ReadersOK, BacklogOK, Sequences1, logVars, workerVars, readVars
  <2>2. Covered(t)'
    BY <1>6 DEF StreamInv, Behind, Covered, Shown, InGap, LogOK, WorkerOK, ReadersOK, BacklogOK, Sequences1, logVars, workerVars, readVars
  <2>3. InGap(t)'
    BY <1>6 DEF StreamInv, Behind, InGap, Missing, IsPage, LogOK, WorkerOK, ReadersOK, BacklogOK, Sequences1, logVars, workerVars, readVars
  <2>4. QED
    BY <2>1, <2>2, <2>3
<1>7. QED
  BY <1>1, <1>3, <1>4, <1>5, <1>6 DEF StreamInv

LEMMA DeliverHeldIInv == ASSUME IInv, NEW s \in Subscribers, DeliverHeld(s) PROVE IInv'
<1> USE DEF IInv, TypeOK, DeliverHeld
<1>1. LogOK' /\ WorkerOK'
  BY DEF LogOK, WorkerOK, logVars, workerVars
<1>2. more' \in [Subscribers -> BOOLEAN]
  BY DEF ReadersOK, readVars
<1>3. ReadersOK'
  <2>1. phase' \in [Subscribers -> {"detached", "waiting", "gap"}]
    BY DEF ReadersOK, readVars
  <2>2. cursor' \in [Subscribers -> 0 .. MaxSequence]
    BY TailFacts DEF ReadersOK, WorkerOK, BacklogOK, Sequences1, readVars
  <2>3. held' \in [Subscribers -> 0 .. MaxSequence]
    BY TailFacts, BoundAssumption DEF ReadersOK, BacklogOK, Sequences1, readVars
  <2>4. page' \in [Subscribers -> SUBSET Sequences1]
    BY DEF ReadersOK, LogOK, Missing, Sequences1, readVars
  <2>5. QED
    BY <1>2, <2>1, <2>2, <2>3, <2>4 DEF ReadersOK
<1>4. BacklogOK' /\ purges' \in Nat /\ restarts' \in Nat
  BY DEF BacklogOK
<1>5. Order' /\ Fresh' /\ Again'
  BY DEF StreamInv, Order, Fresh, Again, logVars, workerVars
<1>6. ASSUME NEW t \in Subscribers
      PROVE  Behind(t)' /\ Covered(t)' /\ InGap(t)'
  <2>1. Behind(t)'
    BY <1>6 DEF StreamInv, Behind, InGap, WorkerOK, ReadersOK, BacklogOK, Sequences1, logVars, workerVars, readVars
  <2>2. Covered(t)'
    BY <1>6 DEF StreamInv, Behind, Covered, Shown, InGap, LogOK, WorkerOK, ReadersOK, BacklogOK, Sequences1, logVars, workerVars, readVars
  <2>3. InGap(t)'
    BY <1>6 DEF StreamInv, Behind, InGap, Missing, IsPage, LogOK, WorkerOK, ReadersOK, BacklogOK, Sequences1, logVars, workerVars, readVars
  <2>4. QED
    BY <2>1, <2>2, <2>3
<1>7. QED
  BY <1>1, <1>3, <1>4, <1>5, <1>6 DEF StreamInv

LEMMA StutterIInv == ASSUME IInv, UNCHANGED vars PROVE IInv'
<1> USE DEF vars, logVars, workerVars, readVars
<1>1. TypeOK'
  <2>1. more' \in [Subscribers -> BOOLEAN]
    BY DEF IInv, TypeOK, ReadersOK
  <2>2. QED
    BY <2>1 DEF IInv, TypeOK, LogOK, WorkerOK, ReadersOK, BacklogOK
<1>2. Order' /\ Fresh' /\ Again'
  BY DEF IInv, StreamInv, Order, Fresh, Again
<1>3. \A s \in Subscribers : Behind(s)' /\ Covered(s)' /\ InGap(s)'
  BY DEF IInv, StreamInv, Behind, Covered, Shown, InGap, Missing
<1>4. QED
  BY <1>1, <1>2, <1>3 DEF IInv, StreamInv

\* Every step preserves the invariant.
LEMMA StepIInv == IInv /\ [Next]_vars => IInv'
<1> SUFFICES ASSUME IInv, [Next]_vars PROVE IInv'
  OBVIOUS
<1>1. CASE Commit
  BY <1>1, CommitIInv
<1>2. CASE Assign
  BY <1>2, AssignIInv
<1>3. CASE PublishNext
  BY <1>3, PublishNextIInv
<1>4. CASE PublishDone
  BY <1>4, PublishDoneIInv
<1>5. CASE Interrupt
  BY <1>5, InterruptIInv
<1>6. CASE Reconcile
  BY <1>6, ReconcileIInv
<1>7. CASE ReconcileFails
  BY <1>7, ReconcileFailsIInv
<1>8. CASE Purge
  BY <1>8, PurgeIInv
<1>9. CASE Restart
  BY <1>9, RestartIInv
<1>10. ASSUME NEW s \in Subscribers, Attach(s) \/ Detach(s) \/ Stream(s) PROVE IInv'
  <2>1. CASE Attach(s)
    BY <2>1, AttachIInv
  <2>2. CASE Detach(s)
    BY <2>2, DetachIInv
  <2>3. CASE TakeStale(s)
    BY <2>3, TakeStaleIInv
  <2>4. CASE TakeNext(s)
    BY <2>4, TakeNextIInv
  <2>5. CASE TakeAcrossGap(s)
    BY <2>5, TakeAcrossGapIInv
  <2>6. CASE ReadPage(s)
    BY <2>6, ReadPageIInv
  <2>7. CASE DeliverRead(s)
    BY <2>7, DeliverReadIInv
  <2>8. CASE DeliverHeld(s)
    BY <2>8, DeliverHeldIInv
  <2>9. QED
    BY <1>10, <2>1, <2>2, <2>3, <2>4, <2>5, <2>6, <2>7, <2>8 DEF Stream
<1>11. CASE UNCHANGED vars
  BY <1>11, StutterIInv
<1>12. QED
  BY <1>1, <1>2, <1>3, <1>4, <1>5, <1>6, <1>7, <1>8, <1>9, <1>10, <1>11 DEF Next, Worker

\* The types of all variables hold in every reachable state.
THEOREM StreamTypeCorrect == Spec => []TypeOK
<1>1. IInv => TypeOK
  BY DEF IInv
<1>2. QED
  BY <1>1, InitIInv, StepIInv, PTL DEF Spec

\* A subscriber that has drained its subscription has everything that was published since it
\* attached, except while a reconciliation publishes again.
THEOREM DrainedCorrect == Spec => []DrainedMeansCaughtUp
<1>1. IInv => DrainedMeansCaughtUp
  <2> SUFFICES ASSUME IInv, NEW s \in Subscribers, phase[s] = "waiting", backlog[s] = <<>>,
                      worker # "republishing", NEW r \in rows, r <= published
               PROVE  r <= cursor[s]
    BY DEF DrainedMeansCaughtUp
  <2>1. ~Shown(s, r)
    BY DEF Shown
  <2>2. ~(cursor[s] < r)
    BY <2>1 DEF IInv, StreamInv, Covered
  <2>3. QED
    BY <2>2, BoundAssumption DEF IInv, TypeOK, LogOK, ReadersOK
<1>2. QED
  BY <1>1, InitIInv, StepIInv, PTL DEF Spec

\* A gap read stays inside its gap and leaves nothing behind.
THEOREM GapReadCorrect == Spec => []GapReadInOrder
<1>1. IInv => GapReadInOrder
  BY DEF IInv, StreamInv, InGap, GapReadInOrder
<1>2. QED
  BY <1>1, InitIInv, StepIInv, PTL DEF Spec

\* A step of the stream is a step of LogReader or a stutter.
LEMMA ReaderStep == IInv /\ IInv' /\ [Next]_vars => [Reader!ReaderNext]_(Reader!readerVars)
<1> SUFFICES ASSUME IInv, IInv', [Next]_vars PROVE [Reader!ReaderNext]_(Reader!readerVars)
  OBVIOUS
<1> USE DEF IInv, TypeOK, Reader!readerVars, position
<1>1. CASE Commit
  <2>1. Reader!AppendRows
    BY <1>1, BoundAssumption DEF Commit, Reader!AppendRows, LogOK, readVars
  <2>2. QED
    BY <2>1 DEF Reader!ReaderNext
<1>2. CASE PublishNext
  <2>1. Reader!Announce
    <3>1. published' \in published .. last
      BY <1>2, BoundAssumption DEF PublishNext, StreamInv, Order, LogOK, WorkerOK, Sequences1, logVars
    <3>2. QED
      BY <1>2, <3>1 DEF PublishNext, Reader!Announce, logVars, readVars
  <2>2. QED
    BY <2>1 DEF Reader!ReaderNext
<1>3. CASE Purge
  <2>1. Reader!Purge
    BY <1>3 DEF Purge, Reader!Purge, readVars
  <2>2. QED
    BY <2>1 DEF Reader!ReaderNext
<1>4. CASE Restart
  <2>1. Reader!Reset
    BY <1>4 DEF Restart, Reader!Reset, Reader!Detached, logVars
  <2>2. QED
    BY <2>1 DEF Reader!ReaderNext
<1>5. CASE Assign \/ PublishDone \/ Interrupt \/ Reconcile \/ ReconcileFails \/ UNCHANGED vars
  BY <1>5 DEF Assign, PublishDone, Interrupt, Reconcile, ReconcileFails, vars, logVars, readVars
<1>6. ASSUME NEW s \in Subscribers, Attach(s) \/ Detach(s) \/ Stream(s)
      PROVE  [Reader!ReaderNext]_(Reader!readerVars)
  <2>1. CASE Attach(s)
    <3>1. Reader!Join(s)
      BY <2>1 DEF Attach, Reader!Join, Reader!Detached, ReadersOK, logVars
    <3>2. QED
      BY <3>1 DEF Reader!ReaderNext
  <2>2. CASE Detach(s)
    <3>1. Reader!Leave(s)
      BY <2>2 DEF Detach, Reader!Leave, Reader!Detached, ReadersOK, logVars
    <3>2. QED
      BY <3>1 DEF Reader!ReaderNext
  <2>3. ASSUME NEW q \in Sequences1, phase[s] # "detached", cursor[s] < q, q <= published,
               \A r \in rows : ~(cursor[s] < r /\ r < q),
               cursor' = [cursor EXCEPT ![s] = q],
               \A t \in Subscribers : phase'[t] = "detached" <=> phase[t] = "detached",
               UNCHANGED <<rows, last, published>>
        PROVE  [Reader!ReaderNext]_(Reader!readerVars)
    <3>1. position[s] = cursor[s] /\ position' = [position EXCEPT ![s] = q]
      BY <2>3 DEF ReadersOK
    <3>2. position[s] # Reader!Detached /\ q \in (position[s] + 1) .. published
      BY <2>3, <3>1, BoundAssumption DEF Reader!Detached, ReadersOK, WorkerOK, Sequences1
    <3>3. Reader!Receive(s)
      BY <2>3, <3>1, <3>2 DEF Reader!Receive
    <3>4. QED
      BY <3>3 DEF Reader!ReaderNext
  <2>4. CASE TakeNext(s)
    <3>1. Head(backlog[s]) \in Sequences1 /\ Head(backlog[s]) <= published
      BY <2>4, TailFacts DEF TakeNext, Taking, BacklogOK, StreamInv, Behind
    <3>2. \A r \in rows : ~(cursor[s] < r /\ r < Head(backlog[s]))
      BY <2>4, BoundAssumption DEF TakeNext, LogOK, ReadersOK
    <3>3. cursor[s] < Head(backlog[s])
      BY <2>4, BoundAssumption DEF TakeNext, ReadersOK
    <3>4. QED
      BY <2>3, <2>4, <3>1, <3>2, <3>3 DEF TakeNext, Taking, logVars
  <2>5. CASE DeliverRead(s)
    <3>1. PICK e \in page[s] : (\A d \in page[s] : e <= d) /\ cursor' = [cursor EXCEPT ![s] = e]
      BY <2>5 DEF DeliverRead
    <3>2. e \in Sequences1 /\ cursor[s] < e /\ e < held[s] /\ held[s] <= published
      BY <2>5 DEF DeliverRead, StreamInv, InGap, ReadersOK
    <3>3. \A r \in rows : ~(cursor[s] < r /\ r < e)
      <4> SUFFICES ASSUME NEW r \in rows, cursor[s] < r, r < e PROVE FALSE
        OBVIOUS
      <4>1. r \in Missing(s)
        BY <3>2, BoundAssumption DEF Missing, LogOK, ReadersOK, Sequences1
      <4>2. r \notin page[s]
        BY <3>1, BoundAssumption DEF LogOK, Sequences1, ReadersOK
      <4>3. e < r
        BY <2>5, <4>1, <4>2 DEF DeliverRead, StreamInv, InGap
      <4>4. QED
        BY <3>2, <4>3, BoundAssumption DEF LogOK, Sequences1
    <3>4. e <= published
      BY <3>2, BoundAssumption DEF Sequences1, WorkerOK, ReadersOK
    <3>5. QED
      BY <2>3, <2>5, <3>1, <3>2, <3>3, <3>4 DEF DeliverRead, logVars
  <2>6. CASE DeliverHeld(s)
    <3>1. held[s] \in Sequences1 /\ cursor[s] < held[s] /\ held[s] <= published
      BY <2>6, BoundAssumption DEF DeliverHeld, StreamInv, InGap, ReadersOK, Sequences1
    <3>2. \A r \in rows : ~(cursor[s] < r /\ r < held[s])
      BY <2>6 DEF DeliverHeld, StreamInv, InGap, Missing
    <3>3. \A t \in Subscribers : phase'[t] = "detached" <=> phase[t] = "detached"
      BY <2>6 DEF DeliverHeld, ReadersOK
    <3>4. QED
      BY <2>3, <2>6, <3>1, <3>2, <3>3 DEF DeliverHeld, logVars
  <2>7. CASE TakeStale(s) \/ ReadPage(s)
    BY <2>7 DEF TakeStale, ReadPage, logVars, readVars
  <2>8. CASE TakeAcrossGap(s)
    BY <2>8 DEF TakeAcrossGap, Taking, ReadersOK, logVars
  <2>9. QED
    BY <1>6, <2>1, <2>2, <2>4, <2>5, <2>6, <2>7, <2>8 DEF Stream
<1>7. QED
  BY <1>1, <1>2, <1>3, <1>4, <1>5, <1>6 DEF Next, Worker

\* The stream delivers what LogReader promises: in order, once, and nothing left out that is
\* in the log.
THEOREM StreamImplementsReader == Spec => ReaderSteps
<1>1. Init => Reader!ReaderInit
  BY DEF Init, Reader!ReaderInit, Reader!Detached, position
<1>2. QED
  BY <1>1, InitIInv, StepIInv, ReaderStep, PTL DEF Spec, ReaderSteps

=============================================================================
