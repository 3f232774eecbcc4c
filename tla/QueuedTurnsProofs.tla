------------------------- MODULE QueuedTurnsProofs -------------------------
(***************************************************************************)
(* Theorems about QueuedTurns, for every set of threads of a session and   *)
(* of modes, requests and faults, and any number of messages: a message is *)
(* given to the provider once, and those that wait keep their order.       *)
(***************************************************************************)
EXTENDS QueuedTurns, TLAPS, FiniteSetTheorems, WellFoundedInduction

-----------------------------------------------------------------------------
(* Where a message is *)

\* What the source handles fits the event behind the cursor.
HandlesItsEvent ==
    /\ src.step # "idle" => At \in Seqs
    /\ src.step = "queued" => log[At].kind = "queued"
    /\ src.step \in {"look", "requeue", "send", "bind", "exit", "orphan"} => log[At].kind = "start"
    /\ src.step = "settle" => log[At].kind \in {"start", "edit"}
    /\ src.step \in {"edit", "replace", "resend"} => log[At].kind = "edit"
    /\ inflight <=> src.step \notin {"idle", "queued"}

\* The handler of the event has given its message away: to the provider, the queue, or the log.
Consumed(s) == s = At /\ src.step \in {"bind", "exit", "orphan", "settle"}

\* Only turn starts have rows, and a turn start has none before it is consumed.
RowsOfStarts ==
    /\ \A s \in Seqs : row[s].state # "none" => log[s].kind \in Starts
    /\ \A s \in Seqs : log[s].kind = "start" /\ s > cursor /\ ~Consumed(s) => row[s].state = "none"

\* A fiber that drains is at a queue, and one that promotes holds a row.
PromotesRows ==
    \A f \in Fibers :
        /\ fiber[f].step \in {"guard", "claim", "reserve", "dispatch", "mark", "undo"} => fiber[f].todo # <<>>
        /\ fiber[f].step \in {"reserve", "dispatch", "mark", "undo"} =>
            fiber[f].at \in Seqs /\ row[fiber[f].at].state # "none"

\* The event s may still lead to one more turn of its message: a promotion of its row that the
\* engine has not accepted yet, or a handler that has not consumed it.
Live(s) ==
    \/ log[s].kind = "queued" /\ s \notin dispatched
    \/ log[s].kind = "start" /\ row[s].state # "none" /\ s \notin dispatched
    \/ log[s].kind \in {"start", "edit"} /\ s > cursor /\ ~Consumed(s)

LiveOf(m) == {s \in Seqs : log[s].msg = m /\ Live(s)}

Budget ==
    \A m \in Messages :
        /\ sent[m] + Cardinality(LiveOf(m)) <= 1 + Cardinality(Resends(m))
        /\ sent[m] > 0 => \E s \in Seqs : log[s].msg = m

Places == HandlesItsEvent /\ RowsOfStarts /\ PromotesRows

IInv == TypeOK /\ Places /\ Budget

-----------------------------------------------------------------------------
(* Operators *)

\* A set of numbers with a bound has a smallest and a largest element.
LEMMA Smallest == ASSUME NEW S \in SUBSET Nat, S # {} PROVE \E m \in S : \A e \in S : e >= m
<1>1. PICK m \in S : \A e \in S : <<e, m>> \notin OpToRel(<, Nat)
  BY NatLessThanWellFounded, WFMin
<1>2. ASSUME NEW e \in S PROVE e >= m
  <2>1. e \in Nat /\ m \in Nat
    OBVIOUS
  <2>2. ~(e < m)
    BY <1>1, <2>1 DEF OpToRel
  <2>3. QED
    BY <2>1, <2>2
<1>3. QED
  BY <1>2

LEMMA MinFacts ==
  ASSUME NEW S \in SUBSET Nat, S # {}
  PROVE  Min(S) \in S /\ \A e \in S : Min(S) <= e
<1>1. \E m \in S : \A e \in S : m <= e
  BY Smallest
<1>2. QED
  BY <1>1 DEF Min

LEMMA MaxFacts ==
  ASSUME NEW top \in Nat, NEW S \in SUBSET (0 .. top), S # {}
  PROVE  Max(S) \in S /\ \A e \in S : e <= Max(S)
<1> DEFINE rest == {top - e : e \in S}
<1>1. \A e \in S : top - e \in Nat
  OBVIOUS
<1>2. rest \in SUBSET Nat /\ rest # {}
  BY <1>1
<1>3. PICK r \in rest : \A q \in rest : q >= r
  BY <1>2, Smallest
<1>4. PICK m \in S : r = top - m
  OBVIOUS
<1>5. ASSUME NEW e \in S PROVE m >= e
  <2>1. top - e \in rest
    OBVIOUS
  <2>2. top - e >= top - m
    BY <1>3, <1>4, <2>1
  <2>3. QED
    BY <2>2
<1>6. QED
  BY <1>5 DEF Max

\* The threads of a session are finitely many, so its queues can be listed.
LEMMA ThreadsFinite == IsFiniteSet(Threads)
<1>1. Threads = Children \cup {Root}
  BY DEF Threads
<1>2. QED
  BY <1>1, ThreadsAssumption, FS_AddElement

\* The queues of a session are a sequence of threads.
LEMMA SetToSeqFacts ==
  ASSUME NEW S \in SUBSET Threads
  PROVE  SetToSeq(S) \in Seq(Threads)
<1>1. IsFiniteSet(S)
  BY ThreadsFinite, FS_Subset
<1>2. Cardinality(S) \in Nat /\ ExistsBijection(1 .. Cardinality(S), S)
  BY <1>1, FS_CardinalityType
<1>3. PICK f \in Bijection(1 .. Cardinality(S), S) : TRUE
  BY <1>2 DEF ExistsBijection
<1>4. f \in [1 .. Cardinality(S) -> S] /\ IsInjective(f)
  BY <1>3 DEF Bijection, Injection, IsInjective
<1>5. SetToSeq(S) \in [1 .. Cardinality(S) -> S]
  BY <1>4 DEF SetToSeq
<1>6. QED
  BY <1>2, <1>5

LEMMA QueuesFacts ==
  ASSUME NEW t \in Threads
  PROVE  SessionQueues(t) \in Seq(Threads)
<1>1. SetToSeq({u \in Threads \ {t} : Pending(u) # {}}) \in Seq(Threads)
  BY SetToSeqFacts
<1>2. <<t>> \in Seq(Threads)
  OBVIOUS
<1>3. QED
  BY <1>1, <1>2 DEF SessionQueues

\* The engine appends an event that has no row.
LEMMA CommitFacts ==
  ASSUME TypeOK, NEW kind \in Intents, NEW t \in Threads, NEW m \in 0 .. MaxMessages,
         NEW mode \in Modes \cup {"queue", "none"}, Commit(kind, t, m, mode)
  PROVE  LET n == Len(log) + 1
             event == [kind |-> kind, thread |-> t, msg |-> m, mode |-> mode]
         IN  /\ log' \in Seq(Events) /\ row' \in Seq(Rows) /\ Len(row') = Len(log')
             /\ Len(log') = n /\ n \notin Seqs /\ Seqs' = Seqs \cup {n}
             /\ \A s \in Seqs : log'[s] = log[s] /\ row'[s] = row[s]
             /\ log'[n] = event /\ row'[n] = NoRow
<1>1. [kind |-> kind, thread |-> t, msg |-> m, mode |-> mode] \in Events /\ NoRow \in Rows
  BY DEF Events, NoRow, Rows
<1>2. log \in Seq(Events) /\ row \in Seq(Rows) /\ Len(row) = Len(log)
  BY DEF TypeOK, DiskOK
<1>3. QED
  BY <1>1, <1>2 DEF Commit, Seqs

\* Rows that are settled keep their places.
LEMMA SettledFacts ==
  ASSUME TypeOK, NEW S, NEW state \in {"queued", "promoted", "cancelled"}, 
         \A s \in S \cap Seqs : row[s].state # "none"
  PROVE  LET new == Settled(S, state)
         IN  /\ new \in Seq(Rows) /\ Len(new) = Len(log)
             /\ \A s \in Seqs : /\ new[s].owner <= boot
                                /\ new[s].state # "none" <=> row[s].state # "none"
                                /\ new[s].state = IF s \in S THEN state ELSE row[s].state
                                /\ s \notin S => new[s] = row[s]
<1>1. /\ Len(log) \in Nat /\ row \in [Seqs -> Rows] /\ boot \in Nat
      /\ \A s \in Seqs : row[s].owner <= boot
  BY DEF TypeOK, DiskOK, Seqs
<1>2. \A s \in Seqs : [row[s] EXCEPT !.state = state, !.owner = 0] \in Rows
  BY <1>1 DEF Rows
<1>3. Settled(S, state) \in [Seqs -> Rows]
  BY <1>1, <1>2 DEF Settled
<1>4. Settled(S, state) \in Seq(Rows) /\ Len(Settled(S, state)) = Len(log)
  BY <1>1, <1>3 DEF Seqs
<1>5. \A s \in Seqs : /\ Settled(S, state)[s].owner <= boot
                      /\ Settled(S, state)[s].state = IF s \in S THEN state ELSE row[s].state
                      /\ s \notin S => Settled(S, state)[s] = row[s]
  BY <1>1 DEF Settled, Rows
<1>6. QED
  BY <1>4, <1>5

\* A cancellation removes no row and adds none.
LEMMA CancelFacts ==
  ASSUME TypeOK, NEW T
  PROVE  LET new == CancelThreads(T)
         IN  /\ new \in Seq(Rows) /\ Len(new) = Len(log)
             /\ \A s \in Seqs : /\ new[s].owner <= boot
                                /\ new[s].state # "none" <=> row[s].state # "none"
BY SettledFacts DEF CancelThreads, Pending, Active

\* A message that is queued again changes the row of its own event only.
LEMMA EnqueuedFacts ==
  ASSUME TypeOK, At \in Seqs
  PROVE  LET new == Enqueued(At)
         IN  /\ new \in Seq(Rows) /\ Len(new) = Len(log)
             /\ \A s \in Seqs : /\ new[s].owner <= boot
                                /\ s # At => new[s] = row[s]
<1>1. row \in Seq(Rows) /\ Len(row) = Len(log) /\ \A s \in Seqs : row[s].owner <= boot
  BY DEF TypeOK, DiskOK
<1>2. [row[At] EXCEPT !.state = "queued"] \in Rows /\ [row[At] EXCEPT !.state = "queued"].owner = row[At].owner
  <2>1. row[At] \in Rows
    BY <1>1 DEF Seqs
  <2>2. QED
    BY <2>1 DEF Rows
<1>3. CASE Enqueued(At) = row
  BY <1>1, <1>3
<1>4. CASE Enqueued(At) = [row EXCEPT ![At].state = "queued"]
  BY <1>1, <1>2, <1>4 DEF Seqs
<1>5. QED
  BY <1>3, <1>4 DEF Enqueued

\* The next claim is a row that waits.
LEMMA ClaimFacts ==
  ASSUME TypeOK, NEW t, Claimable(t) # {}
  PROVE  NextClaim(t) \in Claimable(t) /\ Claimable(t) \subseteq Pending(t) /\ Pending(t) \subseteq Seqs
<1>1. Claimable(t) \subseteq Pending(t) /\ Pending(t) \subseteq Seqs
  BY DEF Claimable, Foreign, Pending
<1>2. Len(log) \in Nat /\ Seqs \subseteq 0 .. Len(log)
  BY DEF TypeOK, DiskOK, Seqs
<1> DEFINE steers == {s \in Claimable(t) : log[s].mode = "steer"}
<1>3. CASE steers # {}
  <2>1. steers \in SUBSET (0 .. Len(log))
    BY <1>1, <1>2
  <2>2. Max(steers) \in steers
    BY <1>2, <1>3, <2>1, MaxFacts
  <2>3. QED
    BY <1>1, <1>3, <2>2 DEF NextClaim
<1>4. CASE steers = {}
  <2>1. Claimable(t) \in SUBSET Nat
    <3>1. 0 .. Len(log) \subseteq Nat
      BY <1>2
    <3>2. QED
      BY <1>1, <1>2, <3>1
  <2>2. QED
    BY <1>1, <1>4, <2>1, MinFacts DEF NextClaim
<1>5. QED
  BY <1>3, <1>4

-----------------------------------------------------------------------------
(* Steps that commit nothing and give nothing to the provider *)

\* No row goes, and none comes.
RowsStay == \A s \in Seqs : row[s].state # "none" => row'[s].state # "none"
SameRows == \A s \in Seqs : row'[s].state # "none" <=> row[s].state # "none"

\* The deliveries a message may still get, and those its edits allow, can be counted.
LEMMA CountFacts ==
  ASSUME TypeOK, NEW m
  PROVE  /\ IsFiniteSet(LiveOf(m)) /\ Cardinality(LiveOf(m)) \in Nat
         /\ IsFiniteSet(Resends(m)) /\ Cardinality(Resends(m)) \in Nat
         /\ IsFiniteSet(Seqs)
<1>1. IsFiniteSet(Seqs)
  BY FS_Interval DEF TypeOK, DiskOK, Seqs
<1>2. LiveOf(m) \in SUBSET Seqs /\ Resends(m) \in SUBSET Seqs
  BY DEF LiveOf, Resends
<1>3. IsFiniteSet(LiveOf(m)) /\ IsFiniteSet(Resends(m))
  BY <1>1, <1>2, FS_Subset
<1>4. QED
  BY <1>1, <1>3, FS_CardinalityType

\* Where nothing becomes live, the budget is kept.
LEMMA BudgetKept ==
  ASSUME IInv, UNCHANGED <<log, sent>>, \A s \in Seqs : Live(s)' => Live(s)
  PROVE  Budget'
<1>1. Seqs' = Seqs /\ \A m : Resends(m)' = Resends(m)
  BY DEF Seqs, Resends
<1>2. ASSUME NEW m \in Messages PROVE Cardinality(LiveOf(m)') <= Cardinality(LiveOf(m)) /\ Cardinality(LiveOf(m)') \in Nat
  <2>1. LiveOf(m)' \in SUBSET LiveOf(m)
    BY <1>1 DEF LiveOf
  <2>2. IsFiniteSet(LiveOf(m))
    BY CountFacts DEF IInv
  <2>3. QED
    BY <2>1, <2>2, FS_Subset, FS_CardinalityType
<1>3. ASSUME NEW m \in Messages
      PROVE  /\ sent'[m] + Cardinality(LiveOf(m)') <= 1 + Cardinality(Resends(m)')
             /\ sent'[m] > 0 => \E s \in Seqs' : log'[s].msg = m
  <2>1. sent[m] \in Nat /\ Cardinality(LiveOf(m)) \in Nat /\ Cardinality(Resends(m)) \in Nat
    BY CountFacts DEF IInv, TypeOK
  <2>2. /\ sent[m] + Cardinality(LiveOf(m)) <= 1 + Cardinality(Resends(m))
        /\ sent[m] > 0 => \E s \in Seqs : log[s].msg = m
    BY DEF IInv, Budget
  <2>3. sent'[m] = sent[m] /\ Resends(m)' = Resends(m) /\ log' = log /\ Seqs' = Seqs
    BY <1>1
  <2>4. QED
    BY <1>2, <2>1, <2>2, <2>3
<1>4. QED
  BY <1>3 DEF Budget

\* A step of a fiber leaves the source alone.
LEMMA FiberKeeps ==
  ASSUME IInv, TypeOK', UNCHANGED <<log, cursor, inflight, sent>>, src'.step = src.step,
         dispatched \subseteq dispatched', SameRows, PromotesRows'
  PROVE  IInv'
<1>1. Seqs' = Seqs /\ At' = At /\ \A s : Consumed(s)' <=> Consumed(s)
  BY DEF Seqs, At, Consumed
<1>2. HandlesItsEvent'
  BY <1>1 DEF IInv, Places, HandlesItsEvent
<1>3. RowsOfStarts'
  BY <1>1 DEF IInv, Places, RowsOfStarts, SameRows
<1>4. \A s \in Seqs : Live(s)' => Live(s)
  BY <1>1 DEF Live, SameRows
<1>5. Budget'
  BY <1>4, BudgetKept
<1>6. QED
  BY <1>2, <1>3, <1>5 DEF IInv, Places

FiberRecords ==
    [step : {"none", "next", "guard", "claim", "reserve", "dispatch", "mark", "undo"},
     todo : Seq(Threads), at : 0..Len(log), recover : BOOLEAN]

\* What a fiber that drains may turn into.
LEMMA FiberFacts ==
  ASSUME IInv, NEW f \in Fibers
  PROVE  /\ fiber \in [Fibers -> FiberRecords] /\ fiber[f] \in FiberRecords
         /\ NoDrain \in FiberRecords /\ NoDrain.step = "none"
         /\ \A step \in {"next", "guard", "claim", "reserve", "dispatch", "mark", "undo"} :
              LET r == [fiber[f] EXCEPT !.step = step]
              IN  r \in FiberRecords /\ r.step = step /\ r.at = fiber[f].at /\ r.todo = fiber[f].todo
         /\ fiber[f].todo # <<>> =>
              Thread(f) \in Threads /\ NextThread(f) \in FiberRecords /\ NextThread(f).step = "next"
<1>1. fiber \in [Fibers -> FiberRecords] /\ fiber[f] \in FiberRecords
  BY DEF IInv, TypeOK, MemoryOK, FiberRecords
<1>2. NoDrain \in FiberRecords /\ NoDrain.step = "none"
  <2>1. <<>> \in Seq(Threads) /\ 0 \in 0 .. Len(log)
    BY DEF IInv, TypeOK, DiskOK
  <2>2. QED
    BY <2>1 DEF NoDrain, FiberRecords
<1>3. \A step \in {"next", "guard", "claim", "reserve", "dispatch", "mark", "undo"} :
        LET r == [fiber[f] EXCEPT !.step = step]
        IN  r \in FiberRecords /\ r.step = step /\ r.at = fiber[f].at /\ r.todo = fiber[f].todo
  BY <1>1 DEF FiberRecords
<1>4. ASSUME fiber[f].todo # <<>>
      PROVE  Thread(f) \in Threads /\ NextThread(f) \in FiberRecords /\ NextThread(f).step = "next"
  <2>1. fiber[f].todo \in Seq(Threads)
    BY <1>1 DEF FiberRecords
  <2>2. Thread(f) \in Threads /\ Tail(fiber[f].todo) \in Seq(Threads)
    BY <1>4, <2>1 DEF Thread
  <2>3. 0 \in 0 .. Len(log)
    BY DEF IInv, TypeOK, DiskOK
  <2> DEFINE q == [fiber[f] EXCEPT !.step = "next"]
             r == [q EXCEPT !.todo = Tail(fiber[f].todo)]
  <2>4. q \in FiberRecords /\ q.step = "next" /\ q.todo = fiber[f].todo
    BY <1>1 DEF FiberRecords
  <2> HIDE DEF q
  <2>5. r \in FiberRecords /\ r.step = "next"
    BY <2>2, <2>4 DEF FiberRecords
  <2> HIDE DEF r
  <2>6. [r EXCEPT !.at = 0] \in FiberRecords /\ [r EXCEPT !.at = 0].step = "next"
    BY <2>3, <2>5 DEF FiberRecords
  <2>7. NextThread(f) = [r EXCEPT !.at = 0]
    BY <2>4 DEF NextThread, r, q
  <2>8. QED
    BY <2>2, <2>6, <2>7
<1>5. QED
  BY <1>1, <1>2, <1>3, <1>4

Promotes(r) ==
    /\ r.step \in {"guard", "claim", "reserve", "dispatch", "mark", "undo"} => r.todo # <<>>
    /\ r.step \in {"reserve", "dispatch", "mark", "undo"} => r.at \in Seqs /\ row[r.at].state # "none"

\* One fiber moves on.
LEMMA FiberMovesOn ==
  ASSUME IInv, NEW f \in Fibers, NEW r \in FiberRecords, fiber' = [fiber EXCEPT ![f] = r],
         UNCHANGED log, RowsStay, Promotes(r)
  PROVE  PromotesRows' /\ fiber' \in [Fibers -> FiberRecords']
<1>1. Seqs' = Seqs /\ FiberRecords' = FiberRecords
  BY DEF Seqs, FiberRecords
<1>2. fiber \in [Fibers -> FiberRecords]
  BY DEF IInv, TypeOK, MemoryOK, FiberRecords
<1>3. PromotesRows'
  BY <1>1, <1>2 DEF IInv, Places, PromotesRows, Promotes, RowsStay
<1>4. QED
  BY <1>1, <1>2, <1>3

\* One fiber that moves to a row leaves the others at theirs.
LEMMA FiberMoves ==
  ASSUME IInv, NEW f \in Fibers, NEW r \in FiberRecords, fiber' = [fiber EXCEPT ![f] = r],
         UNCHANGED log, SameRows, Promotes(r)
  PROVE  PromotesRows' /\ fiber' \in [Fibers -> FiberRecords']
BY FiberMovesOn DEF SameRows, RowsStay

LEMMA VisitStep == ASSUME IInv, NEW f \in Fibers, Visit(f) PROVE IInv'
<1>1. /\ UNCHANGED <<log, dispatched, cursor, inflight, quarantined, boot, turn, turns, ended, running,
                     reservation, draining, src, replay, sent, faults>>
      /\ fiber[f].step = "next"
  BY DEF Visit, session
<1>2. PICK r \in FiberRecords : fiber' = [fiber EXCEPT ![f] = r] /\ Promotes(r)
  <2>1. CASE fiber[f].todo = <<>>
    BY <2>1, FiberFacts DEF Visit, Promotes
  <2>2. CASE fiber[f].todo # <<>>
    <3>1. \/ fiber' = [fiber EXCEPT ![f] = NextThread(f)]
          \/ fiber' = [fiber EXCEPT ![f] = [fiber[f] EXCEPT !.step = "guard"]]
      BY <2>2, FiberFacts DEF Visit
    <3>2. Promotes(NextThread(f)) /\ Promotes([fiber[f] EXCEPT !.step = "guard"])
      BY <2>2, FiberFacts DEF Promotes
    <3>3. QED
      BY <2>2, <3>1, <3>2, FiberFacts
  <2>3. QED
    BY <2>1, <2>2
<1>3. row' = row \/ row' = CancelThreads({Thread(f)})
  BY DEF Visit
<1>4. /\ row' \in Seq(Rows) /\ Len(row') = Len(log) /\ SameRows
      /\ \A s \in Seqs : row'[s].owner <= boot
  BY <1>3, CancelFacts DEF IInv, TypeOK, DiskOK, SameRows
<1>5. PromotesRows' /\ fiber' \in [Fibers -> FiberRecords']
  BY <1>1, <1>2, <1>4, FiberMoves
<1>6. TypeOK'
  BY <1>1, <1>4, <1>5 DEF IInv, TypeOK, DiskOK, SessionOK, MemoryOK, FiberRecords, Seqs
<1>7. QED
  BY <1>1, <1>4, <1>5, <1>6, FiberKeeps

LEMMA GuardStep == ASSUME IInv, NEW f \in Fibers, Guard(f) PROVE IInv'
<1>1. UNCHANGED <<disk, boot, session, reservation, src, replay, sent, faults>> /\ fiber[f].step = "guard"
  BY DEF Guard
<1>2. fiber[f].todo # <<>>
  BY <1>1 DEF IInv, Places, PromotesRows
<1>3. PICK r \in FiberRecords : fiber' = [fiber EXCEPT ![f] = r] /\ Promotes(r)
  <2>1. \/ fiber' = [fiber EXCEPT ![f] = NextThread(f)]
        \/ fiber' = [fiber EXCEPT ![f] = [fiber[f] EXCEPT !.step = "claim"]]
    BY FiberFacts DEF Guard, Goto
  <2>2. Promotes(NextThread(f)) /\ Promotes([fiber[f] EXCEPT !.step = "claim"])
    BY <1>2, FiberFacts DEF Promotes
  <2>3. QED
    BY <1>2, <2>1, <2>2, FiberFacts
<1>4. SameRows
  BY <1>1 DEF disk, SameRows
<1>5. PromotesRows' /\ fiber' \in [Fibers -> FiberRecords']
  BY <1>1, <1>3, <1>4, FiberMoves DEF disk
<1>6. draining' \subseteq Threads
  <2>1. Thread(f) \in Threads /\ draining \subseteq Threads
    BY <1>2, FiberFacts DEF IInv, TypeOK, MemoryOK
  <2>2. draining' = draining \/ draining' = draining \cup {Thread(f)}
    BY DEF Guard
  <2>3. QED
    BY <2>1, <2>2
<1>7. TypeOK'
  BY <1>1, <1>5, <1>6 DEF disk, session, IInv, TypeOK, DiskOK, SessionOK, MemoryOK, FiberRecords, Seqs
<1>8. QED
  BY <1>1, <1>4, <1>5, <1>7, FiberKeeps DEF disk

LEMMA ClaimNextStep == ASSUME IInv, NEW f \in Fibers, ClaimNext(f) PROVE IInv'
<1> DEFINE t == Thread(f)
<1>1. /\ UNCHANGED <<log, dispatched, cursor, inflight, quarantined, boot, session, reservation,
                     src, replay, sent, faults>>
      /\ fiber[f].step = "claim"
  BY DEF ClaimNext
<1>2. fiber[f].todo # <<>>
  BY <1>1 DEF IInv, Places, PromotesRows
<1>3. draining' \subseteq Threads
  BY DEF ClaimNext, IInv, TypeOK, MemoryOK
<1>4. CASE Claimable(t) = {}
  <2>1. fiber' = [fiber EXCEPT ![f] = NextThread(f)] /\ row' = row
    BY <1>4 DEF ClaimNext
  <2>2. Promotes(NextThread(f)) /\ NextThread(f) \in FiberRecords
    BY <1>2, FiberFacts DEF Promotes
  <2>3. SameRows
    BY <2>1 DEF SameRows
  <2>4. PromotesRows' /\ fiber' \in [Fibers -> FiberRecords']
    BY <1>1, <2>1, <2>2, <2>3, FiberMoves
  <2>5. TypeOK'
    BY <1>1, <1>3, <2>1, <2>4 DEF session, IInv, TypeOK, DiskOK, SessionOK, MemoryOK, FiberRecords, Seqs
  <2>6. QED
    BY <1>1, <2>3, <2>4, <2>5, FiberKeeps
<1>5. CASE Claimable(t) # {}
  <2> DEFINE s == NextClaim(t)
             freed == Settled(Foreign(t), "queued")
             claimed == [state |-> "promoting", owner |-> boot, attempt |-> freed[s].attempt + 1]
             p == [fiber[f] EXCEPT !.step = "reserve"]
             r == [p EXCEPT !.at = s]
  <2>1. s \in Seqs /\ row[s].state # "none"
    BY <1>5, ClaimFacts DEF IInv, Pending, Active
  <2>2. row' = [freed EXCEPT ![s] = claimed] /\ fiber' = [fiber EXCEPT ![f] = r]
    BY <1>5, FiberFacts DEF ClaimNext
  <2>3. /\ freed \in Seq(Rows) /\ Len(freed) = Len(log)
        /\ \A q \in Seqs : freed[q].owner <= boot /\ (freed[q].state # "none" <=> row[q].state # "none")
    BY SettledFacts DEF IInv, Foreign, Pending, Active
  <2>4. boot \in Nat /\ freed[s] \in Rows
    BY <2>1, <2>3 DEF IInv, TypeOK, DiskOK, Seqs
  <2>5. claimed \in Rows /\ claimed.owner = boot /\ claimed.state = "promoting"
    BY <2>4 DEF Rows
  <2> HIDE DEF s, freed, claimed
  <2>6. /\ row' \in Seq(Rows) /\ Len(row') = Len(log) /\ SameRows
        /\ \A q \in Seqs : row'[q].owner <= boot
    <3>1. row' \in Seq(Rows) /\ Len(row') = Len(log)
      BY <2>1, <2>2, <2>3, <2>5 DEF Seqs
    <3>2. row'[s] = claimed /\ \A q \in Seqs : q # s => row'[q] = freed[q]
      BY <2>1, <2>2, <2>3 DEF Seqs
    <3>3. QED
      BY <2>1, <2>3, <2>4, <2>5, <3>1, <3>2 DEF SameRows
  <2>7. r \in FiberRecords /\ r.step = "reserve" /\ r.at = s /\ r.todo = fiber[f].todo
    <3>1. p \in FiberRecords /\ p.step = "reserve" /\ p.todo = fiber[f].todo
      BY FiberFacts
    <3> HIDE DEF p
    <3>2. s \in 0 .. Len(log)
      BY <2>1 DEF Seqs
    <3>3. QED
      BY <3>1, <3>2 DEF FiberRecords
  <2> HIDE DEF r
  <2>8. PromotesRows' /\ fiber' \in [Fibers -> FiberRecords']
    BY <1>1, <1>2, <2>1, <2>2, <2>6, <2>7, FiberMoves DEF Promotes
  <2>9. TypeOK'
    BY <1>1, <1>3, <2>6, <2>8 DEF session, IInv, TypeOK, DiskOK, SessionOK, MemoryOK, FiberRecords, Seqs
  <2>10. QED
    BY <1>1, <2>6, <2>8, <2>9, FiberKeeps
<1>6. QED
  BY <1>4, <1>5

Reservations == [at : 0..Len(log), attempt : Nat, turn : 0..turns, seen : SUBSET (1..turns)]

\* No reservation is a reservation record.
LEMMA NoReservationFacts == ASSUME TypeOK PROVE NoReservation \in Reservations
<1>1. 0 \in 0 .. Len(log) /\ 0 \in 0 .. turns
  BY DEF TypeOK, DiskOK, SessionOK
<1>2. QED
  BY <1>1 DEF NoReservation, Reservations

LEMMA ReserveStep == ASSUME IInv, NEW f \in Fibers, Reserve(f) PROVE IInv'
<1> DEFINE p == [NoReservation EXCEPT !.at = fiber[f].at]
           n == row[fiber[f].at].attempt
           new == [p EXCEPT !.attempt = n]
           r == [fiber[f] EXCEPT !.step = "dispatch"]
<1>1. /\ UNCHANGED <<disk, boot, session, draining, src, replay, sent, faults>> /\ fiber[f].step = "reserve"
      /\ fiber' = [fiber EXCEPT ![f] = r]
  BY FiberFacts DEF Reserve, Goto
<1>2. /\ fiber[f].todo # <<>> /\ fiber[f].at \in Seqs /\ row[fiber[f].at].state # "none"
  BY <1>1 DEF IInv, Places, PromotesRows
<1>3. reservation' = new
  BY DEF Reserve
<1>4. new \in Reservations
  <2>1. p \in Reservations
    BY FiberFacts, NoReservationFacts DEF IInv, Reservations, FiberRecords
  <2>2. n \in Nat
    <3>1. row[fiber[f].at] \in Rows
      BY <1>2 DEF IInv, TypeOK, DiskOK, Seqs
    <3>2. QED
      BY <3>1 DEF Rows
  <2> HIDE DEF p, n
  <2>3. QED
    BY <2>1, <2>2 DEF Reservations
<1>5. r \in FiberRecords /\ Promotes(r)
  BY <1>1, <1>2, FiberFacts DEF Promotes
<1> HIDE DEF r, new
<1>6. SameRows
  BY <1>1 DEF disk, SameRows
<1>7. PromotesRows' /\ fiber' \in [Fibers -> FiberRecords']
  BY <1>1, <1>5, <1>6, FiberMoves DEF disk
<1>8. TypeOK'
  BY <1>1, <1>3, <1>4, <1>7
     DEF disk, session, IInv, TypeOK, DiskOK, SessionOK, MemoryOK, FiberRecords, Reservations, Seqs
<1>9. QED
  BY <1>1, <1>6, <1>7, <1>8, FiberKeeps DEF disk

LEMMA RefuseStep == ASSUME IInv, NEW f \in Fibers, Refuse(f) PROVE IInv'
<1> DEFINE r == [fiber[f] EXCEPT !.step = "undo"]
<1>1. /\ UNCHANGED <<disk, boot, session, reservation, draining, src, replay, sent>> /\ fiber[f].step = "dispatch"
      /\ fiber' = [fiber EXCEPT ![f] = r]
  BY FiberFacts DEF Refuse, Goto
<1>2. r \in FiberRecords /\ Promotes(r)
  <2>1. fiber[f].todo # <<>> /\ fiber[f].at \in Seqs /\ row[fiber[f].at].state # "none"
    BY <1>1 DEF IInv, Places, PromotesRows
  <2>2. QED
    BY <2>1, FiberFacts DEF Promotes
<1> HIDE DEF r
<1>3. SameRows
  BY <1>1 DEF disk, SameRows
<1>4. PromotesRows' /\ fiber' \in [Fibers -> FiberRecords']
  BY <1>1, <1>2, <1>3, FiberMoves DEF disk
<1>5. faults' \in Seq(Faults)
  BY DEF Refuse, Fault, IInv, TypeOK
<1>6. TypeOK'
  BY <1>1, <1>4, <1>5 DEF disk, session, IInv, TypeOK, DiskOK, SessionOK, MemoryOK, FiberRecords, Seqs
<1>7. QED
  BY <1>1, <1>3, <1>4, <1>6, FiberKeeps DEF disk

LEMMA MarkPromotedStep == ASSUME IInv, NEW f \in Fibers, MarkPromoted(f) PROVE IInv'
<1> DEFINE s == fiber[f].at
<1>1. /\ UNCHANGED <<log, dispatched, cursor, inflight, quarantined, boot, session, reservation,
                     src, replay, sent, faults>>
      /\ fiber[f].step = "mark"
  BY DEF MarkPromoted
<1>2. fiber[f].todo # <<>> /\ s \in Seqs /\ row[s].state # "none"
  BY <1>1 DEF IInv, Places, PromotesRows
<1>3. row' = row \/ row' = Settled({s}, "promoted")
  BY DEF MarkPromoted
<1>4. /\ row' \in Seq(Rows) /\ Len(row') = Len(log) /\ SameRows
      /\ \A q \in Seqs : row'[q].owner <= boot
  BY <1>2, <1>3, SettledFacts DEF IInv, TypeOK, DiskOK, SameRows
<1>5. PICK r \in FiberRecords : fiber' = [fiber EXCEPT ![f] = r] /\ Promotes(r)
  <2>1. \/ fiber' = [fiber EXCEPT ![f] = NextThread(f)]
        \/ fiber' = [fiber EXCEPT ![f] = [fiber[f] EXCEPT !.step = "undo"]]
    BY FiberFacts DEF MarkPromoted, Goto
  <2>2. Promotes(NextThread(f)) /\ Promotes([fiber[f] EXCEPT !.step = "undo"])
    BY <1>2, FiberFacts DEF Promotes
  <2>3. QED
    BY <1>2, <2>1, <2>2, FiberFacts
<1>6. PromotesRows' /\ fiber' \in [Fibers -> FiberRecords']
  BY <1>1, <1>4, <1>5, FiberMoves
<1>7. draining' \subseteq Threads
  BY DEF MarkPromoted, IInv, TypeOK, MemoryOK
<1>8. TypeOK'
  BY <1>1, <1>4, <1>6, <1>7 DEF session, IInv, TypeOK, DiskOK, SessionOK, MemoryOK, FiberRecords, Seqs
<1>9. QED
  BY <1>1, <1>4, <1>6, <1>8, FiberKeeps

LEMMA UndoStep == ASSUME IInv, NEW f \in Fibers, Undo(f) PROVE IInv'
<1> DEFINE s == fiber[f].at
<1>1. /\ UNCHANGED <<log, dispatched, cursor, inflight, quarantined, boot, session, replay, sent, faults>>
      /\ fiber[f].step = "undo" /\ reservation' = NoReservation
      /\ fiber' = [fiber EXCEPT ![f] = NoDrain]
  BY DEF Undo
<1>2. s \in Seqs /\ row[s].state # "none"
  BY <1>1 DEF IInv, Places, PromotesRows
<1>3. row' = row \/ row' = Settled({s}, "queued")
  BY DEF Undo
<1>4. /\ row' \in Seq(Rows) /\ Len(row') = Len(log) /\ SameRows
      /\ \A q \in Seqs : row'[q].owner <= boot
  BY <1>2, <1>3, SettledFacts DEF IInv, TypeOK, DiskOK, SameRows
<1>5. NoDrain \in FiberRecords /\ Promotes(NoDrain)
  BY FiberFacts DEF Promotes
<1>6. PromotesRows' /\ fiber' \in [Fibers -> FiberRecords']
  BY <1>1, <1>4, <1>5, FiberMoves
<1>7. /\ src' \in [step : Jobs, at : 0..Len(log), attempt : Nat, turn : 0..turns, failed : BOOLEAN]
      /\ src'.step = src.step
  BY DEF Undo, IInv, TypeOK, MemoryOK
<1>8. draining' \subseteq Threads
  BY DEF Undo, IInv, TypeOK, MemoryOK
<1>9. TypeOK'
  BY <1>1, <1>4, <1>6, <1>7, <1>8, NoReservationFacts
     DEF session, IInv, TypeOK, DiskOK, SessionOK, MemoryOK, FiberRecords, Reservations, Seqs
<1>10. QED
  BY <1>1, <1>4, <1>6, <1>7, <1>9, FiberKeeps

-----------------------------------------------------------------------------
(* Steps that commit *)

\* The log and the table have one more entry, for an event with the message m.
Grown(n, kind, m) ==
    /\ log' \in Seq(Events) /\ row' \in Seq(Rows) /\ Len(row') = Len(log')
    /\ n = Len(log) + 1 /\ Len(log') = n /\ n \notin Seqs /\ Seqs' = Seqs \cup {n}
    /\ \A s \in Seqs : log'[s] = log[s] /\ row'[s] = row[s]
    /\ log'[n].kind = kind /\ log'[n].msg = m /\ row'[n] = NoRow

\* The budget of a message that is sent, edited, or passed on by an event that dies, is kept.
LEMMA BudgetGrows ==
  ASSUME IInv, NEW n, NEW kind, NEW m, Grown(n, kind, m), sent' = sent,
         \A s \in Seqs : Live(s)' => Live(s),
         \/ kind = "edit"
         \/ \E s \in Seqs : log[s].msg = m /\ Live(s) /\ ~Live(s)'
         \/ \A s \in Seqs : log[s].msg # m
         \/ ~Live(n)'
  PROVE  Budget'
<1>0. /\ n \notin Seqs /\ Seqs' = Seqs \cup {n} /\ \A s \in Seqs : log'[s] = log[s]
      /\ log'[n].kind = kind /\ log'[n].msg = m
  BY DEF Grown
<1> SUFFICES ASSUME NEW k \in Messages
             PROVE  /\ sent[k] + Cardinality(LiveOf(k)') <= 1 + Cardinality(Resends(k)')
                    /\ sent[k] > 0 => \E s \in Seqs' : log'[s].msg = k
  BY DEF Budget
<1>1. /\ sent[k] \in Nat
      /\ sent[k] + Cardinality(LiveOf(k)) <= 1 + Cardinality(Resends(k))
      /\ sent[k] > 0 => \E s \in Seqs : log[s].msg = k
  BY DEF IInv, TypeOK, Budget
<1>2. sent[k] > 0 => \E s \in Seqs' : log'[s].msg = k
  BY <1>0, <1>1
<1>3. /\ IsFiniteSet(LiveOf(k)) /\ Cardinality(LiveOf(k)) \in Nat
      /\ IsFiniteSet(Resends(k)) /\ Cardinality(Resends(k)) \in Nat
  BY CountFacts DEF IInv
<1>4. /\ LiveOf(k)' \subseteq LiveOf(k) \cup {n} /\ n \notin LiveOf(k)
      /\ n \in LiveOf(k)' => k = m /\ Live(n)'
  <2>1. LiveOf(k)' = {s \in Seqs' : log'[s].msg = k /\ Live(s)'}
    BY DEF LiveOf
  <2>2. LiveOf(k)' \subseteq LiveOf(k) \cup {n} /\ n \notin LiveOf(k)
    BY <1>0, <2>1 DEF LiveOf
  <2>3. n \in LiveOf(k)' => k = m /\ Live(n)'
    BY <1>0, <2>1
  <2>4. QED
    BY <2>2, <2>3
<1>5. /\ Resends(k)' = IF kind = "edit" /\ k = m THEN Resends(k) \cup {n} ELSE Resends(k)
      /\ n \notin Resends(k)
  <2>1. \A s \in Seqs : s \in Resends(k)' <=> s \in Resends(k)
    BY <1>0 DEF Resends
  <2>2. n \in Resends(k)' <=> kind = "edit" /\ k = m
    BY <1>0 DEF Resends
  <2>3. Resends(k) \subseteq Seqs /\ Resends(k)' \subseteq Seqs \cup {n}
    BY <1>0 DEF Resends
  <2>4. CASE kind = "edit" /\ k = m
    BY <1>0, <2>1, <2>2, <2>3, <2>4
  <2>5. CASE ~(kind = "edit" /\ k = m)
    <3>1. n \notin Resends(k)' /\ n \notin Resends(k)
      BY <1>0, <2>2, <2>3, <2>5
    <3>2. Resends(k)' = Resends(k)
      BY <2>1, <2>3, <3>1
    <3>3. QED
      BY <2>5, <3>1, <3>2
  <2>6. QED
    BY <2>4, <2>5
<1>6. Cardinality(Resends(k)') = IF kind = "edit" /\ k = m THEN Cardinality(Resends(k)) + 1
                                 ELSE Cardinality(Resends(k))
  BY <1>3, <1>5, FS_AddElement
<1>7. Cardinality(LiveOf(k) \cup {n}) = Cardinality(LiveOf(k)) + 1 /\ IsFiniteSet(LiveOf(k) \cup {n})
  BY <1>3, <1>4, FS_AddElement
<1>8. Cardinality(LiveOf(k)') \in Nat /\ Cardinality(LiveOf(k)') <= Cardinality(LiveOf(k)) + 1
  BY <1>4, <1>7, FS_Subset, FS_CardinalityType
<1>9. CASE n \notin LiveOf(k)'
  <2>1. LiveOf(k)' \in SUBSET LiveOf(k)
    BY <1>4, <1>9
  <2>2. Cardinality(LiveOf(k)') <= Cardinality(LiveOf(k))
    BY <1>3, <2>1, FS_Subset
  <2>3. QED
    BY <1>1, <1>2, <1>3, <1>6, <1>8, <2>2
<1>10. CASE n \in LiveOf(k)' /\ kind = "edit"
  BY <1>1, <1>2, <1>3, <1>4, <1>6, <1>8, <1>10
<1>11. CASE n \in LiveOf(k)' /\ \E s \in Seqs : log[s].msg = m /\ Live(s) /\ ~Live(s)'
  <2>1. PICK s \in Seqs : log[s].msg = m /\ Live(s) /\ ~Live(s)'
    BY <1>11
  <2>2. s \in LiveOf(k) /\ s # n /\ s \notin LiveOf(k)'
    BY <1>0, <1>4, <1>11, <2>1 DEF LiveOf
  <2>3. LiveOf(k)' \in SUBSET ((LiveOf(k) \ {s}) \cup {n})
    BY <1>4, <2>2
  <2>4. IsFiniteSet(LiveOf(k) \ {s}) /\ Cardinality(LiveOf(k) \ {s}) = Cardinality(LiveOf(k)) - 1
    BY <1>3, <2>2, FS_RemoveElement
  <2>5. /\ IsFiniteSet((LiveOf(k) \ {s}) \cup {n})
        /\ Cardinality((LiveOf(k) \ {s}) \cup {n}) = Cardinality(LiveOf(k))
    <3>1. n \notin LiveOf(k) \ {s}
      BY <1>4
    <3>2. QED
      <4>1. Cardinality((LiveOf(k) \ {s}) \cup {n}) = Cardinality(LiveOf(k) \ {s}) + 1
        BY <2>4, <3>1, FS_AddElement
      <4>2. QED
        BY <1>3, <2>4, <4>1, FS_AddElement
  <2>6. Cardinality(LiveOf(k)') <= Cardinality(LiveOf(k))
    BY <2>3, <2>5, FS_Subset
  <2>7. QED
    BY <1>1, <1>2, <1>3, <1>6, <1>8, <2>6
<1>12. CASE n \in LiveOf(k)' /\ \A s \in Seqs : log[s].msg # m
  <2>1. LiveOf(k) = {} /\ sent[k] = 0
    BY <1>1, <1>4, <1>12 DEF LiveOf
  <2>2. Cardinality(LiveOf(k)) = 0
    BY <2>1, FS_EmptySet
  <2>3. Cardinality(LiveOf(k)') <= 1
    BY <1>8, <2>2
  <2>4. QED
    BY <1>2, <1>3, <1>6, <1>8, <2>1, <2>3
<1>13. QED
  BY <1>4, <1>9, <1>10, <1>11, <1>12

\* The source does not notice that the log grew.
LEMMA PlacesGrow ==
  ASSUME IInv, NEW n, NEW kind, NEW m, Grown(n, kind, m), UNCHANGED <<cursor, inflight, src>>,
         dispatched \subseteq dispatched'
  PROVE  HandlesItsEvent' /\ RowsOfStarts' /\ \A s \in Seqs : Live(s)' => Live(s)
<1>1. At' = At /\ \A s : Consumed(s)' <=> Consumed(s)
  BY DEF At, Consumed
<1>2. HandlesItsEvent'
  BY <1>1 DEF IInv, Places, HandlesItsEvent, Grown
<1>3. RowsOfStarts'
  BY <1>1 DEF IInv, Places, RowsOfStarts, Grown, NoRow
<1>4. \A s \in Seqs : Live(s)' => Live(s)
  BY <1>1 DEF Live, Grown
<1>5. QED
  BY <1>2, <1>3, <1>4

\* A committed event is one more entry of the log and of the table.
LEMMA CommitGrows ==
  ASSUME TypeOK, NEW kind \in Intents, NEW t \in Threads, NEW m \in 0 .. MaxMessages,
         NEW mode \in Modes \cup {"queue", "none"}, Commit(kind, t, m, mode)
  PROVE  Grown(Len(log) + 1, kind, m)
<1> DEFINE event == [kind |-> kind, thread |-> t, msg |-> m, mode |-> mode]
<1>1. event.kind = kind /\ event.msg = m
  OBVIOUS
<1> HIDE DEF event
<1>2. log'[Len(log) + 1] = event
  BY CommitFacts DEF event
<1>3. QED
  BY <1>1, <1>2, CommitFacts DEF Grown

\* What has a type before the log grows has it afterwards.
LEMMA TypeGrows ==
  ASSUME IInv, NEW n, NEW kind, NEW m, Grown(n, kind, m)
  PROVE  /\ FiberRecords \subseteq FiberRecords' /\ 0 .. Len(log) \subseteq 0 .. Len(log')
         /\ UNCHANGED <<boot, cursor, inflight, quarantined>> /\ dispatched' \subseteq Seqs' => DiskOK'
         /\ UNCHANGED <<reservation, draining, src, replay, turns>> /\ fiber' \in [Fibers -> FiberRecords]
              => MemoryOK'
<1>1. 0 .. Len(log) \subseteq 0 .. Len(log')
  BY DEF IInv, TypeOK, DiskOK, Grown
<1>2. FiberRecords \subseteq FiberRecords'
  BY <1>1 DEF FiberRecords
<1>3. ASSUME UNCHANGED <<boot, cursor, inflight, quarantined>>, dispatched' \subseteq Seqs' PROVE DiskOK'
  <2>1. \A s \in Seqs' : row'[s].owner <= boot
    <3>1. boot \in Nat /\ \A s \in Seqs : row[s].owner <= boot
      BY DEF IInv, TypeOK, DiskOK
    <3>2. row'[n] = NoRow /\ NoRow.owner = 0 /\ Seqs' = Seqs \cup {n} /\ \A s \in Seqs : row'[s] = row[s]
      BY DEF Grown, NoRow
    <3>3. QED
      BY <3>1, <3>2
  <2>2. QED
    BY <1>1, <1>3, <2>1 DEF IInv, TypeOK, DiskOK, Grown
<1>4. ASSUME UNCHANGED <<reservation, draining, src, replay, turns>>, fiber' \in [Fibers -> FiberRecords]
      PROVE  MemoryOK'
  <2>1. fiber' \in [Fibers -> FiberRecords']
    BY <1>2, <1>4
  <2>2. reservation \in [at : 0..Len(log'), attempt : Nat, turn : 0..turns, seen : SUBSET (1..turns)]
    BY <1>1 DEF IInv, TypeOK, MemoryOK
  <2>3. src \in [step : Jobs, at : 0..Len(log'), attempt : Nat, turn : 0..turns, failed : BOOLEAN]
    BY <1>1 DEF IInv, TypeOK, MemoryOK
  <2>4. replay \in 0 .. Len(log') /\ draining \subseteq Threads
    BY <1>1 DEF IInv, TypeOK, MemoryOK
  <2>5. QED
    BY <1>4, <2>1, <2>2, <2>3, <2>4 DEF MemoryOK, FiberRecords
<1>5. QED
  BY <1>1, <1>2, <1>3, <1>4

LEMMA DispatchStep == ASSUME IInv, NEW f \in Fibers, Dispatch(f) PROVE IInv'
<1> DEFINE r == [fiber[f] EXCEPT !.step = "mark"]
<1> PICK s : s = fiber[f].at
  OBVIOUS
<1>1. /\ UNCHANGED <<cursor, inflight, quarantined, boot, session, reservation, draining, src, replay, sent, faults>>
      /\ fiber[f].step = "dispatch" /\ dispatched' = dispatched \cup {s}
      /\ fiber' = [fiber EXCEPT ![f] = r]
  BY FiberFacts DEF Dispatch, Goto
<1>2. fiber[f].todo # <<>> /\ s \in Seqs /\ row[s].state # "none"
  BY <1>1 DEF IInv, Places, PromotesRows
<1>3. r \in FiberRecords /\ Promotes(r) /\ r.step = "mark" /\ r.at = s /\ r.todo = fiber[f].todo
  BY <1>2, FiberFacts DEF Promotes
<1> HIDE DEF r
<1>4. CASE s \in dispatched
  <2>1. UNCHANGED <<log, row, dispatched>>
    BY <1>1, <1>4 DEF Dispatch
  <2>2. SameRows
    BY <2>1 DEF SameRows
  <2>3. PromotesRows' /\ fiber' \in [Fibers -> FiberRecords']
    BY <1>1, <1>3, <2>1, <2>2, FiberMoves
  <2>4. TypeOK'
    BY <1>1, <2>1, <2>3 DEF session, IInv, TypeOK, DiskOK, SessionOK, MemoryOK, FiberRecords, Seqs
  <2>5. QED
    BY <1>1, <2>1, <2>2, <2>3, <2>4, FiberKeeps
<1>5. CASE s \notin dispatched
  <2>1. log[s] \in Events
    BY <1>2 DEF IInv, TypeOK, DiskOK, Seqs
  <2>2. PICK n : Grown(n, "start", log[s].msg)
    <3>1. Commit("start", log[s].thread, log[s].msg, log[s].mode)
      BY <1>5 DEF Dispatch
    <3>2. /\ "start" \in Intents /\ log[s].thread \in Threads /\ log[s].msg \in 0 .. MaxMessages
          /\ log[s].mode \in Modes \cup {"queue", "none"}
      BY <2>1 DEF Events, Intents
    <3>3. QED
      BY <3>1, <3>2, CommitGrows DEF IInv
  <2>3. HandlesItsEvent' /\ RowsOfStarts' /\ \A q \in Seqs : Live(q)' => Live(q)
    BY <1>1, <2>2, PlacesGrow
  <2>4. Live(s) /\ ~Live(s)'
    <3>1. log[s].kind \in Starts
      BY <1>2 DEF IInv, Places, RowsOfStarts
    <3>2. Live(s)
      BY <1>2, <1>5, <3>1 DEF Live, Starts
    <3>3. log'[s].kind = "start" => ~(s > cursor' /\ ~Consumed(s)')
      <4>1. log[s].kind = "start" => ~(s > cursor /\ ~Consumed(s))
        BY <1>2 DEF IInv, Places, RowsOfStarts
      <4>2. cursor' = cursor /\ log'[s] = log[s] /\ (Consumed(s)' <=> Consumed(s))
        BY <1>1, <1>2, <2>2 DEF Consumed, At, Grown
      <4>3. QED
        BY <4>1, <4>2
    <3>4. log'[s].kind \in Starts /\ s \in dispatched'
      BY <1>1, <1>2, <2>2, <3>1 DEF Grown
    <3>5. QED
      BY <3>2, <3>3, <3>4 DEF Live, Starts
  <2>5. Budget'
    BY <1>1, <1>2, <2>2, <2>3, <2>4, BudgetGrows
  <2>6. fiber' \in [Fibers -> FiberRecords] /\ PromotesRows'
    <3>1. fiber \in [Fibers -> FiberRecords]
      BY FiberFacts
    <3>2. fiber' \in [Fibers -> FiberRecords]
      BY <1>1, <1>3, <3>1
    <3>3. PromotesRows'
      BY <1>1, <1>2, <1>3, <2>2, <3>1 DEF IInv, Places, PromotesRows, Grown
    <3>4. QED
      BY <3>2, <3>3
  <2>7. TypeOK'
    <3>1. dispatched' \subseteq Seqs'
      BY <1>1, <1>2, <2>2 DEF Grown, IInv, TypeOK, DiskOK
    <3>2. DiskOK' /\ MemoryOK'
      BY <1>1, <2>2, <2>6, <3>1, TypeGrows DEF session
    <3>3. QED
      BY <1>1, <3>2 DEF session, IInv, TypeOK, SessionOK
  <2>8. QED
    BY <2>3, <2>5, <2>6, <2>7 DEF IInv, Places
<1>6. QED
  BY <1>4, <1>5

\* The user sends a message, or asks for something: nobody else moves.
LEMMA UserCommits ==
  ASSUME IInv, NEW kind \in Intents, NEW t \in Threads, NEW m \in 0 .. MaxMessages,
         NEW mode \in Modes \cup {"queue", "none"}, Commit(kind, t, m, mode),
         UNCHANGED <<dispatched, cursor, inflight, quarantined, boot, session, memory, sent, faults>>,
         kind \in {"edit", "stop", "deleted"} \/ \A s \in Seqs : log[s].msg # m
  PROVE  IInv'
<1>1. PICK n : Grown(n, kind, m)
  BY CommitGrows DEF IInv
<1>2. HandlesItsEvent' /\ RowsOfStarts' /\ \A q \in Seqs : Live(q)' => Live(q)
  BY <1>1, PlacesGrow DEF memory
<1>3. kind \in {"stop", "deleted"} => ~Live(n)'
  BY <1>1 DEF Live, Grown
<1>4. Budget'
  BY <1>1, <1>2, <1>3, BudgetGrows
<1>5. PromotesRows' /\ fiber' \in [Fibers -> FiberRecords]
  BY <1>1 DEF memory, IInv, TypeOK, MemoryOK, FiberRecords, Places, PromotesRows, Grown
<1>6. TypeOK'
  <2>1. dispatched' \subseteq Seqs'
    BY <1>1 DEF Grown, IInv, TypeOK, DiskOK
  <2>2. DiskOK' /\ MemoryOK'
    BY <1>1, <1>5, <2>1, TypeGrows DEF session, memory
  <2>3. QED
    BY <2>2 DEF session, IInv, TypeOK, SessionOK
<1>7. QED
  BY <1>2, <1>4, <1>5, <1>6 DEF IInv, Places

LEMMA SendStep == ASSUME IInv, NEW t \in Threads, NEW mode \in Modes, Send(t, mode) PROVE IInv'
<1>1. Min(Unsent) \in Unsent
  <2>1. Unsent \in SUBSET Nat /\ Unsent # {}
    BY DEF Send, Unsent, Messages
  <2>2. QED
    BY <2>1, MinFacts
<1>0. MaxMessages \in Nat
  BY BoundsAssumption
<1>2. Min(Unsent) \in 0 .. MaxMessages /\ \A s \in Seqs : log[s].msg # Min(Unsent)
  BY <1>0, <1>1 DEF Unsent, Messages
<1>3. PICK kind \in {"queued", "start"} : Commit(kind, t, Min(Unsent), mode)
  BY DEF Send
<1>4. kind \in Intents /\ mode \in Modes \cup {"queue", "none"}
  BY DEF Intents
<1>5. UNCHANGED <<dispatched, cursor, inflight, quarantined, boot, session, memory, sent, faults>>
  BY DEF Send
<1>6. QED
  BY <1>2, <1>3, <1>4, <1>5, UserCommits

LEMMA AskStep == ASSUME IInv, NEW t \in Threads, NEW kind \in Asks, Ask(t, kind) PROVE IInv'
<1>1. PICK m \in Asked(t, kind) : Commit(kind, t, m, "none")
  BY DEF Ask
<1>2. m \in 0 .. MaxMessages
  <2>1. CASE kind = "edit"
    <3>1. PICK s \in Mine(t) : m = log[s].msg
      BY <1>1, <2>1 DEF Asked
    <3>2. log[s] \in Events
      BY <3>1 DEF Mine, Seqs, IInv, TypeOK, DiskOK
    <3>3. QED
      BY <3>1, <3>2 DEF Events
  <2>2. CASE kind # "edit"
    BY <1>1, <2>2, BoundsAssumption DEF Asked
  <2>3. QED
    BY <2>1, <2>2
<1>3. kind \in Intents /\ kind \in {"edit", "stop", "deleted"}
  BY AsksAssumption DEF Intents
<1>4. UNCHANGED <<dispatched, cursor, inflight, quarantined, boot, session, memory, sent, faults>>
  BY DEF Ask
<1>5. QED
  BY <1>1, <1>2, <1>3, <1>4, UserCommits

-----------------------------------------------------------------------------
(* The delivery source *)

GivenAway == {"bind", "exit", "orphan", "settle"}

JobRecords == [step : Jobs, at : 0..Len(log), attempt : Nat, turn : 0..turns, failed : BOOLEAN]

\* No fiber moves, or one does.
FibersMove ==
    \/ UNCHANGED fiber
    \/ \E f \in Fibers : \E r \in FiberRecords : fiber' = [fiber EXCEPT ![f] = r] /\ Promotes(r)

\* Whether or not a fiber moved, those that promote hold rows.
LEMMA FibersMoveFacts ==
  ASSUME IInv, UNCHANGED log, RowsStay, FibersMove
  PROVE  PromotesRows' /\ fiber' \in [Fibers -> FiberRecords']
<1>1. CASE UNCHANGED fiber
  <2>1. Seqs' = Seqs /\ FiberRecords' = FiberRecords
    BY DEF Seqs, FiberRecords
  <2>2. PromotesRows'
    BY <1>1, <2>1 DEF IInv, Places, PromotesRows, RowsStay
  <2>3. QED
    BY <1>1, <2>1, <2>2 DEF IInv, TypeOK, MemoryOK, FiberRecords
<1>2. CASE \E f \in Fibers : \E r \in FiberRecords : fiber' = [fiber EXCEPT ![f] = r] /\ Promotes(r)
  BY <1>2, FiberMovesOn
<1>3. QED
  BY <1>1, <1>2 DEF FibersMove

\* A drain starts at the first of its queues.
LEMMA DrainFacts ==
  ASSUME IInv, NEW f \in Fibers, NEW queues \in Seq(Threads), NEW recover \in BOOLEAN,
         StartDrain(f, queues, recover)
  PROVE  FibersMove
<1> DEFINE p == [NoDrain EXCEPT !.step = "next"]
           q == [p EXCEPT !.todo = queues]
           r == [q EXCEPT !.recover = recover]
<1>1. p \in FiberRecords /\ p.step = "next"
  BY FiberFacts DEF FiberRecords
<1> HIDE DEF p
<1>2. q \in FiberRecords /\ q.step = "next"
  BY <1>1 DEF FiberRecords
<1> HIDE DEF q
<1>3. r \in FiberRecords /\ r.step = "next"
  BY <1>2 DEF FiberRecords
<1>4. r = Drain(queues, recover)
  BY DEF p, q, Drain
<1>5. Promotes(r)
  BY <1>3 DEF Promotes
<1> HIDE DEF r
<1>6. fiber' = [fiber EXCEPT ![f] = r]
  BY <1>4 DEF StartDrain
<1>7. QED
  BY <1>3, <1>5, <1>6 DEF FibersMove

\* The source goes on with its event, which may get a row as it gives it away.
LEMMA SourceStays ==
  ASSUME IInv, UNCHANGED <<log, dispatched, cursor, sent>>,
         TypeOK', RowsStay, FibersMove, HandlesItsEvent',
         src.step \in GivenAway => src'.step \in GivenAway,
         \A s \in Seqs : row'[s].state # "none" =>
            \/ row[s].state # "none"
            \/ s = At /\ log[s].kind = "queued"
            \/ s = At /\ log[s].kind = "start" /\ src.step \notin GivenAway /\ src'.step \in GivenAway
  PROVE  IInv'
<1>1. Seqs' = Seqs /\ At' = At /\ \A s : Consumed(s) => Consumed(s)'
  BY DEF Seqs, At, Consumed, GivenAway
<1>2. RowsOfStarts'
  <2>1. \A s \in Seqs : row'[s].state # "none" => log[s].kind \in Starts
    BY DEF IInv, Places, RowsOfStarts, Starts
  <2>2. \A s \in Seqs : log[s].kind = "start" /\ s > cursor /\ ~Consumed(s)' => row'[s].state = "none"
    BY <1>1 DEF IInv, Places, RowsOfStarts, Consumed, GivenAway
  <2>3. QED
    BY <1>1, <2>1, <2>2 DEF RowsOfStarts
<1>3. \A s \in Seqs : Live(s)' => Live(s)
  <2> SUFFICES ASSUME NEW s \in Seqs, Live(s)' PROVE Live(s)
    OBVIOUS
  <2>1. CASE s = At /\ log[s].kind = "start" /\ src.step \notin GivenAway
    <3>1. s > cursor /\ ~Consumed(s)
      BY <2>1 DEF Consumed, GivenAway, At, IInv, TypeOK, DiskOK
    <3>2. QED
      BY <2>1, <3>1 DEF Live
  <2>2. CASE ~(s = At /\ log[s].kind = "start" /\ src.step \notin GivenAway)
    BY <1>1, <2>2 DEF Live
  <2>3. QED
    BY <2>1, <2>2
<1>4. Budget'
  BY <1>3, BudgetKept
<1>5. QED
  BY <1>2, <1>4, FibersMoveFacts DEF IInv, Places

\* The source is done with its event.
LEMMA SourceAdvances ==
  ASSUME IInv, UNCHANGED <<log, dispatched, sent>>, cursor' = At,
         TypeOK', SameRows, FibersMove, src'.step = "idle", ~inflight'
  PROVE  IInv'
<1>1. Seqs' = Seqs /\ \A s : ~Consumed(s)'
  BY DEF Seqs, Consumed
<1>2. cursor \in Nat /\ \A s \in Seqs : s > cursor' => s > cursor /\ ~Consumed(s)
  BY DEF IInv, TypeOK, DiskOK, At, Consumed, Seqs
<1>3. HandlesItsEvent'
  BY DEF HandlesItsEvent, IInv, TypeOK, DiskOK
<1>4. RowsOfStarts'
  BY <1>1, <1>2 DEF IInv, Places, RowsOfStarts, SameRows
<1>5. \A s \in Seqs : Live(s)' => Live(s)
  BY <1>1, <1>2 DEF Live, SameRows
<1>6. Budget'
  BY <1>5, BudgetKept
<1>7. QED
  BY <1>3, <1>4, <1>6, FibersMoveFacts DEF IInv, Places, SameRows, RowsStay

\* The type of the memory when the log stays.
LEMMA MemoryStays ==
  ASSUME IInv, UNCHANGED <<log, replay>>, turns' \in Nat, turns' >= turns, reservation' \in Reservations',
         draining' \subseteq Threads, RowsStay, FibersMove, src' \in JobRecords'
  PROVE  MemoryOK'
<1>1. fiber' \in [Fibers -> FiberRecords']
  BY FibersMoveFacts
<1>2. QED
  BY <1>1 DEF IInv, TypeOK, MemoryOK, FiberRecords, Reservations, JobRecords

\* The type of the disk when the log stays.
LEMMA DiskStays ==
  ASSUME IInv, UNCHANGED <<log, dispatched, boot>>, row' \in Seq(Rows), Len(row') = Len(log),
         \A s \in Seqs : row'[s].owner <= boot, cursor' \in 0 .. Len(log), inflight' \in BOOLEAN,
         quarantined' \subseteq Threads
  PROVE  DiskOK'
BY DEF IInv, TypeOK, DiskOK, Seqs

\* The job of the source stays a record of its kind from step to step.
LEMMA JobFacts ==
  ASSUME TypeOK
  PROVE  /\ src \in JobRecords /\ NoJob \in JobRecords /\ NoJob.step = "idle" /\ reservation \in Reservations
         /\ \A step \in Jobs : LET j == [src EXCEPT !.step = step]
                               IN  j \in JobRecords /\ j.step = step /\ j.turn = src.turn
         /\ \A step \in Jobs : LET j == [NoJob EXCEPT !.step = step]
                               IN  j \in JobRecords /\ j.step = step
         /\ At \in Nat /\ cursor \in Nat
<1>1. 0 \in 0 .. Len(log) /\ 0 \in 0 .. turns /\ At \in Nat /\ cursor \in Nat
  BY DEF TypeOK, DiskOK, SessionOK, At
<1>2. src \in JobRecords /\ NoJob \in JobRecords /\ NoJob.step = "idle" /\ reservation \in Reservations
  BY <1>1 DEF TypeOK, MemoryOK, JobRecords, Reservations, NoJob, Jobs
<1>3. QED
  BY <1>1, <1>2 DEF JobRecords

\* Rows that stay keep all that is said of them.
LEMMA RowsUnchanged ==
  ASSUME IInv, UNCHANGED row
  PROVE  /\ RowsStay /\ SameRows /\ row' \in Seq(Rows) /\ Len(row') = Len(log)
         /\ \A s \in Seqs : row'[s].owner <= boot
         /\ \A s \in Seqs : row'[s].state # "none" => row[s].state # "none"
BY DEF RowsStay, SameRows, IInv, TypeOK, DiskOK

\* The event in hand is in the log.
LEMMA EventFacts ==
  ASSUME IInv, At \in Seqs
  PROVE  log[At] \in Events /\ log[At].thread \in Threads /\ log[At].msg \in 0 .. MaxMessages
<1>1. log[At] \in Events
  BY DEF Seqs, IInv, TypeOK, DiskOK
<1>2. QED
  BY <1>1 DEF Events

\* A step of the source that writes nothing but the memory.
LEMMA MemoryStep ==
  ASSUME IInv, UNCHANGED <<disk, boot, session, draining, replay, sent>>, faults' \in Seq(Faults),
         FibersMove, reservation' \in Reservations, src' \in JobRecords, At \in Seqs,
         src.step \in {"look", "requeue", "send", "bind", "exit", "orphan"},
         src'.step \in {"requeue", "send", "bind", "exit", "orphan", "settle"},
         src.step \in GivenAway => src'.step \in GivenAway
  PROVE  IInv'
<1>1. /\ UNCHANGED <<log, row, dispatched, cursor, inflight, quarantined, boot, turn, turns, ended, running,
                     draining, replay, sent>>
      /\ Reservations' = Reservations /\ JobRecords' = JobRecords /\ At' = At /\ Seqs' = Seqs
  BY DEF disk, session, Reservations, JobRecords, At, Seqs
<1>2. HandlesItsEvent'
  BY <1>1 DEF IInv, Places, HandlesItsEvent
<1>3. DiskOK' /\ SessionOK'
  BY <1>1 DEF IInv, TypeOK, DiskOK, SessionOK, Seqs
<1>4. MemoryOK'
  <2>1. turns \in Nat /\ draining \subseteq Threads
    BY DEF IInv, TypeOK, SessionOK, MemoryOK
  <2>2. QED
    BY <1>1, <2>1, RowsUnchanged, MemoryStays
<1>5. TypeOK'
  BY <1>1, <1>3, <1>4 DEF IInv, TypeOK
<1>6. QED
  BY <1>1, <1>2, <1>5, RowsUnchanged, SourceStays

\* A reservation that is bound may release the session, and start a drain.
LEMMA BindFacts ==
  ASSUME IInv, At \in Seqs, NEW id \in 0 .. turns, BindTo(id)
  PROVE  reservation' \in Reservations /\ FibersMove
<1>1. NoReservation \in Reservations /\ reservation \in Reservations
  BY NoReservationFacts, JobFacts DEF IInv
<1>2. [reservation EXCEPT !.turn = id, !.seen = {}] \in Reservations
  <2> DEFINE q == [reservation EXCEPT !.turn = id]
  <2>1. q \in Reservations
    BY <1>1 DEF Reservations
  <2> HIDE DEF q
  <2>2. [q EXCEPT !.seen = {}] \in Reservations
    BY <2>1 DEF Reservations
  <2>3. QED
    BY <2>2 DEF q
<1>3. reservation' \in Reservations
  BY <1>1, <1>2 DEF BindTo
<1>4. SessionQueues(log[At].thread) \in Seq(Threads)
  BY EventFacts, QueuesFacts
<1>5. "source" \in Fibers
  BY DEF Fibers
<1>6. FibersMove
  BY <1>4, <1>5, DrainFacts DEF BindTo, FibersMove
<1>7. QED
  BY <1>3, <1>6

\* The event in hand is in the log.
LEMMA HandFacts ==
  ASSUME IInv, NEW step, InHand(step), step # "idle"
  PROVE  src.step = step /\ At \in Seqs
BY DEF InHand, IInv, Places, HandlesItsEvent

LEMMA LookStep == ASSUME IInv, Look PROVE IInv'
<1>1. src.step = "look" /\ At \in Seqs
  BY HandFacts DEF Look
<1>2. /\ src' \in JobRecords /\ src'.step \in {"exit", "requeue", "send"}
  <2>1. /\ turn \in 0 .. turns /\ src \in JobRecords
        /\ [src EXCEPT !.step = "requeue"] \in JobRecords /\ [src EXCEPT !.step = "requeue"].step = "requeue"
        /\ [src EXCEPT !.step = "exit"] \in JobRecords /\ [src EXCEPT !.step = "exit"].step = "exit"
        /\ [src EXCEPT !.step = "send"] \in JobRecords /\ [src EXCEPT !.step = "send"].step = "send"
    BY JobFacts DEF IInv, TypeOK, SessionOK, Jobs
  <2> DEFINE q == [src EXCEPT !.step = "requeue"]
  <2>2. \/ src' = [src EXCEPT !.step = "exit"]
        \/ src' = [q EXCEPT !.turn = turn]
        \/ src' = [src EXCEPT !.step = "send"]
    BY <2>1 DEF Look
  <2>3. [q EXCEPT !.turn = turn] \in JobRecords /\ [q EXCEPT !.turn = turn].step = "requeue"
    <3> HIDE DEF q
    <3>1. q \in JobRecords /\ q.step = "requeue"
      BY <2>1 DEF q
    <3>2. QED
      BY <2>1, <3>1 DEF JobRecords
  <2>4. QED
    BY <2>1, <2>2, <2>3
<1>3. UNCHANGED <<disk, boot, session, reservation, draining, fiber, replay, sent, faults>>
  BY DEF Look
<1>4. QED
  BY <1>1, <1>2, <1>3, MemoryStep, JobFacts DEF FibersMove, GivenAway, IInv, TypeOK

LEMMA BindStep == ASSUME IInv, Bind PROVE IInv'
<1>1. src.step = "bind" /\ At \in Seqs
  BY HandFacts DEF Bind
<1>2. src' \in JobRecords /\ src'.step = "exit" /\ src.turn \in 0 .. turns
  BY JobFacts DEF Bind, Step, IInv, Jobs, JobRecords
<1>3. reservation' \in Reservations /\ FibersMove
  BY <1>1, <1>2, BindFacts DEF Bind
<1>4. UNCHANGED <<disk, boot, session, draining, replay, sent, faults>>
  BY DEF Bind
<1>5. QED
  BY <1>1, <1>2, <1>3, <1>4, MemoryStep DEF GivenAway, IInv, TypeOK

LEMMA ExitStep == ASSUME IInv, Exit PROVE IInv'
<1>1. src.step = "exit" /\ At \in Seqs
  BY HandFacts DEF Exit
<1>2. src' \in JobRecords /\ src'.step \in {"orphan", "settle"}
  <2>1. \E step \in {"orphan", "settle"} : src' = [src EXCEPT !.step = step]
    BY DEF Exit, Step
  <2>2. {"orphan", "settle"} \subseteq Jobs /\ TypeOK
    BY DEF Jobs, IInv
  <2>3. QED
    BY <2>1, <2>2, JobFacts
<1>3. UNCHANGED <<disk, boot, session, reservation, draining, fiber, replay, sent, faults>>
  BY DEF Exit
<1>4. QED
  BY <1>1, <1>2, <1>3, MemoryStep, JobFacts DEF FibersMove, GivenAway, IInv, TypeOK

LEMMA ReleaseOrphanStep == ASSUME IInv, ReleaseOrphan PROVE IInv'
<1>1. src.step = "orphan" /\ At \in Seqs
  BY HandFacts DEF ReleaseOrphan
<1>2. src' \in JobRecords /\ src'.step = "settle"
  BY JobFacts DEF ReleaseOrphan, Step, IInv, Jobs
<1>3. reservation' \in Reservations /\ FibersMove
  <2>1. CASE turn # 0
    BY <1>1, <2>1, BindFacts DEF ReleaseOrphan, IInv, TypeOK, SessionOK
  <2>2. CASE turn = 0
    <3>1. SessionQueues(log[At].thread) \in Seq(Threads) /\ "source" \in Fibers
      BY <1>1, EventFacts, QueuesFacts DEF Fibers
    <3>2. UNCHANGED fiber \/ StartDrain("source", SessionQueues(log[At].thread), FALSE)
      BY <2>2 DEF ReleaseOrphan
    <3>3. FibersMove
      BY <3>1, <3>2, DrainFacts DEF FibersMove
    <3>4. reservation' \in {NoReservation, reservation}
      BY <2>2 DEF ReleaseOrphan
    <3>5. QED
      BY <3>3, <3>4, NoReservationFacts, JobFacts DEF IInv
  <2>3. QED
    BY <2>1, <2>2
<1>4. UNCHANGED <<disk, boot, session, draining, replay, sent, faults>>
  BY DEF ReleaseOrphan
<1>5. QED
  BY <1>1, <1>2, <1>3, <1>4, MemoryStep DEF GivenAway, IInv, TypeOK

LEMMA SendRejectedStep == ASSUME IInv, SendRejected PROVE IInv'
<1>1. src.step = "send" /\ At \in Seqs
  BY HandFacts DEF SendRejected
<1>2. src' \in JobRecords /\ src'.step = "exit"
  BY JobFacts DEF SendRejected, Step, IInv, Jobs
<1>3. SessionQueues(log[At].thread) \in Seq(Threads) /\ "source" \in Fibers
  BY <1>1, EventFacts, QueuesFacts DEF Fibers
<1>4. FibersMove
  BY <1>3, DrainFacts DEF SendRejected
<1>5. reservation' \in Reservations
  BY NoReservationFacts, JobFacts DEF SendRejected, IInv
<1>6. faults' \in Seq(Faults) /\ UNCHANGED <<disk, boot, session, draining, replay, sent>>
  BY DEF SendRejected, Fault, IInv, TypeOK
<1>7. QED
  BY <1>1, <1>2, <1>4, <1>5, <1>6, MemoryStep DEF GivenAway

\* A step that writes rows, the session and the memory, and leaves the log, keeps the types.
TypesMove ==
    /\ row' \in Seq(Rows) /\ Len(row') = Len(log) /\ \A s \in Seqs : row'[s].owner <= boot
    /\ cursor' \in 0 .. Len(log) /\ inflight' \in BOOLEAN /\ quarantined' \subseteq Threads
    /\ turn' \in 0 .. turns /\ running' \in BOOLEAN
    /\ ended' \in Seq(Nat) /\ \A i \in DOMAIN ended' : ended'[i] <= turns
    /\ reservation' \in Reservations /\ draining' \subseteq Threads /\ src' \in JobRecords
    /\ faults' \in Seq(Faults)

\* A step that keeps the log and the types of the rest keeps the type invariant.
LEMMA TypeMoves ==
  ASSUME IInv, UNCHANGED <<log, dispatched, boot, turns, replay, sent>>, TypesMove, RowsStay, FibersMove
  PROVE  TypeOK'
<1>1. Reservations' = Reservations /\ JobRecords' = JobRecords /\ turns \in Nat
  BY DEF Reservations, JobRecords, IInv, TypeOK, SessionOK
<1>2. DiskOK'
  BY DiskStays DEF TypesMove
<1>3. SessionOK'
  BY <1>1 DEF TypesMove, SessionOK
<1>4. MemoryOK'
  BY <1>1, MemoryStays DEF TypesMove
<1>5. QED
  BY <1>2, <1>3, <1>4 DEF TypesMove, IInv, TypeOK

\* What does not change has its type.
LEMMA TypesStay ==
  ASSUME IInv
  PROVE  /\ row \in Seq(Rows) /\ Len(row) = Len(log) /\ \A s \in Seqs : row[s].owner <= boot
         /\ cursor \in 0 .. Len(log) /\ inflight \in BOOLEAN /\ quarantined \subseteq Threads
         /\ turn \in 0 .. turns /\ running \in BOOLEAN
         /\ ended \in Seq(Nat) /\ \A i \in DOMAIN ended : ended[i] <= turns
         /\ reservation \in Reservations /\ draining \subseteq Threads /\ src \in JobRecords
         /\ faults \in Seq(Faults)
         /\ (At \in Seqs => At \in 0 .. Len(log))
BY DEF IInv, TypeOK, DiskOK, SessionOK, MemoryOK, Reservations, JobRecords, Seqs

\* The event that is due is the one behind the cursor, and nothing is in hand.
LEMMA DueFacts ==
  ASSUME IInv, NEW kinds, Due(kinds)
  PROVE  src.step = "idle" /\ At \in Seqs /\ log[At].kind \in kinds /\ ~inflight
BY DEF Due, SourceFree, IInv, Places, HandlesItsEvent

LEMMA TurnQueuedStep == ASSUME IInv, TurnQueued PROVE IInv'
<1>1. src.step = "idle" /\ At \in Seqs /\ log[At].kind = "queued" /\ ~inflight
  BY DueFacts DEF TurnQueued
<1>2. /\ UNCHANGED <<log, dispatched, cursor, inflight, quarantined, boot, turn, turns, ended, running, reservation,
                     draining, fiber, replay, sent, faults>>
      /\ row' = Enqueued(At) /\ src' = [src EXCEPT !.step = "queued"]
  BY DEF TurnQueued, session, Step
<1>3. src' \in JobRecords /\ src'.step = "queued"
  BY <1>2, JobFacts DEF IInv, Jobs
<1>4. /\ row' \in Seq(Rows) /\ Len(row') = Len(log)
      /\ \A s \in Seqs : row'[s].owner <= boot /\ (s # At => row'[s] = row[s])
  BY <1>1, <1>2, EnqueuedFacts DEF IInv
<1>5. RowsStay
  <2>1. row[At].state # "none" => row' = row
    BY <1>2 DEF Enqueued
  <2>2. QED
    BY <1>4, <2>1 DEF RowsStay
<1>6. FibersMove
  BY <1>2 DEF FibersMove
<1>7. TypeOK'
  BY <1>2, <1>3, <1>4, <1>5, <1>6, TypesStay, TypeMoves DEF TypesMove
<1>8. HandlesItsEvent'
  BY <1>1, <1>2, <1>3 DEF HandlesItsEvent, At, Seqs
<1>9. QED
  BY <1>1, <1>2, <1>4, <1>5, <1>6, <1>7, <1>8, SourceStays DEF GivenAway

LEMMA TurnQueuedSettlesStep == ASSUME IInv, TurnQueuedSettles PROVE IInv'
<1>1. src.step = "queued" /\ At \in Seqs /\ ~inflight
  BY HandFacts DEF TurnQueuedSettles, IInv, Places, HandlesItsEvent
<1>2. /\ UNCHANGED <<log, row, dispatched, inflight, quarantined, boot, turn, turns, ended, running, reservation,
                     draining, replay, sent, faults>>
      /\ cursor' = At /\ src' = NoJob
      /\ StartDrain("source", <<log[At].thread>>, TRUE)
  BY DEF TurnQueuedSettles, session
<1>3. FibersMove
  <2>1. <<log[At].thread>> \in Seq(Threads) /\ "source" \in Fibers
    BY <1>1, EventFacts DEF Fibers
  <2>2. QED
    BY <1>2, <2>1, DrainFacts
<1>4. src' \in JobRecords /\ src'.step = "idle"
  BY <1>2, JobFacts DEF IInv
<1>5. TypeOK'
  BY <1>1, <1>2, <1>3, <1>4, RowsUnchanged, TypesStay, TypeMoves DEF TypesMove
<1>6. QED
  BY <1>1, <1>2, <1>3, <1>4, <1>5, RowsUnchanged, SourceAdvances

LEMMA SkipStep == ASSUME IInv, Skip PROVE IInv'
<1>1. src.step = "idle" /\ At \in Seqs /\ ~inflight
  BY DueFacts DEF Skip
<1>2. /\ UNCHANGED <<log, row, dispatched, inflight, quarantined, boot, turn, turns, ended, running, reservation,
                     draining, fiber, src, replay, sent, faults>>
      /\ cursor' = At
  BY DEF Skip, session, memory
<1>3. FibersMove
  BY <1>2 DEF FibersMove
<1>4. TypeOK'
  BY <1>1, <1>2, <1>3, RowsUnchanged, TypesStay, TypeMoves DEF TypesMove
<1>5. QED
  BY <1>1, <1>2, <1>3, <1>4, RowsUnchanged, SourceAdvances

LEMMA TurnStartStep == ASSUME IInv, TurnStart PROVE IInv'
<1>1. src.step = "idle" /\ At \in Seqs /\ log[At].kind = "start" /\ ~inflight
  BY DueFacts DEF TurnStart
<1>2. /\ UNCHANGED <<log, row, dispatched, cursor, quarantined, boot, turn, turns, ended, running, reservation,
                     draining, fiber, replay, sent, faults>>
      /\ inflight' = TRUE
  BY DEF TurnStart, session
<1>3. src' \in JobRecords /\ src'.step = "look"
  <2> DEFINE p == [NoJob EXCEPT !.step = "look"]
             q == [p EXCEPT !.at = reservation.at]
             r == [q EXCEPT !.attempt = reservation.attempt]
  <2>1. p \in JobRecords /\ p.step = "look"
    BY JobFacts DEF IInv, Jobs
  <2>2. src' = p \/ src' = r
    BY DEF TurnStart
  <2>3. reservation.at \in 0 .. Len(log) /\ reservation.attempt \in Nat
    BY TypesStay DEF Reservations
  <2> HIDE DEF p
  <2>4. q \in JobRecords /\ q.step = "look"
    BY <2>1, <2>3 DEF JobRecords
  <2> HIDE DEF q
  <2>5. r \in JobRecords /\ r.step = "look"
    BY <2>3, <2>4 DEF JobRecords
  <2> HIDE DEF r
  <2>6. QED
    BY <2>1, <2>2, <2>5
<1>4. FibersMove
  BY <1>2 DEF FibersMove
<1>5. TypeOK'
  BY <1>1, <1>2, <1>3, <1>4, RowsUnchanged, TypesStay, TypeMoves DEF TypesMove
<1>6. HandlesItsEvent'
  BY <1>1, <1>2, <1>3 DEF HandlesItsEvent, At, Seqs
<1>7. QED
  BY <1>1, <1>2, <1>4, <1>5, <1>6, RowsUnchanged, SourceStays DEF GivenAway

LEMMA RequeueStep == ASSUME IInv, Requeue PROVE IInv'
<1>1. src.step = "requeue" /\ At \in Seqs /\ log[At].kind = "start"
  <2>1. src.step = "requeue" /\ At \in Seqs
    BY HandFacts DEF Requeue
  <2>2. QED
    BY <2>1 DEF IInv, Places, HandlesItsEvent
<1>2. /\ UNCHANGED <<log, dispatched, cursor, inflight, quarantined, boot, turn, turns, ended, running, reservation,
                     draining, fiber, replay, sent, faults>>
      /\ row' = Enqueued(At) /\ src' = [src EXCEPT !.step = "bind"]
  BY DEF Requeue, session, Step
<1>3. src' \in JobRecords /\ src'.step = "bind"
  BY <1>2, JobFacts DEF IInv, Jobs
<1>4. /\ row' \in Seq(Rows) /\ Len(row') = Len(log)
      /\ \A s \in Seqs : row'[s].owner <= boot /\ (s # At => row'[s] = row[s])
  BY <1>1, <1>2, EnqueuedFacts DEF IInv
<1>5. RowsStay
  <2>1. row[At].state # "none" => row' = row
    BY <1>2 DEF Enqueued
  <2>2. QED
    BY <1>4, <2>1 DEF RowsStay
<1>6. FibersMove
  BY <1>2 DEF FibersMove
<1>7. TypeOK'
  BY <1>2, <1>3, <1>4, <1>5, <1>6, TypesStay, TypeMoves DEF TypesMove
<1>8. HandlesItsEvent'
  <2>1. inflight
    BY <1>1 DEF IInv, Places, HandlesItsEvent
  <2>2. QED
    BY <1>1, <1>2, <1>3, <2>1 DEF HandlesItsEvent, At, Seqs
<1>9. QED
  BY <1>1, <1>2, <1>3, <1>4, <1>5, <1>6, <1>7, <1>8, SourceStays DEF GivenAway

\* The message is given to the provider: its event cannot lead to another turn.
LEMMA HandGiven ==
  ASSUME IInv, Hand, src.step = "send", At \in Seqs, src'.step \in {"bind", "exit"},
         UNCHANGED <<disk, boot, ended, running, reservation, draining, fiber, replay>>,
         src' \in JobRecords', faults' \in Seq(Faults)
  PROVE  IInv'
<1> PICK m : m = log[At].msg
  OBVIOUS
<1>1. /\ UNCHANGED <<log, row, dispatched, cursor, inflight, quarantined, boot, ended, running, reservation,
                     draining, fiber, replay>>
      /\ sent' = [sent EXCEPT ![m] = @ + 1]
      /\ turns' \in Nat /\ turns' >= turns /\ turn' \in 0 .. turns'
  BY DEF Hand, disk, IInv, TypeOK, SessionOK
<1>2. log[At].kind = "start" /\ row[At].state = "none" /\ ~Consumed(At) /\ At > cursor
  BY DEF IInv, Places, HandlesItsEvent, RowsOfStarts, Consumed, TypeOK, DiskOK, At
<1>3. Seqs' = Seqs /\ At' = At /\ FiberRecords' = FiberRecords
  BY <1>1 DEF Seqs, At, FiberRecords
<1>4. \A s \in Seqs : Consumed(s) => Consumed(s)'
  BY <1>3 DEF Consumed
<1>5. PICK e \in Seqs : e = At /\ Live(e) /\ ~Live(e)'
  <2>1. PICK e \in Seqs : e = At
    OBVIOUS
  <2>2. Live(e) /\ ~Live(e)'
    BY <1>1, <1>2, <1>3, <2>1 DEF Live, Consumed
  <2>3. QED
    BY <2>1, <2>2
<1>6. \A s \in Seqs : Live(s)' => Live(s)
  BY <1>1, <1>4 DEF Live
<1>7. Budget'
  <2> SUFFICES ASSUME NEW k \in Messages
               PROVE  /\ sent'[k] + Cardinality(LiveOf(k)') <= 1 + Cardinality(Resends(k)')
                      /\ sent'[k] > 0 => \E s \in Seqs' : log'[s].msg = k
    BY DEF Budget
  <2>1. /\ sent[k] \in Nat /\ sent \in [Messages -> Nat]
        /\ sent[k] + Cardinality(LiveOf(k)) <= 1 + Cardinality(Resends(k))
        /\ sent[k] > 0 => \E s \in Seqs : log[s].msg = k
    BY DEF IInv, TypeOK, Budget
  <2>2. /\ IsFiniteSet(LiveOf(k)) /\ Cardinality(LiveOf(k)) \in Nat /\ Cardinality(Resends(k)) \in Nat
        /\ Resends(k)' = Resends(k)
    BY <1>1, <1>3, CountFacts DEF IInv, Resends
  <2>3. LiveOf(k)' \in SUBSET LiveOf(k)
    BY <1>1, <1>3, <1>6 DEF LiveOf
  <2>4. CASE k = m
    <3>1. e \in LiveOf(k) /\ e \notin LiveOf(k)'
      BY <1>1, <1>5, <2>4 DEF LiveOf
    <3>2. LiveOf(k)' \in SUBSET (LiveOf(k) \ {e})
      BY <2>3, <3>1
    <3>3. IsFiniteSet(LiveOf(k) \ {e}) /\ Cardinality(LiveOf(k) \ {e}) = Cardinality(LiveOf(k)) - 1
      BY <2>2, <3>1, FS_RemoveElement
    <3>4. Cardinality(LiveOf(k)') \in Nat /\ Cardinality(LiveOf(k)') <= Cardinality(LiveOf(k)) - 1
      BY <3>2, <3>3, FS_Subset, FS_CardinalityType
    <3>5. sent'[k] = sent[k] + 1 /\ \E s \in Seqs' : log'[s].msg = k
      BY <1>1, <1>3, <2>1, <2>4
    <3>6. QED
      BY <2>1, <2>2, <3>4, <3>5
  <2>5. CASE k # m
    <3>1. sent'[k] = sent[k]
      BY <1>1, <2>1, <2>5
    <3>2. Cardinality(LiveOf(k)') \in Nat /\ Cardinality(LiveOf(k)') <= Cardinality(LiveOf(k))
      BY <2>2, <2>3, FS_Subset, FS_CardinalityType
    <3>3. sent'[k] + Cardinality(LiveOf(k)') <= 1 + Cardinality(Resends(k)')
      BY <2>1, <2>2, <3>1, <3>2
    <3>4. sent'[k] > 0 => \E s \in Seqs' : log'[s].msg = k
      BY <1>1, <1>3, <2>1, <3>1
    <3>5. QED
      BY <3>3, <3>4
  <2>6. QED
    BY <2>4, <2>5
<1>8. Places'
  <2>1. HandlesItsEvent'
    BY <1>1, <1>2, <1>3 DEF IInv, Places, HandlesItsEvent
  <2>2. RowsOfStarts' /\ PromotesRows'
    BY <1>1, <1>3, <1>4 DEF IInv, Places, RowsOfStarts, PromotesRows
  <2>3. QED
    BY <2>1, <2>2 DEF Places
<1>9. TypeOK'
  <2>1. DiskOK'
    BY <1>1 DEF IInv, TypeOK, DiskOK, Seqs
  <2>2. SessionOK'
    BY <1>1 DEF IInv, TypeOK, SessionOK
  <2>3. MemoryOK'
    <3>1. Reservations \subseteq Reservations'
      BY <1>1 DEF Reservations, IInv, TypeOK, SessionOK
    <3>2. QED
      BY <1>1, <1>3, <3>1, TypesStay DEF IInv, TypeOK, MemoryOK, Reservations, JobRecords, FiberRecords
  <2>4. sent' \in [Messages -> Nat]
    <3>1. sent \in [Messages -> Nat]
      BY DEF IInv, TypeOK
    <3>2. sent' \in [Messages -> Nat] \/ m \notin Messages
      BY <1>1, <3>1
    <3>3. m \notin Messages => sent' = sent
      BY <1>1, <3>1
    <3>4. QED
      BY <3>1, <3>2, <3>3
  <2>5. QED
    BY <2>1, <2>2, <2>3, <2>4 DEF TypeOK
<1>10. QED
  BY <1>7, <1>8, <1>9 DEF IInv

LEMMA SendTurnStep == ASSUME IInv, SendTurn PROVE IInv'
<1>1. src.step = "send" /\ At \in Seqs
  BY HandFacts DEF SendTurn
<1>2. UNCHANGED <<disk, boot, ended, running, reservation, draining, fiber, replay, faults>> /\ Hand
  BY DEF SendTurn
<1>3. src' \in JobRecords' /\ src'.step = "bind"
  <2> DEFINE q == [src EXCEPT !.step = "bind"]
  <2>1. q \in JobRecords /\ q.step = "bind" /\ src' = [q EXCEPT !.turn = turn']
    BY JobFacts DEF SendTurn, IInv, Jobs
  <2>2. turn' \in 0 .. turns' /\ turns' \in Nat /\ turns' >= turns
    BY DEF SendTurn, Hand, IInv, TypeOK, SessionOK
  <2>3. JobRecords \subseteq JobRecords'
    BY <1>2, <2>2 DEF disk, JobRecords, IInv, TypeOK, SessionOK
  <2> HIDE DEF q
  <2>4. q \in JobRecords'
    BY <2>1, <2>3
  <2>5. QED
    BY <2>1, <2>2, <2>4 DEF JobRecords
<1>4. QED
  BY <1>1, <1>2, <1>3, TypesStay, HandGiven

LEMMA SendTimesOutStep == ASSUME IInv, SendTimesOut PROVE IInv'
<1>1. src.step = "send" /\ At \in Seqs
  BY HandFacts DEF SendTimesOut
<1>2. /\ UNCHANGED <<disk, boot, ended, running, reservation, draining, fiber, replay>>
      /\ faults' \in Seq(Faults)
      /\ Hand \/ UNCHANGED <<turn, turns, sent>>
  BY DEF SendTimesOut, Fault, IInv, TypeOK
<1>3. src' \in JobRecords /\ src'.step = "exit"
  <2> DEFINE q == [src EXCEPT !.step = "exit"]
  <2>1. q \in JobRecords /\ q.step = "exit" /\ src' = [q EXCEPT !.failed = TRUE]
    BY JobFacts DEF SendTimesOut, IInv, Jobs
  <2> HIDE DEF q
  <2>2. QED
    BY <2>1 DEF JobRecords
<1>4. CASE Hand
  <2>1. turns' \in Nat /\ turns' >= turns
    BY <1>4 DEF Hand, IInv, TypeOK, SessionOK
  <2>2. JobRecords \subseteq JobRecords'
    BY <1>2, <2>1 DEF disk, JobRecords, IInv, TypeOK, SessionOK
  <2>3. QED
    BY <1>1, <1>2, <1>3, <1>4, <2>2, HandGiven
<1>5. CASE UNCHANGED <<turn, turns, sent>>
  <2>1. UNCHANGED session /\ FibersMove /\ reservation' \in Reservations
    BY <1>2, <1>5, TypesStay DEF session, FibersMove
  <2>2. QED
    BY <1>1, <1>2, <1>3, <1>5, <2>1, MemoryStep DEF GivenAway
<1>6. QED
  BY <1>2, <1>4, <1>5

LEMMA SettleStartStep == ASSUME IInv, SettleStart PROVE IInv'
<1>1. src.step = "settle" /\ At \in Seqs
  BY HandFacts DEF SettleStart
<1>2. /\ UNCHANGED <<log, row, dispatched, boot, turn, turns, ended, running, reservation, draining, fiber, replay,
                     sent, faults>>
      /\ cursor' = At /\ src' = NoJob /\ inflight' = FALSE
      /\ quarantined' \in {quarantined, quarantined \cup {log[At].thread}}
  BY DEF SettleStart, session
<1>3. quarantined' \subseteq Threads
  BY <1>1, <1>2, EventFacts, TypesStay
<1>4. FibersMove
  BY <1>2 DEF FibersMove
<1>5. src' \in JobRecords /\ src'.step = "idle"
  BY <1>2, JobFacts DEF IInv
<1>6. TypeOK'
  BY <1>1, <1>2, <1>3, <1>4, <1>5, RowsUnchanged, TypesStay, TypeMoves DEF TypesMove
<1>7. QED
  BY <1>1, <1>2, <1>4, <1>5, <1>6, RowsUnchanged, SourceAdvances

LEMMA SessionStopStep == ASSUME IInv, SessionStop PROVE IInv'
<1>1. src.step = "idle" /\ At \in Seqs /\ ~inflight
  BY DueFacts DEF SessionStop
<1>2. /\ UNCHANGED <<log, dispatched, cursor, quarantined, boot, turn, turns, ended, running, fiber, replay, sent,
                     faults>>
      /\ inflight' = TRUE /\ row' = CancelThreads(Stopped)
      /\ draining' = draining \ Stopped /\ reservation' \in {reservation, NoReservation}
      /\ src' = [src EXCEPT !.step = "stop"]
  BY DEF SessionStop, session, Step
<1>3. src' \in JobRecords /\ src'.step = "stop"
  BY <1>2, JobFacts DEF IInv, Jobs
<1>4. row' \in Seq(Rows) /\ Len(row') = Len(log) /\ (\A s \in Seqs : row'[s].owner <= boot) /\ SameRows
  BY <1>2, CancelFacts DEF IInv, SameRows
<1>5. RowsStay /\ FibersMove
  BY <1>2, <1>4 DEF FibersMove, RowsStay, SameRows
<1>6. reservation' \in Reservations /\ draining' \subseteq Threads
  BY <1>2, TypesStay, NoReservationFacts DEF IInv
<1>7. TypeOK'
  BY <1>2, <1>3, <1>4, <1>5, <1>6, TypesStay, TypeMoves DEF TypesMove
<1>8. HandlesItsEvent'
  BY <1>1, <1>2, <1>3 DEF HandlesItsEvent, At, Seqs
<1>9. QED
  BY <1>1, <1>2, <1>4, <1>5, <1>7, <1>8, SourceStays DEF GivenAway, SameRows

\* What the end of the live turn leaves for the reader of terminal events.
LEMMA StopTurnFacts ==
  ASSUME IInv, StopTurn \/ UNCHANGED <<turn, ended>>
  PROVE  turn' \in 0 .. turns /\ ended' \in Seq(Nat) /\ \A i \in DOMAIN ended' : ended'[i] <= turns
<1>1. /\ turns \in Nat /\ turn \in 0 .. turns /\ 0 \in 0 .. turns
      /\ ended \in Seq(Nat) /\ \A i \in DOMAIN ended : ended[i] <= turns
  BY DEF IInv, TypeOK, SessionOK
<1>2. \A id \in 0 .. turns : /\ Append(ended, id) \in Seq(Nat)
                             /\ \A i \in DOMAIN Append(ended, id) : Append(ended, id)[i] <= turns
  <2> SUFFICES ASSUME NEW id \in 0 .. turns
               PROVE  /\ Append(ended, id) \in Seq(Nat)
                      /\ \A i \in DOMAIN Append(ended, id) : Append(ended, id)[i] <= turns
    OBVIOUS
  <2>1. id \in Nat /\ id <= turns
    BY <1>1
  <2>2. QED
    BY <1>1, <2>1
<1>3. turn' \in 0 .. turns
  BY <1>1 DEF StopTurn
<1>4. ended' = ended \/ \E id \in 0 .. turns : ended' = Append(ended, id)
  BY <1>1 DEF StopTurn
<1>5. QED
  BY <1>1, <1>2, <1>3, <1>4

LEMMA SessionStoppedStep == ASSUME IInv, SessionStopped PROVE IInv'
<1>1. src.step = "stop" /\ At \in Seqs
  BY HandFacts DEF SessionStopped
<1>2. /\ UNCHANGED <<log, row, dispatched, quarantined, boot, turns, running, reservation, draining, fiber, replay,
                     sent, faults>>
      /\ cursor' = At /\ inflight' = FALSE /\ src' = NoJob
      /\ StopTurn \/ UNCHANGED <<turn, ended>>
  BY DEF SessionStopped
<1>3. FibersMove
  BY <1>2 DEF FibersMove
<1>4. src' \in JobRecords /\ src'.step = "idle"
  BY <1>2, JobFacts DEF IInv
<1>5. TypeOK'
  BY <1>1, <1>2, <1>3, <1>4, RowsUnchanged, StopTurnFacts, TypesStay, TypeMoves DEF TypesMove
<1>6. QED
  BY <1>1, <1>2, <1>3, <1>4, <1>5, RowsUnchanged, SourceAdvances

LEMMA EditStep == ASSUME IInv, Edit PROVE IInv'
<1>1. src.step = "idle" /\ At \in Seqs /\ log[At].kind = "edit" /\ ~inflight
  BY DueFacts DEF Edit
<1>2. /\ UNCHANGED <<log, row, dispatched, cursor, quarantined, boot, turn, turns, ended, reservation, draining,
                     fiber, replay, sent, faults>>
      /\ inflight' = TRUE /\ running' \in BOOLEAN
  BY TypesStay DEF Edit
<1>3. src' \in JobRecords /\ src'.step \in {"edit", "replace"}
  <2> DEFINE q == [NoJob EXCEPT !.step = "replace"]
  <2>1. q \in JobRecords /\ q.step = "replace" /\ turn \in 0 .. turns /\ 0 \in 0 .. turns
    BY JobFacts DEF IInv, TypeOK, SessionOK, Jobs
  <2>2. \/ src' = [src EXCEPT !.step = "edit"]
        \/ \E id \in 0 .. turns : src' = [q EXCEPT !.turn = id]
    BY <2>1 DEF Edit, Step
  <2> HIDE DEF q
  <2>3. \A id \in 0 .. turns : [q EXCEPT !.turn = id] \in JobRecords /\ [q EXCEPT !.turn = id].step = "replace"
    BY <2>1 DEF JobRecords
  <2>4. [src EXCEPT !.step = "edit"] \in JobRecords /\ [src EXCEPT !.step = "edit"].step = "edit"
    BY JobFacts DEF IInv, Jobs
  <2>5. QED
    BY <2>2, <2>3, <2>4
<1>4. FibersMove
  BY <1>2 DEF FibersMove
<1>5. TypeOK'
  BY <1>1, <1>2, <1>3, <1>4, RowsUnchanged, TypesStay, TypeMoves DEF TypesMove
<1>6. HandlesItsEvent'
  BY <1>1, <1>2, <1>3 DEF HandlesItsEvent, At, Seqs
<1>7. QED
  BY <1>1, <1>2, <1>4, <1>5, <1>6, RowsUnchanged, SourceStays DEF GivenAway

LEMMA EditQueuedStep == ASSUME IInv, EditQueued PROVE IInv'
<1> DEFINE S == {s \in Pending(log[At].thread) : log[s].msg = log[At].msg /\ row[s].state = "queued"}
<1>1. src.step = "edit" /\ At \in Seqs /\ log[At].kind = "edit" /\ inflight
  BY HandFacts DEF EditQueued, IInv, Places, HandlesItsEvent
<1>2. /\ UNCHANGED <<log, dispatched, cursor, inflight, quarantined, boot, turn, turns, ended, running, reservation,
                     draining, fiber, replay, sent, faults>>
      /\ row' = Settled(S, "cancelled") /\ src' = [src EXCEPT !.step = "resend"]
  BY DEF EditQueued, session, Step
<1>3. src' \in JobRecords /\ src'.step = "resend"
  BY <1>2, JobFacts DEF IInv, Jobs
<1>4. \A s \in S : row[s].state # "none"
  OBVIOUS
<1> HIDE DEF S
<1>5. row' \in Seq(Rows) /\ Len(row') = Len(log) /\ (\A s \in Seqs : row'[s].owner <= boot) /\ SameRows
  BY <1>2, <1>4, SettledFacts DEF IInv, SameRows
<1>6. RowsStay /\ FibersMove
  BY <1>2, <1>5 DEF FibersMove, RowsStay, SameRows
<1>7. TypeOK'
  BY <1>2, <1>3, <1>5, <1>6, TypesStay, TypeMoves DEF TypesMove
<1>8. HandlesItsEvent'
  BY <1>1, <1>2, <1>3 DEF HandlesItsEvent, At, Seqs
<1>9. QED
  BY <1>1, <1>2, <1>5, <1>6, <1>7, <1>8, SourceStays DEF GivenAway, SameRows

LEMMA EditSentStep == ASSUME IInv, EditSent PROVE IInv'
<1>1. src.step = "replace" /\ At \in Seqs /\ log[At].kind = "edit" /\ inflight
  BY HandFacts DEF EditSent, IInv, Places, HandlesItsEvent
<1>2. /\ UNCHANGED <<log, dispatched, cursor, inflight, quarantined, boot, turns, running, reservation, draining,
                     fiber, replay, sent, faults>>
      /\ row' = CancelThreads({log[At].thread}) /\ src' = [src EXCEPT !.step = "resend"]
      /\ StopTurn \/ UNCHANGED <<turn, ended>>
  BY DEF EditSent, Step
<1>3. src' \in JobRecords /\ src'.step = "resend"
  BY <1>2, JobFacts DEF IInv, Jobs
<1>4. row' \in Seq(Rows) /\ Len(row') = Len(log) /\ (\A s \in Seqs : row'[s].owner <= boot) /\ SameRows
  BY <1>2, CancelFacts DEF IInv, SameRows
<1>5. RowsStay /\ FibersMove
  BY <1>2, <1>4 DEF FibersMove, RowsStay, SameRows
<1>6. TypeOK'
  BY <1>2, <1>3, <1>4, <1>5, StopTurnFacts, TypesStay, TypeMoves DEF TypesMove
<1>7. HandlesItsEvent'
  BY <1>1, <1>2, <1>3 DEF HandlesItsEvent, At, Seqs
<1>8. QED
  BY <1>1, <1>2, <1>4, <1>5, <1>6, <1>7, SourceStays DEF GivenAway, SameRows

LEMMA ThreadDeletedStep == ASSUME IInv, ThreadDeleted PROVE IInv'
<1>1. src.step = "idle" /\ At \in Seqs /\ ~inflight
  BY DueFacts DEF ThreadDeleted
<1>2. /\ UNCHANGED <<log, dispatched, inflight, quarantined, boot, turn, turns, ended, running, reservation,
                     draining, fiber, src, replay, sent, faults>>
      /\ cursor' = At /\ row' = CancelThreads({log[At].thread})
  BY DEF ThreadDeleted, session, memory
<1>3. row' \in Seq(Rows) /\ Len(row') = Len(log) /\ (\A s \in Seqs : row'[s].owner <= boot) /\ SameRows
  BY <1>2, CancelFacts DEF IInv, SameRows
<1>4. RowsStay /\ FibersMove
  BY <1>2, <1>3 DEF FibersMove, RowsStay, SameRows
<1>5. TypeOK'
  BY <1>1, <1>2, <1>3, <1>4, TypesStay, TypeMoves DEF TypesMove
<1>6. QED
  BY <1>1, <1>2, <1>3, <1>4, <1>5, SourceAdvances

\* The edited message goes back into the log; the event of the edit is done with it.
LEMMA ResendStep == ASSUME IInv, Resend PROVE IInv'
<1>1. src.step = "resend" /\ At \in Seqs /\ log[At].kind = "edit" /\ inflight
  BY HandFacts DEF Resend, IInv, Places, HandlesItsEvent
<1>2. UNCHANGED <<dispatched, cursor, inflight, quarantined, boot, turn, turns, ended, running, reservation,
                  draining, fiber, replay, sent, faults>>
  BY DEF Resend, session
<1>3. src' \in JobRecords /\ src'.step = "settle"
  <2> DEFINE q == [src EXCEPT !.step = "settle"]
  <2>1. q \in JobRecords /\ q.step = "settle"
    BY JobFacts DEF IInv, Jobs
  <2>2. src' = [q EXCEPT !.failed = Gone(log[At].thread)] /\ Gone(log[At].thread) \in BOOLEAN
    BY DEF Resend, Gone
  <2> HIDE DEF q
  <2>3. QED
    BY <2>1, <2>2 DEF JobRecords
<1>4. At' = At /\ (\A s : Consumed(s) => Consumed(s)') /\ Consumed(At)'
  BY <1>1, <1>2, <1>3 DEF Consumed, At
<1>5. CASE UNCHANGED <<log, row>>
  <2>1. FibersMove
    BY <1>2 DEF FibersMove
  <2>2. TypeOK'
    BY <1>2, <1>3, <1>5, <2>1, RowsUnchanged, TypesStay, TypeMoves DEF TypesMove
  <2>3. HandlesItsEvent'
    BY <1>1, <1>2, <1>3, <1>4, <1>5 DEF HandlesItsEvent, Seqs
  <2>4. QED
    BY <1>1, <1>2, <1>5, <2>1, <2>2, <2>3, RowsUnchanged, SourceStays DEF GivenAway
<1>6. CASE ~Gone(log[At].thread)
  <2>1. PICK kind \in {"queued", "start"} : Commit(kind, log[At].thread, log[At].msg, "queue")
    BY <1>6 DEF Resend
  <2>2. PICK n : Grown(n, kind, log[At].msg)
    <3>1. kind \in Intents /\ "queue" \in Modes \cup {"queue", "none"}
      BY DEF Intents
    <3>2. QED
      BY <1>1, <2>1, <3>1, EventFacts, CommitGrows DEF IInv
  <2>3. \A s \in Seqs : Live(s)' => Live(s)
    BY <1>2, <1>4, <2>2 DEF Live, Grown
  <2>4. PICK e \in Seqs : e = At /\ Live(e) /\ ~Live(e)'
    <3>1. PICK e \in Seqs : e = At
      BY <1>1
    <3>2. ~Consumed(e) /\ e > cursor
      BY <1>1, <3>1 DEF Consumed, At, IInv, TypeOK, DiskOK
    <3>3. log'[e] = log[e] /\ Consumed(e)'
      BY <1>4, <2>2, <3>1 DEF Grown, Consumed
    <3>4. Live(e) /\ ~Live(e)'
      BY <1>1, <3>1, <3>2, <3>3 DEF Live
    <3>5. QED
      BY <3>1, <3>4
  <2>5. Budget'
    BY <1>1, <1>2, <2>2, <2>3, <2>4, BudgetGrows
  <2>6. HandlesItsEvent'
    BY <1>1, <1>2, <1>3, <1>4, <2>2 DEF HandlesItsEvent, Grown
  <2>7. RowsOfStarts'
    <3>1. \A s \in Seqs : log'[s] = log[s] /\ row'[s] = row[s]
      BY <2>2 DEF Grown
    <3>2. Seqs' = Seqs \cup {n} /\ row'[n].state = "none"
      BY <2>2 DEF Grown, NoRow
    <3>3. \A s \in Seqs' : row'[s].state # "none" => log'[s].kind \in Starts
      BY <3>1, <3>2 DEF IInv, Places, RowsOfStarts
    <3>4. \A s \in Seqs' : log'[s].kind = "start" /\ s > cursor' /\ ~Consumed(s)' => row'[s].state = "none"
      BY <1>2, <1>4, <3>1, <3>2 DEF IInv, Places, RowsOfStarts
    <3>5. QED
      BY <3>3, <3>4 DEF RowsOfStarts
  <2>8. PromotesRows' /\ fiber' \in [Fibers -> FiberRecords']
    <3>1. PromotesRows'
      BY <1>2, <2>2 DEF IInv, Places, PromotesRows, Grown
    <3>2. QED
      BY <1>2, <2>2, <3>1, TypeGrows DEF IInv, TypeOK, MemoryOK, FiberRecords
  <2>9. TypeOK'
    <3>1. dispatched' \subseteq Seqs'
      BY <1>2, <2>2 DEF Grown, IInv, TypeOK, DiskOK
    <3>2. DiskOK'
      BY <1>2, <2>2, <3>1, TypeGrows
    <3>3. MemoryOK'
      <4>1. 0 .. Len(log) \subseteq 0 .. Len(log')
        BY <2>2, TypeGrows
      <4>2. reservation' \in [at : 0..Len(log'), attempt : Nat, turn : 0..turns, seen : SUBSET (1..turns)]
        BY <1>2, <4>1, TypesStay DEF Reservations
      <4>3. src' \in [step : Jobs, at : 0..Len(log'), attempt : Nat, turn : 0..turns, failed : BOOLEAN]
        BY <1>3, <4>1 DEF JobRecords
      <4>4. replay' \in 0 .. Len(log') /\ draining' \subseteq Threads
        BY <1>2, <4>1 DEF IInv, TypeOK, MemoryOK
      <4>5. QED
        BY <1>2, <2>8, <4>2, <4>3, <4>4 DEF MemoryOK, FiberRecords
    <3>4. QED
      BY <1>2, <3>2, <3>3 DEF IInv, TypeOK, SessionOK
  <2>10. QED
    BY <2>5, <2>6, <2>7, <2>8, <2>9 DEF IInv, Places
<1>7. QED
  BY <1>5, <1>6 DEF Resend

-----------------------------------------------------------------------------
(* The provider, the reader of terminal events and the restart *)

\* A step that leaves the log, the source and the rows alone.
LEMMA SourceUntouched ==
  ASSUME IInv, UNCHANGED <<disk, boot, turns, src, replay, sent>>, TypesMove, FibersMove
  PROVE  IInv'
<1>1. UNCHANGED <<log, row, dispatched, cursor, inflight, quarantined, boot, turns, src, replay, sent>>
  BY DEF disk
<1>2. TypeOK'
  BY <1>1, RowsUnchanged, TypeMoves
<1>3. PromotesRows'
  BY <1>1, RowsUnchanged, FibersMoveFacts
<1>4. QED
  BY <1>1, <1>2, <1>3, RowsUnchanged, FiberKeeps

LEMMA TurnEndsStep == ASSUME IInv, TurnEnds \/ TurnAborts PROVE IInv'
<1>1. UNCHANGED <<disk, boot, turns, running, memory, sent>> /\ faults' \in Seq(Faults)
  <2>1. CASE TurnEnds
    BY <2>1, TypesStay DEF TurnEnds
  <2>2. CASE TurnAborts
    BY <2>2, TypesStay DEF TurnAborts, Fault
  <2>3. QED
    BY <2>1, <2>2
<1>2. /\ turn' \in 0 .. turns /\ ended' \in Seq(Nat) /\ \A i \in DOMAIN ended' : ended'[i] <= turns
  <2>1. turn \in 0 .. turns /\ 0 \in 0 .. turns /\ turns \in Nat
    BY DEF IInv, TypeOK, SessionOK
  <2>2. turn' = 0 /\ \E id \in 0 .. turns : ended' = Append(ended, id)
    BY <2>1 DEF TurnEnds, TurnAborts, Ends
  <2>3. PICK id \in 0 .. turns : ended' = Append(ended, id)
    BY <2>2
  <2>4. id \in Nat /\ id <= turns
    BY <2>1
  <2>5. QED
    BY <2>1, <2>2, <2>3, <2>4, TypesStay
<1>3. TypesMove /\ FibersMove
  BY <1>1, <1>2, RowsUnchanged, TypesStay DEF disk, memory, TypesMove, FibersMove
<1>4. QED
  BY <1>1, <1>3, SourceUntouched DEF memory

LEMMA ProjectStep == ASSUME IInv, Project PROVE IInv'
<1>1. UNCHANGED <<disk, boot, turn, turns, ended, memory, sent, faults>> /\ running' \in BOOLEAN
  BY DEF Project
<1>2. TypesMove /\ FibersMove
  BY <1>1, RowsUnchanged, TypesStay DEF disk, memory, TypesMove, FibersMove
<1>3. QED
  BY <1>1, <1>2, SourceUntouched DEF memory

LEMMA TerminalEventStep == ASSUME IInv, TerminalEvent PROVE IInv'
<1> PICK id : id = Head(ended)
  OBVIOUS
<1>1. /\ UNCHANGED <<disk, boot, turn, turns, running, draining, src, replay, sent, faults>>
      /\ ended # <<>> /\ ended' = Tail(ended)
      /\ UNCHANGED fiber \/ StartDrain("terminal", SessionQueues(Root), FALSE)
  BY DEF TerminalEvent
<1>2. ended' \in Seq(Nat) /\ \A i \in DOMAIN ended' : ended'[i] <= turns
  BY <1>1, TypesStay
<1>3. id \in Nat /\ id <= turns
  BY <1>1, TypesStay
<1>4. FibersMove
  <2>1. Root \in Threads /\ "terminal" \in Fibers
    BY DEF Threads, Fibers
  <2>2. SessionQueues(Root) \in Seq(Threads)
    BY <2>1, QueuesFacts
  <2>3. QED
    BY <1>1, <2>1, <2>2, DrainFacts DEF FibersMove
<1>5. reservation' \in Reservations
  <2>1. \/ reservation' = NoReservation \/ reservation' = reservation
        \/ id # 0 /\ reservation' = [reservation EXCEPT !.seen = @ \cup {id}]
    BY DEF TerminalEvent
  <2>2. id # 0 => [reservation EXCEPT !.seen = @ \cup {id}] \in Reservations
    <3>1. ASSUME id # 0 PROVE reservation.seen \cup {id} \in SUBSET (1 .. turns)
      BY <1>3, <3>1, TypesStay DEF Reservations, IInv, TypeOK, SessionOK
    <3>2. reservation \in Reservations
      BY TypesStay
    <3>3. QED
      BY <3>1, <3>2 DEF Reservations
  <2>3. QED
    BY <2>1, <2>2, NoReservationFacts, TypesStay DEF IInv
<1>6. TypesMove
  BY <1>1, <1>2, <1>5, RowsUnchanged, TypesStay DEF disk, TypesMove
<1>7. QED
  BY <1>1, <1>4, <1>6, SourceUntouched

LEMMA RecoverQueuesStep == ASSUME IInv, RecoverQueues PROVE IInv'
<1>1. UNCHANGED <<disk, boot, session, reservation, draining, src, sent, faults>> /\ replay' = 0
  BY DEF RecoverQueues
<1>2. FibersMove
  <2>1. SetToSeq({t \in Threads : Pending(t) # {}}) \in Seq(Threads)
    BY SetToSeqFacts
  <2>2. "startup" \in Fibers
    BY DEF Fibers
  <2>3. QED
    BY <2>1, <2>2, DrainFacts DEF RecoverQueues
<1>3. UNCHANGED <<log, row, dispatched, cursor, inflight, quarantined, boot, turn, turns, ended, running,
                  reservation, draining, src, sent, faults>>
  BY <1>1 DEF disk, session
<1>4. PromotesRows' /\ fiber' \in [Fibers -> FiberRecords']
  BY <1>2, <1>3, RowsUnchanged, FibersMoveFacts
<1>5. TypeOK'
  <2>1. DiskOK' /\ SessionOK'
    BY <1>1, <1>3 DEF IInv, TypeOK, DiskOK, SessionOK, Seqs
  <2>2. 0 \in 0 .. Len(log)
    BY DEF IInv, TypeOK, DiskOK
  <2>3. MemoryOK'
    BY <1>1, <1>3, <1>4, <2>2 DEF IInv, TypeOK, MemoryOK, FiberRecords
  <2>4. QED
    BY <1>1, <1>3, <2>1, <2>3 DEF IInv, TypeOK
<1>6. QED
  BY <1>3, <1>4, <1>5, RowsUnchanged, FiberKeeps

\* A restart: what was under way counts as done, and no fiber is in a drain.
LEMMA CrashStep == ASSUME IInv, Crash PROVE IInv'
<1>1. /\ UNCHANGED <<log, row, dispatched, turns, sent>>
      /\ boot' = boot + 1 /\ turn' = 0 /\ ended' = <<>> /\ running' = FALSE
      /\ reservation' = NoReservation /\ draining' = {}
      /\ fiber' = [f \in Fibers |-> NoDrain] /\ src' = NoJob /\ replay' = Len(log) /\ inflight' = FALSE
      /\ cursor' = IF inflight THEN At ELSE cursor
      /\ quarantined' = IF inflight THEN quarantined \cup {log[At].thread} ELSE quarantined
      /\ faults' \in Seq(Faults)
  BY TypesStay DEF Crash, Fault
<1>2. inflight => At \in Seqs /\ log[At].thread \in Threads /\ At \in 0 .. Len(log)
  BY EventFacts DEF IInv, Places, HandlesItsEvent, Seqs
<1>3. /\ Seqs' = Seqs /\ src'.step = "idle" /\ (\A s : ~Consumed(s)')
      /\ \A s \in Seqs : s > cursor' => s > cursor /\ ~Consumed(s)
  <2>1. Seqs' = Seqs /\ src'.step = "idle" /\ \A s : ~Consumed(s)'
    BY <1>1 DEF Seqs, NoJob, Consumed
  <2>2. cursor \in Nat /\ (inflight <=> src.step \notin {"idle", "queued"})
    BY DEF IInv, TypeOK, DiskOK, Places, HandlesItsEvent
  <2>3. \A s \in Seqs : s > cursor' => s > cursor /\ ~Consumed(s)
    BY <1>1, <2>2 DEF At, Consumed, Seqs
  <2>4. QED
    BY <2>1, <2>3
<1>4. HandlesItsEvent' /\ RowsOfStarts'
  BY <1>1, <1>3 DEF IInv, Places, HandlesItsEvent, RowsOfStarts
<1>5. PromotesRows' /\ fiber' \in [Fibers -> FiberRecords']
  <2>1. \E f \in Fibers : TRUE
    BY DEF Fibers
  <2>2. NoDrain \in FiberRecords /\ NoDrain.step = "none"
    BY <2>1, FiberFacts
  <2>3. FiberRecords' = FiberRecords
    BY <1>1 DEF FiberRecords
  <2>4. QED
    BY <1>1, <2>2, <2>3 DEF PromotesRows
<1>6. \A s \in Seqs : Live(s)' => Live(s)
  BY <1>1, <1>3 DEF Live
<1>7. Budget'
  BY <1>1, <1>6, BudgetKept
<1>8. TypeOK'
  <2>1. DiskOK'
    <3>1. /\ log \in Seq(Events) /\ row \in Seq(Rows) /\ Len(row) = Len(log) /\ dispatched \subseteq Seqs
          /\ boot \in Nat \ {0} /\ cursor \in 0 .. Len(log) /\ quarantined \subseteq Threads
          /\ \A s \in Seqs : row[s] \in Rows /\ row[s].owner <= boot
      BY DEF IInv, TypeOK, DiskOK, Seqs
    <3>2. cursor' \in 0 .. Len(log) /\ quarantined' \subseteq Threads
      BY <1>1, <1>2, <3>1
    <3>3. \A s \in Seqs : row[s].owner <= boot + 1
      BY <3>1 DEF Rows
    <3>4. inflight' \in BOOLEAN
      BY <1>1
    <3>5. \A s \in Seqs' : row'[s].owner <= boot'
      BY <1>1, <1>3, <3>3
    <3>6. QED
      BY <1>1, <1>3, <3>1, <3>2, <3>4, <3>5 DEF DiskOK
  <2>2. SessionOK'
    <3>1. running' \in BOOLEAN /\ turns' \in Nat
      BY <1>1 DEF IInv, TypeOK, SessionOK
    <3>2. turn' \in 0 .. turns'
      BY <1>1, <3>1
    <3>3. ended' \in Seq(Nat) /\ \A i \in DOMAIN ended' : ended'[i] <= turns'
      BY <1>1
    <3>4. QED
      BY <3>1, <3>2, <3>3 DEF SessionOK
  <2>3. MemoryOK'
    <3>1. NoReservation \in Reservations /\ NoJob \in JobRecords
      BY NoReservationFacts, JobFacts DEF IInv
    <3>2. Len(log) \in 0 .. Len(log)
      BY DEF IInv, TypeOK, DiskOK
    <3>3. QED
      BY <1>1, <1>5, <3>1, <3>2 DEF MemoryOK, FiberRecords, Reservations, JobRecords
  <2>4. QED
    BY <1>1, <2>1, <2>2, <2>3 DEF IInv, TypeOK
<1>9. QED
  BY <1>4, <1>5, <1>7, <1>8 DEF IInv, Places

-----------------------------------------------------------------------------
(* The specification *)

LEMMA InitInv == ASSUME Init PROVE IInv
<1>1. Seqs = {} /\ Len(log) = 0
  BY DEF Init, Seqs
<1>2. TypeOK
  <2>1. inflight \in BOOLEAN /\ running \in BOOLEAN
    BY DEF Init
  <2>2. DiskOK
    BY <1>1, <2>1 DEF Init, DiskOK
  <2>3. SessionOK
    BY <2>1 DEF Init, SessionOK
  <2>4. MemoryOK
    <3>1. 0 \in 0 .. Len(log) /\ 0 \in 0 .. turns /\ <<>> \in Seq(Threads)
      BY <1>1 DEF Init
    <3>2. reservation \in [at : 0..Len(log), attempt : Nat, turn : 0..turns, seen : SUBSET (1..turns)]
      BY <3>1 DEF Init, NoReservation
    <3>3. src \in [step : Jobs, at : 0..Len(log), attempt : Nat, turn : 0..turns, failed : BOOLEAN]
      BY <3>1 DEF Init, NoJob, Jobs
    <3>4. NoDrain \in FiberRecords
      BY <3>1 DEF NoDrain, FiberRecords
    <3>5. QED
      BY <3>1, <3>2, <3>3, <3>4 DEF Init, MemoryOK, FiberRecords
  <2>5. QED
    BY <2>2, <2>3, <2>4 DEF Init, TypeOK
<1>3. Places
  BY <1>1 DEF Init, Places, HandlesItsEvent, RowsOfStarts, PromotesRows, NoJob, NoDrain
<1>4. Budget
  <2> SUFFICES ASSUME NEW m \in Messages
               PROVE  /\ sent[m] + Cardinality(LiveOf(m)) <= 1 + Cardinality(Resends(m))
                      /\ sent[m] > 0 => \E s \in Seqs : log[s].msg = m
    BY DEF Budget
  <2>1. LiveOf(m) = {} /\ Resends(m) = {} /\ sent[m] = 0
    BY <1>1 DEF Init, LiveOf, Resends
  <2>2. Cardinality(LiveOf(m)) = 0 /\ Cardinality(Resends(m)) = 0
    BY <2>1, FS_EmptySet
  <2>3. QED
    BY <2>1, <2>2
<1>5. QED
  BY <1>2, <1>3, <1>4 DEF IInv

LEMMA StutterStep == ASSUME IInv, UNCHANGED vars PROVE IInv'
<1>1. UNCHANGED <<disk, boot, turns, src, replay, sent>>
  BY DEF vars, session, memory
<1>2. TypesMove /\ FibersMove
  BY RowsUnchanged, TypesStay DEF vars, disk, session, memory, TypesMove, FibersMove
<1>3. QED
  BY <1>1, <1>2, SourceUntouched

LEMMA NextStep == ASSUME IInv, [Next]_vars PROVE IInv'
<1>1. CASE \E t \in Threads, mode \in Modes : Send(t, mode)
  BY <1>1, SendStep
<1>2. CASE \E t \in Threads, kind \in Asks : Ask(t, kind)
  BY <1>2, AskStep
<1>3. CASE TurnEnds \/ TurnAborts \/ Project
  BY <1>3, TurnEndsStep, ProjectStep
<1>4. ASSUME NEW f \in Fibers, DrainStep(f) PROVE IInv'
  BY <1>4, VisitStep, GuardStep, ClaimNextStep, ReserveStep, DispatchStep, RefuseStep, MarkPromotedStep, UndoStep
     DEF DrainStep
<1>5. CASE SourceStep
  BY <1>5, TurnQueuedStep, TurnQueuedSettlesStep, SkipStep, TurnStartStep, LookStep, RequeueStep, SendTurnStep,
     BindStep, ExitStep, ReleaseOrphanStep, SettleStartStep, SessionStopStep, SessionStoppedStep, EditStep,
     EditQueuedStep, EditSentStep, ResendStep, ThreadDeletedStep DEF SourceStep
<1>6. CASE SendRejected \/ SendTimesOut
  BY <1>6, SendRejectedStep, SendTimesOutStep
<1>7. CASE TerminalEvent \/ Crash \/ RecoverQueues
  BY <1>7, TerminalEventStep, CrashStep, RecoverQueuesStep
<1>8. CASE UNCHANGED vars
  BY <1>8, StutterStep
<1>9. QED
  BY <1>1, <1>2, <1>3, <1>4, <1>5, <1>6, <1>7, <1>8 DEF Next

\* The strengthened invariant: the source handles the event behind its cursor, rows belong to
\* turn starts, drains hold rows, and the deliveries of a message and the events that may still
\* lead to one are within one plus its edits.
THEOREM InductiveInvariant == Spec => []IInv
<1>1. Init => IInv
  BY InitInv
<1>2. IInv /\ [Next]_vars => IInv'
  BY NextStep
<1>3. QED
  BY <1>1, <1>2, PTL DEF Spec

\* Rows, fibers, the reservation and the job of the source have the shape of the code's records,
\* for every number of threads and messages and every mix of faults.
THEOREM TypeCorrect == Spec => []TypeOK
<1>1. IInv => TypeOK
  BY DEF IInv
<1>2. QED
  BY <1>1, InductiveInvariant, PTL

\* A message reaches the provider at most once, and once more for each edit, through re-queues,
\* repeated promotions, timeouts in the handler and restarts at any point.
THEOREM OncePerEdit == Spec => []SentOnce
<1>1. ASSUME IInv PROVE SentOnce
  <2> SUFFICES ASSUME NEW m \in Messages PROVE sent[m] <= 1 + Cardinality(Resends(m))
    BY DEF SentOnce
  <2>1. sent[m] + Cardinality(LiveOf(m)) <= 1 + Cardinality(Resends(m)) /\ sent[m] \in Nat
    BY <1>1 DEF IInv, Budget, TypeOK
  <2>2. Cardinality(LiveOf(m)) \in Nat /\ Cardinality(Resends(m)) \in Nat
    BY <1>1, CountFacts DEF IInv
  <2>3. QED
    BY <2>1, <2>2
<1>2. QED
  BY <1>1, InductiveInvariant, PTL

-----------------------------------------------------------------------------
(* The order of a thread's messages *)

Claims == {"claim", "reserve", "dispatch", "mark", "undo"}
Holds == {"reserve", "dispatch", "mark", "undo"}

\* A message that the decider queued is in the log first as that, and the source gives rows to
\* events in the order of the log.
RowsInOrder ==
    /\ \A a, b \in Seqs : log[b].kind = "queued" /\ log[a].kind \in Starts /\ log[a].msg = log[b].msg => b <= a
    /\ \A s \in Seqs : row[s].state # "none" => s <= At
    /\ src.step # "stop"
    /\ \A s \in Seqs : log[s].kind = "queued" /\ (s <= cursor \/ (s = At /\ src.step = "queued"))
                       => row[s].state # "none"

\* A thread is drained by one fiber, whose mark it has, and a row that this process promotes is
\* held by the fiber that drains its thread.
OneDrain ==
    /\ \A f \in Fibers : fiber[f].step \in Claims => Thread(f) \in draining
    /\ \A f, g \in Fibers : f # g /\ fiber[f].step \in Claims /\ fiber[g].step \in Claims => Thread(f) # Thread(g)
    /\ \A f \in Fibers : fiber[f].step \in Holds => log[fiber[f].at].thread = Thread(f)
    /\ \A s \in Seqs : Owned(s) => \E f \in Fibers : fiber[f].step \in Holds /\ fiber[f].at = s
    /\ replay # 0 => fiber["startup"].step = "none"

\* Whatever is promoted, or about to be, has nothing older waiting in front of it.
InOrder ==
    \A s, q \in Seqs : /\ s < q /\ log[s].thread = log[q].thread
                       /\ Waited(s) /\ Waited(q) /\ row[q].state \in {"promoting", "promoted"}
                       => row[s].state = "promoted"

OrderInv == Undisturbed => RowsInOrder /\ OneDrain /\ InOrder

\* The rows of a step that commits nothing: a row that waits is released, cancelled or claimed, a
\* claimed one is promoted, and the event in hand is queued.
FirstInLine(s) ==
    Waited(s) => \A o \in Seqs : o < s /\ log[o].thread = log[s].thread /\ Waited(o) => row[o].state = "promoted"

RowMovesOn(s) ==
    \/ row'[s].state = row[s].state
    \/ Active(s) /\ row'[s].state \in {"queued", "cancelled"}
    \/ row[s].state = "promoting" /\ row'[s].state = "promoted"
    \/ Active(s) /\ row'[s].state = "promoting" /\ FirstInLine(s)
    \/ s = At /\ row[s].state = "none" /\ row'[s].state = "queued"

\* What the cursor passes has been queued, if the decider queued it.
CursorFollows ==
    /\ cursor' = cursor \/ (cursor' = At /\ (At \in Seqs /\ log[At].kind = "queued" => src.step = "queued"))
    /\ src'.step # "stop"
    /\ src'.step = "queued" => cursor' = cursor /\ (At \in Seqs => row'[At].state # "none")

LEMMA RowsStayInOrder ==
  ASSUME TypeOK, RowsInOrder, InOrder, UNCHANGED log, \A s \in Seqs : RowMovesOn(s), CursorFollows
  PROVE  RowsInOrder' /\ InOrder'
<1>1. Seqs' = Seqs /\ cursor \in Nat /\ At = cursor + 1 /\ At' = cursor' + 1 /\ Seqs \subseteq Nat
  BY DEF Seqs, At, TypeOK, DiskOK
<1>2. \A s \in Seqs : row'[s].state # "none" => s <= At'
  <2>1. \A s \in Seqs : row'[s].state # "none" => row[s].state # "none" \/ s = At
    BY DEF RowMovesOn, Active
  <2>2. At <= At'
    BY <1>1 DEF CursorFollows
  <2>3. QED
    BY <1>1, <2>1, <2>2 DEF RowsInOrder, CursorFollows
<1>3. \A s \in Seqs : row[s].state # "none" => row'[s].state # "none"
  BY DEF RowMovesOn, Active
<1>4. ASSUME NEW s \in Seqs, log[s].kind = "queued", s <= cursor' \/ (s = At' /\ src'.step = "queued")
      PROVE  row'[s].state # "none"
  <2>1. CASE s <= cursor
    BY <1>3, <1>4, <2>1 DEF RowsInOrder
  <2>2. CASE s = At /\ cursor' = At
    BY <1>3, <1>4, <2>2, <1>1 DEF RowsInOrder, CursorFollows
  <2>3. CASE s = At /\ cursor' = cursor /\ src'.step = "queued"
    BY <2>3 DEF CursorFollows
  <2>4. QED
    BY <1>1, <1>4, <2>1, <2>2, <2>3 DEF CursorFollows
<1>5. RowsInOrder'
  BY <1>1, <1>2, <1>4 DEF RowsInOrder, CursorFollows
<1>6. \A s \in Seqs : /\ row[s].state = "promoted" => row'[s].state = "promoted"
                      /\ Waited(s)' => Waited(s)
  BY <1>1 DEF RowMovesOn, Active, Waited
<1>7. ASSUME NEW s \in Seqs, NEW q \in Seqs, s < q, log[s].thread = log[q].thread, Waited(s)', Waited(q)',
             row'[q].state \in {"promoting", "promoted"}
      PROVE  row'[s].state = "promoted"
  <2>1. row[q].state \in {"promoting", "promoted"} \/ FirstInLine(q)
    BY <1>7 DEF RowMovesOn
  <2>2. QED
    BY <1>6, <1>7, <2>1 DEF InOrder, FirstInLine
<1>8. InOrder'
  BY <1>1, <1>7 DEF InOrder
<1>9. QED
  BY <1>5, <1>8

\* A step of the drains: the log keeps its events, and no row is claimed but by the fiber that moves.
LogKept == Seqs \subseteq Seqs' /\ \A s \in Seqs : log'[s] = log[s]
OwnedKept == \A s \in Seqs' : Owned(s)' => s \in Seqs /\ Owned(s)

LEMMA DrainRests ==
  ASSUME IInv, OneDrain, LogKept, OwnedKept, UNCHANGED <<fiber, draining>>, replay' \in {replay, 0}
  PROVE  OneDrain'
<1>1. \A f \in Fibers : fiber[f].step \in Holds => fiber[f].at \in Seqs
  BY DEF IInv, Places, PromotesRows, Holds
<1>2. \A f : Thread(f)' = Thread(f)
  BY DEF Thread
<1>3. \A f \in Fibers : fiber'[f].step \in Holds => log'[fiber'[f].at].thread = Thread(f)'
  BY <1>1, <1>2 DEF OneDrain, LogKept
<1>4. \A s \in Seqs' : Owned(s)' => \E f \in Fibers : fiber'[f].step \in Holds /\ fiber'[f].at = s
  BY DEF OneDrain, OwnedKept
<1>5. QED
  BY <1>2, <1>3, <1>4 DEF OneDrain

\* A fiber leaves its queue, or begins a drain.
LEMMA DrainLeaves ==
  ASSUME IInv, OneDrain, LogKept, NEW f \in Fibers, NEW r, fiber' = [fiber EXCEPT ![f] = r], r.step \notin Claims,
         \A t \in draining : t \in draining' \/ (fiber[f].step \in Claims /\ t = Thread(f)),
         \A s \in Seqs' : Owned(s)' => s \in Seqs /\ Owned(s) /\ ~(fiber[f].step \in Holds /\ s = fiber[f].at),
         replay' = 0 \/ (replay' = replay /\ (f # "startup" \/ fiber[f].step # "none"))
  PROVE  OneDrain'
<1>0. fiber \in [Fibers -> FiberRecords] /\ Holds \subseteq Claims
  BY DEF IInv, TypeOK, MemoryOK, FiberRecords, Claims, Holds
<1>1. fiber'[f] = r /\ \A g \in Fibers : g # f => fiber'[g] = fiber[g] /\ Thread(g)' = Thread(g)
  BY <1>0 DEF Thread
<1>2. \A g \in Fibers : fiber'[g].step \in Claims => g # f /\ fiber[g].step \in Claims
  BY <1>1
<1>3. \A g \in Fibers : fiber'[g].step \in Claims => Thread(g)' \in draining'
  BY <1>1, <1>2 DEF OneDrain
<1>4. \A g, h \in Fibers : g # h /\ fiber'[g].step \in Claims /\ fiber'[h].step \in Claims => Thread(g)' # Thread(h)'
  BY <1>1, <1>2 DEF OneDrain
<1>5. \A g \in Fibers : fiber'[g].step \in Holds => log'[fiber'[g].at].thread = Thread(g)'
  <2>1. \A g \in Fibers : fiber[g].step \in Holds => fiber[g].at \in Seqs
    BY DEF IInv, Places, PromotesRows, Holds
  <2>2. QED
    BY <1>0, <1>1, <1>2, <2>1 DEF OneDrain, LogKept
<1>6. \A s \in Seqs' : Owned(s)' => \E g \in Fibers : fiber'[g].step \in Holds /\ fiber'[g].at = s
  <2> SUFFICES ASSUME NEW s \in Seqs', Owned(s)' PROVE \E g \in Fibers : fiber'[g].step \in Holds /\ fiber'[g].at = s
    OBVIOUS
  <2>1. PICK g \in Fibers : fiber[g].step \in Holds /\ fiber[g].at = s
    BY DEF OneDrain
  <2>2. g # f
    BY <2>1
  <2>3. QED
    BY <1>1, <2>1, <2>2
<1>7. replay' # 0 => fiber'["startup"].step = "none"
  <2>1. "startup" \in Fibers
    BY DEF Fibers
  <2>2. QED
    BY <1>1, <2>1 DEF OneDrain
<1>8. QED
  BY <1>3, <1>4, <1>5, <1>6, <1>7 DEF OneDrain

\* A fiber marks a thread that nobody drains.
LEMMA DrainBegins ==
  ASSUME IInv, OneDrain, UNCHANGED <<log, row, boot, replay>>, NEW f \in Fibers, NEW r, fiber' = [fiber EXCEPT ![f] = r],
         r.step = "claim", r.todo = fiber[f].todo, fiber[f].step = "guard",
         Thread(f) \notin draining, draining' = draining \cup {Thread(f)}
  PROVE  OneDrain'
<1>0. fiber \in [Fibers -> FiberRecords] /\ Seqs' = Seqs /\ r.step \notin Holds /\ Holds \subseteq Claims
  BY DEF IInv, TypeOK, MemoryOK, FiberRecords, Seqs, Holds, Claims
<1>1. fiber'[f] = r /\ \A g \in Fibers : (g # f => fiber'[g] = fiber[g]) /\ Thread(g)' = Thread(g)
  BY <1>0 DEF Thread
<1>2. \A g \in Fibers : fiber'[g].step \in Claims => g = f \/ fiber[g].step \in Claims
  BY <1>1
<1>3. \A g \in Fibers : fiber'[g].step \in Claims => Thread(g)' \in draining'
  BY <1>1, <1>2 DEF OneDrain
<1>4. \A g, h \in Fibers : g # h /\ fiber'[g].step \in Claims /\ fiber'[h].step \in Claims => Thread(g)' # Thread(h)'
  BY <1>1, <1>2 DEF OneDrain
<1>5. \A g \in Fibers : fiber'[g].step \in Holds => log'[fiber'[g].at].thread = Thread(g)'
  BY <1>0, <1>1 DEF OneDrain
<1>6. \A s \in Seqs' : Owned(s)' => \E g \in Fibers : fiber'[g].step \in Holds /\ fiber'[g].at = s
  <2> SUFFICES ASSUME NEW s \in Seqs, Owned(s) PROVE \E g \in Fibers : fiber'[g].step \in Holds /\ fiber'[g].at = s
    BY <1>0 DEF Owned
  <2>1. PICK g \in Fibers : fiber[g].step \in Holds /\ fiber[g].at = s
    BY DEF OneDrain
  <2>2. g # f
    BY <2>1 DEF Holds
  <2>3. QED
    BY <1>1, <2>1, <2>2
<1>7. replay' # 0 => fiber'["startup"].step = "none"
  <2>1. "startup" \in Fibers
    BY DEF Fibers
  <2>2. QED
    BY <1>1, <2>1 DEF OneDrain
<1>8. QED
  BY <1>3, <1>4, <1>5, <1>6, <1>7 DEF OneDrain

\* A fiber claims a row of its queue, or goes on with the one it has claimed.
LEMMA DrainHolds ==
  ASSUME IInv, OneDrain, LogKept, NEW f \in Fibers, NEW r, fiber' = [fiber EXCEPT ![f] = r],
         r.step \in Holds, r.todo = fiber[f].todo, r.at \in Seqs, log[r.at].thread = Thread(f),
         fiber[f].step \in Claims, fiber[f].step \in Holds => fiber[f].at = r.at,
         UNCHANGED <<draining, replay>>,
         \A s \in Seqs' : Owned(s)' => s \in Seqs /\ (Owned(s) \/ s = r.at)
  PROVE  OneDrain'
<1>0. fiber \in [Fibers -> FiberRecords] /\ Holds \subseteq Claims
  BY DEF IInv, TypeOK, MemoryOK, FiberRecords, Holds, Claims
<1>1. fiber'[f] = r /\ \A g \in Fibers : (g # f => fiber'[g] = fiber[g]) /\ Thread(g)' = Thread(g)
  BY <1>0 DEF Thread
<1>2. \A g \in Fibers : fiber'[g].step \in Claims => fiber[g].step \in Claims
  BY <1>1
<1>3. \A g \in Fibers : fiber'[g].step \in Claims => Thread(g)' \in draining'
  BY <1>1, <1>2 DEF OneDrain
<1>4. \A g, h \in Fibers : g # h /\ fiber'[g].step \in Claims /\ fiber'[h].step \in Claims => Thread(g)' # Thread(h)'
  BY <1>1, <1>2 DEF OneDrain
<1>5. \A g \in Fibers : fiber'[g].step \in Holds => log'[fiber'[g].at].thread = Thread(g)'
  <2>1. \A g \in Fibers : fiber[g].step \in Holds => fiber[g].at \in Seqs
    BY DEF IInv, Places, PromotesRows, Holds
  <2>2. QED
    BY <1>0, <1>1, <2>1 DEF OneDrain, LogKept
<1>6. \A s \in Seqs' : Owned(s)' => \E g \in Fibers : fiber'[g].step \in Holds /\ fiber'[g].at = s
  <2> SUFFICES ASSUME NEW s \in Seqs', Owned(s)' PROVE \E g \in Fibers : fiber'[g].step \in Holds /\ fiber'[g].at = s
    OBVIOUS
  <2>1. CASE s = r.at
    BY <1>1, <2>1
  <2>2. CASE s # r.at
    <3>1. PICK g \in Fibers : fiber[g].step \in Holds /\ fiber[g].at = s
      BY <2>2 DEF OneDrain
    <3>2. g # f
      BY <2>2, <3>1
    <3>3. QED
      BY <1>1, <3>1, <3>2
  <2>3. QED
    BY <2>1, <2>2
<1>7. replay' # 0 => fiber'["startup"].step = "none"
  <2>1. "startup" \in Fibers /\ fiber[f].step # "none"
    BY DEF Fibers, Claims
  <2>2. QED
    BY <1>1, <2>1 DEF OneDrain
<1>8. QED
  BY <1>3, <1>4, <1>5, <1>6, <1>7 DEF OneDrain


Order == RowsInOrder /\ OneDrain /\ InOrder

\* A step that writes no row claims none.
LEMMA RowsRest ==
  ASSUME UNCHANGED <<log, row, boot>>
  PROVE  LogKept /\ OwnedKept /\ \A s \in Seqs : RowMovesOn(s)
<1>1. Seqs' = Seqs
  BY DEF Seqs
<1>2. QED
  BY <1>1 DEF LogKept, OwnedKept, RowMovesOn, Owned

\* A step of a fiber leaves the source alone.
LEMMA CursorRests ==
  ASSUME IInv, RowsInOrder, UNCHANGED <<log, cursor>>, src'.step = src.step, \A s \in Seqs : RowMovesOn(s)
  PROVE  CursorFollows
<1>1. src.step = "queued" => At \in Seqs /\ row[At].state # "none"
  BY DEF RowsInOrder, IInv, Places, HandlesItsEvent
<1>2. At \in Seqs /\ row[At].state # "none" => row'[At].state # "none"
  BY DEF RowMovesOn, Active
<1>3. QED
  BY <1>1, <1>2 DEF CursorFollows, RowsInOrder

\* A cancellation claims no row.
LEMMA CancelMoves ==
  ASSUME IInv, NEW T, UNCHANGED <<log, boot>>, row' = CancelThreads(T)
  PROVE  LogKept /\ OwnedKept /\ \A s \in Seqs : RowMovesOn(s)
<1> DEFINE S == UNION {Pending(t) : t \in T}
<1>1. Seqs' = Seqs /\ row' = Settled(S, "cancelled") /\ \A s \in S \cap Seqs : Active(s) /\ row[s].state # "none"
  BY DEF Seqs, CancelThreads, Pending, Active
<1>2. \A s \in Seqs : /\ row'[s].state = IF s \in S THEN "cancelled" ELSE row[s].state
                      /\ s \notin S => row'[s] = row[s]
  BY <1>1, SettledFacts DEF IInv
<1> HIDE DEF S
<1>3. QED
  BY <1>1, <1>2 DEF LogKept, OwnedKept, RowMovesOn, Owned

\* The event in hand gets a row, unless it has one or its message waits already.
LEMMA EnqueuedMoves ==
  ASSUME IInv, UNCHANGED <<log, boot>>, At \in Seqs, row' = Enqueued(At)
  PROVE  LogKept /\ OwnedKept /\ \A s \in Seqs : RowMovesOn(s)
<1>1. Seqs' = Seqs /\ row \in Seq(Rows) /\ Len(row) = Len(log)
  BY DEF Seqs, IInv, TypeOK, DiskOK
<1>2. \A s \in Seqs : s # At => row'[s] = row[s]
  BY EnqueuedFacts DEF IInv
<1>3. row'[At] = row[At] \/ (row[At].state = "none" /\ row'[At].state = "queued")
  <2>1. CASE Enqueued(At) = row
    BY <2>1
  <2>2. CASE Enqueued(At) # row
    <3>1. row[At].state = "none" /\ row' = [row EXCEPT ![At].state = "queued"]
      BY <2>2 DEF Enqueued
    <3>2. row[At] \in Rows /\ At \in DOMAIN row
      BY <1>1 DEF Seqs
    <3>3. QED
      BY <3>1, <3>2 DEF Rows
  <2>3. QED
    BY <2>1, <2>2
<1>4. QED
  BY <1>1, <1>2, <1>3 DEF LogKept, OwnedKept, RowMovesOn, Owned

\* A fiber without a queue starts a drain.
LEMMA DrainStarts ==
  ASSUME IInv, OneDrain, LogKept, OwnedKept, NEW f \in Fibers, NEW queues, NEW recover,
         StartDrain(f, queues, recover), fiber[f].step = "none", UNCHANGED draining,
         replay' = 0 \/ (replay' = replay /\ f # "startup")
  PROVE  OneDrain'
<1>1. Drain(queues, recover).step = "next"
  BY DEF Drain, NoDrain
<1> PICK r : r = Drain(queues, recover)
  OBVIOUS
<1>2. fiber' = [fiber EXCEPT ![f] = r] /\ r.step \notin Claims
  BY <1>1 DEF StartDrain, Claims
<1>3. \A s \in Seqs' : Owned(s)' => s \in Seqs /\ Owned(s) /\ ~(fiber[f].step \in Holds /\ s = fiber[f].at)
  BY DEF OwnedKept, Holds
<1>4. \A t \in draining : t \in draining'
  OBVIOUS
<1>5. QED
  BY <1>2, <1>3, <1>4, DrainLeaves

\* The source, or the reader of terminal events, may start a drain.
MayDrain ==
    \/ UNCHANGED fiber
    \/ \E f \in {"source", "terminal"} : fiber[f].step = "none" /\ \E queues, recover : StartDrain(f, queues, recover)

LEMMA MayDrainFacts ==
  ASSUME IInv, OneDrain, LogKept, OwnedKept, UNCHANGED <<draining, replay>>, MayDrain
  PROVE  OneDrain'
<1>1. CASE UNCHANGED fiber
  BY <1>1, DrainRests
<1>2. ASSUME NEW f \in {"source", "terminal"}, NEW queues, NEW recover, fiber[f].step = "none",
             StartDrain(f, queues, recover)
      PROVE  OneDrain'
  <2>1. f \in Fibers /\ f # "startup"
    BY DEF Fibers
  <2>2. QED
    BY <1>2, <2>1, DrainStarts
<1>3. QED
  BY <1>1, <1>2 DEF MayDrain

LEMMA SourceOrder ==
  ASSUME IInv, Order, UNCHANGED <<log, row, boot, draining, replay>>, CursorFollows, MayDrain
  PROVE  Order'
<1>1. LogKept /\ OwnedKept /\ \A s \in Seqs : RowMovesOn(s)
  BY RowsRest
<1>2. RowsInOrder' /\ InOrder'
  BY <1>1, RowsStayInOrder DEF Order, IInv
<1>3. OneDrain'
  BY <1>1, MayDrainFacts DEF Order
<1>4. QED
  BY <1>2, <1>3 DEF Order

\* A step of a fiber keeps the order of the rows that it moves on.
LEMMA FiberOrder ==
  ASSUME IInv, Order, UNCHANGED <<log, cursor>>, src'.step = src.step, \A s \in Seqs : RowMovesOn(s), OneDrain'
  PROVE  Order'
BY CursorRests, RowsStayInOrder DEF Order, IInv

LEMMA VisitOrder == ASSUME IInv, Order, NEW f \in Fibers, Visit(f) PROVE Order'
<1>1. UNCHANGED <<log, boot, cursor, draining, src, replay>> /\ fiber[f].step = "next"
  BY DEF Visit
<1>2. LogKept /\ OwnedKept /\ \A s \in Seqs : RowMovesOn(s)
  BY <1>1, RowsRest, CancelMoves DEF Visit
<1>3. PICK r : fiber' = [fiber EXCEPT ![f] = r] /\ r.step \notin Claims
  <2>1. CASE fiber[f].todo = <<>>
    BY <2>1, FiberFacts DEF Visit, Claims
  <2>2. CASE fiber[f].todo # <<>>
    BY <2>2, FiberFacts DEF Visit, Claims
  <2>3. QED
    BY <2>1, <2>2
<1>4. \A s \in Seqs' : Owned(s)' => s \in Seqs /\ Owned(s) /\ ~(fiber[f].step \in Holds /\ s = fiber[f].at)
  BY <1>1, <1>2 DEF OwnedKept, Holds
<1>5. OneDrain'
  BY <1>1, <1>2, <1>3, <1>4, DrainLeaves DEF Order
<1>6. QED
  BY <1>1, <1>2, <1>5, FiberOrder

LEMMA GuardOrder == ASSUME IInv, Order, NEW f \in Fibers, Guard(f) PROVE Order'
<1>1. UNCHANGED <<log, row, boot, cursor, src, replay>> /\ fiber[f].step = "guard"
  BY DEF Guard, disk
<1>2. LogKept /\ OwnedKept /\ \A s \in Seqs : RowMovesOn(s)
  BY <1>1, RowsRest
<1>3. fiber[f].todo # <<>>
  BY <1>1 DEF IInv, Places, PromotesRows
<1>4. CASE fiber' = [fiber EXCEPT ![f] = NextThread(f)] /\ UNCHANGED draining
  <2>1. NextThread(f).step \notin Claims
    BY <1>3, FiberFacts DEF Claims
  <2>2. \A s \in Seqs' : Owned(s)' => s \in Seqs /\ Owned(s) /\ ~(fiber[f].step \in Holds /\ s = fiber[f].at)
    BY <1>1, <1>2 DEF OwnedKept, Holds
  <2>3. OneDrain'
    BY <1>1, <1>2, <1>4, <2>1, <2>2, DrainLeaves DEF Order
  <2>4. QED
    BY <1>1, <1>2, <2>3, FiberOrder
<1>5. CASE Thread(f) \notin draining /\ Goto(f, "claim") /\ draining' = draining \cup {Thread(f)}
  <2> DEFINE r == [fiber[f] EXCEPT !.step = "claim"]
  <2>1. fiber' = [fiber EXCEPT ![f] = r] /\ r.step = "claim" /\ r.todo = fiber[f].todo
    BY <1>5, FiberFacts DEF Goto
  <2> HIDE DEF r
  <2>2. OneDrain'
    BY <1>1, <1>5, <2>1, DrainBegins DEF Order
  <2>3. QED
    BY <1>1, <1>2, <2>2, FiberOrder
<1>6. QED
  BY <1>4, <1>5 DEF Guard

\* Nothing older waits in front of the next claim: whatever else this process promotes is of
\* another thread, and a row of an earlier process is free again.
LEMMA NextClaimFirst ==
  ASSUME IInv, Order, NEW f \in Fibers, fiber[f].step = "claim", Claimable(Thread(f)) # {}
  PROVE  FirstInLine(NextClaim(Thread(f)))
<1> PICK t : t = Thread(f)
  OBVIOUS
<1> PICK s : s = NextClaim(t)
  OBVIOUS
<1>1. s \in Claimable(t) /\ Claimable(t) \subseteq Pending(t) /\ Pending(t) \subseteq Seqs
  BY ClaimFacts DEF IInv
<1>2. s \in Seqs /\ log[s].thread = t /\ Active(s)
  BY <1>1 DEF Pending
<1>3. Seqs \subseteq Nat /\ cursor \in Nat /\ At = cursor + 1 /\ Len(log) \in Nat /\ Seqs \subseteq 0 .. Len(log)
  BY DEF IInv, TypeOK, DiskOK, Seqs, At
<1> SUFFICES ASSUME Waited(s), NEW o \in Seqs, o < s, log[o].thread = t, Waited(o), row[o].state # "promoted"
             PROVE  FALSE
  BY <1>2 DEF FirstInLine
<1>4. row[o].state \in {"queued", "promoting"}
  <2>1. s <= At
    BY <1>2 DEF Order, RowsInOrder, Active
  <2>2. o <= cursor
    <3>1. s \in Nat /\ o \in Nat
      BY <1>2, <1>3
    <3>2. QED
      BY <1>3, <2>1, <3>1
  <2>3. row[o].state # "none"
    BY <2>2 DEF Order, RowsInOrder, Waited
  <2>4. row[o] \in Rows
    BY DEF IInv, TypeOK, DiskOK, Seqs
  <2>5. QED
    BY <2>3, <2>4 DEF Waited, Rows
<1>5. ~Owned(o)
  <2> SUFFICES ASSUME Owned(o) PROVE FALSE
    OBVIOUS
  <2>1. PICK g \in Fibers : fiber[g].step \in Holds /\ fiber[g].at = o
    BY DEF Order, OneDrain
  <2>2. Thread(g) = t
    BY <2>1 DEF Order, OneDrain
  <2>3. g # f
    BY <2>1 DEF Holds
  <2>4. QED
    BY <2>1, <2>2, <2>3 DEF Order, OneDrain, Holds, Claims
<1>6. o \in Claimable(t)
  BY <1>4, <1>5 DEF Owned, Claimable, Foreign, Pending, Active
<1> DEFINE steers == {q \in Claimable(t) : log[q].mode = "steer"}
<1>7. CASE steers = {}
  <2>1. s = Min(Claimable(t))
    BY <1>7 DEF NextClaim
  <2>2. Claimable(t) \in SUBSET Nat
    BY <1>1, <1>3
  <2>3. s <= o
    BY <1>6, <2>1, <2>2, MinFacts
  <2>4. QED
    BY <1>3, <1>2, <2>3
<1>8. CASE steers # {}
  <2>1. s = Max(steers)
    BY <1>8 DEF NextClaim
  <2>2. steers \in SUBSET (0 .. Len(log))
    BY <1>1, <1>3
  <2>3. s \in steers
    BY <1>3, <1>8, <2>1, <2>2, MaxFacts
  <2>4. QED
    BY <2>3 DEF Waited
<1>9. QED
  BY <1>7, <1>8

LEMMA ClaimNextOrder == ASSUME IInv, Order, NEW f \in Fibers, ClaimNext(f) PROVE Order'
<1> PICK t : t = Thread(f)
  OBVIOUS
<1>1. UNCHANGED <<log, boot, cursor, src, replay>> /\ fiber[f].step = "claim"
  BY DEF ClaimNext
<1>2. fiber[f].todo # <<>> /\ Seqs' = Seqs
  BY <1>1 DEF IInv, Places, PromotesRows, Seqs
<1>3. CASE Claimable(t) = {}
  <2>1. fiber' = [fiber EXCEPT ![f] = NextThread(f)] /\ row' = row /\ draining' = draining \ {t}
    BY <1>3 DEF ClaimNext
  <2>2. LogKept /\ OwnedKept /\ \A s \in Seqs : RowMovesOn(s)
    BY <1>1, <2>1, RowsRest
  <2>3. NextThread(f).step \notin Claims
    BY <1>2, FiberFacts DEF Claims
  <2>4. \A s \in Seqs' : Owned(s)' => s \in Seqs /\ Owned(s) /\ ~(fiber[f].step \in Holds /\ s = fiber[f].at)
    BY <1>1, <2>2 DEF OwnedKept, Holds
  <2>5. \A u \in draining : u \in draining' \/ (fiber[f].step \in Claims /\ u = Thread(f))
    BY <1>1, <2>1 DEF Claims
  <2>6. OneDrain'
    BY <1>1, <2>1, <2>2, <2>3, <2>4, <2>5, DrainLeaves DEF Order
  <2>7. QED
    BY <1>1, <2>2, <2>6, FiberOrder
<1>4. CASE Claimable(t) # {}
  <2> PICK s : s = NextClaim(t)
    OBVIOUS
  <2> DEFINE freed == Settled(Foreign(t), "queued")
             claimed == [state |-> "promoting", owner |-> boot, attempt |-> freed[s].attempt + 1]
             p == [fiber[f] EXCEPT !.step = "reserve"]
             r == [p EXCEPT !.at = s]
  <2>1. s \in Seqs /\ Active(s) /\ log[s].thread = t
    BY <1>4, ClaimFacts DEF IInv, Pending
  <2>2. row' = [freed EXCEPT ![s] = claimed] /\ fiber' = [fiber EXCEPT ![f] = r] /\ UNCHANGED draining
    BY <1>4, FiberFacts DEF ClaimNext
  <2>3. /\ freed \in Seq(Rows) /\ Len(freed) = Len(log)
        /\ \A q \in Seqs : /\ freed[q].state = IF q \in Foreign(t) THEN "queued" ELSE row[q].state
                           /\ q \notin Foreign(t) => freed[q] = row[q]
    <3>1. \A q \in Foreign(t) \cap Seqs : row[q].state # "none"
      BY DEF Foreign
    <3>2. QED
      BY <3>1, SettledFacts DEF IInv
  <2>4. claimed.state = "promoting"
    OBVIOUS
  <2> HIDE DEF freed, claimed
  <2>5. row'[s].state = "promoting" /\ \A q \in Seqs : q # s => row'[q] = freed[q]
    BY <2>1, <2>2, <2>3, <2>4 DEF Seqs
  <2>6. FirstInLine(s)
    BY <1>1, <1>4, NextClaimFirst
  <2>7. \A q \in Seqs : RowMovesOn(q)
    <3>1. RowMovesOn(s)
      BY <2>1, <2>5, <2>6 DEF RowMovesOn
    <3>2. \A q \in Seqs : q # s => RowMovesOn(q)
      BY <2>3, <2>5 DEF RowMovesOn, Foreign, Pending
    <3>3. QED
      BY <3>1, <3>2
  <2>8. \A q \in Seqs' : Owned(q)' => q \in Seqs /\ (Owned(q) \/ q = s)
    BY <1>1, <1>2, <2>3, <2>5 DEF Owned
  <2>9. r.step \in Holds /\ r.at = s /\ r.todo = fiber[f].todo
    <3>1. p \in FiberRecords /\ p.step = "reserve" /\ p.todo = fiber[f].todo
      BY FiberFacts
    <3> HIDE DEF p
    <3>2. QED
      BY <3>1 DEF FiberRecords, Holds
  <2> HIDE DEF r
  <2>10. LogKept
    BY <1>1, <1>2 DEF LogKept
  <2>11. fiber[f].step \in Claims /\ fiber[f].step \notin Holds
    BY <1>1 DEF Claims, Holds
  <2>12. OneDrain'
    BY <1>1, <2>1, <2>2, <2>8, <2>9, <2>10, <2>11, DrainHolds DEF Order
  <2>13. QED
    BY <1>1, <2>7, <2>12, FiberOrder
<1>5. QED
  BY <1>3, <1>4

LEMMA ReserveOrder == ASSUME IInv, Order, NEW f \in Fibers, Reserve(f) \/ Refuse(f) PROVE Order'
<1>1. /\ UNCHANGED <<log, row, boot, cursor, src, replay, draining>>
      /\ fiber[f].step \in {"reserve", "dispatch"}
  BY DEF Reserve, Refuse, disk
<1>2. LogKept /\ OwnedKept /\ \A s \in Seqs : RowMovesOn(s)
  BY <1>1, RowsRest
<1>3. PICK r : fiber' = [fiber EXCEPT ![f] = r] /\ r.step \in Holds /\ r.at = fiber[f].at /\ r.todo = fiber[f].todo
  <2>1. PICK step \in {"dispatch", "undo"} : Goto(f, step)
    BY DEF Reserve, Refuse
  <2> DEFINE r == [fiber[f] EXCEPT !.step = step]
  <2>2. r.step = step /\ r.at = fiber[f].at /\ r.todo = fiber[f].todo
    BY FiberFacts
  <2>3. fiber' = [fiber EXCEPT ![f] = r]
    BY <2>1 DEF Goto
  <2>4. QED
    BY <2>2, <2>3 DEF Holds
<1>4. fiber[f].at \in Seqs /\ fiber[f].step \in Claims /\ fiber[f].step \in Holds
  BY <1>1 DEF IInv, Places, PromotesRows, Holds, Claims
<1>5. log[r.at].thread = Thread(f)
  BY <1>3, <1>4 DEF Order, OneDrain
<1>6. \A s \in Seqs' : Owned(s)' => s \in Seqs /\ (Owned(s) \/ s = r.at)
  BY <1>2 DEF OwnedKept
<1>7. OneDrain'
  BY <1>1, <1>2, <1>3, <1>4, <1>5, <1>6, DrainHolds DEF Order
<1>8. QED
  BY <1>1, <1>2, <1>7, FiberOrder

LEMMA MarkPromotedOrder == ASSUME IInv, Order, NEW f \in Fibers, MarkPromoted(f) PROVE Order'
<1> PICK s : s = fiber[f].at
  OBVIOUS
<1>1. UNCHANGED <<log, boot, cursor, src, replay>> /\ fiber[f].step = "mark"
  BY DEF MarkPromoted
<1>2. /\ fiber[f].todo # <<>> /\ s \in Seqs /\ row[s].state # "none" /\ Seqs' = Seqs
      /\ fiber[f].step \in Claims /\ fiber[f].step \in Holds
  BY <1>1 DEF IInv, Places, PromotesRows, Seqs, Claims, Holds
<1>3. CASE Owned(s)
  <2>1. /\ row' = Settled({s}, "promoted") /\ fiber' = [fiber EXCEPT ![f] = NextThread(f)]
        /\ draining' = draining \ {Thread(f)}
    BY <1>3 DEF MarkPromoted
  <2>2. row'[s].state = "promoted" /\ \A q \in Seqs : q # s => row'[q] = row[q]
    <3>1. PICK S : S = {s}
      OBVIOUS
    <3>2. row' = Settled(S, "promoted") /\ \A q \in S \cap Seqs : row[q].state # "none"
      BY <1>2, <2>1, <3>1
    <3>3. \A q \in Seqs : row'[q].state = (IF q \in S THEN "promoted" ELSE row[q].state) /\ (q \notin S => row'[q] = row[q])
      BY <3>2, SettledFacts DEF IInv
    <3>4. QED
      BY <1>2, <3>1, <3>3
  <2>3. LogKept /\ \A q \in Seqs : RowMovesOn(q)
    BY <1>1, <1>2, <1>3, <2>2 DEF LogKept, RowMovesOn, Owned
  <2>4. \A q \in Seqs' : Owned(q)' => q \in Seqs /\ Owned(q) /\ ~(fiber[f].step \in Holds /\ q = fiber[f].at)
    BY <1>1, <1>2, <2>2 DEF Owned
  <2>5. \A t \in draining : t \in draining' \/ (fiber[f].step \in Claims /\ t = Thread(f))
    BY <1>2, <2>1
  <2>6. NextThread(f).step \notin Claims
    BY <1>2, FiberFacts DEF Claims
  <2>7. OneDrain'
    BY <1>1, <2>1, <2>3, <2>4, <2>5, <2>6, DrainLeaves DEF Order
  <2>8. QED
    BY <1>1, <2>3, <2>7, FiberOrder
<1>4. CASE ~Owned(s)
  <2> DEFINE r == [fiber[f] EXCEPT !.step = "undo"]
  <2>1. UNCHANGED <<row, draining>> /\ fiber' = [fiber EXCEPT ![f] = r]
    BY <1>4, FiberFacts DEF MarkPromoted, Goto
  <2>2. r.step \in Holds /\ r.at = s /\ r.todo = fiber[f].todo
    BY FiberFacts DEF Holds
  <2> HIDE DEF r
  <2>3. LogKept /\ OwnedKept /\ \A q \in Seqs : RowMovesOn(q)
    BY <1>1, <2>1, RowsRest
  <2>4. log[s].thread = Thread(f)
    BY <1>2 DEF Order, OneDrain
  <2>5. \A q \in Seqs' : Owned(q)' => q \in Seqs /\ (Owned(q) \/ q = r.at)
    BY <2>3 DEF OwnedKept
  <2>6. OneDrain'
    BY <1>1, <1>2, <2>1, <2>2, <2>3, <2>4, <2>5, DrainHolds DEF Order
  <2>7. QED
    BY <1>1, <2>3, <2>6, FiberOrder
<1>5. QED
  BY <1>3, <1>4

LEMMA UndoOrder == ASSUME IInv, Order, NEW f \in Fibers, Undo(f) PROVE Order'
<1> PICK s : s = fiber[f].at
  OBVIOUS
<1>1. /\ UNCHANGED <<log, boot, cursor, replay>> /\ fiber[f].step = "undo" /\ src'.step = src.step
      /\ fiber' = [fiber EXCEPT ![f] = NoDrain] /\ draining' = draining \ {Thread(f)}
  <2>1. src'.step = src.step
    BY JobFacts DEF Undo, IInv, JobRecords
  <2>2. QED
    BY <2>1 DEF Undo
<1>2. /\ s \in Seqs /\ row[s].state # "none" /\ Seqs' = Seqs
      /\ fiber[f].step \in Claims /\ fiber[f].step \in Holds
  BY <1>1 DEF IInv, Places, PromotesRows, Seqs, Claims, Holds
<1>3. /\ \A q \in Seqs : q # s => row'[q] = row[q]
      /\ row'[s].state = row[s].state \/ (Owned(s) /\ row'[s].state = "queued")
      /\ ~(row'[s].state = "promoting" /\ row'[s].owner = boot)
  <2>1. CASE Owned(s)
    <3>1. PICK S : S = {s}
      OBVIOUS
    <3>2. row' = Settled(S, "queued") /\ \A q \in S \cap Seqs : row[q].state # "none"
      BY <1>2, <2>1, <3>1 DEF Undo
    <3>3. \A q \in Seqs : row'[q].state = (IF q \in S THEN "queued" ELSE row[q].state) /\ (q \notin S => row'[q] = row[q])
      BY <3>2, SettledFacts DEF IInv
    <3>4. QED
      BY <1>2, <2>1, <3>1, <3>3
  <2>2. CASE ~Owned(s)
    BY <2>2 DEF Undo, Owned
  <2>3. QED
    BY <2>1, <2>2
<1>4. LogKept /\ \A q \in Seqs : RowMovesOn(q)
  BY <1>1, <1>2, <1>3 DEF LogKept, RowMovesOn, Owned, Active
<1>5. \A q \in Seqs' : Owned(q)' => q \in Seqs /\ Owned(q) /\ ~(fiber[f].step \in Holds /\ q = fiber[f].at)
  BY <1>1, <1>2, <1>3 DEF Owned
<1>6. \A t \in draining : t \in draining' \/ (fiber[f].step \in Claims /\ t = Thread(f))
  BY <1>1, <1>2
<1>7. NoDrain.step \notin Claims
  BY DEF NoDrain, Claims
<1>8. OneDrain'
  BY <1>1, <1>4, <1>5, <1>6, <1>7, DrainLeaves DEF Order
<1>9. QED
  BY <1>1, <1>4, <1>8, FiberOrder

\* An event that is not a queued message, or whose message is new, comes after all the others.
LEMMA LogOrder ==
  ASSUME IInv, Order, NEW n, NEW kind, NEW m, Grown(n, kind, m), UNCHANGED <<boot, cursor, src>>,
         kind # "queued" \/ \A s \in Seqs : log[s].msg # m
  PROVE  LogKept /\ OwnedKept /\ RowsInOrder' /\ InOrder'
<1>1. /\ n = Len(log) + 1 /\ Seqs' = Seqs \cup {n} /\ n \notin Seqs
      /\ \A s \in Seqs : log'[s] = log[s] /\ row'[s] = row[s]
      /\ log'[n].kind = kind /\ log'[n].msg = m /\ row'[n].state = "none"
      /\ Len(log) \in Nat /\ cursor \in Nat /\ cursor <= Len(log) /\ At = cursor + 1 /\ At' = At
  BY DEF Grown, NoRow, IInv, TypeOK, DiskOK, At
<1>2. \A s \in Seqs : s \in Nat /\ s < n
  BY <1>1 DEF Seqs
<1>3. LogKept /\ OwnedKept
  BY <1>1 DEF LogKept, OwnedKept, Owned
<1>4. \A a, b \in Seqs' : log'[b].kind = "queued" /\ log'[a].kind \in Starts /\ log'[a].msg = log'[b].msg => b <= a
  <2> SUFFICES ASSUME NEW a \in Seqs', NEW b \in Seqs', log'[b].kind = "queued", log'[a].kind \in Starts,
                      log'[a].msg = log'[b].msg
               PROVE  b <= a
    OBVIOUS
  <2>1. CASE a = n
    BY <1>1, <1>2, <2>1
  <2>2. CASE b = n /\ a # n
    BY <1>1, <2>2
  <2>3. CASE a # n /\ b # n
    BY <1>1, <2>3 DEF Order, RowsInOrder
  <2>4. QED
    BY <2>1, <2>2, <2>3
<1>5. \A s \in Seqs' : row'[s].state # "none" => s <= At'
  BY <1>1 DEF Order, RowsInOrder
<1>6. \A s \in Seqs' : log'[s].kind = "queued" /\ (s <= cursor' \/ (s = At' /\ src'.step = "queued"))
                       => row'[s].state # "none"
  <2>1. ~(n <= cursor \/ (n = At /\ src.step = "queued"))
    BY <1>1 DEF IInv, Places, HandlesItsEvent
  <2>2. QED
    BY <1>1, <2>1 DEF Order, RowsInOrder
<1>7. RowsInOrder'
  BY <1>4, <1>5, <1>6 DEF Order, RowsInOrder
<1>8. ASSUME NEW s \in Seqs', NEW q \in Seqs', s < q, log'[s].thread = log'[q].thread, Waited(s)', Waited(q)',
             row'[q].state \in {"promoting", "promoted"}
      PROVE  row'[s].state = "promoted"
  <2>1. q \in Seqs
    BY <1>1, <1>8
  <2>2. s \in Seqs
    BY <1>1, <1>2, <1>8, <2>1
  <2>3. QED
    BY <1>1, <1>8, <2>1, <2>2 DEF Order, InOrder, Waited
<1>9. InOrder'
  BY <1>8 DEF InOrder
<1>10. QED
  BY <1>3, <1>7, <1>9

LEMMA DispatchOrder == ASSUME IInv, Order, NEW f \in Fibers, Dispatch(f) PROVE Order'
<1> PICK s : s = fiber[f].at
  OBVIOUS
<1> DEFINE r == [fiber[f] EXCEPT !.step = "mark"]
<1>1. /\ UNCHANGED <<boot, cursor, src, replay, draining>> /\ fiber[f].step = "dispatch"
      /\ fiber' = [fiber EXCEPT ![f] = r]
  BY FiberFacts DEF Dispatch, Goto
<1>2. r.step \in Holds /\ r.at = s /\ r.todo = fiber[f].todo
  BY FiberFacts DEF Holds
<1> HIDE DEF r
<1>3. s \in Seqs /\ fiber[f].step \in Claims /\ fiber[f].step \in Holds
  BY <1>1 DEF IInv, Places, PromotesRows, Claims, Holds
<1>4. log[s].thread = Thread(f)
  BY <1>3 DEF Order, OneDrain
<1>5. LogKept /\ OwnedKept /\ RowsInOrder' /\ InOrder'
  <2>1. CASE UNCHANGED <<log, row>>
    <3>1. LogKept /\ OwnedKept /\ \A q \in Seqs : RowMovesOn(q)
      BY <1>1, <2>1, RowsRest
    <3>2. QED
      BY <1>1, <2>1, <3>1, CursorRests, RowsStayInOrder DEF Order, IInv
  <2>2. CASE Commit("start", log[s].thread, log[s].msg, log[s].mode)
    <3>1. log[s] \in Events
      BY <1>3 DEF IInv, TypeOK, DiskOK, Seqs
    <3>2. /\ "start" \in Intents /\ log[s].thread \in Threads /\ log[s].msg \in 0 .. MaxMessages
          /\ log[s].mode \in Modes \cup {"queue", "none"}
      BY <3>1 DEF Events, Intents
    <3>3. PICK n : Grown(n, "start", log[s].msg)
      BY <2>2, <3>2, CommitGrows DEF IInv
    <3>4. QED
      BY <1>1, <3>3, LogOrder
  <2>3. QED
    BY <2>1, <2>2 DEF Dispatch
<1>6. \A q \in Seqs' : Owned(q)' => q \in Seqs /\ (Owned(q) \/ q = r.at)
  BY <1>5 DEF OwnedKept
<1>7. OneDrain'
  BY <1>1, <1>2, <1>3, <1>4, <1>5, <1>6, DrainHolds DEF Order
<1>8. QED
  BY <1>5, <1>7 DEF Order

\* The job of the source is a record: an update of one field leaves the step alone.
LEMMA JobSteps ==
  ASSUME IInv
  PROVE  /\ \A step \in Jobs : [src EXCEPT !.step = step].step = step /\ [NoJob EXCEPT !.step = step].step = step
         /\ \A step \in Jobs : \A at, attempt : [NoJob EXCEPT !.step = step, !.at = at, !.attempt = attempt].step = step
         /\ NoJob.step = "idle"
<1>1. DOMAIN src = {"step", "at", "attempt", "turn", "failed"}
  BY DEF IInv, TypeOK, MemoryOK
<1>2. DOMAIN NoJob = {"step", "at", "attempt", "turn", "failed"} /\ NoJob.step = "idle"
  BY DEF NoJob
<1>3. \A step \in Jobs : \A at, attempt : [NoJob EXCEPT !.step = step, !.at = at, !.attempt = attempt].step = step
  <2> SUFFICES ASSUME NEW step \in Jobs, NEW at, NEW attempt
               PROVE  [NoJob EXCEPT !.step = step, !.at = at, !.attempt = attempt].step = step
    OBVIOUS
  <2> DEFINE q == [NoJob EXCEPT !.step = step]
             r == [q EXCEPT !.at = at]
  <2>1. q.step = step /\ DOMAIN q = DOMAIN NoJob
    BY <1>2
  <2> HIDE DEF q
  <2>2. r.step = step /\ DOMAIN r = DOMAIN NoJob
    BY <1>2, <2>1
  <2> HIDE DEF r
  <2>3. [r EXCEPT !.attempt = attempt].step = step
    BY <1>2, <2>2
  <2>4. QED
    BY <2>3 DEF q, r
<1>4. QED
  BY <1>1, <1>2, <1>3

\* The source goes on with its event, and may start a drain.
LEMMA SourceGoesOn ==
  ASSUME IInv, Order, UNCHANGED <<log, row, boot, cursor, draining, replay>>, MayDrain,
         src'.step \notin {"stop", "queued"}
  PROVE  Order'
<1>1. CursorFollows
  BY DEF CursorFollows
<1>2. QED
  BY <1>1, SourceOrder

LEMMA TurnQueuedOrder == ASSUME IInv, Order, TurnQueued PROVE Order'
<1>1. src.step = "idle" /\ At \in Seqs /\ log[At].kind = "queued"
  BY DueFacts DEF TurnQueued
<1>2. /\ UNCHANGED <<log, cursor, boot, draining, fiber, replay>> /\ row' = Enqueued(At)
      /\ src' = [src EXCEPT !.step = "queued"]
  BY DEF TurnQueued, Step
<1>3. LogKept /\ OwnedKept /\ \A s \in Seqs : RowMovesOn(s)
  BY <1>1, <1>2, EnqueuedMoves
<1>4. row'[At].state # "none"
  <2>1. CASE HasPending(log[At].thread, log[At].msg)
    <3>1. PICK q \in Seqs : Active(q) /\ log[q].msg = log[At].msg
      BY <2>1 DEF HasPending, Pending
    <3>2. row[q].state # "none" /\ log[q].kind \in Starts
      BY <3>1 DEF Active, IInv, Places, RowsOfStarts
    <3>3. q <= At /\ At <= q
      BY <1>1, <3>1, <3>2 DEF Order, RowsInOrder
    <3>4. q = At
      BY <1>1, <3>3 DEF IInv, TypeOK, DiskOK, Seqs
    <3>5. row' = row
      BY <1>2, <2>1 DEF Enqueued
    <3>6. QED
      BY <3>2, <3>4, <3>5
  <2>2. CASE row[At].state # "none"
    BY <1>2, <2>2 DEF Enqueued
  <2>3. CASE ~HasPending(log[At].thread, log[At].msg) /\ row[At].state = "none"
    <3>1. row' = [row EXCEPT ![At].state = "queued"]
      BY <1>2, <2>3 DEF Enqueued
    <3>2. row[At] \in Rows /\ At \in DOMAIN row
      BY <1>1 DEF IInv, TypeOK, DiskOK, Seqs
    <3>3. QED
      BY <3>1, <3>2 DEF Rows
  <2>4. QED
    BY <2>1, <2>2, <2>3
<1>5. src'.step = "queued"
  BY <1>2, JobSteps DEF Jobs
<1>6. CursorFollows
  BY <1>2, <1>4, <1>5 DEF CursorFollows
<1>7. RowsInOrder' /\ InOrder'
  BY <1>2, <1>3, <1>6, RowsStayInOrder DEF Order, IInv
<1>8. OneDrain'
  BY <1>2, <1>3, DrainRests DEF Order
<1>9. QED
  BY <1>7, <1>8 DEF Order

LEMMA TurnQueuedSettlesOrder == ASSUME IInv, Order, TurnQueuedSettles PROVE Order'
<1>1. src.step = "queued" /\ fiber["source"].step = "none"
  BY DEF TurnQueuedSettles, InHand
<1>2. UNCHANGED <<log, row, boot, draining, replay>> /\ cursor' = At /\ src' = NoJob
  BY DEF TurnQueuedSettles
<1>3. CursorFollows
  BY <1>1, <1>2, JobSteps DEF CursorFollows
<1>4. MayDrain
  BY <1>1 DEF TurnQueuedSettles, MayDrain
<1>5. QED
  BY <1>2, <1>3, <1>4, SourceOrder

LEMMA SkipOrder == ASSUME IInv, Order, Skip PROVE Order'
<1>1. src.step = "idle" /\ At \in Seqs /\ log[At].kind # "queued"
  BY DueFacts DEF Skip
<1>2. UNCHANGED <<log, row, boot, draining, fiber, src, replay>> /\ cursor' = At
  BY DEF Skip, memory
<1>3. CursorFollows /\ MayDrain
  BY <1>1, <1>2 DEF CursorFollows, MayDrain
<1>4. QED
  BY <1>2, <1>3, SourceOrder

LEMMA TurnStartOrder == ASSUME IInv, Order, TurnStart PROVE Order'
<1>1. UNCHANGED <<log, row, boot, cursor, draining, fiber, replay>>
  BY DEF TurnStart
<1>2. src'.step = "look"
  BY JobSteps DEF TurnStart, Jobs
<1>3. MayDrain
  BY <1>1 DEF MayDrain
<1>4. QED
  BY <1>1, <1>2, <1>3, SourceGoesOn

LEMMA LookOrder == ASSUME IInv, Order, Look \/ Exit PROVE Order'
<1>1. UNCHANGED <<log, row, boot, cursor, draining, fiber, replay>>
  BY DEF Look, Exit, disk
<1>2. src'.step \in {"exit", "requeue", "send", "orphan", "settle"}
  <2>1. CASE Look
    <3> DEFINE q == [src EXCEPT !.step = "requeue"]
    <3>1. \/ \E step \in {"exit", "send"} : src' = [src EXCEPT !.step = step]
          \/ src' = [q EXCEPT !.turn = turn]
      BY <2>1 DEF Look
    <3>2. q \in JobRecords /\ q.step = "requeue"
      BY JobFacts DEF IInv, Jobs
    <3> HIDE DEF q
    <3>3. [q EXCEPT !.turn = turn].step = "requeue"
      BY <3>2 DEF JobRecords
    <3>4. \A step \in {"exit", "send"} : [src EXCEPT !.step = step].step = step
      BY JobSteps DEF Jobs
    <3>5. QED
      BY <3>1, <3>3, <3>4
  <2>2. CASE Exit
    <3>1. \E step \in {"orphan", "settle"} : src' = [src EXCEPT !.step = step]
      BY <2>2 DEF Exit, Step
    <3>2. QED
      BY <3>1, JobSteps DEF Jobs
  <2>3. QED
    BY <2>1, <2>2
<1>3. MayDrain
  BY <1>1 DEF MayDrain
<1>4. QED
  BY <1>1, <1>2, <1>3, SourceGoesOn

LEMMA RequeueOrder == ASSUME IInv, Order, Requeue PROVE Order'
<1>1. At \in Seqs
  BY HandFacts DEF Requeue
<1>2. /\ UNCHANGED <<log, cursor, boot, draining, fiber, replay>> /\ row' = Enqueued(At)
      /\ src' = [src EXCEPT !.step = "bind"]
  BY DEF Requeue, Step
<1>3. LogKept /\ OwnedKept /\ \A s \in Seqs : RowMovesOn(s)
  BY <1>1, <1>2, EnqueuedMoves
<1>4. src'.step = "bind"
  BY <1>2, JobSteps DEF Jobs
<1>5. CursorFollows
  BY <1>2, <1>4 DEF CursorFollows
<1>6. RowsInOrder' /\ InOrder'
  BY <1>2, <1>3, <1>5, RowsStayInOrder DEF Order, IInv
<1>7. OneDrain'
  BY <1>2, <1>3, DrainRests DEF Order
<1>8. QED
  BY <1>6, <1>7 DEF Order

LEMMA SendTurnOrder == ASSUME IInv, Order, SendTurn \/ SendTimesOut PROVE Order'
<1>1. UNCHANGED <<log, row, boot, cursor, draining, fiber, replay>>
  BY DEF SendTurn, SendTimesOut, disk
<1>2. src'.step \in {"bind", "exit"}
  <2> DEFINE bound == [src EXCEPT !.step = "bind"]
             left == [src EXCEPT !.step = "exit"]
  <2>1. src' = [bound EXCEPT !.turn = turn'] \/ src' = [left EXCEPT !.failed = TRUE]
    BY DEF SendTurn, SendTimesOut
  <2>2. bound \in JobRecords /\ bound.step = "bind" /\ left \in JobRecords /\ left.step = "exit"
    BY JobFacts DEF IInv, Jobs
  <2> HIDE DEF bound, left
  <2>3. [bound EXCEPT !.turn = turn'].step = "bind" /\ [left EXCEPT !.failed = TRUE].step = "exit"
    BY <2>2 DEF JobRecords
  <2>4. QED
    BY <2>1, <2>3
<1>3. MayDrain
  BY <1>1 DEF MayDrain
<1>4. QED
  BY <1>1, <1>2, <1>3, SourceGoesOn

LEMMA BindOrder == ASSUME IInv, Order, Bind \/ ReleaseOrphan \/ SendRejected PROVE Order'
<1>1. UNCHANGED <<log, row, boot, cursor, draining, replay>> /\ fiber["source"].step = "none"
  BY DEF Bind, ReleaseOrphan, SendRejected, disk, InHand
<1>2. src'.step \in {"exit", "settle"}
  <2>1. \E step \in {"exit", "settle"} : src' = [src EXCEPT !.step = step]
    BY DEF Bind, ReleaseOrphan, SendRejected, Step
  <2>2. QED
    BY <2>1, JobSteps DEF Jobs
<1>3. MayDrain
  BY <1>1 DEF Bind, ReleaseOrphan, SendRejected, BindTo, MayDrain
<1>4. QED
  BY <1>1, <1>2, <1>3, SourceGoesOn

LEMMA SettleStartOrder == ASSUME IInv, Order, SettleStart PROVE Order'
<1>1. log[At].kind # "queued"
  BY HandFacts DEF SettleStart, IInv, Places, HandlesItsEvent
<1>2. UNCHANGED <<log, row, boot, draining, fiber, replay>> /\ cursor' = At /\ src' = NoJob
  BY DEF SettleStart
<1>3. CursorFollows /\ MayDrain
  BY <1>1, <1>2, JobSteps DEF CursorFollows, MayDrain
<1>4. QED
  BY <1>2, <1>3, SourceOrder

LEMMA ThreadDeletedOrder == ASSUME IInv, Order, ThreadDeleted PROVE Order'
<1>1. src.step = "idle" /\ At \in Seqs /\ log[At].kind # "queued"
  BY DueFacts DEF ThreadDeleted
<1>2. /\ UNCHANGED <<log, boot, draining, fiber, src, replay>> /\ cursor' = At
      /\ row' = CancelThreads({log[At].thread})
  BY DEF ThreadDeleted, memory
<1>3. LogKept /\ OwnedKept /\ \A s \in Seqs : RowMovesOn(s)
  BY <1>2, CancelMoves
<1>4. CursorFollows
  BY <1>1, <1>2 DEF CursorFollows
<1>5. RowsInOrder' /\ InOrder'
  BY <1>2, <1>3, <1>4, RowsStayInOrder DEF Order, IInv
<1>6. OneDrain'
  BY <1>2, <1>3, DrainRests DEF Order
<1>7. QED
  BY <1>5, <1>6 DEF Order

\* No stop is under way, and no edit.
LEMMA DisturbingSteps ==
  ASSUME IInv, Undisturbed, Order
  PROVE  ~SessionStop /\ ~SessionStopped /\ ~Edit /\ ~EditQueued /\ ~EditSent /\ ~Resend
<1>1. ~SessionStop /\ ~Edit
  BY DueFacts DEF SessionStop, Edit, Undisturbed
<1>2. ~SessionStopped
  BY DEF SessionStopped, InHand, Order, RowsInOrder
<1>3. ~EditQueued /\ ~EditSent /\ ~Resend
  BY DEF EditQueued, EditSent, Resend, InHand, IInv, Places, HandlesItsEvent, Undisturbed
<1>4. QED
  BY <1>1, <1>2, <1>3

\* A step that leaves the source alone, and may let the reader of terminal events drain.
LEMMA TerminalEventOrder == ASSUME IInv, Order, TerminalEvent \/ TurnEnds \/ TurnAborts \/ Project PROVE Order'
<1>1. UNCHANGED <<log, row, boot, cursor, draining, src, replay>>
  BY DEF TerminalEvent, TurnEnds, TurnAborts, Project, disk, memory
<1>2. MayDrain
  BY DEF TerminalEvent, TurnEnds, TurnAborts, Project, memory, MayDrain
<1>3. CursorFollows
  BY <1>1, RowsRest, CursorRests DEF Order
<1>4. QED
  BY <1>1, <1>2, <1>3, SourceOrder

LEMMA RecoverQueuesOrder == ASSUME IInv, Order, RecoverQueues PROVE Order'
<1>1. UNCHANGED <<log, row, boot, cursor, draining, src>> /\ replay # 0 /\ replay' = 0
  BY DEF RecoverQueues, disk
<1>2. LogKept /\ OwnedKept /\ \A s \in Seqs : RowMovesOn(s)
  BY <1>1, RowsRest
<1>3. "startup" \in Fibers /\ fiber["startup"].step = "none"
  BY <1>1 DEF Fibers, Order, OneDrain
<1>4. PICK queues : StartDrain("startup", queues, TRUE)
  BY DEF RecoverQueues
<1>5. OneDrain'
  BY <1>1, <1>2, <1>3, <1>4, DrainStarts DEF Order
<1>6. QED
  BY <1>1, <1>2, <1>5, FiberOrder

\* In a new process no fiber drains, and the rows that the old one claimed are not its own.
LEMMA CrashOrder == ASSUME IInv, Order, Crash PROVE Order'
<1>1. /\ UNCHANGED <<log, row>> /\ boot' = boot + 1 /\ draining' = {} /\ src' = NoJob
      /\ fiber' = [f \in Fibers |-> NoDrain] /\ cursor' = IF inflight THEN At ELSE cursor
  BY DEF Crash
<1>2. Seqs' = Seqs /\ \A s \in Seqs : RowMovesOn(s)
  BY <1>1 DEF Seqs, RowMovesOn
<1>3. CursorFollows
  <2>1. inflight => log[At].kind # "queued" /\ At \in Seqs
    BY DEF IInv, Places, HandlesItsEvent, Order, RowsInOrder, Jobs, TypeOK, MemoryOK
  <2>2. src'.step = "idle"
    BY <1>1, JobSteps
  <2>3. QED
    BY <1>1, <2>1, <2>2 DEF CursorFollows
<1>4. RowsInOrder' /\ InOrder'
  BY <1>1, <1>2, <1>3, RowsStayInOrder DEF Order, IInv
<1>5. \A f \in Fibers : fiber'[f].step = "none"
  BY <1>1 DEF NoDrain
<1>6. \A s \in Seqs' : ~Owned(s)'
  <2>1. boot \in Nat /\ \A s \in Seqs : row[s] \in Rows /\ row[s].owner <= boot
    BY DEF IInv, TypeOK, DiskOK, Seqs
  <2>2. \A s \in Seqs : row[s].owner # boot + 1
    BY <2>1 DEF Rows
  <2>3. QED
    BY <1>1, <1>2, <2>2 DEF Owned
<1>7. OneDrain'
  <2>1. "startup" \in Fibers
    BY DEF Fibers
  <2>2. QED
    BY <1>5, <1>6, <2>1 DEF OneDrain, Claims, Holds
<1>8. QED
  BY <1>4, <1>7 DEF Order

\* The user's requests get their places at the end of the log.
LEMMA CommitOrder ==
  ASSUME IInv, Order, NEW kind \in Intents, NEW t \in Threads, NEW m \in 0 .. MaxMessages,
         NEW mode \in Modes \cup {"queue", "none"}, Commit(kind, t, m, mode), UNCHANGED <<cursor, boot, memory>>,
         kind # "queued" \/ \A s \in Seqs : log[s].msg # m
  PROVE  Order'
<1>1. PICK n : Grown(n, kind, m)
  BY CommitGrows DEF IInv
<1>2. LogKept /\ OwnedKept /\ RowsInOrder' /\ InOrder'
  BY <1>1, LogOrder DEF memory
<1>3. OneDrain'
  BY <1>2, DrainRests DEF Order, memory
<1>4. QED
  BY <1>2, <1>3 DEF Order

LEMMA SendOrder == ASSUME IInv, Order, NEW t \in Threads, NEW mode \in Modes, Send(t, mode) PROVE Order'
<1>1. Min(Unsent) \in Unsent
  <2>1. Unsent \in SUBSET Nat /\ Unsent # {}
    BY DEF Send, Unsent, Messages
  <2>2. QED
    BY <2>1, MinFacts
<1>2. MaxMessages \in Nat
  BY BoundsAssumption
<1>3. Min(Unsent) \in 0 .. MaxMessages /\ \A s \in Seqs : log[s].msg # Min(Unsent)
  BY <1>1, <1>2 DEF Unsent, Messages
<1>4. PICK kind \in {"queued", "start"} : Commit(kind, t, Min(Unsent), mode)
  BY DEF Send
<1>5. kind \in Intents /\ mode \in Modes \cup {"queue", "none"} /\ UNCHANGED <<cursor, boot, memory>>
  BY DEF Intents, Send
<1>6. QED
  BY <1>3, <1>4, <1>5, CommitOrder

LEMMA AskOrder == ASSUME IInv, Order, NEW t \in Threads, NEW kind \in Asks, Ask(t, kind) PROVE Order'
<1>1. PICK m \in Asked(t, kind) : Commit(kind, t, m, "none")
  BY DEF Ask
<1>2. m \in 0 .. MaxMessages
  <2>1. CASE kind = "edit"
    <3>1. PICK s \in Mine(t) : m = log[s].msg
      BY <1>1, <2>1 DEF Asked
    <3>2. log[s] \in Events
      BY <3>1 DEF Mine, Seqs, IInv, TypeOK, DiskOK
    <3>3. QED
      BY <3>1, <3>2 DEF Events
  <2>2. CASE kind # "edit"
    BY <1>1, <2>2, BoundsAssumption DEF Asked
  <2>3. QED
    BY <2>1, <2>2
<1>3. kind \in Intents /\ kind # "queued" /\ UNCHANGED <<cursor, boot, memory>>
  BY AsksAssumption DEF Intents, Ask
<1>4. QED
  BY <1>1, <1>2, <1>3, CommitOrder

\* The log only grows: what disturbs the order stays in it.
LEMMA UndisturbedBefore ==
  ASSUME IInv, [Next]_vars, Undisturbed'
  PROVE  Undisturbed
<1>1. LogKept
  <2>1. CASE UNCHANGED log
    BY <2>1 DEF LogKept, Seqs
  <2>2. CASE \E kind, t, m, mode : Commit(kind, t, m, mode)
    BY <2>2 DEF Commit, LogKept, Seqs, IInv, TypeOK, DiskOK
  <2>3. UNCHANGED log \/ \E kind, t, m, mode : Commit(kind, t, m, mode)
    <3>1. ASSUME NEW f \in Fibers, DrainStep(f) PROVE UNCHANGED log \/ Dispatch(f)
      BY <3>1 DEF DrainStep, Visit, Guard, ClaimNext, Reserve, Refuse, MarkPromoted, Undo, disk
    <3>2. ASSUME SourceStep \/ SendRejected \/ SendTimesOut PROVE UNCHANGED log \/ Resend
      BY <3>2 DEF SourceStep, TurnQueued, TurnQueuedSettles, Skip, TurnStart, Look, Requeue, SendTurn, Bind, Exit,
         ReleaseOrphan, SettleStart, SessionStop, SessionStopped, Edit, EditQueued, EditSent, ThreadDeleted,
         SendRejected, SendTimesOut, disk
    <3>3. ASSUME TurnEnds \/ TurnAborts \/ Project \/ TerminalEvent \/ Crash \/ RecoverQueues \/ UNCHANGED vars
          PROVE  UNCHANGED log
      BY <3>3 DEF TurnEnds, TurnAborts, Project, TerminalEvent, Crash, RecoverQueues, vars, disk
    <3>4. ASSUME NEW f \in Fibers, Dispatch(f) PROVE UNCHANGED log \/ \E kind, t, m, mode : Commit(kind, t, m, mode)
      BY <3>4 DEF Dispatch
    <3>5. ASSUME Resend PROVE UNCHANGED log \/ \E kind, t, m, mode : Commit(kind, t, m, mode)
      BY <3>5 DEF Resend
    <3>6. ASSUME NEW t \in Threads, NEW mode \in Modes, Send(t, mode)
          PROVE  \E kind, u, m, how : Commit(kind, u, m, how)
      BY <3>6 DEF Send
    <3>7. ASSUME NEW t \in Threads, NEW kind \in Asks, Ask(t, kind)
          PROVE  \E what, u, m, how : Commit(what, u, m, how)
      BY <3>7 DEF Ask
    <3>8. QED
      BY <3>1, <3>2, <3>3, <3>4, <3>5, <3>6, <3>7 DEF Next
  <2>4. QED
    BY <2>1, <2>2, <2>3
<1>2. QED
  BY <1>1 DEF LogKept, Undisturbed

LEMMA NextOrder == ASSUME IInv, OrderInv, [Next]_vars PROVE OrderInv'
<1> SUFFICES ASSUME Undisturbed' PROVE Order'
  BY DEF OrderInv, Order
<1>0. Undisturbed /\ Order
  BY UndisturbedBefore DEF OrderInv, Order
<1>1. CASE \E t \in Threads, mode \in Modes : Send(t, mode)
  BY <1>0, <1>1, SendOrder
<1>2. CASE \E t \in Threads, kind \in Asks : Ask(t, kind)
  BY <1>0, <1>2, AskOrder
<1>3. CASE TerminalEvent \/ TurnEnds \/ TurnAborts \/ Project
  BY <1>0, <1>3, TerminalEventOrder
<1>4. ASSUME NEW f \in Fibers, DrainStep(f) PROVE Order'
  BY <1>0, <1>4, VisitOrder, GuardOrder, ClaimNextOrder, ReserveOrder, DispatchOrder, MarkPromotedOrder, UndoOrder
     DEF DrainStep
<1>5. CASE SourceStep
  BY <1>0, <1>5, TurnQueuedOrder, TurnQueuedSettlesOrder, SkipOrder, TurnStartOrder, LookOrder, RequeueOrder,
     SendTurnOrder, BindOrder, SettleStartOrder, ThreadDeletedOrder, DisturbingSteps DEF SourceStep
<1>6. CASE SendRejected \/ SendTimesOut
  BY <1>0, <1>6, BindOrder, SendTurnOrder
<1>7. CASE Crash \/ RecoverQueues
  BY <1>0, <1>7, CrashOrder, RecoverQueuesOrder
<1>8. CASE UNCHANGED vars
  <2>1. UNCHANGED <<log, row, boot, cursor, draining, fiber, src, replay>>
    BY <1>8 DEF vars, disk, memory
  <2>2. CursorFollows /\ MayDrain
    BY <1>0, <2>1, RowsRest, CursorRests DEF Order, MayDrain
  <2>3. QED
    BY <1>0, <2>1, <2>2, SourceOrder
<1>9. QED
  BY <1>1, <1>2, <1>3, <1>4, <1>5, <1>6, <1>7, <1>8 DEF Next

LEMMA InitOrder == ASSUME Init PROVE OrderInv
<1>1. Seqs = {}
  BY DEF Init, Seqs
<1>2. \A f \in Fibers : fiber[f].step = "none"
  BY DEF Init, NoDrain
<1>3. src.step = "idle" /\ replay = 0
  BY DEF Init, NoJob
<1>4. QED
  BY <1>1, <1>2, <1>3 DEF OrderInv, RowsInOrder, OneDrain, InOrder, Claims, Holds

\* Unless a stop or an edit disturbs them, the messages that wait in a thread are promoted in the
\* order in which the user sent them: a thread is drained by one fiber at a time, a fiber claims
\* only what has nothing older in front of it, and the source queues in the order of the log.
THEOREM PromotedInOrder == Spec => []OldestFirst
<1>1. Init => OrderInv
  BY InitOrder
<1>2. IInv /\ OrderInv /\ [Next]_vars => OrderInv'
  BY NextOrder
<1>3. OrderInv => OldestFirst
  BY DEF OrderInv, InOrder, OldestFirst
<1>4. QED
  BY <1>1, <1>2, <1>3, InductiveInvariant, PTL DEF Spec

=============================================================================
