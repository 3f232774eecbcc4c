----------------------- MODULE ProviderDeliveryProofs -----------------------
(***************************************************************************)
(* Theorems about ProviderDelivery, for every set of threads and logs, and *)
(* any number of restarts, retries, operator decisions and failed writes.  *)
(***************************************************************************)
EXTENDS ProviderDelivery, TLAPS, FiniteSetTheorems, WellFoundedInduction

-----------------------------------------------------------------------------
(* The invariant *)

\* Only claimed intents up to the one after the cursor have rows, and the list of the startup is of these.
Behind ==
    /\ cursor = acked
    /\ \A s \in Seqs : row[s].state # "none" => s \in DOMAIN log /\ s <= acked + 1 /\ Claimed(KindOf(s))
    /\ \A i \in DOMAIN resumes : resumes[i] <= acked /\ row[resumes[i]].state # "none"

\* The holder of the lock is at a claimed intent of its thread, owns the row it works on, and an
\* operator's delivery is not left in flight.
JobFits ==
    Idle \/
    /\ job.at \in DOMAIN log /\ job.at <= acked + 1 /\ Claimed(KindOf(job.at))
    /\ job.origin \in DOMAIN log /\ ThreadOf(job.at) = ThreadOf(job.origin)
    /\ job.mode # "none" /\ (job.who = "source" <=> job.mode = "ordered")
    /\ job.mode = "ordered" => job.step \in {"admit", "claim", "call", "settle", "advance"}
    /\ job.mode = "retry" => job.at = job.origin
    /\ job.mode = "replay" => job.through <= acked
    /\ job.step = "verify" => job.mode = "retry"
    /\ job.step = "seek" => job.mode = "replay"
    /\ job.step = "claim" => row[job.at].state = "retry"
    /\ job.step \in {"call", "settle"} => row[job.at].state = "inflight" /\ row[job.at].owner = boot
    /\ job.who = "operator" => row[job.origin].state # "none"
    /\ job.who = "operator" /\ row[job.origin].state = "inflight" =>
         job.at = job.origin /\ job.step \in {"call", "settle"}

\* The holder of the lock sends a side effect only where its thread has no blocker.
LeftAlone ==
    ~Idle /\ job.step \in {"claim", "call", "settle"} /\ Skippable(KindOf(job.at)) =>
        \A b \in DOMAIN log : ThreadOf(b) = ThreadOf(job.at) => ~IsBlocker(b)

Core == TypeOK /\ ~died /\ Behind /\ JobFits /\ LeftAlone

\* What the cursor may pass.
Accounted(s) == row[s].state \in {"succeeded", "dead", "uncertain"} \/ s \in retried \/ HeldBack(s)

Accounts ==
    /\ \A s \in DOMAIN log : s <= acked /\ Claimed(KindOf(s)) => Accounted(s)
    /\ ~Idle /\ job.step = "advance" => Accounted(job.at)
    /\ \A s \in DOMAIN log : IsBlocker(s) => s \in blockedOnce
    /\ \A t \in quarantined : \E b \in DOMAIN log : ThreadOf(b) = t /\ IsBlocker(b)

\* The delivery of s may still reach the provider without another decision.
Right(s) ==
    IF \/ row[s].state \in {"none", "retry"}
       \/ ~Idle /\ job.at = s /\ (job.step = "call" \/ (job.step = "settle" /\ job.answer = "retry"))
    THEN 1 ELSE 0

RanInLog == \A i \in DOMAIN ran : ran[i] \in DOMAIN log /\ ran[i] <= acked + 1

Rights ==
    /\ RanInLog
    /\ \A s \in DOMAIN log : ReplaySafe(KindOf(s)) \/ Times(s) + Right(s) <= 1 + approved[s]

\* In the first process nothing goes back behind what the provider has received.
Onwards ==
    boot = 1 =>
        /\ resumes = <<>>
        /\ phase = "heal" => Idle /\ \A s \in Seqs : row[s].state = "none"
        /\ \A i \in DOMAIN ran : Skippable(KindOf(ran[i])) =>
             /\ \A b \in DOMAIN log : ThreadOf(b) = ThreadOf(ran[i]) /\ IsBlocker(b) => ran[i] <= b
             /\ ~Idle /\ ThreadOf(job.at) = ThreadOf(ran[i]) => ran[i] <= job.at

IInv == Core /\ Accounts /\ Rights /\ Onwards /\ InLogOrder

-----------------------------------------------------------------------------
(* Operators *)

\* A set of numbers has a smallest element.
LEMMA Smallest == ASSUME NEW S \in SUBSET Nat, S # {} PROVE \E m \in S : \A e \in S : m <= e
<1>1. PICK m \in S : \A e \in S : <<e, m>> \notin OpToRel(<, Nat)
  BY NatLessThanWellFounded, WFMin
<1>2. ASSUME NEW e \in S PROVE m <= e
  <2>1. e \in Nat /\ m \in Nat
    OBVIOUS
  <2>2. ~(e < m)
    BY <1>1, <2>1 DEF OpToRel
  <2>3. QED
    BY <2>1, <2>2
<1>3. QED
  BY <1>2

\* Sequence numbers are positive.
LEMMA SeqsFacts == Seqs \subseteq Nat \ {0}
BY LogsAssumption DEF Seqs

\* An event of the log has a thread and a kind.
LEMMA LogFacts ==
  ASSUME TypeOK
  PROVE  /\ Len(log) \in Nat /\ DOMAIN log = 1 .. Len(log) /\ acked \in Nat /\ cursor \in Nat
         /\ \A s \in DOMAIN log : s \in Seqs /\ s \in Nat /\ ThreadOf(s) \in Threads /\ KindOf(s) \in AllKinds
<1>1. Len(log) \in Nat /\ DOMAIN log = 1 .. Len(log) /\ acked \in Nat /\ cursor \in Nat
  BY DEF TypeOK
<1>2. ASSUME NEW s \in DOMAIN log
      PROVE  s \in Seqs /\ s \in Nat /\ ThreadOf(s) \in Threads /\ KindOf(s) \in AllKinds
  <2>1. log[s] \in Events /\ s \in Seqs
    BY DEF TypeOK
  <2>2. QED
    BY <2>1, SeqsFacts DEF Events, ThreadOf, KindOf
<1>3. QED
  BY <1>1, <1>2

\* The table has a new row for s, in the state st.
RowMoves(s, st) ==
    /\ row' \in [Seqs -> RowType] /\ row'[s].state = st
    /\ \A u \in Seqs : u # s => row'[u] = row[u]

\* One row changes.
LEMMA RowFacts ==
  ASSUME TypeOK, NEW s \in Seqs, NEW r \in RowType, row' = [row EXCEPT ![s] = r]
  PROVE  RowMoves(s, r.state) /\ row'[s] = r
BY DEF TypeOK, RowMoves

\* A row at rest is a row.
LEMMA RestFacts ==
  ASSUME TypeOK, NEW s \in Seqs, NEW st \in {"retry", "succeeded", "dead", "uncertain"}
  PROVE  Rest(s, st) \in RowType /\ Rest(s, st).state = st
<1>1. row[s] \in RowType /\ 0 \in 0 .. MaxCrashes + 1
  BY BoundsAssumption DEF TypeOK
<1> DEFINE p == [row[s] EXCEPT !.state = st]
           q == [p EXCEPT !.owner = 0]
           r == [q EXCEPT !.unwritten = FALSE]
<1>2. p \in RowType /\ p.state = st
  BY <1>1 DEF RowType
<1> HIDE DEF p
<1>3. q \in RowType /\ q.state = st
  BY <1>1, <1>2 DEF RowType
<1> HIDE DEF q
<1>4. r \in RowType /\ r.state = st
  BY <1>3 DEF RowType
<1>5. r = Rest(s, st)
  BY DEF p, q, Rest
<1>6. QED
  BY <1>4, <1>5

\* The holder of the lock goes on with the same event.
Moved(step) ==
    /\ job' \in Jobs /\ job'.step = step /\ job'.who = job.who /\ job'.mode = job.mode
    /\ job'.at = job.at /\ job'.origin = job.origin /\ job'.through = job.through

Steps == {"admit", "claim", "call", "settle", "advance", "verify", "seek", "done"}

\* The job goes to another of its steps.
LEMMA GotoFacts ==
  ASSUME TypeOK, NEW step \in Steps, Goto(step)
  PROVE  Moved(step) /\ job'.answer = job.answer
BY DEF TypeOK, Goto, Moved, Jobs, Steps

\* The lock is free.
LEMMA NoJobFacts == NoJob \in Jobs /\ NoJob.who = "none"
BY DEF NoJob, Jobs

\* A job that starts admits its first event.
LEMMA StartFacts ==
  ASSUME NEW who \in {"source", "resume", "operator"}, NEW mode \in {"ordered", "retry", "replay"}, NEW s \in Seqs
  PROVE  LET j == StartJob(who, mode, s)
         IN  /\ j \in Jobs /\ j.who = who /\ j.mode = mode /\ j.step = "admit" /\ j.at = s /\ j.origin = s
             /\ j.through = 0 /\ j.answer = "none"
<1> DEFINE a == [NoJob EXCEPT !.who = who]
           b == [a EXCEPT !.mode = mode]
           c == [b EXCEPT !.step = "admit"]
           d == [c EXCEPT !.at = s]
           e == [d EXCEPT !.origin = s]
<1>1. a \in Jobs /\ a.who = who /\ a.through = 0 /\ a.answer = "none"
  BY DEF NoJob, Jobs
<1> HIDE DEF a
<1>2. b \in Jobs /\ b.who = who /\ b.mode = mode /\ b.through = 0 /\ b.answer = "none"
  BY <1>1 DEF Jobs
<1> HIDE DEF b
<1>3. c \in Jobs /\ c.who = who /\ c.mode = mode /\ c.through = 0 /\ c.answer = "none" /\ c.step = "admit"
  BY <1>2 DEF Jobs
<1> HIDE DEF c
<1>4. /\ d \in Jobs /\ d.who = who /\ d.mode = mode /\ d.through = 0 /\ d.answer = "none" /\ d.step = "admit"
      /\ d.at = s
  BY <1>3 DEF Jobs
<1> HIDE DEF d
<1>5. /\ e \in Jobs /\ e.who = who /\ e.mode = mode /\ e.through = 0 /\ e.answer = "none" /\ e.step = "admit"
      /\ e.at = s /\ e.origin = s
  BY <1>4 DEF Jobs
<1>6. e = StartJob(who, mode, s)
  BY DEF a, b, c, d, StartJob
<1> HIDE DEF e
<1>7. QED
  BY <1>5, <1>6

\* What follows the event in hand: the source is done, a retry is verified, a replay goes on.
LEMMA OnwardFacts ==
  ASSUME TypeOK, JobFits, ~Idle, job' = Onward
  PROVE  \/ job.mode = "ordered" /\ job' = NoJob /\ job' \in Jobs /\ job'.who = "none"
         \/ job.mode = "replay" /\ Moved("seek") /\ job'.answer = job.answer
         \/ job.mode = "retry" /\ Moved("verify") /\ job'.answer = job.answer
<1>1. job \in Jobs /\ job.mode \in {"ordered", "replay", "retry"}
  BY DEF TypeOK, JobFits, Jobs
<1>2. CASE job.mode = "ordered"
  BY <1>2, NoJobFacts DEF Onward
<1>3. CASE job.mode = "replay"
  <2>1. Goto("seek")
    BY <1>3 DEF Onward, Following, Goto
  <2>2. QED
    BY <1>3, <2>1, GotoFacts DEF Steps
<1>4. CASE job.mode = "retry"
  <2>1. Goto("verify")
    BY <1>4 DEF Onward, Following, Goto
  <2>2. QED
    BY <1>4, <2>1, GotoFacts DEF Steps
<1>5. QED
  BY <1>1, <1>2, <1>3, <1>4

\* The event in hand is a claimed intent of the log, behind the cursor or next to it.
LEMMA InHandFacts ==
  ASSUME Core, ~Idle
  PROVE  /\ At \in DOMAIN log /\ At \in Seqs /\ At \in Nat /\ At <= acked + 1 /\ Claimed(KindOf(At))
         /\ ThreadOf(At) \in Threads /\ ThreadOf(At) = ThreadOf(job.origin) /\ job.origin \in Seqs
         /\ job \in Jobs /\ row[At] \in RowType
BY LogFacts DEF Core, JobFits, At, TypeOK

-----------------------------------------------------------------------------
(* The types and the places of the job, step by step *)

\* What no step of a job touches.
Outside == UNCHANGED <<log, retried, boot, handled, aborts, approved>>

\* Steps of the job that write no row.
LEMMA MovesAlong ==
  ASSUME Core, ~Idle, UNCHANGED <<log, acked, row, retried, boot, phase, cursor, resumes, died, approved,
                                  blockedOnce, aborts>>,
         quarantined' \subseteq Threads, handled' \subseteq Seqs, ran' \in Seq(Seqs), NEW step \in Steps, Moved(step),
         job.mode = "ordered" => step \in {"settle", "advance"},
         step \notin {"claim", "call", "verify", "seek"},
         step = "settle" => job.step = "call",
         job.who = "operator" /\ row[job.origin].state = "inflight" => step = "settle"
  PROVE  Core'
<1>1. TypeOK'
  BY DEF Moved, Core, TypeOK
<1>2. Behind'
  BY DEF Core, Behind, Claimed, ReplaySafe, SideEffect, KindOf
<1>3. JobFits'
  BY DEF Core, JobFits, Moved, Idle, Claimed, ReplaySafe, SideEffect, KindOf, ThreadOf
<1>4. LeftAlone'
  BY DEF Core, LeftAlone, Moved, Idle, Skippable, SideEffect, Exempt, KindOf, ThreadOf, IsBlocker
<1>5. QED
  BY <1>1, <1>2, <1>3, <1>4 DEF Core

\* A delivery is settled already, or is held back behind a blocker of its thread.
HasBlocker(t) == \E b \in DOMAIN log : ThreadOf(b) = t /\ IsBlocker(b)

SkipFacts ==
    /\ UNCHANGED <<log, acked, row, retried, boot, phase, cursor, handled, resumes, died, ran, approved,
                   blockedOnce, aborts>>
    /\ ~Idle /\ job.step = "admit"
    /\ Moved("advance") /\ job'.answer = job.answer
    /\ \/ row[At].state \in {"succeeded", "dead", "uncertain"}
       \/ Skippable(KindOf(At)) /\ (ThreadOf(At) \in quarantined \/ HasBlocker(ThreadOf(At)))
    /\ \/ quarantined' = quarantined
       \/ quarantined' = quarantined \cup {ThreadOf(At)} /\ HasBlocker(ThreadOf(At))

LEMMA SkipDoes == ASSUME Core, SkipQuarantined \/ AlreadySettled PROVE SkipFacts
<1>1. /\ UNCHANGED <<log, acked, row, retried, boot, phase, cursor, handled, resumes, died, ran, approved,
                     blockedOnce, aborts>>
      /\ ~Idle /\ job.step = "admit" /\ Goto("advance")
  BY DEF SkipQuarantined, AlreadySettled, SettledThen, Admitted, Working, disk, history
<1>2. Moved("advance") /\ job'.answer = job.answer
  BY <1>1, GotoFacts DEF Core, Steps
<1>3. CASE SkipQuarantined
  <2>1. /\ Skippable(KindOf(At)) /\ (ThreadOf(At) \in quarantined \/ Blockers(ThreadOf(At)) # {})
        /\ quarantined' = quarantined \cup {ThreadOf(At)}
    BY <1>3 DEF SkipQuarantined, MustSkip, IsThreadQuarantined, QuarantinedBy
  <2>2. Blockers(ThreadOf(At)) # {} => HasBlocker(ThreadOf(At))
    BY LogFacts DEF Blockers, HasBlocker, Core
  <2>3. ThreadOf(At) \in quarantined => quarantined' = quarantined
    BY <2>1
  <2>4. QED
    BY <1>1, <1>2, <2>1, <2>2, <2>3 DEF SkipFacts
<1>4. CASE AlreadySettled
  <2>1. /\ row[At].state \in {"succeeded", "dead", "uncertain"}
        /\ quarantined' = IF IsBlocker(At) THEN quarantined \cup {ThreadOf(At)} ELSE quarantined
    BY <1>4 DEF AlreadySettled, SettledThen
  <2>2. IsBlocker(At) => HasBlocker(ThreadOf(At))
    BY <1>1, InHandFacts DEF HasBlocker
  <2>3. QED
    BY <1>1, <1>2, <2>1, <2>2 DEF SkipFacts
<1>5. QED
  BY <1>3, <1>4

LEMMA SkipCore == ASSUME Core, SkipFacts PROVE Core'
<1>1. quarantined' \subseteq Threads
  BY InHandFacts DEF SkipFacts, Core, TypeOK
<1>2. job.who = "operator" => row[job.origin].state # "inflight"
  BY DEF SkipFacts, Core, JobFits
<1>3. QED
  BY <1>1, <1>2, MovesAlong DEF SkipFacts, Core, TypeOK, Steps

\* Steps of the job that move its row on.
LEMMA RowMovesOn ==
  ASSUME Core, ~Idle, UNCHANGED <<log, acked, retried, boot, phase, cursor, handled, resumes, died, ran, approved, aborts>>,
         NEW st \in {"retry", "inflight", "dead", "uncertain"}, RowMoves(At, st), quarantined' \subseteq Threads,
         blockedOnce' \subseteq Seqs,
         NEW step \in {"claim", "call", "advance"}, Moved(step),
         step = "claim" => st = "retry" /\ ~IsBlocker(At), step = "advance" => st \in {"dead", "uncertain"},
         step = "call" => st = "inflight" /\ row'[At].owner = boot /\ ~IsBlocker(At),
         step \in {"claim", "call"} /\ Skippable(KindOf(At)) =>
           \A b \in DOMAIN log : ThreadOf(b) = ThreadOf(At) => ~IsBlocker(b)
  PROVE  Core'
<1>1. At \in DOMAIN log /\ At \in Seqs /\ At <= acked + 1 /\ Claimed(KindOf(At)) /\ job.origin \in Seqs
  BY InHandFacts
<1>2. TypeOK'
  BY DEF Moved, Core, TypeOK, RowMoves
<1>3. \A s : KindOf(s)' = KindOf(s) /\ ThreadOf(s)' = ThreadOf(s)
  BY DEF KindOf, ThreadOf
<1>4. Behind'
  <2>1. \A s \in Seqs : row'[s].state # "none" => s \in DOMAIN log /\ s <= acked + 1 /\ Claimed(KindOf(s))
    BY <1>1 DEF Core, Behind, RowMoves
  <2>2. \A i \in DOMAIN resumes : resumes[i] <= acked /\ resumes[i] \in Seqs /\ row'[resumes[i]].state # "none"
    <3> SUFFICES ASSUME NEW i \in DOMAIN resumes
                 PROVE  resumes[i] <= acked /\ resumes[i] \in Seqs /\ row'[resumes[i]].state # "none"
      OBVIOUS
    <3>1. resumes[i] \in Seqs
      BY DEF Core, TypeOK
    <3>2. resumes[i] <= acked /\ row[resumes[i]].state # "none"
      BY DEF Core, Behind
    <3>3. QED
      BY <3>1, <3>2 DEF RowMoves
  <2>3. QED
    BY <1>3, <2>1, <2>2 DEF Core, Behind, Claimed, ReplaySafe, SideEffect
<1>5. JobFits'
  <2>1. job.who = "operator" => row'[job.origin].state # "none"
    BY <1>1 DEF Core, JobFits, RowMoves, At
  <2>2. job.who = "operator" /\ row'[job.origin].state = "inflight" => job.at = job.origin /\ step = "call"
    <3>1. CASE job.origin = At
      BY <3>1 DEF At, RowMoves
    <3>2. CASE job.origin # At
      BY <1>1, <3>2 DEF At, RowMoves, Core, JobFits
    <3>3. QED
      BY <3>1, <3>2
  <2>3. job'.step \in {"claim", "call", "advance"} /\ row'[job'.at].state = st
    BY DEF Moved, RowMoves, At
  <2>4. job'.step = "call" => row'[job'.at].owner = boot
    BY DEF Moved, At
  <2>5. QED
    BY <1>3, <2>1, <2>2, <2>3, <2>4 DEF Core, JobFits, Moved, Idle, Claimed, ReplaySafe, SideEffect
<1>6. LeftAlone'
  <2>1. step \in {"claim", "call"} => \A b \in DOMAIN log : IsBlocker(b)' => IsBlocker(b)
    BY <1>1, LogFacts DEF Core, IsBlocker, RowMoves
  <2>2. QED
    BY <1>3, <2>1 DEF Core, LeftAlone, Moved, Idle, Skippable, SideEffect, Exempt, At
<1>7. QED
  BY <1>2, <1>4, <1>5, <1>6 DEF Core

\* A delivery ends dead or uncertain, and its thread is quarantined.
TerminalFacts(st) ==
    /\ UNCHANGED <<log, acked, retried, boot, phase, cursor, handled, resumes, died, ran, approved, aborts>>
    /\ ~Idle /\ ~IsBlocker(At) /\ row[At].state = "inflight" /\ RowMoves(At, st) /\ st \in {"dead", "uncertain"}
    /\ quarantined' = quarantined \cup {ThreadOf(At)} /\ blockedOnce' = blockedOnce \cup {At}
    /\ Moved("advance") /\ job'.answer = job.answer

\* A settlement as dead or uncertain blocks the thread.
LEMMA SettleDoes ==
  ASSUME Core, ~Idle, row[At].state = "inflight", NEW st \in {"dead", "uncertain"}, NEW unwritten \in BOOLEAN,
         SettleTerminal(st, row[At].owner, unwritten)
  PROVE  TerminalFacts(st)
<1>1. /\ row' = [row EXCEPT ![At] = [Rest(At, st) EXCEPT !.unwritten = unwritten]]
      /\ quarantined' = quarantined \cup {ThreadOf(At)} /\ blockedOnce' = blockedOnce \cup {At}
      /\ Goto("advance")
      /\ UNCHANGED <<log, acked, retried, boot, phase, cursor, handled, resumes, died, ran, approved, aborts>>
  BY DEF SettleTerminal
<1>2. At \in Seqs
  BY InHandFacts
<1> DEFINE p == Rest(At, st)
           r == [p EXCEPT !.unwritten = unwritten]
<1>3. p \in RowType /\ p.state = st
  BY <1>2, RestFacts DEF Core
<1> HIDE DEF p
<1>4. r \in RowType /\ r.state = st
  BY <1>3 DEF RowType
<1>5. row' = [row EXCEPT ![At] = r]
  BY <1>1 DEF p
<1> HIDE DEF r
<1>6. RowMoves(At, st)
  BY <1>2, <1>4, <1>5, RowFacts DEF Core
<1>7. QED
  BY <1>1, <1>6, GotoFacts DEF TerminalFacts, Core, IsBlocker, Steps

LEMMA TerminalCore == ASSUME Core, NEW st, TerminalFacts(st) PROVE Core'
<1>1. quarantined' \subseteq Threads /\ blockedOnce' \subseteq Seqs
  BY InHandFacts DEF TerminalFacts, Core, TypeOK
<1>2. QED
  BY <1>1, RowMovesOn DEF TerminalFacts

\* A delivery goes back to the claim, or is claimed.
AgainFacts(st, step) ==
    /\ UNCHANGED <<log, acked, retried, boot, phase, cursor, quarantined, handled, resumes, died, ran, approved,
                   blockedOnce, aborts>>
    /\ ~Idle /\ ~IsBlocker(At) /\ RowMoves(At, st) /\ Moved(step) /\ job'.answer = job.answer
    /\ \/ st = "retry" /\ step = "claim" /\ row[At].state = "inflight"
          /\ (ReplaySafe(KindOf(At)) \/ (job.step = "settle" /\ job.answer = "retry"))
       \/ st = "inflight" /\ step = "call" /\ row'[At].owner = boot /\ row[At].state \in {"none", "retry"}
    /\ Skippable(KindOf(At)) => \A b \in DOMAIN log : ThreadOf(b) = ThreadOf(At) => ~IsBlocker(b)

LEMMA AgainCore == ASSUME Core, NEW st, NEW step, AgainFacts(st, step) PROVE Core'
<1>1. quarantined' \subseteq Threads /\ blockedOnce' \subseteq Seqs
  BY DEF AgainFacts, Core, TypeOK
<1>2. QED
  BY <1>1, RowMovesOn DEF AgainFacts

\* Where a side effect was admitted its thread has no blocker.
LEMMA AdmittedFacts ==
  ASSUME Core, Admitted
  PROVE  /\ ~Idle /\ job.step = "admit"
         /\ Skippable(KindOf(At)) => \A b \in DOMAIN log : ThreadOf(b) = ThreadOf(At) => ~IsBlocker(b)
<1>1. ~Idle /\ job.step = "admit" /\ ~MustSkip
  BY DEF Admitted, Working
<1>2. ASSUME Skippable(KindOf(At)) PROVE Blockers(ThreadOf(At)) = {}
  BY <1>1, <1>2 DEF MustSkip, IsThreadQuarantined, QuarantinedBy
<1>3. QED
  BY <1>1, <1>2, LogFacts DEF Blockers, Core

\* A delivery goes back to its claim only if the provider cannot have acted on it.
LEMMA RetryDoes ==
  ASSUME Core, ~Idle, row[At].state = "inflight", row' = [row EXCEPT ![At] = Rest(At, "retry")], Goto("claim"),
         UNCHANGED <<log, acked, retried, boot, phase, cursor, quarantined, handled, resumes, died, history>>,
         ReplaySafe(KindOf(At)) \/ (job.step = "settle" /\ job.answer = "retry"),
         Skippable(KindOf(At)) => \A b \in DOMAIN log : ThreadOf(b) = ThreadOf(At) => ~IsBlocker(b)
  PROVE  AgainFacts("retry", "claim")
<1>1. At \in Seqs
  BY InHandFacts
<1>2. Rest(At, "retry") \in RowType /\ Rest(At, "retry").state = "retry"
  BY <1>1, RestFacts DEF Core
<1>3. RowMoves(At, "retry")
  BY <1>1, <1>2, RowFacts DEF Core
<1>4. Moved("claim") /\ job'.answer = job.answer
  BY GotoFacts DEF Core, Steps
<1>5. UNCHANGED <<ran, approved, blockedOnce, aborts>>
  BY DEF history
<1>6. QED
  BY <1>3, <1>4, <1>5 DEF AgainFacts, IsBlocker

LEMMA ExpireDoes == ASSUME Core, ExpireClaim PROVE TerminalFacts("uncertain") \/ AgainFacts("retry", "claim")
<1>1. Admitted /\ row[At].state = "inflight"
  BY DEF ExpireClaim, ExpireWhen
<1>2. CASE ReplaySafe(KindOf(At))
  <2>1. /\ row' = [row EXCEPT ![At] = Rest(At, "retry")] /\ Goto("claim")
        /\ UNCHANGED <<log, acked, retried, boot, phase, cursor, quarantined, handled, resumes, died, history>>
    BY <1>2 DEF ExpireClaim, ExpireWhen
  <2>2. QED
    BY <1>1, <1>2, <2>1, AdmittedFacts, RetryDoes
<1>3. CASE ~ReplaySafe(KindOf(At))
  <2>1. SettleTerminal("uncertain", row[At].owner, FALSE)
    BY <1>3 DEF ExpireClaim, ExpireWhen
  <2>2. QED
    BY <1>1, <2>1, AdmittedFacts, SettleDoes
<1>4. QED
  BY <1>2, <1>3

LEMMA ClaimDoes == ASSUME Core, Claim PROVE AgainFacts("inflight", "call")
<1>1. /\ ~Idle /\ row[At].state \in {"none", "retry"}
      /\ Skippable(KindOf(At)) => \A b \in DOMAIN log : ThreadOf(b) = ThreadOf(At) => ~IsBlocker(b)
  <2>1. CASE Working("claim")
    BY <2>1 DEF Working, Core, JobFits, LeftAlone, At
  <2>2. CASE Admitted /\ row[At].state \in {"none", "retry"}
    BY <2>2, AdmittedFacts
  <2>3. QED
    BY <2>1, <2>2 DEF Claim
<1> DEFINE r == [state |-> "inflight", owner |-> boot, attempts |-> row[At].attempts + 1, unwritten |-> FALSE]
<1>2. /\ row' = [row EXCEPT ![At] = r] /\ Goto("call")
      /\ UNCHANGED <<log, acked, retried, boot, phase, cursor, quarantined, handled, resumes, died, history>>
  BY <1>1 DEF Claim
<1>3. r \in RowType /\ r.state = "inflight" /\ r.owner = boot
  <2>1. row[At].attempts + 1 \in Nat
    BY <1>1, InHandFacts DEF RowType
  <2>2. boot \in 0 .. MaxCrashes + 1
    BY BoundsAssumption DEF Core, TypeOK
  <2>3. FALSE \in BOOLEAN
    OBVIOUS
  <2>4. QED
    BY <2>1, <2>2, <2>3 DEF RowType
<1> HIDE DEF r
<1>4. RowMoves(At, "inflight") /\ row'[At].owner = boot
  BY <1>1, <1>2, <1>3, InHandFacts, RowFacts DEF Core
<1>5. QED
  BY <1>1, <1>2, <1>4, GotoFacts DEF AgainFacts, IsBlocker, Core, Steps, history

LEMMA RetrySafelyDoes == ASSUME Core, RetrySafely PROVE AgainFacts("retry", "claim")
<1>1. ~Idle /\ job.step = "settle" /\ job.answer = "retry"
  BY DEF RetrySafely, RetryAfter, Working
<1>2. row[At].state = "inflight" /\ row[At].owner = boot
  BY <1>1 DEF Core, JobFits, At
<1>3. Skippable(KindOf(At)) => \A b \in DOMAIN log : ThreadOf(b) = ThreadOf(At) => ~IsBlocker(b)
  BY <1>1 DEF Core, LeftAlone, At
<1>4. /\ row' = [row EXCEPT ![At] = Rest(At, "retry")] /\ Goto("claim")
      /\ UNCHANGED <<log, acked, retried, boot, phase, cursor, quarantined, handled, resumes, died, history>>
  BY <1>2 DEF RetrySafely, RetryAfter
<1>5. QED
  BY <1>1, <1>2, <1>3, <1>4, RetryDoes

\* The steps that end a delivery dead or uncertain.
LEMMA SettlesDo ==
  ASSUME Core, ExhaustRetries \/ SettleUncertain
  PROVE  \E st \in {"dead", "uncertain"} : TerminalFacts(st)
<1>1. ~Idle /\ job.step = "settle"
  BY DEF ExhaustRetries, SettleUncertain, Working
<1>2. row[At].state = "inflight" /\ row[At].owner = boot
  BY <1>1 DEF Core, JobFits, At
<1>3. \E st \in {"dead", "uncertain"} : \E unwritten \in BOOLEAN : SettleTerminal(st, row[At].owner, unwritten)
  BY <1>2 DEF ExhaustRetries, SettleUncertain
<1>4. QED
  BY <1>1, <1>2, <1>3, SettleDoes

\* The provider answers, and may have acted.
CallFacts ==
    /\ UNCHANGED <<log, acked, row, retried, boot, phase, cursor, quarantined, resumes, died, approved,
                   blockedOnce, aborts>>
    /\ ~Idle /\ job.step = "call" /\ Moved("settle") /\ handled' \subseteq Seqs
    /\ ran' = ran \/ (ran' = Append(ran, At) /\ job'.answer # "retry")

\* A call is answered, or found to have been handled before.
LEMMA CallDoes ==
  ASSUME Core, (\E answer \in Answers, acts \in BOOLEAN : CallProvider(answer, acts)) \/ CallAlreadyHandled
  PROVE  CallFacts
<1>1. /\ UNCHANGED <<log, acked, row, retried, boot, phase, cursor, quarantined, resumes, died, approved,
                     blockedOnce, aborts>>
      /\ ~Idle /\ job.step = "call"
  BY DEF CallProvider, CallAlreadyHandled, Working, disk, history
<1>2. At \in Seqs /\ handled \subseteq Seqs
  BY <1>1, InHandFacts DEF Core, TypeOK
<1>3. \E answer \in Answers \cup {"accepted"} :
        /\ job' = [job EXCEPT !.step = "settle", !.answer = answer]
        /\ handled' \subseteq Seqs
        /\ ran' = ran \/ (ran' = Append(ran, At) /\ answer # "retry")
  <2>1. ASSUME NEW answer \in Answers, NEW acts \in BOOLEAN, CallProvider(answer, acts)
        PROVE  /\ job' = [job EXCEPT !.step = "settle", !.answer = answer]
               /\ handled' \subseteq Seqs
               /\ ran' = ran \/ (ran' = Append(ran, At) /\ answer # "retry")
    <3>1. answer = "retry" => acts = FALSE
      BY <2>1 DEF CallProvider, MayHaveRun
    <3>2. QED
      BY <1>2, <2>1, <3>1 DEF CallProvider
  <2>2. CASE CallAlreadyHandled
    BY <1>2, <2>2 DEF CallAlreadyHandled, history
  <2>3. QED
    BY <2>1, <2>2
<1>4. PICK answer \in Answers \cup {"accepted"} :
        /\ job' = [job EXCEPT !.step = "settle", !.answer = answer]
        /\ handled' \subseteq Seqs
        /\ ran' = ran \/ (ran' = Append(ran, At) /\ answer # "retry")
  BY <1>3
<1> DEFINE q == [job EXCEPT !.step = "settle"]
<1>5. /\ q \in Jobs /\ q.step = "settle" /\ q.who = job.who /\ q.mode = job.mode /\ q.at = job.at
      /\ q.origin = job.origin /\ q.through = job.through
  BY DEF Core, TypeOK, Jobs
<1>6. job' = [q EXCEPT !.answer = answer]
  BY <1>4
<1> HIDE DEF q
<1>7. Moved("settle") /\ job'.answer = answer
  BY <1>5, <1>6 DEF Moved, Jobs
<1>8. QED
  BY <1>1, <1>4, <1>7 DEF CallFacts

LEMMA CallCore == ASSUME Core, CallFacts PROVE Core'
<1>1. ran' \in Seq(Seqs) /\ quarantined' \subseteq Threads
  <2>1. ran \in Seq(Seqs) /\ quarantined \subseteq Threads
    BY DEF Core, TypeOK
  <2>2. At \in Seqs /\ (ran' = ran \/ ran' = Append(ran, At)) /\ quarantined' = quarantined
    BY InHandFacts DEF CallFacts
  <2>3. QED
    BY <2>1, <2>2
<1>2. QED
  BY <1>1, MovesAlong DEF CallFacts, Steps

\* The event in hand is dealt with.
AdvanceFacts ==
    /\ UNCHANGED <<log, retried, boot, phase, quarantined, handled, resumes, died, ran, approved, blockedOnce, aborts>>
    /\ ~Idle /\ job' = Onward
    /\ cursor' = acked' /\ acked' = (IF At = acked + 1 THEN At ELSE acked)
    /\ \/ job.step = "settle" /\ row[At].state = "inflight" /\ RowMoves(At, "succeeded")
       \/ job.step = "advance" /\ UNCHANGED row

\* The row succeeds and the cursor moves, in one transaction.
LEMMA CompleteDoes ==
  ASSUME Core, Complete
  PROVE  /\ UNCHANGED <<log, retried, boot, phase, quarantined, handled, resumes, died, ran, approved, blockedOnce, aborts>>
         /\ ~Idle /\ job' = Onward
         /\ cursor' = acked' /\ acked' = (IF At = acked + 1 THEN At ELSE acked)
         /\ job.step = "settle" /\ row[At].state = "inflight" /\ RowMoves(At, "succeeded")
<1>1. ~Idle /\ job.step = "settle"
  BY DEF Complete, Working
<1>2. row[At].state = "inflight" /\ row[At].owner = boot
  BY <1>1 DEF Core, JobFits, At
<1>3. /\ row' = [row EXCEPT ![At] = Rest(At, "succeeded")] /\ Advance(At) /\ job' = Onward
      /\ UNCHANGED <<log, retried, boot, phase, quarantined, handled, resumes, died, ran, approved, blockedOnce, aborts>>
  BY <1>2 DEF Complete, history
<1>4. RowMoves(At, "succeeded")
  <2>1. At \in Seqs
    BY <1>1, InHandFacts
  <2>2. Rest(At, "succeeded") \in RowType /\ Rest(At, "succeeded").state = "succeeded"
    BY <2>1, RestFacts DEF Core
  <2>3. QED
    BY <1>3, <2>1, <2>2, RowFacts DEF Core
<1>5. QED
  BY <1>1, <1>2, <1>3, <1>4 DEF Advance, NextAcked

\* The cursor moves past a row that was settled before.
LEMMA MoveCursorDoes ==
  ASSUME Core, MoveCursor
  PROVE  /\ UNCHANGED <<log, row, retried, boot, phase, quarantined, handled, resumes, died, ran, approved, blockedOnce, aborts>>
         /\ ~Idle /\ job' = Onward /\ job.step = "advance"
         /\ cursor' = acked' /\ acked' = (IF At = acked + 1 THEN At ELSE acked)
<1>1. ~Idle /\ job.step = "advance"
  BY DEF MoveCursor, Working
<1>2. At <= acked + 1 /\ At \in Nat /\ acked \in Nat
  BY <1>1, InHandFacts, LogFacts DEF Core
<1>3. CanAdvance(At)
  BY <1>2 DEF CanAdvance, NextAcked
<1>4. QED
  BY <1>1, <1>3 DEF MoveCursor, Advance, NextAcked, history

LEMMA AdvanceDoes == ASSUME Core, Complete \/ MoveCursor PROVE AdvanceFacts
BY CompleteDoes, MoveCursorDoes DEF AdvanceFacts

LEMMA AdvanceCore == ASSUME Core, AdvanceFacts PROVE Core'
<1>1. /\ At \in DOMAIN log /\ At \in Seqs /\ At \in Nat /\ At <= acked + 1 /\ Claimed(KindOf(At))
      /\ job.origin \in Seqs /\ acked \in Nat /\ DOMAIN log = 1 .. Len(log) /\ Len(log) \in Nat
  BY InHandFacts, LogFacts DEF AdvanceFacts, Core
<1>2. acked' \in 0 .. Len(log) /\ acked' \in Nat /\ acked' >= acked
  BY <1>1 DEF AdvanceFacts, Core, TypeOK
<1>3. /\ row' \in [Seqs -> RowType]
      /\ \A s \in Seqs : s # At => row'[s] = row[s]
      /\ row'[At].state # "none" => row[At].state # "none"
      /\ row[At].state # "none" => row'[At].state # "none"
      /\ job.step = "settle" => row'[At].state = "succeeded"
  BY DEF AdvanceFacts, RowMoves, Core, TypeOK
<1>4. \A s : KindOf(s)' = KindOf(s) /\ ThreadOf(s)' = ThreadOf(s)
  BY DEF KindOf, ThreadOf, AdvanceFacts
<1>5. \/ job.mode = "ordered" /\ job' \in Jobs /\ job'.who = "none"
      \/ job.mode = "replay" /\ Moved("seek")
      \/ job.mode = "retry" /\ Moved("verify")
  BY OnwardFacts DEF AdvanceFacts, Core
<1>6. TypeOK'
  BY <1>2, <1>3, <1>5 DEF AdvanceFacts, Core, TypeOK, Moved
<1>7. Behind'
  <2>1. \A s \in Seqs : row'[s].state # "none" => s \in DOMAIN log /\ s <= acked' + 1 /\ Claimed(KindOf(s))
    <3> SUFFICES ASSUME NEW s \in Seqs, row'[s].state # "none"
                 PROVE  s \in DOMAIN log /\ s <= acked' + 1 /\ Claimed(KindOf(s))
      OBVIOUS
    <3>1. row[s].state # "none"
      BY <1>3
    <3>2. s \in DOMAIN log /\ s <= acked + 1 /\ Claimed(KindOf(s)) /\ s \in Nat
      BY <1>1, <3>1 DEF Core, Behind
    <3>3. QED
      BY <1>1, <1>2, <3>2
  <2>2. \A i \in DOMAIN resumes : resumes[i] <= acked' /\ row'[resumes[i]].state # "none"
    <3> SUFFICES ASSUME NEW i \in DOMAIN resumes PROVE resumes[i] <= acked' /\ row'[resumes[i]].state # "none"
      OBVIOUS
    <3>0. resumes[i] \in Seqs
      BY DEF Core, TypeOK
    <3>1. resumes[i] \in Seqs /\ resumes[i] \in Nat
      BY <3>0, SeqsFacts
    <3>2. resumes[i] <= acked /\ row[resumes[i]].state # "none"
      BY DEF Core, Behind
    <3>3. QED
      BY <1>1, <1>2, <1>3, <3>1, <3>2
  <2>3. QED
    BY <1>4, <2>1, <2>2 DEF Core, Behind, AdvanceFacts, Claimed, ReplaySafe, SideEffect
<1>8. JobFits'
  <2>1. job.who = "operator" => row'[job.origin].state # "none"
    BY <1>1, <1>3 DEF AdvanceFacts, Core, JobFits, At
  <2>2. job.who = "operator" => row'[job.origin].state # "inflight"
    <3>1. CASE job.step = "settle"
      BY <1>1, <1>3, <3>1 DEF AdvanceFacts, Core, JobFits, At
    <3>2. CASE job.step = "advance"
      BY <3>2 DEF AdvanceFacts, Core, JobFits
    <3>3. QED
      BY <3>1, <3>2 DEF AdvanceFacts
  <2>3. job.at <= acked' + 1 /\ (job.mode = "replay" => job.through <= acked')
    BY <1>1, <1>2 DEF AdvanceFacts, Core, JobFits, At, TypeOK, Jobs
  <2>4. QED
    BY <1>4, <1>5, <2>1, <2>2, <2>3 DEF AdvanceFacts, Core, JobFits, Moved, Idle, Claimed, ReplaySafe, SideEffect
<1>9. LeftAlone'
  BY <1>5 DEF LeftAlone, Moved, Idle
<1>10. QED
  BY <1>6, <1>7, <1>8, <1>9 DEF Core, AdvanceFacts

\* The end of a retry: a replay follows a success, and nothing otherwise.
VerifyFacts ==
    /\ UNCHANGED <<log, acked, row, retried, boot, phase, cursor, handled, resumes, died, ran, approved,
                   blockedOnce, aborts>>
    /\ ~Idle /\ job.step = "verify" /\ quarantined' \subseteq quarantined
    /\ \/ Moved("done")
       \/ /\ job' \in Jobs /\ job'.mode = "replay" /\ job'.step = "seek" /\ job'.who = job.who
          /\ job'.at = job.at /\ job'.origin = job.origin /\ job'.through = cursor

LEMMA VerifyDoes == ASSUME Core, Verify PROVE VerifyFacts
<1>1. /\ UNCHANGED <<log, acked, row, retried, boot, phase, cursor, handled, resumes, died, ran, approved,
                     blockedOnce, aborts>>
      /\ ~Idle /\ job.step = "verify" /\ quarantined' \subseteq quarantined
  BY DEF Verify, Working, disk, history, Uncached
<1>2. CASE row[At].state = "succeeded"
  <2> DEFINE p == [job EXCEPT !.mode = "replay"]
             q == [p EXCEPT !.step = "seek"]
  <2>1. /\ p \in Jobs /\ p.mode = "replay" /\ p.who = job.who /\ p.at = job.at /\ p.origin = job.origin
    BY DEF Core, TypeOK, Jobs
  <2>2. job' = [q EXCEPT !.through = cursor]
    BY <1>2 DEF Verify
  <2> HIDE DEF p
  <2>3. /\ q \in Jobs /\ q.mode = "replay" /\ q.step = "seek" /\ q.who = job.who /\ q.at = job.at
        /\ q.origin = job.origin
    BY <2>1 DEF Jobs
  <2> HIDE DEF q
  <2>4. QED
    BY <1>1, <2>2, <2>3, LogFacts DEF Jobs, Core, VerifyFacts
<1>3. CASE row[At].state # "succeeded"
  BY <1>1, <1>3, GotoFacts DEF Verify, Core, Steps, VerifyFacts
<1>4. QED
  BY <1>2, <1>3

LEMMA VerifyCore == ASSUME Core, VerifyFacts PROVE Core'
<1>1. job.mode = "retry" /\ (job.who = "operator" => row[job.origin].state # "inflight")
  BY DEF VerifyFacts, Core, JobFits
<1>2. quarantined' \subseteq Threads
  BY DEF VerifyFacts, Core, TypeOK
<1>3. CASE Moved("done")
  BY <1>1, <1>2, <1>3, MovesAlong DEF VerifyFacts, Core, TypeOK, Steps
<1>4. CASE /\ job' \in Jobs /\ job'.mode = "replay" /\ job'.step = "seek" /\ job'.who = job.who
           /\ job'.at = job.at /\ job'.origin = job.origin /\ job'.through = cursor
  <2>1. TypeOK'
    BY <1>2, <1>4 DEF VerifyFacts, Core, TypeOK
  <2>2. Behind'
    BY DEF VerifyFacts, Core, Behind, Claimed, ReplaySafe, SideEffect, KindOf
  <2>3. cursor = acked /\ acked <= acked
    BY LogFacts DEF Core, Behind
  <2>4. JobFits'
    BY <1>1, <1>4, <2>3 DEF VerifyFacts, Core, JobFits, Idle, Claimed, ReplaySafe, SideEffect, KindOf, ThreadOf
  <2>5. LeftAlone'
    BY <1>4 DEF LeftAlone
  <2>6. QED
    BY <2>1, <2>2, <2>4, <2>5 DEF VerifyFacts, Core
<1>5. QED
  BY <1>3, <1>4 DEF VerifyFacts

\* A replay goes on with the next side effect of its thread, which the cursor has passed.
SeekFacts ==
    /\ UNCHANGED <<log, acked, row, retried, boot, phase, cursor, quarantined, handled, resumes, died, ran, approved,
                   blockedOnce, aborts>>
    /\ ~Idle /\ job.step = "seek" /\ job.mode = "replay"
    /\ \/ Moved("done")
       \/ /\ job' \in Jobs /\ job'.step = "admit" /\ job'.who = job.who /\ job'.mode = job.mode
          /\ job'.origin = job.origin /\ job'.through = job.through
          /\ job'.at \in Nat /\ job.at < job'.at /\ job'.at <= acked /\ Claimed(KindOf(job'.at))
          /\ ThreadOf(job'.at) = ThreadOf(job.origin)

LEMMA SeekDoes == ASSUME Core, Seek PROVE SeekFacts
<1>1. /\ UNCHANGED <<log, acked, row, retried, boot, phase, cursor, quarantined, handled, resumes, died, ran,
                     approved, blockedOnce, aborts>>
      /\ ~Idle /\ job.step = "seek"
  BY DEF Seek, Working, disk, history
<1>2. job.mode = "replay" /\ job.through <= acked /\ job.through \in Nat /\ job.at \in Nat /\ acked \in Nat
  BY <1>1, InHandFacts, LogFacts DEF Core, JobFits, TypeOK, Jobs, At
<1>3. CASE Later = {}
  <2>1. Goto("done")
    BY <1>3 DEF Seek, Goto
  <2>2. QED
    BY <1>1, <1>2, <2>1, GotoFacts DEF SeekFacts, Core, Steps
<1>4. CASE Later # {}
  <2> DEFINE s == CHOOSE x \in Later : \A u \in Later : x <= u
             q == [job EXCEPT !.step = "admit"]
  <2>1. Later \in SUBSET Nat
    BY <1>2 DEF Later, At
  <2>2. s \in Later
    BY <1>4, <2>1, Smallest
  <2>3. /\ s \in Nat /\ job.at < s /\ s <= acked /\ Claimed(KindOf(s)) /\ ThreadOf(s) = ThreadOf(job.origin)
        /\ s \in DOMAIN log
    <3>1. s \in (job.at + 1) .. job.through /\ ThreadOf(s) = ThreadOf(job.origin) /\ SideEffect(KindOf(s))
      BY <2>2 DEF Later, At
    <3>2. acked <= Len(log) /\ DOMAIN log = 1 .. Len(log) /\ Len(log) \in Nat
      BY LogFacts DEF Core, TypeOK
    <3>3. QED
      BY <1>2, <3>1, <3>2 DEF Claimed
  <2>4. job' = [q EXCEPT !.at = s]
    BY <1>4 DEF Seek
  <2>5. /\ q \in Jobs /\ q.step = "admit" /\ q.who = job.who /\ q.mode = job.mode
        /\ q.origin = job.origin /\ q.through = job.through
    BY DEF Core, TypeOK, Jobs
  <2>6. s \in Seqs
    BY <2>3, LogFacts DEF Core
  <2> HIDE DEF s, q
  <2>7. /\ job' \in Jobs /\ job'.step = "admit" /\ job'.who = job.who /\ job'.mode = job.mode
        /\ job'.origin = job.origin /\ job'.through = job.through /\ job'.at = s
    BY <2>4, <2>5, <2>6 DEF Jobs
  <2>8. QED
    BY <1>1, <1>2, <2>3, <2>7 DEF SeekFacts
<1>5. QED
  BY <1>3, <1>4

LEMMA SeekCore == ASSUME Core, SeekFacts PROVE Core'
<1>1. CASE Moved("done")
  <2>1. job.who = "operator" => row[job.origin].state # "inflight"
    BY DEF SeekFacts, Core, JobFits
  <2>2. QED
    BY <1>1, <2>1, MovesAlong DEF SeekFacts, Core, TypeOK, Steps
<1>2. CASE job'.step = "admit"
  <2>1. job'.at \in DOMAIN log /\ job'.at <= acked + 1
    <3>1. job'.at \in Nat /\ job.at < job'.at /\ job'.at <= acked
      BY <1>2 DEF SeekFacts, Moved
    <3>2. acked \in Nat /\ acked <= Len(log) /\ DOMAIN log = 1 .. Len(log) /\ Len(log) \in Nat /\ job.at \in Nat
      BY LogFacts, InHandFacts DEF SeekFacts, Core, TypeOK, At
    <3>3. QED
      BY <3>1, <3>2
  <2>2. TypeOK'
    BY DEF SeekFacts, Core, TypeOK, Moved
  <2>3. Behind'
    BY DEF SeekFacts, Core, Behind, Claimed, ReplaySafe, SideEffect, KindOf
  <2>4. JobFits'
    BY <1>2, <2>1 DEF SeekFacts, Core, JobFits, Idle, Claimed, ReplaySafe, SideEffect, KindOf, ThreadOf, Moved
  <2>5. LeftAlone'
    BY <1>2 DEF LeftAlone
  <2>6. QED
    BY <2>2, <2>3, <2>4, <2>5 DEF Core, SeekFacts
<1>3. QED
  BY <1>1, <1>2 DEF SeekFacts

\* A job for the event s begins, with the cache of its thread emptied or left.
StartsJob(who, mode, s) ==
    /\ job' \in Jobs /\ job'.who = who /\ job'.mode = mode /\ job'.step = "admit" /\ job'.at = s /\ job'.origin = s

\* The lock is free, and at most the next of the listed deliveries is taken up.
ReleaseFacts ==
    /\ UNCHANGED <<log, acked, row, retried, boot, cursor, handled, died, ran, approved, blockedOnce, aborts>>
    /\ phase' \in {phase, "running"} /\ quarantined' \subseteq quarantined
    /\ \/ job' \in Jobs /\ job'.who = "none" /\ UNCHANGED resumes
       \/ /\ resumes # <<>> /\ resumes' = Tail(resumes) /\ StartsJob("resume", "retry", Head(resumes))

LEMMA ReleaseCore == ASSUME Core, ReleaseFacts PROVE Core'
<1>1. CASE job' \in Jobs /\ job'.who = "none" /\ UNCHANGED resumes
  <2>1. job' \in Jobs /\ job'.who = "none"
    BY <1>1
  <2>2. TypeOK'
    BY <1>1, <2>1 DEF ReleaseFacts, Core, TypeOK
  <2>3. Behind'
    BY <1>1 DEF ReleaseFacts, Core, Behind, Claimed, ReplaySafe, SideEffect, KindOf
  <2>4. JobFits' /\ LeftAlone'
    BY <2>1 DEF JobFits, LeftAlone, Idle
  <2>5. QED
    BY <2>2, <2>3, <2>4 DEF ReleaseFacts, Core
<1>2. CASE resumes # <<>> /\ resumes' = Tail(resumes) /\ StartsJob("resume", "retry", Head(resumes))
  <2>1. resumes \in Seq(Seqs)
    BY DEF Core, TypeOK
  <2>2. /\ resumes' \in Seq(Seqs)
        /\ \A i \in DOMAIN resumes' : \E j \in DOMAIN resumes : resumes'[i] = resumes[j]
    <3>1. /\ resumes' \in Seq(Seqs) /\ Len(resumes') = Len(resumes) - 1 /\ Len(resumes) \in Nat
          /\ \A i \in 1 .. Len(resumes) - 1 : resumes'[i] = resumes[i + 1]
      BY <1>2, <2>1
    <3>2. ASSUME NEW i \in DOMAIN resumes' PROVE \E j \in DOMAIN resumes : resumes'[i] = resumes[j]
      <4>1. i \in 1 .. Len(resumes) - 1 /\ i + 1 \in DOMAIN resumes
        BY <2>1, <3>1
      <4>2. QED
        BY <3>1, <4>1
    <3>3. QED
      BY <3>1, <3>2
  <2>3. PICK s : s = Head(resumes)
    OBVIOUS
  <2>4. s \in Seqs /\ s = resumes[1] /\ 1 \in DOMAIN resumes
    BY <1>2, <2>1, <2>3
  <2>5. s <= acked /\ row[s].state # "none" /\ s \in Nat /\ s \in DOMAIN log /\ Claimed(KindOf(s)) /\ acked \in Nat
    BY <2>4, SeqsFacts, LogFacts DEF Core, Behind
  <2>6. TypeOK'
    BY <1>2, <2>2 DEF ReleaseFacts, Core, TypeOK, StartsJob
  <2>7. Behind'
    BY <2>2 DEF ReleaseFacts, Core, Behind, Claimed, ReplaySafe, SideEffect, KindOf
  <2>8. JobFits' /\ LeftAlone'
    BY <1>2, <2>3, <2>5 DEF ReleaseFacts, StartsJob, JobFits, LeftAlone, Idle, Claimed, ReplaySafe, SideEffect, KindOf, ThreadOf
  <2>9. QED
    BY <2>6, <2>7, <2>8 DEF ReleaseFacts, Core
<1>3. QED
  BY <1>1, <1>2 DEF ReleaseFacts

\* The startup takes the next delivery of its list.
LEMMA ResumeDoes ==
  ASSUME Core, resumes # <<>>, quarantined' = Uncached(ThreadOf(Head(resumes))),
         job' = StartJob("resume", "retry", Head(resumes)), resumes' = Tail(resumes)
  PROVE  quarantined' \subseteq quarantined /\ StartsJob("resume", "retry", Head(resumes))
<1>1. Head(resumes) \in Seqs
  BY DEF Core, TypeOK
<1>2. QED
  BY <1>1, StartFacts DEF StartsJob, Uncached

LEMMA ResumeStartDoes == ASSUME Core, ResumeStart PROVE ReleaseFacts /\ Idle /\ phase = "resume"
<1>1. /\ UNCHANGED <<log, acked, row, retried, boot, cursor, handled, died, ran, approved, blockedOnce, aborts>>
      /\ Idle /\ phase = "resume"
  BY DEF ResumeStart, disk, history
<1>2. CASE resumes = <<>>
  <2>1. /\ phase' = "running" /\ UNCHANGED <<quarantined, resumes, job>>
    BY <1>2 DEF ResumeStart
  <2>2. QED
    BY <1>1, <2>1 DEF ReleaseFacts, Idle, Core, TypeOK
<1>3. CASE resumes # <<>>
  <2>1. /\ quarantined' = Uncached(ThreadOf(Head(resumes))) /\ resumes' = Tail(resumes) /\ UNCHANGED phase
        /\ job' = StartJob("resume", "retry", Head(resumes))
    BY <1>3 DEF ResumeStart
  <2>2. QED
    BY <1>1, <1>3, <2>1, ResumeDoes DEF ReleaseFacts
<1>4. QED
  BY <1>2, <1>3

LEMMA DoneDoes == ASSUME Core, Done PROVE ReleaseFacts /\ ~Idle
<1>1. ~Idle /\ job.step = "done"
  BY DEF Done, Working
<1>2. ~(job.who = "operator" /\ row[job.origin].state \in {"none", "inflight"})
  BY <1>1 DEF Core, JobFits
<1>3. /\ UNCHANGED <<log, acked, row, retried, boot, cursor, handled, died, ran, approved, blockedOnce, aborts>>
  BY <1>2 DEF Done, disk, history
<1>4. CASE job.who = "resume" /\ resumes # <<>>
  <2>1. /\ quarantined' = Uncached(ThreadOf(Head(resumes))) /\ resumes' = Tail(resumes) /\ UNCHANGED phase
        /\ job' = StartJob("resume", "retry", Head(resumes))
    BY <1>2, <1>4 DEF Done
  <2>2. QED
    BY <1>1, <1>3, <1>4, <2>1, ResumeDoes DEF ReleaseFacts
<1>5. CASE ~(job.who = "resume" /\ resumes # <<>>)
  <2>1. job' = NoJob /\ phase' \in {phase, "running"} /\ UNCHANGED <<quarantined, resumes>>
    BY <1>2, <1>5 DEF Done
  <2>2. QED
    BY <1>1, <1>3, <2>1, NoJobFacts DEF ReleaseFacts
<1>6. QED
  BY <1>4, <1>5

\* The source takes the next claimed event.
LEMMA TakeDoes ==
  ASSUME Core, TakeClaimed
  PROVE  /\ UNCHANGED <<log, acked, row, retried, boot, phase, cursor, quarantined, handled, resumes, died, ran,
                        approved, blockedOnce, aborts>>
         /\ phase = "running" /\ Idle /\ acked + 1 \in DOMAIN log /\ Claimed(KindOf(acked + 1))
         /\ StartsJob("source", "ordered", acked + 1)
<1>1. /\ UNCHANGED <<log, acked, row, retried, boot, phase, cursor, quarantined, handled, resumes, died, ran,
                     approved, blockedOnce, aborts>>
      /\ phase = "running" /\ Idle /\ cursor < Len(log) /\ Claimed(KindOf(cursor + 1)) /\ cursor = acked
      /\ job' = StartJob("source", "ordered", cursor + 1)
  BY DEF TakeClaimed, disk, history, Core, Behind
<1>2. acked + 1 \in DOMAIN log /\ acked + 1 \in Seqs
  BY <1>1, LogFacts DEF Core
<1>3. QED
  BY <1>1, <1>2, StartFacts DEF StartsJob

LEMMA TakeCore == ASSUME Core, TakeClaimed PROVE Core'
<1>1. /\ UNCHANGED <<log, acked, row, retried, boot, phase, cursor, quarantined, handled, resumes, died, ran,
                     approved, blockedOnce, aborts>>
      /\ acked + 1 \in DOMAIN log /\ Claimed(KindOf(acked + 1)) /\ StartsJob("source", "ordered", acked + 1)
  BY TakeDoes
<1>2. acked + 1 <= acked + 1
  BY LogFacts DEF Core
<1>3. TypeOK'
  BY <1>1 DEF Core, TypeOK, StartsJob
<1>4. Behind'
  BY <1>1 DEF Core, Behind, Claimed, ReplaySafe, SideEffect, KindOf
<1>5. JobFits' /\ LeftAlone'
  BY <1>1, <1>2 DEF StartsJob, JobFits, LeftAlone, Idle, Claimed, ReplaySafe, SideEffect, KindOf, ThreadOf
<1>6. QED
  BY <1>1, <1>3, <1>4, <1>5 DEF Core

\* The cursor passes an event that needs no claim.
LEMMA PassDoes ==
  ASSUME Core, PassUnclaimed
  PROVE  /\ UNCHANGED <<log, row, retried, boot, phase, handled, resumes, job, died, ran, approved, blockedOnce, aborts>>
         /\ Idle /\ acked + 1 \in DOMAIN log /\ ~Claimed(KindOf(acked + 1)) /\ acked' = acked + 1 /\ cursor' = acked + 1
         /\ quarantined' \subseteq quarantined
<1>1. /\ phase = "running" /\ Idle /\ cursor < Len(log) /\ ~Claimed(KindOf(cursor + 1)) /\ cursor = acked
      /\ UNCHANGED <<log, row, retried, boot, handled, resumes, job, ran, approved, blockedOnce, aborts>>
      /\ quarantined' \subseteq quarantined
  BY DEF PassUnclaimed, history, Core, Behind, Uncached
<1>2. acked + 1 \in DOMAIN log /\ acked \in Nat
  BY <1>1, LogFacts DEF Core
<1>3. CanAdvance(cursor + 1) /\ NextAcked(cursor + 1) = acked + 1
  BY <1>1, <1>2 DEF CanAdvance, NextAcked
<1>4. QED
  BY <1>1, <1>2, <1>3 DEF PassUnclaimed, Advance

LEMMA PassCore == ASSUME Core, PassUnclaimed PROVE Core'
<1>1. /\ UNCHANGED <<log, row, retried, boot, phase, handled, resumes, job, died, ran, approved, blockedOnce, aborts>>
      /\ Idle /\ acked + 1 \in DOMAIN log /\ acked' = acked + 1 /\ cursor' = acked + 1
      /\ quarantined' \subseteq quarantined
  BY PassDoes
<1>2. acked' \in 0 .. Len(log) /\ acked \in Nat
  BY <1>1, LogFacts DEF Core
<1>3. TypeOK'
  BY <1>1, <1>2 DEF Core, TypeOK
<1>4. Behind'
  <2>1. \A s \in Seqs : s <= acked + 1 => s <= acked' + 1
    BY <1>1, <1>2, SeqsFacts
  <2>2. \A i \in DOMAIN resumes : resumes[i] \in Seqs
    BY DEF Core, TypeOK
  <2>3. \A s \in Seqs : s <= acked => s <= acked'
    BY <1>1, <1>2, SeqsFacts
  <2>4. QED
    BY <1>1, <2>1, <2>2, <2>3 DEF Core, Behind, Claimed, ReplaySafe, SideEffect, KindOf
<1>5. JobFits' /\ LeftAlone'
  BY <1>1 DEF JobFits, LeftAlone, Idle
<1>6. QED
  BY <1>1, <1>3, <1>4, <1>5 DEF Core

\* The startup lists what it will resume.
LEMMA ListDoes ==
  ASSUME Core, ListRetryable
  PROVE  /\ UNCHANGED <<log, acked, row, retried, boot, cursor, quarantined, handled, job, died, ran, approved,
                        blockedOnce, aborts>>
         /\ phase = "heal" /\ phase' = "resume" /\ resumes' \in Seq(Seqs)
         /\ \A i \in DOMAIN resumes' : resumes'[i] \in Seqs /\ Retryable(resumes'[i])
<1> DEFINE S == {s \in 1..Len(log) : Retryable(s)}
<1>1. /\ UNCHANGED <<log, acked, row, retried, boot, cursor, quarantined, handled, job, died, ran, approved,
                     blockedOnce, aborts>>
      /\ phase = "heal" /\ phase' = "resume" /\ resumes' \in [1 .. Cardinality(S) -> S]
  BY DEF ListRetryable, Ascending, disk, history
<1>2. S \subseteq Seqs /\ IsFiniteSet(S)
  <2>1. S \in SUBSET (1 .. Len(log)) /\ IsFiniteSet(1 .. Len(log))
    BY LogFacts, FS_Interval DEF Core
  <2>2. QED
    BY <2>1, FS_Subset, LogFacts DEF Core
<1>3. Cardinality(S) \in Nat
  BY <1>2, FS_CardinalityType
<1>4. \A i \in DOMAIN resumes' : resumes'[i] \in S
  BY <1>1
<1>5. resumes' \in Seq(Seqs)
  <2>1. PICK n \in Nat : resumes' \in [1 .. n -> S]
    BY <1>1, <1>3
  <2> HIDE DEF S
  <2>2. resumes' \in [1 .. n -> Seqs]
    BY <1>2, <2>1
  <2>3. QED
    BY <2>2
<1>6. QED
  BY <1>1, <1>2, <1>4, <1>5

LEMMA ListCore == ASSUME Core, ListRetryable PROVE Core'
<1>1. /\ UNCHANGED <<log, acked, row, retried, boot, cursor, quarantined, handled, job, died, ran, approved,
                     blockedOnce, aborts>>
      /\ phase' = "resume" /\ resumes' \in Seq(Seqs)
      /\ \A i \in DOMAIN resumes' : Retryable(resumes'[i])
  BY ListDoes
<1>2. TypeOK'
  BY <1>1 DEF Core, TypeOK
<1>3. Behind'
  BY <1>1 DEF Core, Behind, Retryable, Claimed, ReplaySafe, SideEffect, KindOf
<1>4. JobFits' /\ LeftAlone'
  BY <1>1 DEF Core, JobFits, LeftAlone, Idle, Claimed, ReplaySafe, SideEffect, KindOf, ThreadOf, Skippable, Exempt, IsBlocker
<1>5. QED
  BY <1>1, <1>2, <1>3, <1>4 DEF Core

\* A blocker is lifted: by the startup, or by an operator.
LiftFacts(s, st) ==
    /\ s \in DOMAIN log /\ s \in Seqs /\ IsBlocker(s) /\ RowMoves(s, st) /\ st \in {"retry", "succeeded"}
    /\ UNCHANGED <<log, acked, boot, phase, cursor, handled, resumes, died, ran, blockedOnce, aborts>>
    /\ quarantined' = Uncached(ThreadOf(s))

HealFacts(s) == LiftFacts(s, "succeeded") /\ UNCHANGED <<job, retried, approved>> /\ phase = "heal"

ReconcileFacts(s, st) ==
    /\ LiftFacts(s, st) /\ Idle
    /\ st = "succeeded" => UNCHANGED <<retried, approved>>
    /\ st = "retry" => /\ retried' = retried \cup {s}
                       /\ approved' = [approved EXCEPT ![s] = @ + 1]
    /\ job' \in Jobs /\ job'.who = "operator" /\ job'.at = s /\ job'.origin = s
    /\ \/ job'.mode = "retry" /\ job'.step = "admit"
       \/ job'.mode = "replay" /\ job'.step = "seek" /\ job'.through = cursor

LEMMA HealDoes == ASSUME Core, NEW s \in Seqs, AutoHeal(s) PROVE HealFacts(s)
<1>1. /\ s \in DOMAIN log /\ IsBlocker(s) /\ phase = "heal"
      /\ row' = [row EXCEPT ![s] = Rest(s, "succeeded")] /\ quarantined' = Uncached(ThreadOf(s))
      /\ UNCHANGED <<log, acked, retried, boot, phase, cursor, handled, resumes, job, died, ran, approved,
                     blockedOnce, aborts>>
  BY LogFacts DEF AutoHeal, history, Core
<1>2. RowMoves(s, "succeeded")
  <2>1. Rest(s, "succeeded") \in RowType /\ Rest(s, "succeeded").state = "succeeded"
    BY RestFacts DEF Core
  <2>2. QED
    BY <1>1, <2>1, RowFacts DEF Core
<1>3. QED
  BY <1>1, <1>2 DEF HealFacts, LiftFacts

\* The decision of an operator starts a job.
LEMMA ReconcileMoves ==
  ASSUME Core, NEW s \in Seqs, NEW outcome \in {"abandon", "safe_retry"}, Reconcile(s, outcome)
  PROVE  /\ s \in DOMAIN log /\ IsBlocker(s) /\ Idle /\ quarantined' = Uncached(ThreadOf(s))
         /\ RowMoves(s, IF outcome = "safe_retry" THEN "retry" ELSE "succeeded")
         /\ job' \in Jobs /\ job'.who = "operator" /\ job'.at = s /\ job'.origin = s
         /\ \/ job'.mode = "retry" /\ job'.step = "admit"
            \/ job'.mode = "replay" /\ job'.step = "seek" /\ job'.through = cursor
<1> DEFINE st == IF outcome = "safe_retry" THEN "retry" ELSE "succeeded"
<1>1. /\ s \in DOMAIN log /\ IsBlocker(s) /\ Idle /\ quarantined' = Uncached(ThreadOf(s))
      /\ row' = [row EXCEPT ![s] = Rest(s, st)]
  BY LogFacts DEF Reconcile, Core
<1>2. Rest(s, st) \in RowType /\ Rest(s, st).state = st
  BY RestFacts DEF Core
<1> HIDE DEF st
<1>3. RowMoves(s, st)
  BY <1>1, <1>2, RowFacts DEF Core
<1>4. /\ job' \in Jobs /\ job'.who = "operator" /\ job'.at = s /\ job'.origin = s
      /\ \/ job'.mode = "retry" /\ job'.step = "admit"
         \/ job'.mode = "replay" /\ job'.step = "seek" /\ job'.through = cursor
  <2>1. CASE outcome = "safe_retry"
    <3>1. job' = StartJob("operator", "retry", s)
      BY <2>1 DEF Reconcile
    <3>2. QED
      BY <3>1, StartFacts
  <2>2. CASE outcome # "safe_retry"
    <3> DEFINE p == StartJob("operator", "replay", s)
               q == [p EXCEPT !.step = "seek"]
    <3>1. p \in Jobs /\ p.who = "operator" /\ p.mode = "replay" /\ p.at = s /\ p.origin = s
      BY StartFacts
    <3>2. job' = [q EXCEPT !.through = cursor]
      BY <2>2 DEF Reconcile
    <3> HIDE DEF p
    <3>3. q \in Jobs /\ q.who = "operator" /\ q.mode = "replay" /\ q.at = s /\ q.origin = s /\ q.step = "seek"
      BY <3>1 DEF Jobs
    <3> HIDE DEF q
    <3>4. QED
      BY <3>2, <3>3, LogFacts DEF Jobs, Core
  <2>3. QED
    BY <2>1, <2>2
<1>5. QED
  BY <1>1, <1>3, <1>4 DEF st

\* An operator abandons a blocker or approves its repetition.
LEMMA ReconcileDoes ==
  ASSUME Core, NEW s \in Seqs, ReconcileAbandon(s) \/ ReconcileSafeRetry(s)
  PROVE  ReconcileFacts(s, "succeeded") \/ ReconcileFacts(s, "retry")
<1>1. CASE ReconcileAbandon(s)
  <2>1. /\ Reconcile(s, "abandon")
        /\ UNCHANGED <<log, acked, retried, boot, phase, cursor, handled, resumes, died, ran, approved, blockedOnce, aborts>>
    BY <1>1 DEF ReconcileAbandon, history
  <2>2. QED
    BY <2>1, ReconcileMoves DEF ReconcileFacts, LiftFacts
<1>2. CASE ReconcileSafeRetry(s)
  <2>1. /\ Reconcile(s, "safe_retry") /\ retried' = retried \cup {s} /\ approved' = [approved EXCEPT ![s] = @ + 1]
        /\ UNCHANGED <<log, acked, boot, phase, cursor, handled, resumes, died, ran, blockedOnce, aborts>>
    BY <1>2 DEF ReconcileSafeRetry
  <2>2. QED
    BY <2>1, ReconcileMoves DEF ReconcileFacts, LiftFacts
<1>3. QED
  BY <1>1, <1>2

\* A blocker that is lifted creates none, and leaves claims and retries alone.
LEMMA LiftKeeps ==
  ASSUME Core, NEW s, NEW st, LiftFacts(s, st)
  PROVE  /\ Behind' /\ row' \in [Seqs -> RowType] /\ quarantined' \subseteq Threads
         /\ (\A b \in DOMAIN log : IsBlocker(b)' => IsBlocker(b))
         /\ \A u \in Seqs : /\ row'[u].state # "none" <=> row[u].state # "none"
                            /\ row'[u].state = "inflight" <=> row[u].state = "inflight"
                            /\ row[u].state \in {"inflight", "retry"} => row'[u] = row[u]
<1>1. \A u \in Seqs : /\ row'[u].state # "none" <=> row[u].state # "none"
                      /\ row'[u].state = "inflight" <=> row[u].state = "inflight"
                      /\ row[u].state \in {"inflight", "retry"} => row'[u] = row[u]
                      /\ row'[u].state \in {"dead", "uncertain"} => row[u].state \in {"dead", "uncertain"}
  BY DEF LiftFacts, RowMoves, IsBlocker
<1>2. Behind'
  <2>1. \A i \in DOMAIN resumes : resumes[i] \in Seqs
    BY DEF Core, TypeOK
  <2>2. QED
    BY <1>1, <2>1 DEF LiftFacts, Core, Behind, Claimed, ReplaySafe, SideEffect, KindOf
<1>3. \A b \in DOMAIN log : IsBlocker(b)' => IsBlocker(b)
  BY <1>1, LogFacts DEF Core, IsBlocker
<1>4. QED
  BY <1>1, <1>2, <1>3 DEF LiftFacts, RowMoves, Uncached, Core, TypeOK

LEMMA HealCore == ASSUME Core, NEW s \in Seqs, HealFacts(s) PROVE Core'
<1>1. LiftFacts(s, "succeeded") /\ UNCHANGED <<job, retried, approved>>
  BY DEF HealFacts
<1>2. TypeOK'
  BY <1>1, LiftKeeps DEF LiftFacts, Core, TypeOK
<1>3. JobFits'
  <2>1. ~Idle => At \in Seqs /\ job.origin \in Seqs
    BY InHandFacts
  <2>2. /\ row' \in [Seqs -> RowType]
        /\ \A u \in Seqs : /\ row'[u].state # "none" <=> row[u].state # "none"
                           /\ row'[u].state = "inflight" <=> row[u].state = "inflight"
                           /\ row[u].state \in {"inflight", "retry"} => row'[u] = row[u]
    BY <1>1, LiftKeeps
  <2>3. UNCHANGED <<log, acked, boot, job>>
    BY <1>1 DEF LiftFacts
  <2>4. QED
    BY <2>1, <2>2, <2>3 DEF Core, JobFits, Idle, At, Claimed, ReplaySafe, SideEffect, KindOf, ThreadOf
<1>4. LeftAlone'
  <2>1. /\ UNCHANGED <<log, job>> /\ \A b \in DOMAIN log : IsBlocker(b)' => IsBlocker(b)
    BY <1>1, LiftKeeps DEF LiftFacts
  <2>2. QED
    BY <2>1 DEF Core, LeftAlone, Idle, Skippable, SideEffect, Exempt, KindOf, ThreadOf
<1>5. QED
  BY <1>1, <1>2, <1>3, <1>4, LiftKeeps DEF LiftFacts, Core

LEMMA ReconcileCore == ASSUME Core, NEW s \in Seqs, NEW st, ReconcileFacts(s, st) PROVE Core'
<1>1. LiftFacts(s, st)
  BY DEF ReconcileFacts
<1>2. retried' \subseteq Seqs /\ approved' \in [Seqs -> Nat]
  <2>1. st \in {"retry", "succeeded"} /\ retried \subseteq Seqs /\ approved \in [Seqs -> Nat]
    BY <1>1 DEF LiftFacts, Core, TypeOK
  <2>2. QED
    BY <2>1 DEF ReconcileFacts
<1>3. TypeOK'
  BY <1>1, <1>2, LiftKeeps DEF LiftFacts, ReconcileFacts, Core, TypeOK
<1>4. JobFits'
  <2>1. s \in DOMAIN log /\ row[s].state \in {"dead", "uncertain"} /\ cursor = acked /\ acked \in Nat
    BY <1>1, LogFacts DEF LiftFacts, IsBlocker, Core, Behind
  <2>2. s <= acked + 1 /\ Claimed(KindOf(s))
    BY <2>1 DEF Core, Behind
  <2>3. row'[s].state \in {"retry", "succeeded"} /\ UNCHANGED <<log, acked>>
    BY <1>1 DEF LiftFacts, RowMoves
  <2>4. acked <= acked
    BY <2>1
  <2>5. QED
    BY <2>1, <2>2, <2>3, <2>4 DEF ReconcileFacts, JobFits, Idle, Claimed, ReplaySafe, SideEffect, KindOf, ThreadOf
<1>5. LeftAlone'
  BY DEF ReconcileFacts, LeftAlone
<1>6. QED
  BY <1>1, <1>3, <1>4, <1>5, LiftKeeps DEF LiftFacts, Core

\* The log grows by an event that has no row.
GrowsFacts ==
    /\ UNCHANGED <<acked, row, retried, boot, phase, cursor, quarantined, handled, resumes, job, died, ran, approved,
                   blockedOnce, aborts>>
    /\ log' \in Seq(Events) /\ DOMAIN log' \subseteq Seqs /\ Len(log') = Len(log) + 1
    /\ \A s \in DOMAIN log : log'[s] = log[s]
    /\ DOMAIN log' = DOMAIN log \cup {Len(log) + 1} /\ Len(log) + 1 \notin DOMAIN log

LEMMA GrowsDoes == ASSUME Core, NEW event \in Events, AppendEvent(event) PROVE GrowsFacts
<1>1. /\ log' = Append(log, event) /\ \E l \in Logs : IsPrefix(log', l)
      /\ UNCHANGED <<acked, row, retried, boot, phase, cursor, quarantined, handled, resumes, job, died, ran, approved,
                     blockedOnce, aborts>>
  BY DEF AppendEvent, memory, history
<1>2. log \in Seq(Events)
  BY DEF Core, TypeOK
<1>3. /\ log' \in Seq(Events) /\ Len(log') = Len(log) + 1 /\ \A s \in DOMAIN log : log'[s] = log[s]
      /\ DOMAIN log' = DOMAIN log \cup {Len(log) + 1} /\ Len(log) + 1 \notin DOMAIN log
  BY <1>1, <1>2
<1>4. PICK l \in Logs : Len(log') <= Len(l)
  BY <1>1 DEF IsPrefix
<1>5. DOMAIN log' \subseteq DOMAIN l
  <2>1. l \in Seq(Events)
    BY LogsAssumption
  <2>2. Len(l) \in Nat /\ DOMAIN l = 1 .. Len(l)
    BY <2>1
  <2>3. Len(log') \in Nat /\ DOMAIN log' = 1 .. Len(log')
    BY <1>3
  <2>4. QED
    BY <1>4, <2>2, <2>3
<1>6. DOMAIN log' \subseteq Seqs
  BY <1>5 DEF Seqs
<1>7. QED
  BY <1>1, <1>3, <1>6 DEF GrowsFacts

LEMMA GrowsCore == ASSUME Core, GrowsFacts PROVE Core'
<1>1. \A s \in DOMAIN log : s \in DOMAIN log' /\ KindOf(s)' = KindOf(s) /\ ThreadOf(s)' = ThreadOf(s)
  BY DEF GrowsFacts, KindOf, ThreadOf
<1>2. TypeOK'
  <2>1. acked' \in 0 .. Len(log') /\ cursor' \in 0 .. Len(log')
    BY DEF GrowsFacts, Core, TypeOK
  <2>2. QED
    BY <2>1 DEF GrowsFacts, Core, TypeOK
<1>3. Behind'
  BY <1>1 DEF GrowsFacts, Core, Behind, Claimed, ReplaySafe, SideEffect
<1>4. JobFits'
  BY <1>1 DEF GrowsFacts, Core, JobFits, Idle, Claimed, ReplaySafe, SideEffect
<1>5. LeftAlone'
  <2>1. PICK n : n = Len(log) + 1
    OBVIOUS
  <2>2. DOMAIN log' = DOMAIN log \cup {n} /\ n \in Seqs /\ n \notin DOMAIN log
    BY <2>1 DEF GrowsFacts
  <2>3. ~IsBlocker(n)'
    <3>1. row'[n].state = "none"
      BY <2>2 DEF GrowsFacts, Core, Behind
    <3>2. QED
      BY <3>1 DEF IsBlocker
  <2>4. \A b \in DOMAIN log : IsBlocker(b)' <=> IsBlocker(b)
    BY DEF GrowsFacts, IsBlocker
  <2>5. Idle' <=> Idle
    BY DEF GrowsFacts, Idle
  <2>6. job' = job /\ (~Idle => job.at \in DOMAIN log)
    BY DEF GrowsFacts, Core, JobFits
  <2>7. SUFFICES ASSUME ~Idle, job.step \in {"claim", "call", "settle"}, Skippable(KindOf(job.at)),
                        NEW b \in DOMAIN log', ThreadOf(b)' = ThreadOf(job.at)
                 PROVE  ~IsBlocker(b)'
    BY <1>1, <2>5, <2>6 DEF LeftAlone, Skippable, SideEffect, Exempt
  <2>8. CASE b \in DOMAIN log
    BY <1>1, <2>4, <2>7, <2>8 DEF Core, LeftAlone
  <2>9. CASE b = n
    BY <2>3, <2>9
  <2>10. QED
    BY <2>2, <2>8, <2>9
<1>6. QED
  BY <1>2, <1>3, <1>4, <1>5 DEF GrowsFacts, Core

AbortFacts ==
    /\ UNCHANGED <<log, acked, row, retried, boot, cursor, quarantined, handled, resumes, died, ran, approved, blockedOnce>>
    /\ ~Idle /\ aborts' \in 0 .. MaxAborts /\ job' = NoJob /\ phase' \in {phase, "stopped"}

LEMMA AbortDoes == ASSUME Core, Abort PROVE AbortFacts
BY BoundsAssumption DEF Abort, AbortFacts, disk, Core, TypeOK

LEMMA AbortCore == ASSUME Core, AbortFacts PROVE Core'
<1>1. TypeOK'
  BY NoJobFacts DEF AbortFacts, Core, TypeOK
<1>2. Behind'
  BY DEF AbortFacts, Core, Behind, Claimed, ReplaySafe, SideEffect, KindOf
<1>3. JobFits' /\ LeftAlone'
  BY NoJobFacts DEF AbortFacts, JobFits, LeftAlone, Idle
<1>4. QED
  BY <1>1, <1>2, <1>3 DEF AbortFacts, Core

CrashFacts ==
    /\ UNCHANGED <<log, acked, row, retried, died, ran, approved, blockedOnce, aborts>>
    /\ boot' = boot + 1 /\ boot' \in 1 .. MaxCrashes + 1 /\ phase' = "heal" /\ cursor' = acked
    /\ quarantined' = {} /\ handled' = {} /\ resumes' = <<>> /\ job' = NoJob

LEMMA CrashDoes == ASSUME Core, Crash PROVE CrashFacts
BY BoundsAssumption DEF Crash, CrashFacts, disk, history, Core, TypeOK

LEMMA CrashCore == ASSUME Core, CrashFacts PROVE Core'
<1>1. TypeOK'
  <2>1. resumes' \in Seq(Seqs)
    BY DEF CrashFacts
  <2>2. QED
    BY <2>1, NoJobFacts DEF CrashFacts, Core, TypeOK
<1>2. Behind'
  <2>1. DOMAIN resumes' = {}
    BY DEF CrashFacts
  <2>2. QED
    BY <2>1 DEF CrashFacts, Core, Behind, Claimed, ReplaySafe, SideEffect, KindOf
<1>3. JobFits' /\ LeftAlone'
  BY NoJobFacts DEF CrashFacts, JobFits, LeftAlone, Idle
<1>4. QED
  BY <1>1, <1>2, <1>3 DEF CrashFacts, Core

LEMMA StutterCore == ASSUME Core, UNCHANGED vars PROVE Core'
<1>1. UNCHANGED <<log, acked, row, retried, boot, phase, cursor, quarantined, handled, resumes, job, died, ran,
                  approved, blockedOnce, aborts>>
  BY DEF vars, disk, memory, history
<1>2. TypeOK'
  BY <1>1 DEF Core, TypeOK
<1>3. Behind'
  BY <1>1 DEF Core, Behind, Claimed, ReplaySafe, SideEffect, KindOf
<1>4. JobFits' /\ LeftAlone'
  BY <1>1 DEF Core, JobFits, LeftAlone, Idle, Claimed, ReplaySafe, SideEffect, KindOf, ThreadOf, Skippable, Exempt, IsBlocker
<1>5. QED
  BY <1>1, <1>2, <1>3, <1>4 DEF Core

LEMMA InitCore == ASSUME Init PROVE Core
<1>1. /\ log = <<>> /\ acked = 0 /\ row = [s \in Seqs |-> NoRow] /\ retried = {}
      /\ boot = 1 /\ phase = "heal" /\ cursor = 0 /\ quarantined = {} /\ handled = {} /\ resumes = <<>>
      /\ job = NoJob /\ ran = <<>> /\ approved = [s \in Seqs |-> 0] /\ blockedOnce = {} /\ aborts = 0
  BY DEF Init
<1>2. died \in BOOLEAN /\ ~died
  BY DEF Init
<1>3. NoRow \in RowType /\ NoRow.state = "none" /\ NoJob \in Jobs /\ NoJob.who = "none"
  <2>1. 0 \in 0 .. MaxCrashes + 1
    BY BoundsAssumption
  <2>2. QED
    BY <2>1, NoJobFacts DEF NoRow, RowType
<1>4. TypeOK
  <2>1. 1 \in 1 .. MaxCrashes + 1 /\ 0 \in 0 .. MaxAborts
    BY BoundsAssumption
  <2>2. <<>> \in Seq(Events) /\ <<>> \in Seq(Seqs) /\ DOMAIN <<>> = {} /\ 0 \in 0 .. Len(log)
    BY <1>1
  <2>3. QED
    BY <1>1, <1>2, <1>3, <2>1, <2>2 DEF TypeOK
<1>5. Behind /\ JobFits /\ LeftAlone
  BY <1>1, <1>3 DEF Behind, JobFits, LeftAlone, Idle
<1>6. QED
  BY <1>2, <1>4, <1>5 DEF Core

-----------------------------------------------------------------------------
(* The steps *)

\* What the steps do.
Stepped ==
    \/ GrowsFacts \/ AbortFacts \/ CrashFacts
    \/ SkipFacts \/ CallFacts \/ AdvanceFacts \/ VerifyFacts \/ SeekFacts \/ ReleaseFacts
    \/ \E st \in {"dead", "uncertain"} : TerminalFacts(st)
    \/ AgainFacts("retry", "claim") \/ AgainFacts("inflight", "call")
    \/ TakeClaimed \/ PassUnclaimed \/ ListRetryable
    \/ \E s \in Seqs : HealFacts(s) \/ ReconcileFacts(s, "succeeded") \/ ReconcileFacts(s, "retry")

\* Every action does one of these, where the invariant holds.
LEMMA NextDoes == ASSUME Core, Next PROVE Stepped
<1>1. CASE \E event \in Events : AppendEvent(event)
  BY <1>1, GrowsDoes DEF Stepped
<1>2. CASE Source
  BY <1>2, ResumeStartDoes DEF Source, Stepped
<1>3. CASE JobStep
  <2>1. CASE SkipQuarantined \/ AlreadySettled
    BY <2>1, SkipDoes DEF Stepped
  <2>2. CASE ExpireClaim
    BY <2>2, ExpireDoes DEF Stepped
  <2>3. CASE Claim
    BY <2>3, ClaimDoes DEF Stepped
  <2>4. CASE (\E answer \in Answers, acts \in BOOLEAN : CallProvider(answer, acts)) \/ CallAlreadyHandled
    BY <2>4, CallDoes DEF Stepped
  <2>5. CASE Complete \/ MoveCursor
    BY <2>5, AdvanceDoes DEF Stepped
  <2>6. CASE RetrySafely
    BY <2>6, RetrySafelyDoes DEF Stepped
  <2>7. CASE ExhaustRetries \/ SettleUncertain
    BY <2>7, SettlesDo DEF Stepped
  <2>8. CASE Verify
    BY <2>8, VerifyDoes DEF Stepped
  <2>9. CASE Seek
    BY <2>9, SeekDoes DEF Stepped
  <2>10. CASE Done
    BY <2>10, DoneDoes DEF Stepped
  <2>11. QED
    BY <1>3, <2>1, <2>2, <2>3, <2>4, <2>5, <2>6, <2>7, <2>8, <2>9, <2>10 DEF JobStep
<1>4. CASE \E s \in Seqs : AutoHeal(s) \/ ReconcileAbandon(s) \/ ReconcileSafeRetry(s)
  BY <1>4, HealDoes, ReconcileDoes DEF Stepped
<1>5. CASE Abort \/ Crash
  BY <1>5, AbortDoes, CrashDoes DEF Stepped
<1>6. QED
  BY <1>1, <1>2, <1>3, <1>4, <1>5 DEF Next

\* Every step keeps the types and the places of the job.
LEMMA NextCore == ASSUME Core, Stepped PROVE Core'
<1>1. CASE GrowsFacts \/ AbortFacts \/ CrashFacts
  BY <1>1, GrowsCore, AbortCore, CrashCore
<1>2. CASE SkipFacts \/ CallFacts \/ AdvanceFacts \/ VerifyFacts \/ SeekFacts \/ ReleaseFacts
  BY <1>2, SkipCore, CallCore, AdvanceCore, VerifyCore, SeekCore, ReleaseCore
<1>3. CASE \E st \in {"dead", "uncertain"} : TerminalFacts(st)
  BY <1>3, TerminalCore
<1>4. CASE AgainFacts("retry", "claim") \/ AgainFacts("inflight", "call")
  BY <1>4, AgainCore
<1>5. CASE TakeClaimed \/ PassUnclaimed \/ ListRetryable
  BY <1>5, TakeCore, PassCore, ListCore
<1>6. CASE \E s \in Seqs : HealFacts(s) \/ ReconcileFacts(s, "succeeded") \/ ReconcileFacts(s, "retry")
  BY <1>6, HealCore, ReconcileCore
<1>7. QED
  BY <1>1, <1>2, <1>3, <1>4, <1>5, <1>6 DEF Stepped

-----------------------------------------------------------------------------
(* What the cursor has passed *)

Settled(s) == row[s].state \in {"succeeded", "dead", "uncertain"}

\* What is accounted for stays so, unless a settled row is opened again without a decision.
LEMMA AccountedStays ==
  ASSUME Core, NEW s \in DOMAIN log, Accounted(s), \A u \in DOMAIN log : u \in DOMAIN log' /\ log'[u] = log[u],
         retried \subseteq retried', blockedOnce \subseteq blockedOnce', Settled(s) => Settled(s)' \/ s \in retried'
  PROVE  Accounted(s)'
<1>1. \A u \in DOMAIN log : KindOf(u)' = KindOf(u) /\ ThreadOf(u)' = ThreadOf(u)
  BY DEF KindOf, ThreadOf
<1>2. CASE Settled(s) \/ s \in retried
  BY <1>2 DEF Settled, Accounted
<1>3. CASE HeldBack(s)
  <2>1. PICK b \in blockedOnce : Skippable(KindOf(s)) /\ b < s /\ ThreadOf(b) = ThreadOf(s)
    BY <1>3 DEF HeldBack
  <2>2. b \in Seqs
    BY DEF Core, TypeOK
  <2>3. b \in DOMAIN log
    BY <2>1, <2>2, SeqsFacts, LogFacts DEF Core
  <2>4. HeldBack(s)'
    BY <1>1, <2>1, <2>3 DEF HeldBack, Skippable, SideEffect, Exempt
  <2>5. QED
    BY <2>4 DEF Accounted
<1>4. QED
  BY <1>2, <1>3 DEF Accounted, Settled

\* Steps that write no row and quarantine no thread.
LEMMA RowsStay ==
  ASSUME Core, Accounts, UNCHANGED <<log, row, retried, blockedOnce>>, quarantined' \subseteq quarantined,
         \/ acked' = acked
         \/ acked' = acked + 1 /\ (acked + 1 \in DOMAIN log /\ Claimed(KindOf(acked + 1)) => Accounted(acked + 1)),
         \/ job'.who = "none" \/ job'.step # "advance" \/ job' = job
  PROVE  Accounts'
<1>1. \A u : KindOf(u)' = KindOf(u) /\ ThreadOf(u)' = ThreadOf(u) /\ (IsBlocker(u)' <=> IsBlocker(u))
  BY DEF KindOf, ThreadOf, IsBlocker
<1>2. \A s \in DOMAIN log : Accounted(s) => Accounted(s)'
  BY AccountedStays DEF Settled
<1>3. ASSUME NEW s \in DOMAIN log, s <= acked', Claimed(KindOf(s)) PROVE Accounted(s)'
  <2>1. s \in Nat /\ acked \in Nat
    BY LogFacts DEF Core
  <2>2. CASE s <= acked
    BY <1>2, <1>3, <2>2 DEF Accounts
  <2>3. CASE ~(s <= acked)
    <3>1. s = acked + 1 /\ acked' = acked + 1
      BY <1>3, <2>1, <2>3
    <3>2. QED
      BY <1>2, <1>3, <3>1
  <2>4. QED
    BY <2>2, <2>3
<1>4. ~Idle' /\ job'.step = "advance" => Accounted(job.at)' /\ job' = job
  BY <1>2 DEF Accounts, Core, JobFits, Idle
<1>5. QED
  BY <1>1, <1>3, <1>4 DEF Accounts, Claimed, ReplaySafe, SideEffect, Idle

\* The event in hand is accounted for when its delivery is settled or skipped.
LEMMA InHandAccounted ==
  ASSUME Core, Accounts, ~Idle,
         \/ Settled(At)
         \/ Skippable(KindOf(At)) /\ (ThreadOf(At) \in quarantined \/ HasBlocker(ThreadOf(At)))
  PROVE  Accounted(At)
<1>1. At \in DOMAIN log /\ At \in Nat /\ At <= acked + 1 /\ Claimed(KindOf(At)) /\ acked \in Nat
  BY InHandFacts, LogFacts DEF Core
<1>2. CASE Settled(At)
  BY <1>2 DEF Accounted, Settled
<1>3. CASE ~Settled(At)
  <2>1. PICK b \in DOMAIN log : ThreadOf(b) = ThreadOf(At) /\ IsBlocker(b)
    BY <1>3 DEF Accounts, HasBlocker
  <2>2. b \in blockedOnce /\ b # At /\ b <= acked + 1 /\ b \in Nat
    BY <1>3, <2>1, LogFacts DEF Accounts, Core, Behind, IsBlocker, Settled
  <2>3. CASE b < At
    BY <1>3, <2>1, <2>2, <2>3 DEF Accounted, HeldBack
  <2>4. CASE At < b
    <3>1. At <= acked
      BY <1>1, <2>2, <2>4
    <3>2. QED
      BY <1>1, <3>1 DEF Accounts
  <2>5. QED
    BY <1>1, <2>2, <2>3, <2>4
<1>4. QED
  BY <1>2, <1>3

LEMMA SkipAccounts == ASSUME Core, Accounts, SkipFacts PROVE Accounts'
<1>1. \A u : KindOf(u)' = KindOf(u) /\ ThreadOf(u)' = ThreadOf(u) /\ (IsBlocker(u)' <=> IsBlocker(u))
  BY DEF SkipFacts, KindOf, ThreadOf, IsBlocker
<1>2. \A s \in DOMAIN log : Accounted(s) => Accounted(s)'
  BY AccountedStays DEF Settled, SkipFacts
<1>3. Accounted(At) /\ At \in DOMAIN log
  BY InHandAccounted, InHandFacts DEF SkipFacts, Settled
<1>4. job'.at = At
  BY DEF SkipFacts, Moved, At
<1>5. Accounted(job.at)' /\ job'.at = job.at
  BY <1>2, <1>3, <1>4 DEF At
<1>6. UNCHANGED <<log, acked, blockedOnce>>
  BY DEF SkipFacts
<1>7. \A t \in quarantined' : \E b \in DOMAIN log : ThreadOf(b) = t /\ IsBlocker(b)
  BY DEF SkipFacts, Accounts, HasBlocker
<1>8. QED
  BY <1>1, <1>2, <1>5, <1>6, <1>7 DEF Accounts, Claimed, ReplaySafe, SideEffect

\* Steps that move one row, with the cursor.
LEMMA RowMovesAccounts ==
  ASSUME Core, Accounts, UNCHANGED log, NEW s \in DOMAIN log, NEW st, RowMoves(s, st),
         retried \subseteq retried', blockedOnce \subseteq blockedOnce',
         Settled(s) => Settled(s)' \/ s \in retried',
         \/ acked' = acked
         \/ acked' = acked + 1 /\ s = acked + 1 /\ Settled(s)',
         st \in {"dead", "uncertain"} => s \in blockedOnce',
         quarantined' \subseteq quarantined \cup {ThreadOf(s)},
         ThreadOf(s) \in quarantined' => st \in {"dead", "uncertain"} \/ ~IsBlocker(s),
         ThreadOf(s) \in quarantined' => st \in {"dead", "uncertain"} \/ ThreadOf(s) \in quarantined,
         \/ job'.who = "none" \/ job'.step # "advance" \/ job' = job
         \/ job'.at = s /\ Settled(s)'
  PROVE  Accounts'
<1>1. \A u : KindOf(u)' = KindOf(u) /\ ThreadOf(u)' = ThreadOf(u)
  BY DEF KindOf, ThreadOf
<1>2. \A u \in DOMAIN log : u # s => (IsBlocker(u)' <=> IsBlocker(u)) /\ (Settled(u)' <=> Settled(u))
  BY LogFacts DEF RowMoves, IsBlocker, Settled, Core
<1>3. IsBlocker(s)' <=> st \in {"dead", "uncertain"}
  BY DEF RowMoves, IsBlocker
<1>4. \A u \in DOMAIN log : Accounted(u) => Accounted(u)'
  BY <1>2, AccountedStays
<1>5. Settled(s)' => Accounted(s)'
  BY DEF Settled, Accounted
<1>6. ASSUME NEW u \in DOMAIN log, u <= acked', Claimed(KindOf(u)) PROVE Accounted(u)'
  <2>1. u \in Nat /\ acked \in Nat
    BY LogFacts DEF Core
  <2>2. CASE u <= acked
    BY <1>4, <1>6, <2>2 DEF Accounts
  <2>3. CASE ~(u <= acked)
    <3>1. u = acked + 1 /\ acked' = acked + 1
      BY <1>6, <2>1, <2>3
    <3>2. QED
      BY <1>5, <1>6, <3>1, <2>1
  <2>4. QED
    BY <2>2, <2>3
<1>7. ~Idle' /\ job'.step = "advance" => (job' = job /\ Accounted(job.at)') \/ (job'.at = s /\ Accounted(s)')
  BY <1>4, <1>5 DEF Accounts, Core, JobFits, Idle
<1>8. \A b \in DOMAIN log : IsBlocker(b)' => b \in blockedOnce'
  BY <1>2, <1>3 DEF Accounts
<1>9. ASSUME NEW t \in quarantined' PROVE \E b \in DOMAIN log : ThreadOf(b) = t /\ IsBlocker(b)'
  <2>1. CASE st \in {"dead", "uncertain"} /\ t = ThreadOf(s)
    BY <1>3, <2>1
  <2>2. CASE ~(st \in {"dead", "uncertain"} /\ t = ThreadOf(s))
    <3>1. t \in quarantined /\ (t = ThreadOf(s) => ~IsBlocker(s))
      BY <1>9, <2>2
    <3>2. PICK b \in DOMAIN log : ThreadOf(b) = t /\ IsBlocker(b)
      BY <3>1 DEF Accounts
    <3>3. QED
      BY <1>2, <3>1, <3>2
  <2>3. QED
    BY <2>1, <2>2
<1>10. QED
  BY <1>1, <1>6, <1>7, <1>8, <1>9 DEF Accounts, Claimed, ReplaySafe, SideEffect

\* The end of an event in hand: it is settled, or accounted for otherwise.
LEMMA AdvanceAccounts == ASSUME Core, Accounts, AdvanceFacts PROVE Accounts'
<1>1. /\ ~Idle /\ At \in DOMAIN log /\ acked' \in {acked, At} /\ (acked' = At => At = acked + 1 \/ acked' = acked)
      /\ UNCHANGED <<log, retried, blockedOnce, quarantined>>
  BY InHandFacts DEF AdvanceFacts
<1>2. job'.who = "none" \/ job'.step # "advance"
  BY OnwardFacts DEF AdvanceFacts, Core, Moved
<1>3. CASE job.step = "settle" /\ row[At].state = "inflight" /\ RowMoves(At, "succeeded")
  <2>1. ~Settled(At) /\ ~IsBlocker(At)
    BY <1>3 DEF Settled, IsBlocker, RowMoves
  <2>2. PICK s : s = At
    OBVIOUS
  <2>3. s \in DOMAIN log /\ RowMoves(s, "succeeded") /\ ~Settled(s) /\ ~IsBlocker(s) /\ s = At
    BY <1>1, <1>3, <2>1, <2>2
  <2>4. Settled(s)'
    BY <2>3 DEF Settled, RowMoves
  <2>5. QED
    BY <1>1, <1>2, <2>3, <2>4, RowMovesAccounts
<1>4. CASE job.step = "advance" /\ UNCHANGED row
  <2>1. Accounted(At)
    BY <1>1, <1>4 DEF Accounts, At
  <2>2. \/ acked' = acked
        \/ acked' = acked + 1 /\ (acked + 1 \in DOMAIN log /\ Claimed(KindOf(acked + 1)) => Accounted(acked + 1))
    BY <1>1, <2>1
  <2>3. QED
    BY <1>1, <1>2, <1>4, <2>2, RowsStay
<1>5. QED
  BY <1>3, <1>4 DEF AdvanceFacts

LEMMA TerminalAccounts == ASSUME Core, Accounts, NEW st \in {"dead", "uncertain"}, TerminalFacts(st) PROVE Accounts'
<1>1. PICK s : s = At
  OBVIOUS
<1>2. /\ s \in DOMAIN log /\ RowMoves(s, st) /\ job'.at = s /\ ~Settled(s)
      /\ quarantined' = quarantined \cup {ThreadOf(s)} /\ blockedOnce' = blockedOnce \cup {s}
      /\ UNCHANGED <<log, acked, retried>>
  BY <1>1, InHandFacts DEF TerminalFacts, Moved, Settled, At
<1>3. Settled(s)'
  BY <1>2 DEF Settled, RowMoves
<1>4. QED
  BY <1>2, <1>3, RowMovesAccounts

LEMMA AgainAccounts == ASSUME Core, Accounts, NEW st \in {"retry", "inflight"}, NEW step \in {"claim", "call"}, AgainFacts(st, step) PROVE Accounts'
<1>1. PICK s : s = At
  OBVIOUS
<1>2. /\ s \in DOMAIN log /\ RowMoves(s, st) /\ ~Settled(s) /\ ~IsBlocker(s) /\ job'.step # "advance"
      /\ UNCHANGED <<log, acked, retried, quarantined, blockedOnce>>
  BY <1>1, InHandFacts DEF AgainFacts, Moved, Settled, IsBlocker
<1>3. QED
  BY <1>2, RowMovesAccounts

\* A lifted blocker is settled, or an operator has decided on it.
LEMMA LiftAccounts ==
  ASSUME Core, Accounts, NEW s, NEW st, LiftFacts(s, st), retried \subseteq retried', st = "retry" => s \in retried',
         job'.who = "none" \/ job'.step # "advance" \/ job' = job
  PROVE  Accounts'
<1>1. /\ s \in DOMAIN log /\ RowMoves(s, st) /\ st \in {"retry", "succeeded"}
      /\ UNCHANGED <<log, acked, blockedOnce>> /\ quarantined' \subseteq quarantined /\ ThreadOf(s) \notin quarantined'
  BY DEF LiftFacts, Uncached
<1>2. Settled(s)' \/ s \in retried'
  BY <1>1 DEF Settled, RowMoves
<1>3. QED
  BY <1>1, <1>2, RowMovesAccounts

LEMMA GrowsAccounts == ASSUME Core, Accounts, GrowsFacts PROVE Accounts'
<1>1. \A u \in DOMAIN log : u \in DOMAIN log' /\ KindOf(u)' = KindOf(u) /\ ThreadOf(u)' = ThreadOf(u)
  BY DEF GrowsFacts, KindOf, ThreadOf
<1>2. \A s \in DOMAIN log : Accounted(s) => Accounted(s)'
  BY <1>1, AccountedStays DEF Settled, GrowsFacts
<1>3. \A s \in DOMAIN log' : s <= acked => s \in DOMAIN log
  <2>1. acked <= Len(log) /\ Len(log) \in Nat /\ acked \in Nat /\ DOMAIN log = 1 .. Len(log)
    BY LogFacts DEF Core, TypeOK
  <2>2. QED
    BY <2>1 DEF GrowsFacts
<1>4. \A s \in DOMAIN log' : IsBlocker(s)' => s \in DOMAIN log /\ IsBlocker(s)
  BY DEF GrowsFacts, Core, Behind, IsBlocker
<1>5. \A s \in DOMAIN log : IsBlocker(s)' <=> IsBlocker(s)
  BY DEF GrowsFacts, IsBlocker
<1>6. UNCHANGED <<acked, job, quarantined, blockedOnce>> /\ (~Idle => job.at \in DOMAIN log)
  BY DEF GrowsFacts, Core, JobFits
<1>7. QED
  BY <1>1, <1>2, <1>3, <1>4, <1>5, <1>6 DEF Accounts, Claimed, ReplaySafe, SideEffect, Idle

\* Every step keeps what the cursor has passed accounted for.
LEMMA NextAccounts == ASSUME Core, Accounts, Stepped PROVE Accounts'
<1>1. CASE GrowsFacts
  BY <1>1, GrowsAccounts
<1>2. CASE SkipFacts
  BY <1>2, SkipAccounts
<1>3. CASE AdvanceFacts
  BY <1>3, AdvanceAccounts
<1>4. CASE \E st \in {"dead", "uncertain"} : TerminalFacts(st)
  BY <1>4, TerminalAccounts
<1>5. CASE AgainFacts("retry", "claim") \/ AgainFacts("inflight", "call")
  BY <1>5, AgainAccounts
<1>6. CASE \E s \in Seqs : HealFacts(s) \/ ReconcileFacts(s, "succeeded") \/ ReconcileFacts(s, "retry")
  BY <1>6, LiftAccounts DEF HealFacts, ReconcileFacts
<1>7. CASE AbortFacts \/ CrashFacts
  BY <1>7, RowsStay, NoJobFacts DEF AbortFacts, CrashFacts
<1>8. CASE CallFacts
  BY <1>8, RowsStay DEF CallFacts, Moved
<1>9. CASE VerifyFacts
  BY <1>9, RowsStay DEF VerifyFacts, Moved
<1>10. CASE SeekFacts
  BY <1>10, RowsStay DEF SeekFacts, Moved
<1>11. CASE ReleaseFacts
  BY <1>11, RowsStay DEF ReleaseFacts, StartsJob
<1>12. CASE TakeClaimed
  BY <1>12, TakeDoes, RowsStay DEF StartsJob
<1>13. CASE PassUnclaimed
  BY <1>13, PassDoes, RowsStay
<1>14. CASE ListRetryable
  BY <1>14, ListDoes, RowsStay
<1>15. QED
  BY <1>1, <1>2, <1>3, <1>4, <1>5, <1>6, <1>7, <1>8, <1>9, <1>10, <1>11, <1>12, <1>13, <1>14 DEF Stepped

-----------------------------------------------------------------------------
(* How often the provider carries a delivery out *)

\* An occurrence more is counted once.
LEMMA TimesFacts ==
  ASSUME ran \in Seq(Seqs), NEW s
  PROVE  /\ Times(s) \in Nat
         /\ (\A i \in DOMAIN ran : ran[i] # s) <=> Times(s) = 0
         /\ \A a \in Seqs : ran' = Append(ran, a) => Times(s)' = IF s = a THEN Times(s) + 1 ELSE Times(s)
<1> DEFINE S == {i \in DOMAIN ran : ran[i] = s}
<1>1. IsFiniteSet(S) /\ DOMAIN ran = 1 .. Len(ran) /\ Len(ran) \in Nat
  <2>1. DOMAIN ran = 1 .. Len(ran) /\ Len(ran) \in Nat
    OBVIOUS
  <2>2. IsFiniteSet(DOMAIN ran)
    BY <2>1, FS_Interval
  <2>3. QED
    BY <2>1, <2>2, FS_Subset
<1>2. Times(s) = Cardinality(S) /\ Cardinality(S) \in Nat
  BY <1>1, FS_CardinalityType DEF Times
<1>3. (\A i \in DOMAIN ran : ran[i] # s) <=> Times(s) = 0
  <2>1. (\A i \in DOMAIN ran : ran[i] # s) <=> S = {}
    OBVIOUS
  <2>2. QED
    BY <1>1, <1>2, <2>1, FS_EmptySet
<1>4. ASSUME NEW a \in Seqs, ran' = Append(ran, a)
      PROVE  Times(s)' = IF s = a THEN Times(s) + 1 ELSE Times(s)
  <2> DEFINE T == {i \in DOMAIN ran' : ran'[i] = s}
             n == Len(ran) + 1
  <2>1. /\ DOMAIN ran' = DOMAIN ran \cup {n} /\ n \notin DOMAIN ran
        /\ ran'[n] = a /\ \A i \in DOMAIN ran : ran'[i] = ran[i]
    BY <1>4
  <2>2. CASE s = a
    <3>1. T = S \cup {n} /\ n \notin S
      BY <2>1, <2>2
    <3>2. Cardinality(T) = Cardinality(S) + 1
      BY <1>1, <3>1, FS_AddElement
    <3>3. QED
      BY <1>2, <2>2, <3>2 DEF Times
  <2>3. CASE s # a
    <3>1. T = S
      BY <2>1, <2>3
    <3>2. QED
      BY <1>2, <2>3, <3>1 DEF Times
  <2>4. QED
    BY <2>2, <2>3
<1>5. QED
  BY <1>2, <1>3, <1>4

\* A delivery has one right to be sent or none.
LEMMA RightRange == \A s : Right(s) \in {0, 1}
BY DEF Right

\* Where nothing is sent, no row is opened again and no decision made, no delivery gains a right.
LEMMA RightsStay ==
  ASSUME Core, Rights, UNCHANGED <<log, ran, approved>>, acked' \in Nat, acked <= acked',
         \A s \in DOMAIN log : ReplaySafe(KindOf(s)) \/ Right(s)' <= Right(s)
  PROVE  Rights'
<1>1. \A u : KindOf(u)' = KindOf(u) /\ Times(u)' = Times(u)
  BY DEF KindOf, Times
<1>2. RanInLog'
  <2>1. \A i \in DOMAIN ran : ran[i] \in DOMAIN log /\ ran[i] <= acked + 1 /\ ran[i] \in Nat /\ acked \in Nat
    BY LogFacts DEF Rights, RanInLog, Core
  <2>2. QED
    BY <2>1 DEF RanInLog
<1>3. \A s \in DOMAIN log : ReplaySafe(KindOf(s))' \/ Times(s)' + Right(s)' <= 1 + approved'[s]
  <2> SUFFICES ASSUME NEW s \in DOMAIN log, ~ReplaySafe(KindOf(s)) PROVE Times(s)' + Right(s)' <= 1 + approved'[s]
    BY <1>1 DEF ReplaySafe
  <2>1. Right(s)' <= Right(s) /\ Times(s) + Right(s) <= 1 + approved[s]
    BY DEF Rights
  <2>2. Times(s) \in Nat /\ Right(s) \in {0, 1} /\ Right(s)' \in {0, 1} /\ approved[s] \in Nat
    <3>1. ran \in Seq(Seqs) /\ approved \in [Seqs -> Nat] /\ s \in Seqs
      BY LogFacts DEF Core, TypeOK
    <3>2. QED
      BY <3>1, TimesFacts, RightRange DEF Right
  <2>3. QED
    BY <1>1, <2>1, <2>2
<1>4. QED
  BY <1>2, <1>3 DEF Rights

\* No row is opened, and the job is not about to call.
LEMMA RightDrops ==
  ASSUME NEW s, row'[s].state \in {"none", "retry"} => row[s].state \in {"none", "retry"},
         \/ job'.who = "none" \/ job'.step \notin {"call", "settle"}
         \/ job' = job
  PROVE  Right(s)' <= Right(s)
<1>1. Right(s) \in {0, 1} /\ Right(s)' \in {0, 1}
  BY DEF Right
<1>2. Right(s)' = 1 => Right(s) = 1
  BY DEF Right, Idle
<1>3. QED
  BY <1>1, <1>2

\* Steps that write no row and send nothing.
LEMMA QuietRights ==
  ASSUME Core, Rights, UNCHANGED <<log, ran, approved, row>>, acked' \in Nat, acked <= acked',
         job'.who = "none" \/ job'.step \notin {"call", "settle"} \/ job' = job
  PROVE  Rights'
BY RightDrops, RightsStay

\* Steps that move one row and send nothing.
LEMMA RowRights ==
  ASSUME Core, Rights, UNCHANGED <<log, ran, approved>>, acked' \in Nat, acked <= acked', NEW s \in Seqs, NEW st,
         RowMoves(s, st), st \in {"none", "retry"} => ReplaySafe(KindOf(s)) \/ Right(s) = 1,
         \/ job'.who = "none" \/ job'.step \notin {"call", "settle"} \/ job' = job
         \/ job'.step = "call" /\ job'.at = s /\ Right(s) = 1
  PROVE  Rights'
<1>1. ASSUME NEW u \in DOMAIN log PROVE ReplaySafe(KindOf(u)) \/ Right(u)' <= Right(u)
  <2>1. u \in Seqs
    BY LogFacts DEF Core
  <2>2. Right(u) \in {0, 1} /\ Right(u)' \in {0, 1}
    BY DEF Right
  <2>3. CASE u = s /\ Right(s) = 1
    BY <2>2, <2>3
  <2>4. CASE u # s /\ job'.step = "call" /\ job'.at = s
    <3>1. Right(u)' = 1 => Right(u) = 1
      BY <2>1, <2>4 DEF Right, RowMoves
    <3>2. QED
      BY <2>2, <3>1
  <2>5. CASE /\ job'.who = "none" \/ job'.step \notin {"call", "settle"} \/ job' = job
             /\ u # s \/ st \notin {"none", "retry"}
    <3>1. row'[u].state \in {"none", "retry"} => row[u].state \in {"none", "retry"}
      BY <2>1, <2>5 DEF RowMoves
    <3>2. QED
      BY <2>5, <3>1, RightDrops
  <2>6. QED
    BY <2>3, <2>4, <2>5
<1>2. QED
  BY <1>1, RightsStay

\* A call uses the right up.
LEMMA CallRights == ASSUME Core, Rights, CallFacts PROVE Rights'
<1>1. /\ UNCHANGED <<log, acked, row, approved>> /\ acked \in Nat /\ acked <= acked
      /\ ~Idle /\ job.step = "call" /\ job'.step = "settle" /\ job'.at = job.at /\ job'.who = job.who
  BY LogFacts DEF CallFacts, Moved, Core
<1>2. At \in DOMAIN log /\ At \in Seqs /\ At <= acked + 1
  BY <1>1, InHandFacts
<1>3. row[job.at].state = "inflight"
  BY <1>1 DEF Core, JobFits
<1>4. PICK a : a = job.at
  OBVIOUS
<1>5. Right(a) = 1 /\ Right(a)' \in {0, 1} /\ (job'.answer # "retry" => Right(a)' = 0)
  BY <1>1, <1>3, <1>4 DEF Right
<1>6. ASSUME NEW u \in DOMAIN log, u # a PROVE Right(u)' = Right(u)
  BY <1>1, <1>4, <1>6 DEF Right
<1>7. CASE ran' = ran
  BY <1>1, <1>5, <1>6, <1>7, RightRange, RightsStay
<1>8. CASE ran' = Append(ran, a) /\ job'.answer # "retry"
  <2>1. ran \in Seq(Seqs) /\ approved \in [Seqs -> Nat]
    BY DEF Core, TypeOK
  <2>2. \A u : KindOf(u)' = KindOf(u)
    BY <1>1 DEF KindOf
  <2>3. \A u : Times(u)' = IF u = a THEN Times(u) + 1 ELSE Times(u)
    BY <1>2, <1>4, <1>8, <2>1, TimesFacts DEF At
  <2>4. RanInLog'
    <3>1. DOMAIN ran' = DOMAIN ran \cup {Len(ran) + 1} /\ ran'[Len(ran) + 1] = a /\ \A i \in DOMAIN ran : ran'[i] = ran[i]
      BY <1>2, <1>4, <1>8, <2>1 DEF At
    <3>2. QED
      BY <1>1, <1>2, <1>4, <3>1 DEF Rights, RanInLog, At
  <2>5. ASSUME NEW u \in DOMAIN log, ~ReplaySafe(KindOf(u)) PROVE Times(u)' + Right(u)' <= 1 + approved[u]
    <3>1. Times(u) + Right(u) <= 1 + approved[u]
      BY <2>5 DEF Rights
    <3>2. Times(u) \in Nat /\ approved[u] \in Nat
      BY <2>1, LogFacts, TimesFacts DEF Core
    <3>3. CASE u = a
      BY <1>5, <1>8, <2>3, <3>1, <3>2, <3>3
    <3>4. CASE u # a
      BY <1>6, <2>3, <3>1, <3>4
    <3>5. QED
      BY <3>3, <3>4
  <2>6. QED
    BY <1>1, <2>2, <2>4, <2>5 DEF Rights, ReplaySafe
<1>9. QED
  BY <1>4, <1>7, <1>8 DEF CallFacts, At

\* A decision of an operator gives a right.
LEMMA DecisionRights == ASSUME Core, Rights, NEW s \in Seqs, ReconcileFacts(s, "retry") PROVE Rights'
<1>1. /\ s \in DOMAIN log /\ IsBlocker(s) /\ RowMoves(s, "retry") /\ UNCHANGED <<log, acked, ran>>
      /\ Idle /\ approved' = [approved EXCEPT ![s] = @ + 1] /\ job'.step \notin {"call", "settle"}
  BY DEF ReconcileFacts, LiftFacts
<1>2. \A u : KindOf(u)' = KindOf(u) /\ Times(u)' = Times(u)
  BY <1>1 DEF KindOf, Times
<1>3. RanInLog'
  BY <1>1 DEF Rights, RanInLog
<1>4. ASSUME NEW u \in DOMAIN log, ~ReplaySafe(KindOf(u)) PROVE Times(u) + Right(u)' <= 1 + approved'[u]
  <2>1. u \in Seqs /\ ran \in Seq(Seqs) /\ approved \in [Seqs -> Nat] /\ Times(u) + Right(u) <= 1 + approved[u]
    BY <1>4, LogFacts DEF Core, TypeOK, Rights
  <2>2. Times(u) \in Nat /\ approved[u] \in Nat /\ Right(u) \in {0, 1} /\ Right(u)' \in {0, 1}
    BY <2>1, TimesFacts DEF Right
  <2>3. CASE u = s
    <3>1. Right(u) = 0
      BY <1>1, <2>3 DEF Right, IsBlocker
    <3>2. approved'[u] = approved[u] + 1
      BY <1>1, <2>1, <2>3
    <3>3. QED
      BY <2>1, <2>2, <3>1, <3>2
  <2>4. CASE u # s
    <3>1. approved'[u] = approved[u] /\ row'[u] = row[u]
      BY <1>1, <2>1, <2>4 DEF RowMoves
    <3>2. Right(u)' <= Right(u)
      BY <1>1, <3>1, RightDrops
    <3>3. QED
      BY <2>1, <2>2, <3>1, <3>2
  <2>5. QED
    BY <2>3, <2>4
<1>5. QED
  BY <1>1, <1>2, <1>3, <1>4 DEF Rights, ReplaySafe

LEMMA GrowsRights == ASSUME Core, Rights, GrowsFacts PROVE Rights'
<1>1. /\ UNCHANGED <<acked, row, job, ran, approved>> /\ \A u \in DOMAIN log : u \in DOMAIN log' /\ KindOf(u)' = KindOf(u)
  BY DEF GrowsFacts, KindOf
<1>2. \A u : Times(u)' = Times(u) /\ Right(u)' = Right(u)
  BY <1>1 DEF Times, Right, Idle
<1>3. RanInLog'
  BY <1>1 DEF Rights, RanInLog
<1>4. ASSUME NEW u \in DOMAIN log', u \notin DOMAIN log PROVE Times(u) + Right(u) <= 1 + approved[u]
  <2>1. u \in Seqs /\ ran \in Seq(Seqs) /\ approved \in [Seqs -> Nat]
    BY DEF GrowsFacts, Core, TypeOK
  <2>2. Times(u) = 0
    BY <1>4, <2>1, TimesFacts DEF Rights, RanInLog
  <2>3. Right(u) \in {0, 1} /\ approved[u] \in Nat
    BY <2>1, RightRange
  <2>4. QED
    BY <2>2, <2>3
<1>5. QED
  BY <1>1, <1>2, <1>3, <1>4 DEF Rights, ReplaySafe

\* Every step keeps the account of what was carried out.
LEMMA NextRights == ASSUME Core, Rights, Stepped PROVE Rights'
<1>0. acked \in Nat /\ acked <= acked
  BY LogFacts DEF Core
<1>1. CASE GrowsFacts
  BY <1>1, GrowsRights
<1>2. CASE AbortFacts \/ CrashFacts
  BY <1>0, <1>2, QuietRights, NoJobFacts DEF AbortFacts, CrashFacts
<1>3. CASE SkipFacts
  BY <1>0, <1>3, QuietRights DEF SkipFacts, Moved
<1>4. CASE CallFacts
  BY <1>4, CallRights
<1>5. CASE AdvanceFacts
  <2>1. job'.who = "none" \/ job'.step \notin {"call", "settle"}
    BY <1>5, OnwardFacts DEF AdvanceFacts, Core, Moved
  <2>2. acked' \in Nat /\ acked <= acked' /\ At \in Seqs /\ UNCHANGED <<log, ran, approved>>
    BY <1>0, <1>5, InHandFacts DEF AdvanceFacts
  <2>3. CASE RowMoves(At, "succeeded")
    BY <2>1, <2>2, <2>3, RowRights
  <2>4. CASE UNCHANGED row
    BY <2>1, <2>2, <2>4, QuietRights
  <2>5. QED
    BY <1>5, <2>3, <2>4 DEF AdvanceFacts
<1>6. CASE VerifyFacts
  BY <1>0, <1>6, QuietRights DEF VerifyFacts, Moved
<1>7. CASE SeekFacts
  BY <1>0, <1>7, QuietRights DEF SeekFacts, Moved
<1>8. CASE ReleaseFacts
  BY <1>0, <1>8, QuietRights DEF ReleaseFacts, StartsJob
<1>9. CASE \E st \in {"dead", "uncertain"} : TerminalFacts(st)
  <2>1. PICK st \in {"dead", "uncertain"} : TerminalFacts(st)
    BY <1>9
  <2>2. At \in Seqs /\ RowMoves(At, st) /\ UNCHANGED <<log, acked, ran, approved>> /\ job'.step = "advance"
    BY <2>1, InHandFacts DEF TerminalFacts, Moved
  <2>3. QED
    BY <1>0, <2>2, RowRights
<1>10. CASE AgainFacts("retry", "claim") \/ AgainFacts("inflight", "call")
  <2>1. PICK a : a = job.at
    OBVIOUS
  <2>2. ~Idle /\ a \in Seqs /\ a = At /\ UNCHANGED <<log, acked, ran, approved>> /\ job'.at = a
    BY <1>10, <2>1, InHandFacts DEF AgainFacts, Moved, At
  <2>3. CASE AgainFacts("retry", "claim")
    <3>1. RowMoves(a, "retry") /\ (ReplaySafe(KindOf(a)) \/ Right(a) = 1) /\ job'.step = "claim"
      BY <2>1, <2>2, <2>3 DEF AgainFacts, Moved, Right
    <3>2. QED
      BY <1>0, <2>2, <3>1, RowRights
  <2>4. CASE AgainFacts("inflight", "call")
    <3>1. RowMoves(a, "inflight") /\ Right(a) = 1 /\ job'.step = "call"
      BY <2>1, <2>2, <2>4 DEF AgainFacts, Moved, Right
    <3>2. QED
      BY <1>0, <2>2, <3>1, RowRights
  <2>5. QED
    BY <1>10, <2>3, <2>4
<1>11. CASE TakeClaimed
  BY <1>0, <1>11, TakeDoes, QuietRights DEF StartsJob
<1>12. CASE PassUnclaimed
  BY <1>0, <1>12, PassDoes, QuietRights
<1>13. CASE ListRetryable
  BY <1>0, <1>13, ListDoes, QuietRights
<1>14. CASE \E s \in Seqs : HealFacts(s) \/ ReconcileFacts(s, "succeeded") \/ ReconcileFacts(s, "retry")
  <2>1. PICK s \in Seqs : HealFacts(s) \/ ReconcileFacts(s, "succeeded") \/ ReconcileFacts(s, "retry")
    BY <1>14
  <2>2. CASE HealFacts(s) \/ ReconcileFacts(s, "succeeded")
    <3>1. /\ RowMoves(s, "succeeded") /\ UNCHANGED <<log, acked, ran, approved>>
          /\ job'.step \notin {"call", "settle"} \/ job' = job
      BY <2>2 DEF HealFacts, ReconcileFacts, LiftFacts
    <3>2. QED
      BY <1>0, <3>1, RowRights
  <2>3. QED
    BY <2>1, <2>2, DecisionRights
<1>15. QED
  BY <1>1, <1>2, <1>3, <1>4, <1>5, <1>6, <1>7, <1>8, <1>9, <1>10, <1>11, <1>12, <1>13, <1>14 DEF Stepped

-----------------------------------------------------------------------------
(* The order of what the first process carries out *)

\* Where nothing is sent, no thread gains a blocker, and the job does not go back.
LEMMA OnwardsStay ==
  ASSUME Core, Onwards, UNCHANGED ran, boot' = boot, resumes' = resumes \/ (boot = 1 => resumes' = <<>>),
         \A u \in DOMAIN log : u \in DOMAIN log' /\ KindOf(u)' = KindOf(u) /\ ThreadOf(u)' = ThreadOf(u),
         RanInLog,
         \A b \in DOMAIN log' : IsBlocker(b)' =>
           b \in DOMAIN log /\ (IsBlocker(b) \/ (~Idle /\ b = job.at)),
         boot = 1 /\ phase' = "heal" => phase = "heal" /\ job' = job /\ row' = row,
         \/ job'.who = "none"
         \/ /\ ~Idle /\ job'.at \in DOMAIN log /\ job.at <= job'.at
            /\ ThreadOf(job'.at) = ThreadOf(job.at)
         \/ job'.at \in DOMAIN log /\ IsBlocker(job'.at)
         \/ job'.at \in DOMAIN log /\ job'.at = acked + 1
  PROVE  Onwards'
<1> SUFFICES ASSUME boot = 1 PROVE Onwards'
  BY DEF Onwards
<1>1. resumes' = <<>>
  BY DEF Onwards
<1>2. phase' = "heal" => Idle' /\ \A s \in Seqs : row'[s].state = "none"
  BY DEF Onwards, Idle
<1>3. ASSUME NEW i \in DOMAIN ran, Skippable(KindOf(ran[i])) PROVE
        /\ \A b \in DOMAIN log' : ThreadOf(b)' = ThreadOf(ran[i]) /\ IsBlocker(b)' => ran[i] <= b
        /\ \A a : a = job'.at /\ job'.who # "none" /\ ThreadOf(a)' = ThreadOf(ran[i]) => ran[i] <= a
  <2>1. /\ \A b \in DOMAIN log : ThreadOf(b) = ThreadOf(ran[i]) /\ IsBlocker(b) => ran[i] <= b
        /\ ~Idle /\ ThreadOf(job.at) = ThreadOf(ran[i]) => ran[i] <= job.at
    BY <1>3 DEF Onwards
  <2>2. ran[i] \in DOMAIN log /\ ran[i] <= acked + 1 /\ ran[i] \in Nat
    BY LogFacts DEF RanInLog, Core
  <2>3. ASSUME NEW b \in DOMAIN log', ThreadOf(b)' = ThreadOf(ran[i]), IsBlocker(b)' PROVE ran[i] <= b
    BY <2>1, <2>3
  <2>4. ASSUME NEW b, b = job'.at, job'.who # "none", ThreadOf(b)' = ThreadOf(ran[i]) PROVE ran[i] <= b
    <3>2. CASE /\ ~Idle /\ b \in DOMAIN log /\ job.at <= b /\ ThreadOf(b) = ThreadOf(job.at)
      <4>1. ThreadOf(b)' = ThreadOf(b) /\ ThreadOf(b)' = ThreadOf(ran[i])
        BY <2>4, <3>2
      <4>2. ran[i] <= job.at /\ job.at \in Nat /\ b \in Nat
        BY <2>1, <3>2, <4>1, InHandFacts, LogFacts DEF Core, At
      <4>3. QED
        BY <2>2, <3>2, <4>2
    <3>3. CASE b \in DOMAIN log /\ IsBlocker(b)
      BY <2>1, <2>4, <3>3
    <3>4. CASE b = acked + 1
      BY <2>2, <3>4
    <3>5. QED
      BY <2>4, <3>2, <3>3, <3>4
  <2>5. QED
    BY <2>3, <2>4
<1>4. \A i \in DOMAIN ran : KindOf(ran[i])' = KindOf(ran[i]) /\ ThreadOf(ran[i])' = ThreadOf(ran[i])
  BY DEF RanInLog
<1>5. ASSUME NEW i \in DOMAIN ran', Skippable(KindOf(ran[i]))'
      PROVE  /\ \A b \in DOMAIN log' : ThreadOf(b)' = ThreadOf(ran[i])' /\ IsBlocker(b)' => ran'[i] <= b
             /\ ~Idle' /\ ThreadOf(job.at)' = ThreadOf(ran[i])' => ran'[i] <= job'.at
  <2>1. i \in DOMAIN ran /\ ran'[i] = ran[i] /\ Skippable(KindOf(ran[i])) /\ ThreadOf(ran[i])' = ThreadOf(ran[i])
    BY <1>4, <1>5 DEF Skippable, SideEffect, Exempt
  <2>2. \A b \in DOMAIN log' : ThreadOf(b)' = ThreadOf(ran[i]) /\ IsBlocker(b)' => ran[i] <= b
    BY <1>3, <2>1
  <2>3. \A a : a = job'.at /\ job'.who # "none" /\ ThreadOf(a)' = ThreadOf(ran[i]) => ran[i] <= a
    BY <1>3, <2>1
  <2>4. ~Idle' /\ ThreadOf(job.at)' = ThreadOf(ran[i]) => ran[i] <= job'.at
    BY <2>3 DEF Idle, ThreadOf
  <2>5. QED
    BY <2>1, <2>2, <2>4
<1>6. QED
  BY <1>1, <1>2, <1>5 DEF Onwards

\* What the provider carries out is the event in hand, and its thread has no blocker.
LEMMA CallOnwards == ASSUME Core, RanInLog, Onwards, CallFacts PROVE Onwards'
<1>1. /\ UNCHANGED <<log, acked, row, boot, phase, resumes>>
      /\ ~Idle /\ ~Idle' /\ job.step = "call" /\ job'.at = job.at
  BY DEF CallFacts, Moved, Idle
<1>2. PICK a : a = job.at
  OBVIOUS
<1>3. a \in DOMAIN log /\ a \in Seqs /\ a \in Nat /\ ran \in Seq(Seqs)
  BY <1>1, <1>2, InHandFacts DEF At, Core, TypeOK
<1>4. \A u : KindOf(u)' = KindOf(u) /\ ThreadOf(u)' = ThreadOf(u) /\ (IsBlocker(u)' <=> IsBlocker(u))
  BY <1>1 DEF KindOf, ThreadOf, IsBlocker
<1>5. ASSUME boot = 1, NEW x, Skippable(KindOf(x)), (\E i \in DOMAIN ran : x = ran[i]) \/ x = a
      PROVE  /\ \A b \in DOMAIN log : ThreadOf(b) = ThreadOf(x) /\ IsBlocker(b) => x <= b
             /\ ThreadOf(a) = ThreadOf(x) => x <= a
  <2>1. CASE \E i \in DOMAIN ran : x = ran[i]
    BY <1>1, <1>2, <1>5, <2>1 DEF Onwards
  <2>2. CASE x = a
    BY <1>1, <1>2, <1>3, <1>5, <2>2 DEF Core, LeftAlone
  <2>3. QED
    BY <1>5, <2>1, <2>2
<1>6. \A i \in DOMAIN ran' : (\E j \in DOMAIN ran : ran'[i] = ran[j]) \/ ran'[i] = a
  <2>1. CASE ran' = ran
    BY <2>1
  <2>2. CASE ran' = Append(ran, a)
    BY <1>3, <2>2
  <2>3. QED
    BY <1>2, <2>1, <2>2 DEF CallFacts, At
<1>7. SUFFICES ASSUME boot = 1 PROVE Onwards'
  BY <1>1 DEF Onwards
<1>8. resumes' = <<>> /\ phase' # "heal"
  BY <1>1, <1>7 DEF Onwards
<1>9. ASSUME NEW i \in DOMAIN ran', Skippable(KindOf(ran[i]))'
      PROVE  /\ \A b \in DOMAIN log' : ThreadOf(b)' = ThreadOf(ran[i])' /\ IsBlocker(b)' => ran'[i] <= b
             /\ ~Idle' /\ ThreadOf(job.at)' = ThreadOf(ran[i])' => ran'[i] <= job'.at
  <2>1. PICK x : x = ran'[i]
    OBVIOUS
  <2>2. KindOf(ran[i])' = KindOf(x) /\ ThreadOf(ran[i])' = ThreadOf(x) /\ ThreadOf(job.at)' = ThreadOf(a)
    BY <1>1, <1>2, <2>1 DEF KindOf, ThreadOf
  <2>3. Skippable(KindOf(x))
    BY <1>9, <2>2 DEF Skippable, SideEffect, Exempt
  <2>4. QED
    BY <1>1, <1>2, <1>4, <1>5, <1>6, <1>7, <2>1, <2>2, <2>3
<1>10. QED
  BY <1>7, <1>8, <1>9 DEF Onwards

LEMMA NextOnwards == ASSUME Core, RanInLog, Onwards, Stepped PROVE Onwards'
<1>0. \A n \in Nat : n <= n
  OBVIOUS
<1>1. UNCHANGED log => \A u : KindOf(u)' = KindOf(u) /\ ThreadOf(u)' = ThreadOf(u)
  BY DEF KindOf, ThreadOf
<1>2. UNCHANGED row => \A u : IsBlocker(u)' <=> IsBlocker(u)
  BY DEF IsBlocker
<1>3. ~Idle => job.at \in DOMAIN log /\ job.at \in Nat /\ job.at <= job.at /\ job.at \in Seqs
  BY <1>0, InHandFacts DEF At
<1>4. boot = 1 /\ phase = "heal" => Idle /\ \A s \in Seqs : ~IsBlocker(s)
  BY DEF Onwards, IsBlocker
<1>5. CASE GrowsFacts
  <2>1. \A u \in DOMAIN log : u \in DOMAIN log' /\ KindOf(u)' = KindOf(u) /\ ThreadOf(u)' = ThreadOf(u)
    BY <1>5 DEF GrowsFacts, KindOf, ThreadOf
  <2>2. \A b \in DOMAIN log' : IsBlocker(b)' => b \in DOMAIN log /\ IsBlocker(b)
    BY <1>5 DEF GrowsFacts, Core, Behind, IsBlocker
  <2>3. job'.who = "none" \/ (~Idle /\ job'.at \in DOMAIN log /\ job.at <= job'.at /\ ThreadOf(job'.at) = ThreadOf(job.at))
    BY <1>3, <1>5 DEF GrowsFacts, Idle
  <2>4. UNCHANGED <<ran, boot, resumes, phase, job, row>>
    BY <1>5 DEF GrowsFacts
  <2>5. QED
    BY <2>1, <2>2, <2>3, <2>4, OnwardsStay
<1>6. CASE AbortFacts
  BY <1>1, <1>2, <1>4, <1>6, NoJobFacts, OnwardsStay DEF AbortFacts
<1>7. CASE CrashFacts
  <2>1. boot' # 1
    BY <1>7 DEF CrashFacts, Core, TypeOK
  <2>2. QED
    BY <2>1 DEF Onwards
<1>8. CASE SkipFacts
  BY <1>1, <1>2, <1>3, <1>4, <1>8, OnwardsStay DEF SkipFacts, Moved
<1>9. CASE CallFacts
  BY <1>9, CallOnwards
<1>10. CASE AdvanceFacts
  <2>1. \/ job'.who = "none"
        \/ ~Idle /\ job'.at \in DOMAIN log /\ job.at <= job'.at /\ ThreadOf(job'.at) = ThreadOf(job.at)
    BY <1>3, <1>10, OnwardFacts DEF AdvanceFacts, Core, Moved
  <2>2. \A b \in DOMAIN log : IsBlocker(b)' => IsBlocker(b)
    BY <1>10, LogFacts DEF AdvanceFacts, RowMoves, IsBlocker, Core
  <2>3. UNCHANGED <<log, ran, boot, resumes, phase>> /\ ~Idle
    BY <1>10 DEF AdvanceFacts
  <2>4. QED
    BY <1>1, <1>4, <2>1, <2>2, <2>3, OnwardsStay
<1>11. CASE VerifyFacts
  BY <1>1, <1>2, <1>3, <1>4, <1>11, OnwardsStay DEF VerifyFacts, Moved
<1>12. CASE SeekFacts
  <2>1. job'.at \in DOMAIN log /\ job.at <= job'.at /\ ThreadOf(job'.at) = ThreadOf(job.at)
    <3>1. CASE Moved("done")
      BY <1>3, <1>12, <3>1 DEF SeekFacts, Moved
    <3>2. CASE ~Moved("done")
      <4>1. /\ job'.at \in Nat /\ job.at < job'.at /\ job'.at <= acked /\ job.at \in Nat
            /\ ThreadOf(job'.at) = ThreadOf(job.origin)
        BY <1>3, <1>12, <3>2 DEF SeekFacts
      <4>2. acked \in Nat /\ acked <= Len(log) /\ DOMAIN log = 1 .. Len(log) /\ Len(log) \in Nat
        BY LogFacts DEF Core, TypeOK
      <4>3. ThreadOf(job.at) = ThreadOf(job.origin)
        BY <1>12 DEF SeekFacts, Core, JobFits
      <4>4. QED
        BY <4>1, <4>2, <4>3
    <3>3. QED
      BY <3>1, <3>2
  <2>2. QED
    BY <1>1, <1>2, <1>4, <1>12, <2>1, OnwardsStay DEF SeekFacts
<1>13. CASE ReleaseFacts
  <2>1. CASE job'.who = "none" /\ UNCHANGED resumes
    <3>1. phase' = "heal" => phase = "heal"
      BY <1>13 DEF ReleaseFacts
    <3>2. QED
      BY <1>1, <1>2, <1>4, <1>13, <2>1, <3>1 DEF ReleaseFacts, Onwards, Idle, RanInLog, Skippable, SideEffect, Exempt
  <2>2. CASE resumes # <<>>
    BY <1>13, <2>2 DEF ReleaseFacts, Onwards
  <2>3. QED
    BY <1>13, <2>1, <2>2 DEF ReleaseFacts
<1>14. CASE \E st \in {"dead", "uncertain"} : TerminalFacts(st)
  <2>1. PICK st \in {"dead", "uncertain"} : TerminalFacts(st)
    BY <1>14
  <2>2. \A b \in DOMAIN log : IsBlocker(b)' => IsBlocker(b) \/ (~Idle /\ b = job.at)
    BY <2>1, LogFacts DEF TerminalFacts, RowMoves, IsBlocker, Core, At
  <2>3. UNCHANGED <<log, ran, boot, resumes, phase>> /\ ~Idle /\ job'.at = job.at
    BY <2>1 DEF TerminalFacts, Moved
  <2>4. QED
    BY <1>1, <1>3, <1>4, <2>2, <2>3, OnwardsStay
<1>15. CASE AgainFacts("retry", "claim") \/ AgainFacts("inflight", "call")
  <2>1. \A b \in DOMAIN log : IsBlocker(b)' => IsBlocker(b)
    BY <1>15, LogFacts DEF AgainFacts, RowMoves, IsBlocker, Core
  <2>2. UNCHANGED <<log, ran, boot, resumes, phase>> /\ ~Idle /\ job'.at = job.at
    BY <1>15 DEF AgainFacts, Moved
  <2>3. QED
    BY <1>1, <1>3, <1>4, <2>1, <2>2, OnwardsStay
<1>16. CASE TakeClaimed
  BY <1>1, <1>2, <1>16, TakeDoes, OnwardsStay DEF StartsJob
<1>17. CASE PassUnclaimed
  <2>1. job'.who = "none"
    BY <1>17, PassDoes DEF Idle
  <2>2. QED
    BY <1>1, <1>2, <1>17, <2>1, PassDoes, OnwardsStay
<1>18. CASE ListRetryable
  <2>1. /\ UNCHANGED <<log, row, boot, job, ran>> /\ phase = "heal" /\ phase' = "resume"
        /\ resumes' \in Seq(Seqs) /\ \A i \in DOMAIN resumes' : resumes'[i] \in Seqs /\ Retryable(resumes'[i])
    BY <1>18, ListDoes
  <2>2. boot = 1 => DOMAIN resumes' = {} /\ job'.who = "none"
    BY <2>1 DEF Onwards, Retryable, Idle
  <2>3. boot = 1 => resumes' = <<>>
    BY <2>1, <2>2
  <2>4. QED
    BY <1>1, <1>2, <2>1, <2>2, <2>3 DEF Onwards, RanInLog, Skippable, SideEffect, Exempt, Idle
<1>19. CASE \E s \in Seqs : HealFacts(s)
  BY <1>4, <1>19 DEF HealFacts, LiftFacts, Onwards
<1>20. CASE \E s \in Seqs : ReconcileFacts(s, "succeeded") \/ ReconcileFacts(s, "retry")
  <2>1. PICK s \in Seqs, st \in {"succeeded", "retry"} : ReconcileFacts(s, st)
    BY <1>20
  <2>2. \A b \in DOMAIN log : IsBlocker(b)' => IsBlocker(b)
    BY <2>1, LiftKeeps DEF ReconcileFacts
  <2>3. /\ UNCHANGED <<log, ran, boot, resumes, phase>> /\ s \in DOMAIN log /\ IsBlocker(s) /\ job'.at = s
    BY <2>1 DEF ReconcileFacts, LiftFacts
  <2>4. QED
    BY <1>1, <1>4, <2>2, <2>3, OnwardsStay
<1>21. QED
  BY <1>5, <1>6, <1>7, <1>8, <1>9, <1>10, <1>11, <1>12, <1>13, <1>14, <1>15, <1>16, <1>17, <1>18, <1>19, <1>20 DEF Stepped

\* Every step keeps the order.
LEMMA NextOrder == ASSUME Core, RanInLog, Onwards, InLogOrder, Stepped PROVE InLogOrder'
<1>1. CASE CallFacts /\ ran' # ran
  <2>1. PICK a : a = job.at
    OBVIOUS
  <2>2. /\ ran' = Append(ran, a) /\ UNCHANGED <<log, boot>> /\ ~Idle
    BY <1>1, <2>1 DEF CallFacts, At
  <2>3. a \in Seqs /\ a \in Nat /\ ran \in Seq(Seqs)
    BY <2>1, <2>2, InHandFacts DEF At, Core, TypeOK
  <2>4. \A u : KindOf(u)' = KindOf(u) /\ ThreadOf(u)' = ThreadOf(u)
    BY <2>2 DEF KindOf, ThreadOf
  <2>5. \A u : /\ Times(u)' = IF u = a THEN Times(u) + 1 ELSE Times(u)
               /\ Times(u) \in Nat
               /\ (\A i \in DOMAIN ran : ran[i] # u) <=> Times(u) = 0
    BY <2>2, <2>3, TimesFacts
  <2>6. /\ DOMAIN ran = 1 .. Len(ran) /\ Len(ran) \in Nat /\ DOMAIN ran' = 1 .. Len(ran) + 1
        /\ ran'[Len(ran) + 1] = a /\ \A i \in DOMAIN ran : ran'[i] = ran[i]
    BY <2>2, <2>3
  <2>7. ASSUME boot = 1, NEW i \in DOMAIN ran', NEW j \in DOMAIN ran', i < j, NEW x, NEW y, x = ran'[i], y = ran'[j],
               Times(x)' = 1, Times(y)' = 1, ThreadOf(x) = ThreadOf(y), Skippable(KindOf(x)), Skippable(KindOf(y))
        PROVE  x < y
    <3>1. i \in DOMAIN ran /\ x = ran[i]
      BY <2>6, <2>7
    <3>2. x # a
      BY <2>5, <2>7, <3>1
    <3>3. CASE j \in DOMAIN ran
      <4>1. y = ran[j] /\ y # a
        BY <2>5, <2>6, <2>7, <3>3
      <4>2. Times(x) = 1 /\ Times(y) = 1
        BY <2>5, <2>7, <3>2, <4>1
      <4>3. QED
        BY <2>7, <3>1, <3>3, <4>1, <4>2 DEF InLogOrder
    <3>4. CASE j = Len(ran) + 1
      <4>1. y = a
        BY <2>6, <2>7, <3>4
      <4>2. x <= a
        BY <2>1, <2>2, <2>7, <3>1, <4>1 DEF Onwards
      <4>3. x \in Nat
        <5>1. x \in Seqs
          BY <2>3, <3>1
        <5>2. QED
          BY <5>1, SeqsFacts
      <4>4. QED
        BY <2>3, <3>2, <4>1, <4>2, <4>3
    <3>5. QED
      BY <2>6, <3>3, <3>4
  <2>8. SUFFICES ASSUME boot = 1, NEW i \in DOMAIN ran', NEW j \in DOMAIN ran', i < j,
                        Times(ran[i])' = 1, Times(ran[j])' = 1, ThreadOf(ran[i])' = ThreadOf(ran[j])',
                        Skippable(KindOf(ran[i]))', Skippable(KindOf(ran[j]))'
                 PROVE  ran'[i] < ran'[j]
    BY <2>2 DEF InLogOrder
  <2>9. PICK x, y : x = ran'[i] /\ y = ran'[j]
    OBVIOUS
  <2>10. /\ Times(x)' = 1 /\ Times(y)' = 1 /\ ThreadOf(x) = ThreadOf(y)
         /\ Skippable(KindOf(x)) /\ Skippable(KindOf(y))
    BY <2>2, <2>8, <2>9 DEF Times, ThreadOf, KindOf, Skippable, SideEffect, Exempt
  <2>11. QED
    BY <2>7, <2>8, <2>9, <2>10
<1>2. CASE ran' = ran
  <2>1. \A i \in DOMAIN ran : ran[i] \in DOMAIN log
    BY DEF RanInLog
  <2>2. \A u \in DOMAIN log : KindOf(u)' = KindOf(u) /\ ThreadOf(u)' = ThreadOf(u)
    <3>1. CASE GrowsFacts
      BY <3>1 DEF GrowsFacts, KindOf, ThreadOf
    <3>2. CASE UNCHANGED log
      BY <3>2 DEF KindOf, ThreadOf
    <3>3. GrowsFacts \/ UNCHANGED log
      BY TakeDoes, PassDoes, ListDoes DEF Stepped, AbortFacts, CrashFacts, SkipFacts, CallFacts, AdvanceFacts, VerifyFacts,
         SeekFacts, ReleaseFacts, TerminalFacts, AgainFacts, HealFacts, ReconcileFacts, LiftFacts
    <3>4. QED
      BY <3>1, <3>2, <3>3
  <2>3. boot' = 1 => boot = 1
    BY TakeDoes, PassDoes, ListDoes DEF Stepped, GrowsFacts, AbortFacts, CrashFacts, SkipFacts, CallFacts, AdvanceFacts,
       VerifyFacts, SeekFacts, ReleaseFacts, TerminalFacts, AgainFacts, HealFacts, ReconcileFacts, LiftFacts, Core, TypeOK
  <2>4. \A u : Times(u)' = Times(u)
    BY <1>2 DEF Times
  <2>5. \A i \in DOMAIN ran : /\ Times(ran[i])' = Times(ran[i]) /\ ThreadOf(ran[i])' = ThreadOf(ran[i])
                              /\ KindOf(ran[i])' = KindOf(ran[i])
    BY <1>2, <2>1, <2>2, <2>4 DEF Times, ThreadOf, KindOf
  <2>6. QED
    BY <1>2, <2>3, <2>5 DEF InLogOrder, Skippable, SideEffect, Exempt
<1>3. ran' = ran \/ CallFacts
  BY TakeDoes, PassDoes, ListDoes DEF Stepped, GrowsFacts, AbortFacts, CrashFacts, SkipFacts, AdvanceFacts,
     VerifyFacts, SeekFacts, ReleaseFacts, TerminalFacts, AgainFacts, HealFacts, ReconcileFacts, LiftFacts
<1>4. QED
  BY <1>1, <1>2, <1>3

-----------------------------------------------------------------------------
(* Theorems *)

LEMMA InitIInv == ASSUME Init PROVE IInv
<1>1. Core
  BY InitCore
<1>2. /\ log = <<>> /\ DOMAIN log = {} /\ ran = <<>> /\ DOMAIN ran = {} /\ quarantined = {} /\ Idle
      /\ resumes = <<>> /\ \A s \in Seqs : row[s].state = "none"
  BY DEF Init, Idle, NoJob, NoRow
<1>3. Accounts
  BY <1>2 DEF Accounts
<1>4. Rights
  BY <1>2 DEF Rights, RanInLog
<1>5. Onwards /\ InLogOrder
  BY <1>2 DEF Onwards, InLogOrder
<1>6. QED
  BY <1>1, <1>3, <1>4, <1>5 DEF IInv

LEMMA StutterIInv == ASSUME IInv, UNCHANGED vars PROVE IInv'
<1>1. UNCHANGED <<log, acked, row, retried, boot, phase, cursor, quarantined, handled, resumes, job, died, ran,
                  approved, blockedOnce, aborts>>
  BY DEF vars, disk, memory, history
<1>2. Core'
  BY StutterCore DEF IInv
<1>3. Accounts'
  BY <1>1, RowsStay DEF IInv
<1>4. Rights'
  BY <1>1, QuietRights, LogFacts DEF IInv, Core
<1>5. \A u : Times(u)' = Times(u) /\ KindOf(u)' = KindOf(u) /\ ThreadOf(u)' = ThreadOf(u)
  BY <1>1 DEF Times, KindOf, ThreadOf
<1>6. Onwards'
  BY <1>1 DEF IInv, Onwards, Idle, Skippable, SideEffect, Exempt, KindOf, ThreadOf, IsBlocker
<1>7. InLogOrder'
  BY <1>1 DEF IInv, InLogOrder, Times, KindOf, ThreadOf, Skippable, SideEffect, Exempt
<1>8. QED
  BY <1>2, <1>3, <1>4, <1>6, <1>7 DEF IInv

LEMMA NextIInv == ASSUME IInv, [Next]_vars PROVE IInv'
<1>1. CASE Next
  BY <1>1, NextDoes, NextCore, NextAccounts, NextRights, NextOnwards, NextOrder DEF IInv, Rights
<1>2. CASE UNCHANGED vars
  BY <1>2, StutterIInv
<1>3. QED
  BY <1>1, <1>2

\* The invariant holds in every state that can be reached: the lock holder owns the row it works on and
\* sends only where nothing blocks, the cursor passes only what is accounted for, no delivery has more
\* rights to be sent than were granted, and the first process does not go back in the log.
THEOREM InductiveInvariant == Spec => []IInv
BY InitIInv, NextIInv, PTL DEF Spec

\* Rows, cursors, the job under the lock and the histories keep their types: in particular the durable
\* cursor and its copy in memory never run ahead of the log (orchestration_consumer_state).
THEOREM TypeCorrect == Spec => []TypeOK
<1>1. IInv => TypeOK
  BY DEF IInv, Core
<1>2. QED
  BY <1>1, InductiveInvariant, PTL

\* No compare-and-set of a job fails, whatever crashes, aborts and operators do between its steps: the
\* reactor's "could not be claimed", "lost settlement ownership" and "cursor could not advance" defects
\* are unreachable.
THEOREM NoDefectReached == Spec => []NoDefect
<1>1. IInv => NoDefect
  BY DEF IInv, Core, NoDefect
<1>2. QED
  BY <1>1, InductiveInvariant, PTL

\* A command that is not replay-safe is carried out at most once for the request and once more for each
\* safe_retry an operator decided, after any number of crashes, lost settlements and expired claims.
THEOREM NeverRepeated == Spec => []NeverRepeatedBlindly
<1>1. IInv => NeverRepeatedBlindly
  <2> SUFFICES ASSUME IInv, NEW s \in 1 .. Len(log), ~ReplaySafe(KindOf(s)) PROVE Times(s) <= 1 + approved[s]
    BY DEF NeverRepeatedBlindly
  <2>1. s \in DOMAIN log /\ s \in Seqs /\ ran \in Seq(Seqs) /\ approved \in [Seqs -> Nat]
    BY LogFacts DEF IInv, Core, TypeOK
  <2>2. Times(s) \in Nat /\ Right(s) \in {0, 1} /\ approved[s] \in Nat
    BY <2>1, TimesFacts, RightRange
  <2>3. Times(s) + Right(s) <= 1 + approved[s]
    BY <2>1 DEF IInv, Rights
  <2>4. QED
    BY <2>2, <2>3
<1>2. QED
  BY <1>1, InductiveInvariant, PTL

\* What the durable cursor has passed is settled, is retried by a decision, or is held back behind a
\* delivery that was blocked; and a cached quarantine always has a blocker an operator can reconcile.
THEOREM CursorAccounts == Spec => []CursorAccountsForEverything
<1>1. IInv => CursorAccountsForEverything
  <2> SUFFICES ASSUME IInv PROVE CursorAccountsForEverything
    OBVIOUS
  <2>1. DOMAIN log = 1 .. Len(log) /\ acked \in 0 .. Len(log) /\ Len(log) \in Nat
    BY LogFacts DEF IInv, Core, TypeOK
  <2>2. ASSUME NEW s \in 1 .. acked, Claimed(KindOf(s))
        PROVE  row[s].state \in {"succeeded", "dead", "uncertain"} \/ s \in retried \/ HeldBack(s)
    <3>1. s \in DOMAIN log /\ s <= acked
      BY <2>1
    <3>2. QED
      BY <2>2, <3>1 DEF IInv, Accounts, Accounted
  <2>3. \A t \in quarantined : Blockers(t) # {}
    BY <2>1 DEF IInv, Accounts, Blockers
  <2>4. QED
    BY <2>2, <2>3 DEF CursorAccountsForEverything
<1>2. QED
  BY <1>1, InductiveInvariant, PTL

\* While one process lives, the provider receives the turns and archivals of a thread in log order.
THEOREM InOrderOfTheLog == Spec => []InLogOrder
<1>1. IInv => InLogOrder
  BY DEF IInv
<1>2. QED
  BY <1>1, InductiveInvariant, PTL

\* While a delivery of a thread is dead or uncertain on disk, no other side effect of the thread,
\* interrupts excepted, is given to the provider.
THEOREM BlockedIsLeftAlone == Spec => BlockedThreadIsLeftAlone
<1>1. ASSUME IInv, [Next]_vars
      PROVE  [\A s \in 1 .. Len(log) :
                ran' = Append(ran, s) /\ Skippable(KindOf(s)) => Blockers(ThreadOf(s)) = {}]_vars
  <2> SUFFICES ASSUME Next, NEW s \in 1 .. Len(log), ran' = Append(ran, s), Skippable(KindOf(s))
               PROVE  Blockers(ThreadOf(s)) = {}
    BY <1>1
  <2>1. ran \in Seq(Seqs) /\ ran' # ran /\ Core
    <3>1. ran \in Seq(Seqs) /\ Core
      BY <1>1 DEF IInv, Core, TypeOK
    <3>2. Len(Append(ran, s)) = Len(ran) + 1 /\ Len(ran) \in Nat
      BY <3>1
    <3>3. QED
      BY <3>1, <3>2
  <2>2. CallFacts
    BY <2>1, NextDoes, TakeDoes, PassDoes, ListDoes DEF Stepped, GrowsFacts, AbortFacts, CrashFacts, SkipFacts, AdvanceFacts,
       VerifyFacts, SeekFacts, ReleaseFacts, TerminalFacts, AgainFacts, HealFacts, ReconcileFacts, LiftFacts
  <2>3. At = s
    <3>1. ran' = Append(ran, At)
      BY <2>1, <2>2 DEF CallFacts
    <3>2. Append(ran, At)[Len(ran) + 1] = At /\ Append(ran, s)[Len(ran) + 1] = s
      BY <2>1
    <3>3. QED
      BY <3>1, <3>2
  <2>4. ~Idle /\ job.step = "call" /\ s = job.at
    BY <2>2, <2>3 DEF CallFacts, At
  <2>5. \A b \in DOMAIN log : ThreadOf(b) = ThreadOf(s) => ~IsBlocker(b)
    BY <2>1, <2>4 DEF Core, LeftAlone
  <2>6. QED
    BY <2>1, <2>5, LogFacts DEF Blockers, Core
<1>2. QED
  BY <1>1, InductiveInvariant, PTL DEF Spec, BlockedThreadIsLeftAlone

=============================================================================
