-------------------------- MODULE ProviderDelivery --------------------------
(***************************************************************************)
(* The durable delivery of provider intents: ProviderCommandReactor.ts     *)
(* reads the event log in order, claims a delivery row for every intent    *)
(* that has an external effect, calls the provider, and settles the row    *)
(* before its durable cursor moves on.  A delivery that ends "dead" or     *)
(* "uncertain" quarantines its thread: later side effects of the thread    *)
(* are skipped until an operator reconciles the blocker.                   *)
(*                                                                         *)
(* Every write to a delivery row happens under a single-permit lock, so    *)
(* there is at most one job, and each database transaction of a job is a   *)
(* step: the process may die, an operator's request may be interrupted or  *)
(* a write may fail between any two.  Auto-healing at startup runs without *)
(* the lock.  Log sequences are consecutive here (no row of the log is     *)
(* purged), and the wait for a lease to expire is not timed.               *)
(***************************************************************************)
EXTENDS Naturals, Sequences, FiniteSets, SequencesExt

CONSTANTS Threads,        \* the threads of the model
          Logs,           \* the event logs explored, with their prefixes
          Answers,        \* what a provider call may come back with, a subset of AllAnswers
          RetryLimit,     \* PROVIDER_COMMAND_SAFE_RETRY_LIMIT (3 in the code)
          MaxAhead,       \* bound: how far the log may be ahead of the cursor
          MaxCrashes,     \* bound: process restarts
          MaxApprovals,   \* bound: safe_retry decisions of operators
          MaxAborts       \* bound: interrupted requests and failed writes

AllKinds == {"turnStart", "interrupt", "archived", "turnQueued", "deleted", "other"}

(* "uncertain" covers timeouts and ambiguous errors; "unwritten" is the      *)
(* uncertain error whose text proves that the frame never left the process.  *)
AllAnswers == {"accepted", "rejected", "retry", "uncertain", "unwritten"}

Events == [thread : Threads, kind : AllKinds]
ASSUME LogsAssumption == IsFiniteSet(Logs) /\ Logs \subseteq Seq(Events) /\ Logs # {}

ASSUME AnswersAssumption == Answers \subseteq AllAnswers
ASSUME BoundsAssumption ==
    /\ RetryLimit \in Nat \ {0}
    /\ {MaxAhead, MaxCrashes, MaxApprovals, MaxAborts} \subseteq Nat

VARIABLES
    log,         \* orchestration_events: [thread, kind] in sequence order
    acked,       \* orchestration_consumer_state.last_acked_sequence
    row,         \* orchestration_event_deliveries, by event sequence
    retried,     \* events with a safe_retry row in provider_delivery_reconciliations
    boot,        \* which process is running (its processOwner)
    phase,       \* how far startProviderIntentSource has come
    cursor,      \* the in-memory copy of acked
    quarantined, \* quarantinedThreads, a cache over the blocking rows
    handled,     \* handledTurnStartKeys: turn starts this process has begun
    resumes,     \* the retryable deliveries listed at startup, still to be resumed
    job,         \* what the holder of deliverySourceLock is doing
    died,        \* an Effect.die of the reactor was reached
    ran,         \* history: the deliveries the provider carried out, in order
    approved,    \* history: safe_retry decisions per event
    blockedOnce, \* history: events whose delivery was once dead or uncertain
    aborts       \* interruptions and failed writes so far

disk == <<log, acked, row, retried>>
memory == <<boot, phase, cursor, quarantined, handled, resumes, job>>
history == <<ran, approved, blockedOnce, aborts>>
vars == <<disk, memory, died, history>>

----------------------------------------------------------------------------
(* Classification of intents (providerIntentClassification.ts). *)

ReplaySafe(k) == k \in {"archived", "turnQueued"}
SideEffect(k) == k \in {"turnStart", "interrupt", "archived"}
Claimed(k)    == ReplaySafe(k) \/ SideEffect(k)
Exempt(k)     == k = "interrupt"
Skippable(k)  == SideEffect(k) /\ ~Exempt(k)

Seqs == UNION {DOMAIN l : l \in Logs}
ThreadOf(s) == log[s].thread
KindOf(s) == log[s].kind

NoRow == [state |-> "none", owner |-> 0, attempts |-> 0, unwritten |-> FALSE]
Rest(s, st) == [row[s] EXCEPT !.state = st, !.owner = 0, !.unwritten = FALSE]

IsBlocker(s) == row[s].state \in {"dead", "uncertain"}
Blockers(t) == {s \in 1..Len(log) : ThreadOf(s) = t /\ IsBlocker(s)}

(* isThreadQuarantined: the cache, or else the table. *)
QuarantinedBy(t, inTable) == t \in quarantined \/ inTable
QuarantinedInCache(t) == QuarantinedBy(t, FALSE)
IsThreadQuarantined(t) == QuarantinedBy(t, Blockers(t) # {})

Uncached(t) == quarantined \ {t}

----------------------------------------------------------------------------
(* The job under the lock.  who is "source", "resume" or "operator"; mode   *)
(* says why event `at` is processed: in log order, as the reconciled event  *)
(* itself, or in the replay of what the quarantine skipped.                 *)

NoJob == [who |-> "none", mode |-> "none", step |-> "idle", at |-> 0,
          origin |-> 0, through |-> 0, answer |-> "none"]
Idle == job.who = "none"

StartJob(who, mode, s) ==
    [NoJob EXCEPT !.who = who, !.mode = mode, !.step = "admit", !.at = s, !.origin = s]

(* What follows once event job.at is dealt with. *)
Following(m) == CASE m = "ordered" -> "done" [] m = "replay" -> "seek" [] m = "retry" -> "verify"
Onward == IF job.mode = "ordered" THEN NoJob ELSE [job EXCEPT !.step = Following(job.mode)]

Goto(step) == job' = [job EXCEPT !.step = step]

(* Effect.die: the operator's request fails; the source does not come back. *)
Die == /\ died' = TRUE
       /\ job' = NoJob
       /\ phase' = IF job.who = "operator" THEN phase ELSE "stopped"
       /\ UNCHANGED <<disk, boot, cursor, quarantined, handled, resumes, history>>

NextAcked(s) == IF s = acked + 1 THEN s ELSE acked

(* requireCursorAdvance: advance if s is next, else trust the refreshed cursor. *)
CanAdvance(s) == s <= NextAcked(s)
Advance(s) == acked' = NextAcked(s) /\ cursor' = NextAcked(s)

Init ==
    /\ log = <<>> /\ acked = 0 /\ row = [s \in Seqs |-> NoRow] /\ retried = {}
    /\ boot = 1 /\ phase = "heal" /\ cursor = 0
    /\ quarantined = {} /\ handled = {} /\ resumes = <<>> /\ job = NoJob
    /\ died = FALSE /\ ran = <<>> /\ approved = [s \in Seqs |-> 0]
    /\ blockedOnce = {} /\ aborts = 0

(* The engine commits one more event. *)
AppendEvent(event) ==
    /\ Len(log) < acked + MaxAhead
    /\ log' = Append(log, event)
    /\ \E l \in Logs : IsPrefix(log', l)
    /\ UNCHANGED <<acked, row, retried, memory, died, history>>

----------------------------------------------------------------------------
(* Startup *)

(* Auto-heal abandons a blocker whose recorded error proves the command was *)
(* never written.  What it had skipped is announced, not replayed.          *)
AutoHeal(s) ==
    /\ phase = "heal" /\ s \in 1..Len(log) /\ IsBlocker(s) /\ row[s].unwritten
    /\ row' = [row EXCEPT ![s] = Rest(s, "succeeded")]
    /\ quarantined' = Uncached(ThreadOf(s))
    /\ UNCHANGED <<log, acked, retried, boot, phase, cursor, handled, resumes, job,
                   died, history>>

(* Healing ends (any failure in it is only logged) and the authorised       *)
(* retries behind the cursor are listed, before the lock is taken.          *)
Retryable(s) == s <= acked /\ row[s].state \in {"retry", "inflight"} /\ s \in retried
Ascending(S) == {q \in [1..Cardinality(S) -> S] : \A i, j \in DOMAIN q : i < j => q[i] < q[j]}
ListRetryable ==
    /\ phase = "heal"
    /\ resumes' \in Ascending({s \in 1..Len(log) : Retryable(s)})
    /\ phase' = "resume"
    /\ UNCHANGED <<disk, boot, cursor, quarantined, handled, job, died, history>>

(* One lock hold resumes the whole list (see Done for the next element). *)
ResumeStart ==
    /\ phase = "resume" /\ Idle
    /\ IF resumes = <<>>
       THEN phase' = "running" /\ UNCHANGED <<quarantined, resumes, job>>
       ELSE /\ quarantined' = Uncached(ThreadOf(Head(resumes)))
            /\ job' = StartJob("resume", "retry", Head(resumes))
            /\ resumes' = Tail(resumes)
            /\ UNCHANGED phase
    /\ UNCHANGED <<disk, boot, cursor, handled, died, history>>

----------------------------------------------------------------------------
(* The ordered source: event cursor + 1, each under its own lock hold. *)

TakeClaimed ==
    /\ phase = "running" /\ Idle /\ cursor < Len(log) /\ Claimed(KindOf(cursor + 1))
    /\ job' = StartJob("source", "ordered", cursor + 1)
    /\ UNCHANGED <<disk, boot, phase, cursor, quarantined, handled, resumes, died, history>>

(* Events without a claim: a deletion clears the caches of its thread. *)
PassUnclaimed ==
    /\ phase = "running" /\ Idle /\ cursor < Len(log) /\ ~Claimed(KindOf(cursor + 1))
    /\ quarantined' = IF KindOf(cursor + 1) = "deleted"
                      THEN Uncached(ThreadOf(cursor + 1)) ELSE quarantined
    /\ IF CanAdvance(cursor + 1)
       THEN Advance(cursor + 1) /\ UNCHANGED <<phase, died>>
       ELSE died' = TRUE /\ phase' = "stopped" /\ UNCHANGED <<acked, cursor>>
    /\ UNCHANGED <<log, row, retried, boot, handled, resumes, job, history>>

----------------------------------------------------------------------------
(* processClaimedProviderIntent, one step per transaction. *)

At == job.at
Working(step) == ~Idle /\ job.step = step

(* Skip behind a quarantine, or look at the row that is already there. *)
MustSkipAny == IsThreadQuarantined(ThreadOf(At))
MustSkip == Skippable(KindOf(At)) /\ IsThreadQuarantined(ThreadOf(At))

SkipQuarantined ==
    /\ Working("admit") /\ MustSkip
    /\ quarantined' = quarantined \cup {ThreadOf(At)}
    /\ Goto("advance")
    /\ UNCHANGED <<disk, boot, phase, cursor, handled, resumes, died, history>>

Admitted == Working("admit") /\ ~MustSkip

SettledThen(step) ==
    /\ Admitted /\ row[At].state \in {"succeeded", "dead", "uncertain"}
    /\ quarantined' = IF IsBlocker(At) THEN quarantined \cup {ThreadOf(At)} ELSE quarantined
    /\ Goto(step)
    /\ UNCHANGED <<disk, boot, phase, cursor, handled, resumes, died, history>>
SettledStaysPut == SettledThen("done")
AlreadySettled == SettledThen("advance")

(* markTerminalFailure, if the claim is still held by owner, then quarantine. *)
SettleTerminal(st, owner, unwritten) ==
    IF row[At].state \in {"inflight", "retry"} /\ row[At].owner = owner
    THEN /\ row' = [row EXCEPT ![At] = [Rest(At, st) EXCEPT !.unwritten = unwritten]]
         /\ quarantined' = quarantined \cup {ThreadOf(At)}
         /\ blockedOnce' = blockedOnce \cup {At}
         /\ Goto("advance")
         /\ UNCHANGED <<log, acked, retried, boot, phase, cursor, handled, resumes, died,
                        ran, approved, aborts>>
    ELSE Die

(* A claim left in flight: its lease is waited out, and only a replay-safe  *)
(* intent is queued again; any other is settled as uncertain.               *)
ExpireWhen(again, owner) ==
    /\ Admitted /\ row[At].state = "inflight"
    /\ IF again
       THEN /\ row' = [row EXCEPT ![At] = Rest(At, "retry")]
            /\ Goto("claim")
            /\ UNCHANGED <<log, acked, retried, boot, phase, cursor, quarantined, handled,
                           resumes, died, history>>
       ELSE SettleTerminal("uncertain", owner, FALSE)
ExpireAlways == ExpireWhen(TRUE, row[At].owner)
ExpireAsNewOwner == ExpireWhen(ReplaySafe(KindOf(At)), boot)
ExpireClaim == ExpireWhen(ReplaySafe(KindOf(At)), row[At].owner)

(* claim: insert the row, or take over a row in state retry. *)
Claim ==
    /\ \/ Working("claim")
       \/ Admitted /\ row[At].state \in {"none", "retry"}
    /\ IF row[At].state \in {"none", "retry"}
       THEN /\ row' = [row EXCEPT ![At] = [state |-> "inflight", owner |-> boot,
                                           attempts |-> @.attempts + 1, unwritten |-> FALSE]]
            /\ Goto("call")
            /\ UNCHANGED <<log, acked, retried, boot, phase, cursor, quarantined, handled,
                           resumes, died, history>>
       ELSE Die

(* The bounded provider call.  An uncertain answer says nothing about       *)
(* whether the provider acted; a turn start this process has already begun  *)
(* returns at once, unless its key has expired or was evicted.              *)
MayHaveRun(answer) ==
    CASE answer = "accepted" -> {TRUE} [] answer = "uncertain" -> BOOLEAN [] OTHER -> {FALSE}

CallProvider(answer, acts) ==
    /\ Working("call") /\ acts \in MayHaveRun(answer)
    /\ ran' = IF acts THEN Append(ran, At) ELSE ran
    /\ handled' = IF KindOf(At) = "turnStart" THEN handled \cup {At} ELSE handled
    /\ job' = [job EXCEPT !.step = "settle", !.answer = answer]
    /\ UNCHANGED <<disk, boot, phase, cursor, quarantined, resumes, died,
                   approved, blockedOnce, aborts>>

CallAlreadyHandled ==
    /\ Working("call") /\ At \in handled
    /\ job' = [job EXCEPT !.step = "settle", !.answer = "accepted"]
    /\ UNCHANGED <<disk, boot, phase, cursor, quarantined, handled, resumes, died, history>>

(* complete: succeeded, and the cursor in the same transaction if At is next. *)
Complete ==
    /\ Working("settle") /\ job.answer \in {"accepted", "rejected"}
    /\ IF row[At].state = "inflight" /\ row[At].owner = boot
       THEN /\ row' = [row EXCEPT ![At] = Rest(At, "succeeded")]
            /\ Advance(At)
            /\ job' = Onward
            /\ UNCHANGED <<log, retried, boot, phase, quarantined, handled, resumes, died, history>>
       ELSE Die

RetryAfter(limit) ==
    /\ Working("settle") /\ job.answer = "retry" /\ row[At].attempts < limit
    /\ IF row[At].state = "inflight" /\ row[At].owner = boot
       THEN /\ row' = [row EXCEPT ![At] = Rest(At, "retry")]
            /\ Goto("claim")
            /\ UNCHANGED <<log, acked, retried, boot, phase, cursor, quarantined, handled,
                           resumes, died, history>>
       ELSE Die
RetrySafely == RetryAfter(RetryLimit)

ExhaustRetries ==
    /\ Working("settle") /\ job.answer = "retry" /\ row[At].attempts >= RetryLimit
    /\ SettleTerminal("dead", boot, FALSE)

SettleUncertain ==
    /\ Working("settle") /\ job.answer \in {"uncertain", "unwritten"}
    /\ SettleTerminal("uncertain", boot, job.answer = "unwritten")

MoveCursor ==
    /\ Working("advance")
    /\ IF CanAdvance(At)
       THEN /\ Advance(At) /\ job' = Onward
            /\ UNCHANGED <<log, row, retried, boot, phase, quarantined, handled, resumes, died, history>>
       ELSE Die

----------------------------------------------------------------------------
(* Reconciliation and the replay of what the quarantine skipped. *)

(* resumeRetryableDelivery, after the retry: replay only if it succeeded. *)
Verify ==
    /\ Working("verify")
    /\ IF row[At].state = "succeeded"
       THEN /\ quarantined' = Uncached(ThreadOf(At))
            /\ job' = [job EXCEPT !.mode = "replay", !.step = "seek", !.through = cursor]
       ELSE Goto("done") /\ UNCHANGED quarantined
    /\ UNCHANGED <<disk, boot, phase, cursor, handled, resumes, died, history>>

(* The next side effect of the thread in (at, through]. *)
Later == {s \in (At + 1)..job.through : ThreadOf(s) = ThreadOf(job.origin) /\ SideEffect(KindOf(s))}
Seek ==
    /\ Working("seek")
    /\ job' = IF Later = {} THEN [job EXCEPT !.step = "done"]
              ELSE [job EXCEPT !.step = "admit", !.at = CHOOSE s \in Later : \A u \in Later : s <= u]
    /\ UNCHANGED <<disk, boot, phase, cursor, quarantined, handled, resumes, died, history>>

(* The lock is released, or the next listed delivery resumed under it.  The *)
(* operator's handler first insists that its delivery reached a state.      *)
Done ==
    /\ Working("done")
    /\ IF job.who = "operator" /\ row[job.origin].state \in {"none", "inflight"}
       THEN Die
       ELSE /\ IF job.who = "resume" /\ resumes # <<>>
               THEN /\ quarantined' = Uncached(ThreadOf(Head(resumes)))
                    /\ job' = StartJob("resume", "retry", Head(resumes))
                    /\ resumes' = Tail(resumes)
                    /\ UNCHANGED phase
               ELSE /\ job' = NoJob
                    /\ phase' = IF job.who = "resume" THEN "running" ELSE phase
                    /\ UNCHANGED <<quarantined, resumes>>
            /\ UNCHANGED <<disk, boot, cursor, handled, died, history>>

(* reconcileDelivery: the decision is committed against the expected state, *)
(* then the blocked event is retried, or what it held back is replayed.      *)
Reconcile(s, outcome) ==
    /\ Idle /\ s \in 1..Len(log) /\ IsBlocker(s)
    /\ row' = [row EXCEPT ![s] = Rest(s, IF outcome = "safe_retry" THEN "retry" ELSE "succeeded")]
    /\ quarantined' = Uncached(ThreadOf(s))
    /\ job' = IF outcome = "safe_retry" THEN StartJob("operator", "retry", s)
              ELSE [StartJob("operator", "replay", s) EXCEPT !.step = "seek", !.through = cursor]

ReconcileAbandon(s) ==
    /\ Reconcile(s, "abandon")
    /\ UNCHANGED <<log, acked, retried, boot, phase, cursor, handled, resumes, died, history>>

ReconcileSafeRetry(s) ==
    /\ SumFunction(approved) < MaxApprovals
    /\ Reconcile(s, "safe_retry")
    /\ retried' = retried \cup {s}
    /\ approved' = [approved EXCEPT ![s] = @ + 1]
    /\ UNCHANGED <<log, acked, boot, phase, cursor, handled, resumes, died,
                   ran, blockedOnce, aborts>>

----------------------------------------------------------------------------
(* Failures *)

(* The operator's request is interrupted, or a read or write of the job     *)
(* fails: the lock is released where the job stood.  The source does not    *)
(* survive a failure of its own job.                                        *)
Abort ==
    /\ ~Idle /\ aborts < MaxAborts
    /\ aborts' = aborts + 1
    /\ job' = NoJob
    /\ phase' = IF job.who = "operator" THEN phase ELSE "stopped"
    /\ UNCHANGED <<disk, boot, cursor, quarantined, handled, resumes, died,
                   ran, approved, blockedOnce>>

(* The process dies and a new one starts from what is on disk. *)
Crash ==
    /\ boot <= MaxCrashes
    /\ boot' = boot + 1 /\ phase' = "heal" /\ cursor' = acked
    /\ quarantined' = {} /\ handled' = {} /\ resumes' = <<>> /\ job' = NoJob
    /\ UNCHANGED <<disk, died, history>>

(* One step of whoever holds the lock. *)
JobStep ==
    \/ SkipQuarantined \/ AlreadySettled \/ ExpireClaim \/ Claim
    \/ \E answer \in Answers, acts \in BOOLEAN : CallProvider(answer, acts)
    \/ CallAlreadyHandled
    \/ Complete \/ RetrySafely \/ ExhaustRetries \/ SettleUncertain \/ MoveCursor
    \/ Verify \/ Seek \/ Done

Source == ListRetryable \/ ResumeStart \/ TakeClaimed \/ PassUnclaimed

Next ==
    \/ \E event \in Events : AppendEvent(event)
    \/ Source \/ JobStep
    \/ \E s \in Seqs : AutoHeal(s) \/ ReconcileAbandon(s) \/ ReconcileSafeRetry(s)
    \/ Abort \/ Crash

Spec == Init /\ [][Next]_vars

(* The process keeps running its own fibers: the source and the lock holder *)
(* make progress, and a provider call returns because it is bounded by a    *)
(* timeout.  Nothing obliges an operator to decide, or a crash to happen.   *)
FairSpec == Spec /\ WF_vars(Source) /\ WF_vars(JobStep)

----------------------------------------------------------------------------
(* Properties *)

RowType == [state : {"none", "inflight", "retry", "succeeded", "dead", "uncertain"},
            owner : 0..(MaxCrashes + 1), attempts : Nat, unwritten : BOOLEAN]

Jobs == [who : {"none", "source", "resume", "operator"},
         mode : {"none", "ordered", "retry", "replay"},
         step : {"idle", "admit", "claim", "call", "settle", "advance", "verify", "seek", "done"},
         at : {0} \cup Seqs, origin : {0} \cup Seqs, through : Nat,
         answer : {"none", "accepted"} \cup Answers]

TypeOK ==
    /\ log \in Seq(Events) /\ DOMAIN log \subseteq Seqs
    /\ acked \in 0..Len(log) /\ cursor \in 0..Len(log)
    /\ row \in [Seqs -> RowType] /\ retried \subseteq Seqs
    /\ boot \in 1..(MaxCrashes + 1)
    /\ phase \in {"heal", "resume", "running", "stopped"}
    /\ quarantined \subseteq Threads /\ handled \subseteq Seqs /\ resumes \in Seq(Seqs)
    /\ job \in Jobs
    /\ died \in BOOLEAN /\ ran \in Seq(Seqs) /\ approved \in [Seqs -> Nat]
    /\ blockedOnce \subseteq Seqs /\ aborts \in 0..MaxAborts

Times(s) == Cardinality({i \in DOMAIN ran : ran[i] = s})

(* A provider command that is not replay-safe is carried out at most once   *)
(* for the original request and once for each safe_retry an operator        *)
(* decided, whatever crashes, lost settlements, expired claims, replays and *)
(* repeated deliveries come between (ProviderCommandReactor.ts:4574-4589).  *)
NeverRepeatedBlindly ==
    \A s \in 1..Len(log) : ReplaySafe(KindOf(s)) \/ Times(s) <= 1 + approved[s]

(* While a delivery of a thread is dead or uncertain on disk, the provider  *)
(* is given no other side effect of that thread, interrupts excepted: not   *)
(* by the source, not by a replay, not after a restart with an empty cache, *)
(* and not after another blocker of the thread was reconciled.              *)
BlockedThreadIsLeftAlone ==
    [][\A s \in 1..Len(log) :
          ran' = Append(ran, s) /\ Skippable(KindOf(s)) => Blockers(ThreadOf(s)) = {}]_vars

(* What the durable cursor has passed is settled, or is left to a decision: *)
(* an authorised retry, or a side effect held back behind a delivery of its *)
(* thread that was blocked; and that decision is possible, because a cached *)
(* quarantine has a blocker on disk that an operator can see and reconcile. *)
(* A crash never moves the cursor past an intent that nothing accounts for. *)
HeldBack(s) == Skippable(KindOf(s))
               /\ \E b \in blockedOnce : b < s /\ ThreadOf(b) = ThreadOf(s)
CursorAccountsForEverything ==
    /\ \A s \in 1..acked : Claimed(KindOf(s)) =>
        \/ row[s].state \in {"succeeded", "dead", "uncertain"}
        \/ s \in retried \/ HeldBack(s)
    /\ Idle => \A t \in quarantined : Blockers(t) # {}

(* None of the reactor's "could not be claimed", "lost settlement           *)
(* ownership" or "cursor could not advance" defects can be reached: every   *)
(* compare-and-set a job relies on succeeds, after any crash or abort.      *)
NoDefect == ~died

(* While one process lives, the provider receives the turns and archivals   *)
(* of a thread in log order, though skipped ones are sent late, retried     *)
(* ones again, and quarantines come and go in any order.                    *)
InLogOrder ==
    boot = 1 => \A i, j \in DOMAIN ran :
        /\ i < j /\ Times(ran[i]) = 1 /\ Times(ran[j]) = 1
        /\ ThreadOf(ran[i]) = ThreadOf(ran[j])
        /\ Skippable(KindOf(ran[i])) /\ Skippable(KindOf(ran[j]))
        => ran[i] < ran[j]

(* As long as no write of the delivery store fails, the cursor reaches the  *)
(* end of the log and stays there: a thread that is blocked for ever, or a  *)
(* provider that answers nothing, does not hold up the other threads.       *)
DrainsTheLog == [](aborts = 0) => <>[](acked = Len(log) /\ Idle /\ phase = "running")
=============================================================================
