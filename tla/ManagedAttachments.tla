---------------------------- MODULE ManagedAttachments ----------------------------
(***************************************************************************)
(* The files a user attaches to messages (managedAttachmentStore.ts,       *)
(* persistence/Layers/ManagedAttachments.ts, managedAttachmentCleanup.ts,   *)
(* the upload and cancel routes of http.ts, and the places of the command   *)
(* engine and of the projections that claim and release them).              *)
(*                                                                         *)
(* An upload reserves a row, writes the bytes to a staging path, renames    *)
(* them to their final path, makes the directories durable and stages the   *)
(* row.  The turn that uses the attachment claims it in the transaction     *)
(* that commits the turn.  A row whose upload or staging expired, that was   *)
(* cancelled, or that no message of its thread uses any more is marked       *)
(* deleting together with a cleanup job; a sweep leases the jobs, unlinks    *)
(* both paths and settles the rows.  Uploads, the engine and the sweep share *)
(* nothing but the rows and the disk.                                        *)
(*                                                                         *)
(* One thread, whose messages are numbered as clients make them up.          *)
(***************************************************************************)
EXTENDS Naturals, Sequences, FiniteSets, SequencesExt

CONSTANTS
    Attachments,    \* the attachments clients may upload
    Local,          \* the principal of the loopback client and of the server itself
    Owner,          \* the principal that uploads each attachment
    Drafts,         \* bound: the sets of attachments a client sends with a message
    HomeCount,      \* the rows the home may keep
    StagingCount,   \* the rows a principal may have uploading or staged
    MaxAttempts,    \* MANAGED_ATTACHMENT_CLEANUP_MAX_ATTEMPTS
    MaxMessages,    \* bound: messages of the thread
    MaxLog,         \* bound: events about the messages of the thread
    MaxUnusual      \* bound: failed writes, unlinks and sweeps, crashes, and repairs

ASSUME OwnerAssumption == Local \in {Owner[a] : a \in Attachments}

ASSUME DraftAssumption == Drafts \subseteq SUBSET Attachments

NoJob == [tries |-> 0, hold |-> "no job"]

\* claim_message_id of a row that was never claimed.
NoMessage == 0

NoEdit == [message |-> NoMessage, attachments |-> {}]

Messages == 1..MaxMessages

VARIABLES
    blob,       \* managed_attachment_blobs: state, message that claimed it, and whether its lease or staging time ran out
    job,        \* managed_attachment_cleanup_jobs: attempts, and whether it is free, leased or waiting
    file,       \* where the bytes are: nowhere, staging path, final path, final path and durable
    upload,     \* where the request that uploads the attachment stands
    phase,      \* the next transaction of the sweep
    work,       \* what the sweep does next for a job it leased
    rows,       \* projection_thread_messages: sequence and attachments of each message
    log,        \* orchestration_events about the messages of the thread
    editing,    \* the message that the reactor rolled back and is about to send again
    deleted,    \* the thread was deleted
    repaired,   \* history: the attachments that a repair marked for deletion
    unusual     \* the failures, crashes and repairs so far

server == <<rows, log, editing, deleted, repaired>>
sweep == <<phase, work>>
filesVars == <<blob, job, file, upload, sweep, server, unusual>>

Blobs == [state : {"none", "uploading", "staged", "claimed", "deleting", "deleted"},
          message : Messages \union {NoMessage}, late : BOOLEAN]

Jobs == [tries : 0..MaxAttempts, hold : {"free", "leased", "waiting"}]

\* Type correctness; a job exists exactly while its row is deleting, and the sweep
\* works on jobs it leased.
FilesTypeOK ==
    /\ blob \in [Attachments -> Blobs]
    /\ job \in [Attachments -> Jobs \union {NoJob}]
    /\ file \in [Attachments -> {"none", "part", "renamed", "durable"}]
    /\ upload \in [Attachments -> {"idle", "body", "written", "renamed", "synced"}]
    /\ phase \in {"mark", "lease", "unlink"}
    /\ work \in [Attachments -> {"none", "part", "final", "settle"}]
    /\ DOMAIN rows \subseteq Messages
    /\ \A m \in DOMAIN rows : rows[m].attachments \subseteq Attachments /\ rows[m].sequence <= Len(log)
    /\ \A a \in Attachments :
        /\ (job[a] # NoJob) = (blob[a].state = "deleting")
        /\ work[a] # "none" => phase = "unlink" /\ job[a] # NoJob /\ job[a].hold = "leased"

FilesInit ==
    /\ blob = [a \in Attachments |-> [state |-> "none", message |-> NoMessage, late |-> FALSE]]
    /\ job = [a \in Attachments |-> NoJob]
    /\ file = [a \in Attachments |-> "none"]
    /\ upload = [a \in Attachments |-> "idle"]
    /\ phase = "mark"
    /\ work = [a \in Attachments |-> "none"]
    /\ rows = <<>>
    /\ log = <<>>
    /\ editing = NoEdit
    /\ deleted = FALSE
    /\ repaired = {}
    /\ unusual = 0

Unusual == unusual < MaxUnusual /\ unusual' = unusual + 1

InState(states) == {a \in Attachments : blob[a].state \in states}

-----------------------------------------------------------------------------
(* Rows of the repository *)

\* The rows S become deleting and those without a cleanup job get one.
MarkDeleting(S) ==
    /\ blob' = [a \in Attachments |-> IF a \in S THEN [blob[a] EXCEPT !.state = "deleting"] ELSE blob[a]]
    /\ job' = [a \in Attachments |->
                IF a \in S /\ job[a] = NoJob THEN [tries |-> 0, hold |-> "free"] ELSE job[a]]

\* (mutant) Every row that is not deleted yet can be cancelled.
CancellableUnlessDeleted == InState({"uploading", "staged", "claimed"})

\* cancelStaged updates a row that no turn has claimed.
Cancellable == InState({"uploading", "staged"})

CancelStaged(a) == MarkDeleting({a} \intersect Cancellable)

\* The rows of the thread that are not deleted yet.
OfThread == InState({"uploading", "staged", "claimed", "deleting"})

\* The claimed rows of the thread that the kept messages do not use.
Unreferenced(kept) == InState({"claimed"}) \ kept

\* (mutant) The row is found by its id and its owner alone.
FinalizableAnyState(a) == blob[a].state # "none"

\* finalizeStaged matches a row that is still uploading.
Finalizable(a) == blob[a].state = "uploading"

\* markExpiredForCleanup: uploads past the writing lease and stagings past their time.
Expired == {a \in InState({"uploading", "staged"}) : blob[a].late}

-----------------------------------------------------------------------------
(* The upload request *)

Reserve(a) ==
    /\ blob[a].state = "none"
    /\ Cardinality(OfThread) < HomeCount
    /\ Cardinality({b \in InState({"uploading", "staged"}) : Owner[b] = Owner[a]}) < StagingCount
    /\ blob' = [blob EXCEPT ![a].state = "uploading"]
    /\ upload' = [upload EXCEPT ![a] = "body"]
    /\ UNCHANGED <<job, file, sweep, server, unusual>>

\* The body cannot be read, or is empty or larger than its reservation.
RefuseBody(a) ==
    /\ upload[a] = "body"
    /\ upload' = [upload EXCEPT ![a] = "idle"]
    /\ CancelStaged(a)
    /\ UNCHANGED <<file, sweep, server, unusual>>

\* The client goes away while the body is read, which interrupts the request.
Disconnect(a) ==
    /\ upload[a] = "body"
    /\ upload' = [upload EXCEPT ![a] = "idle"]
    /\ UNCHANGED <<blob, job, file, sweep, server, unusual>>

WritePart(a) ==
    /\ upload[a] = "body"
    /\ upload' = [upload EXCEPT ![a] = "written"]
    /\ file' = [file EXCEPT ![a] = "part"]
    /\ UNCHANGED <<blob, job, sweep, server, unusual>>

Rename(a) ==
    /\ upload[a] = "written"
    /\ file[a] = "part"
    /\ upload' = [upload EXCEPT ![a] = "renamed"]
    /\ file' = [file EXCEPT ![a] = "renamed"]
    /\ UNCHANGED <<blob, job, sweep, server, unusual>>

SyncDirectories(a) ==
    /\ upload[a] = "renamed"
    /\ upload' = [upload EXCEPT ![a] = "synced"]
    /\ file' = [file EXCEPT ![a] = IF @ = "renamed" THEN "durable" ELSE @]
    /\ UNCHANGED <<blob, job, sweep, server, unusual>>

\* A step of the write fails: the rename finds no staging file, or the disk refuses.
\* The row is cancelled and the staging file, not the final one, is removed.
FailWrite(a) ==
    /\ upload[a] \in {"body", "written", "renamed"}
    /\ \/ upload[a] = "written" /\ file[a] # "part" /\ UNCHANGED unusual
       \/ Unusual
    /\ upload' = [upload EXCEPT ![a] = "idle"]
    /\ CancelStaged(a)
    /\ file' = [file EXCEPT ![a] = IF @ = "part" THEN "none" ELSE @]
    /\ UNCHANGED <<sweep, server>>

Finalize(a) ==
    /\ upload[a] = "synced"
    /\ upload' = [upload EXCEPT ![a] = "idle"]
    /\ IF Finalizable(a)
       THEN /\ blob' = [blob EXCEPT ![a].state = "staged", ![a].late = FALSE]
            /\ UNCHANGED job
       ELSE CancelStaged(a)
    /\ UNCHANGED <<file, sweep, server, unusual>>

\* The client removes an attachment from its draft, perhaps while or after a turn of
\* its own claims it.
Cancel(a) ==
    /\ blob[a].state \in {"staged", "claimed"}
    /\ CancelStaged(a)
    /\ UNCHANGED <<file, upload, sweep, server, unusual>>

\* The writing lease, or the staging time, of a row runs out.
TimePasses(a) ==
    /\ blob[a].state \in {"uploading", "staged"}
    /\ ~blob[a].late
    /\ blob' = [blob EXCEPT ![a].late = TRUE]
    /\ UNCHANGED <<job, file, upload, sweep, server, unusual>>

-----------------------------------------------------------------------------
(* Turns, rollbacks and repairs *)

CommitEvent(event) ==
    /\ Len(log) < MaxLog
    /\ log' = Append(log, event)

Sent(m, as) == [type |-> "sent", sequence |-> Len(log) + 1, message |-> m, attachments |-> as]
RolledBack(m, skip) == [type |-> "rolled back", message |-> m, skip |-> skip]

\* The upsert of a message row, which keeps the sequence of a row that is there.
Upsert(messages, event) ==
    LET m == event.message
        sequence == IF m \in DOMAIN messages THEN messages[m].sequence ELSE event.sequence
    IN  [k \in DOMAIN messages \union {m} |->
            IF k = m THEN [sequence |-> sequence, attachments |-> event.attachments] ELSE messages[k]]

\* claimForAcceptedTurn updates all the attachments or none.
Claimable(principal, m, as) ==
    \A a \in as :
        /\ Owner[a] = principal
        /\ \/ blob[a].state = "staged" /\ ~blob[a].late
           \/ blob[a].state = "claimed" /\ blob[a].message = m

\* The transaction of an accepted turn: the claim, the event and the message row.
AcceptTurn(principal, m, as) ==
    /\ Claimable(principal, m, as)
    /\ blob' = [a \in Attachments |->
                 IF a \in as THEN [state |-> "claimed", message |-> m, late |-> FALSE] ELSE blob[a]]
    /\ CommitEvent(Sent(m, as))
    /\ rows' = Upsert(rows, Sent(m, as))

NextMessage == 1 + Max({0} \union {log[i].message : i \in DOMAIN log})

\* A client sends a new message with files it uploaded.
StartTurn(principal, as) ==
    /\ ~deleted
    /\ NextMessage \in Messages
    /\ AcceptTurn(principal, NextMessage, as)
    /\ UNCHANGED <<job, file, upload, sweep, editing, deleted, repaired, unusual>>

\* The messages before m, in the order of their rows.
Before(messages, m) ==
    Restrict(messages, {k \in DOMAIN messages : messages[k].sequence < messages[m].sequence})

AttachmentsOf(messages) == UNION {messages[m].attachments : m \in DOMAIN messages}

\* A rollback that the user asked for, completed by the reactor: the messages go and
\* the attachments that only they used are marked in the same transaction.
Rollback(m) ==
    /\ ~deleted
    /\ editing = NoEdit
    /\ m \in DOMAIN rows
    /\ CommitEvent(RolledBack(m, FALSE))
    /\ rows' = Before(rows, m)
    /\ MarkDeleting(Unreferenced(AttachmentsOf(rows')))
    /\ UNCHANGED <<file, upload, sweep, editing, deleted, repaired, unusual>>

\* The edit of the last message: unless its turn is still live (numTurns = 0, which the
\* projection ignores) the message is rolled back, and its files are left alone.
EditRollback(live) ==
    /\ ~deleted
    /\ editing = NoEdit
    /\ \E m \in Messages :
        /\ m \in DOMAIN rows
        /\ \A k \in DOMAIN rows : rows[k].sequence <= rows[m].sequence
        /\ editing' = [message |-> m, attachments |-> rows[m].attachments]
        /\ IF live
           THEN UNCHANGED <<rows, log>>
           ELSE /\ CommitEvent(RolledBack(m, TRUE))
                /\ rows' = Before(rows, m)
    /\ UNCHANGED <<blob, job, file, upload, sweep, deleted, repaired, unusual>>

\* The reactor sends the edited message again, as the local principal.
EditResend ==
    /\ editing # NoEdit
    /\ ~deleted
    /\ AcceptTurn(Local, editing.message, editing.attachments)
    /\ editing' = NoEdit
    /\ UNCHANGED <<job, file, upload, sweep, deleted, repaired, unusual>>

\* The engine refuses the resend: the thread is gone, or an attachment belongs to
\* another principal or is not claimed by the message any more.
EditRefused ==
    /\ editing # NoEdit
    /\ deleted \/ ~Claimable(Local, editing.message, editing.attachments)
    /\ editing' = NoEdit
    /\ UNCHANGED <<blob, job, file, upload, sweep, rows, log, deleted, repaired, unusual>>

DeleteThread ==
    /\ ~deleted
    /\ deleted' = TRUE
    /\ MarkDeleting(OfThread)
    /\ UNCHANGED <<file, upload, sweep, rows, log, editing, repaired, unusual>>

\* The replay of one event over the message rows, and the attachments kept by the
\* last event that prunes.
Replay(state, event) ==
    IF event.type = "sent"
    THEN [state EXCEPT !.rows = Upsert(@, event)]
    ELSE IF event.message \notin DOMAIN state.rows
    THEN state
    ELSE LET kept == Before(state.rows, event.message) IN
         [rows |-> kept,
          prunes |-> state.prunes \/ ~event.skip,
          kept |-> IF event.skip THEN state.kept ELSE AttachmentsOf(kept)]

Replayed == FoldLeft(Replay, [rows |-> rows, prunes |-> FALSE, kept |-> {}], log)

\* A repair forgets the cursors of the projectors and replays the log over the rows
\* that are there; what its batch prunes or deletes is marked with the batch.
RepairRows ==
    /\ Unusual
    /\ rows' = Replayed.rows
    /\ LET marked == IF deleted THEN OfThread
                     ELSE IF Replayed.prunes THEN Unreferenced(Replayed.kept) ELSE {}
       IN  /\ MarkDeleting(marked)
           /\ repaired' = repaired \union marked
    /\ UNCHANGED <<file, upload, sweep, log, editing, deleted>>

-----------------------------------------------------------------------------
(* The sweep *)

\* The first transaction of a batch marks what expired.
SweepMark ==
    /\ phase = "mark"
    /\ phase' = "lease"
    /\ MarkDeleting(Expired)
    /\ UNCHANGED <<file, upload, work, server, unusual>>

Leasable(a) == job[a] # NoJob /\ job[a].hold = "free" /\ job[a].tries < MaxAttempts

\* The second one leases the jobs that are due.
SweepLease ==
    /\ phase = "lease"
    /\ phase' = "unlink"
    /\ job' = [a \in Attachments |-> IF Leasable(a) THEN [job[a] EXCEPT !.hold = "leased"] ELSE job[a]]
    /\ work' = [a \in Attachments |-> IF Leasable(a) THEN "part" ELSE "none"]
    /\ UNCHANGED <<blob, file, upload, server, unusual>>

UnlinkPart(a) ==
    /\ work[a] = "part"
    /\ work' = [work EXCEPT ![a] = "final"]
    /\ file' = [file EXCEPT ![a] = IF @ = "part" THEN "none" ELSE @]
    /\ UNCHANGED <<blob, job, upload, phase, server, unusual>>

UnlinkFinal(a) ==
    /\ work[a] = "final"
    /\ work' = [work EXCEPT ![a] = "settle"]
    /\ file' = [file EXCEPT ![a] = IF @ = "part" THEN @ ELSE "none"]
    /\ UNCHANGED <<blob, job, upload, phase, server, unusual>>

\* completeCleanup, under the lease of this batch.
SettleJob(a) ==
    /\ work[a] = "settle"
    /\ work' = [work EXCEPT ![a] = "none"]
    /\ blob' = [blob EXCEPT ![a].state = "deleted"]
    /\ job' = [job EXCEPT ![a] = NoJob]
    /\ UNCHANGED <<file, upload, phase, server, unusual>>

\* An unlink fails: retryCleanup counts the attempt and puts the job off.
FailUnlink(a) ==
    /\ work[a] \in {"part", "final"}
    /\ Unusual
    /\ work' = [work EXCEPT ![a] = "none"]
    /\ job' = [job EXCEPT ![a] = [tries |-> @.tries + 1, hold |-> "waiting"]]
    /\ UNCHANGED <<blob, file, upload, phase, server>>

SweepEnd ==
    /\ phase = "unlink"
    /\ \A a \in Attachments : work[a] = "none"
    /\ phase' = "mark"
    /\ UNCHANGED <<blob, job, file, upload, work, server, unusual>>

\* A transaction of the sweep fails and ends the batch; what it leased stays leased.
SweepBreaks ==
    /\ phase # "mark"
    /\ Unusual
    /\ phase' = "mark"
    /\ work' = [a \in Attachments |-> "none"]
    /\ UNCHANGED <<blob, job, file, upload, server>>

\* (mutant) Only the time of a failed attempt runs out, never the lease of a dead batch.
OnlyRetriesComeDue(a) == job[a] # NoJob /\ job[a].hold = "waiting"

\* The delay of a failed attempt, or the lease of a batch that is over, runs out.
ComesDue(a) ==
    /\ job[a] # NoJob
    /\ job[a].hold = "waiting" \/ (job[a].hold = "leased" /\ work[a] = "none")

JobComesDue(a) ==
    /\ ComesDue(a)
    /\ job' = [job EXCEPT ![a].hold = "free"]
    /\ UNCHANGED <<blob, file, upload, sweep, server, unusual>>

-----------------------------------------------------------------------------

\* The process dies. A rename that was not made durable may be lost, and what was in
\* the middle of an upload, a sweep or an edit stays as it is on disk.
Crash ==
    /\ Unusual
    /\ upload' = [a \in Attachments |-> "idle"]
    /\ phase' = "mark"
    /\ work' = [a \in Attachments |-> "none"]
    /\ editing' = NoEdit
    /\ \E lost \in SUBSET {a \in Attachments : file[a] = "renamed"} :
        file' = [a \in Attachments |-> IF a \in lost THEN "part" ELSE file[a]]
    /\ UNCHANGED <<blob, job, rows, log, deleted, repaired>>

Upload(a) ==
    \/ Reserve(a) \/ RefuseBody(a) \/ Disconnect(a) \/ WritePart(a) \/ Rename(a)
    \/ SyncDirectories(a) \/ FailWrite(a) \/ Finalize(a) \/ Cancel(a)

Turns ==
    \/ \E as \in Drafts, p \in {Owner[a] : a \in Attachments} : StartTurn(p, as)
    \/ \E m \in Messages : Rollback(m)
    \/ \E live \in BOOLEAN : EditRollback(live)
    \/ EditResend \/ EditRefused \/ DeleteThread \/ RepairRows

SweepJob(a) == UnlinkPart(a) \/ UnlinkFinal(a) \/ SettleJob(a)

Sweep == SweepMark \/ SweepLease \/ SweepEnd \/ \E a \in Attachments : SweepJob(a)

FilesNext ==
    \/ \E a \in Attachments : Upload(a) \/ TimePasses(a) \/ JobComesDue(a) \/ FailUnlink(a)
    \/ Turns \/ Sweep \/ SweepBreaks \/ Crash

FilesSpec == FilesInit /\ [][FilesNext]_filesVars

\* Time passes, and the sweep runs every five minutes and ends each of its batches.
FilesFairSpec ==
    /\ FilesSpec
    /\ WF_filesVars(Sweep)
    /\ WF_filesVars(\E a \in Attachments : TimePasses(a) \/ JobComesDue(a))

-----------------------------------------------------------------------------
(* Properties *)

\* A row that a message can use, or does, has its bytes at their final path, and no
\* crash can take them: neither a slow upload, nor the sweep that cleans up after one,
\* nor a failure between the rename and the transaction leaves a row without its file.
StoredMeansDurable == \A a \in InState({"staged", "claimed"}) : file[a] = "durable"

\* A file that a message of the thread shows is not marked for deletion: not by a
\* cancellation or an expiry racing the turn that claims it, not by the rollback or the
\* edit of another message. A repair may mark it (README, known divergences).
ReferencedKept ==
    ~deleted => \A m \in DOMAIN rows :
        \A a \in rows[m].attachments \ repaired : blob[a].state = "claimed" /\ blob[a].message = m

\* A row that is left to the sweep before a batch works on it.
Reclaimable(a) ==
    upload[a] = "idle" /\ work[a] = "none" /\ blob[a].state \in {"uploading", "staged", "deleting"}

GivenUp(a) == job[a] # NoJob /\ job[a].tries >= MaxAttempts

\* What no message uses and nobody uploads any more leaves the disk and the quota, after
\* any crash of the upload or of the sweep, unless a turn claims it first or the
\* unlinks failed as often as the sweep tries. (The file of an upload that outlives its
\* own cleanup stays: README, known divergences.)
Reclaimed ==
    \A a \in Attachments :
        Reclaimable(a) ~> (blob[a].state = "claimed" \/ GivenUp(a)
                            \/ (blob[a].state = "deleted" /\ file[a] = "none"))
=============================================================================
