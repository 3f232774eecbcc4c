# Forkara: a TLA+ verification project

Forkara runs coding agents ("providers": Codex, Claude, Cursor, OpenCode, ...) behind one server.
The server is event sourced: commands are decided one at a time against an in-memory read model,
their events are appended to a SQLite log together with a receipt, projected into read tables,
published to subscribers, delivered to providers, and streamed to web clients. This directory
models that spine, from the dispatch of a command to the text in a client's view, through the queue
of waiting messages to the call of a provider and the life of its runtime, and back from what the
provider reports; and, beside the spine, the files that messages carry. TLC checks it on small instances, and TLAPS checks the proofs of the parts of it
that are proved so far.

Paths below are relative to `src/apps/server/src/` unless they begin with `src/`.

## Reading order

| Module | What it is |
|---|---|
| `CommandLedger` | what the command engine promises its clients (abstract) |
| `CommandEngine` | admission, lanes, worker, receipts, timeouts, reconciliation, restart; implements `CommandLedger` |
| `MCCommandEngine` | small instances of it |
| `CommandEngineProofs` | TLAPS: its type invariant, eight properties of it, and that it implements the ledger |
| `LogReader` | what the engine's event stream promises a subscriber (abstract) |
| `DomainEventStream` | the stream: publication, sliding windows, gap reads; implements `LogReader` |
| `DomainEventStreamProofs` | TLAPS: its type invariant, two invariants, the refinement |
| `SnapshotLiveStream` | a client's view over snapshot, resume, replay and live events, on top of `LogReader` |
| `SnapshotLiveStreamProofs` | TLAPS: its type invariant, and that a client may trust its cursor |
| `ProjectionCatchUp` | hot and deferred projections, catch-up, bootstrap, repair |
| `ProviderDelivery` | delivery of intents to providers, quarantine and reconciliation |
| `ProviderDeliveryProofs` | TLAPS: its type invariant and all its safety properties |
| `MCProviderDelivery` | a small instance of it: which sequences of events arrive |
| `QueuedTurns` | messages that wait for a running turn: claim, reservation, promotion, queueing again |
| `QueuedTurnsProofs` | TLAPS: its type invariant, and that messages are sent once and promoted in order |
| `ProviderLifecycle` | start, switch, recovery, stop and idle stop of a thread's provider runtime, its turns and its event pump |
| `ProviderLifecycleProofs` | TLAPS: its type invariant, that lock, runtimes and row fit together, and that a runtime whose interrupt failed gets no turn |
| `MCProviderLifecycle` | its two adapters are interchangeable |
| `RuntimeJournal` | the journal of what providers answer, and its consumer |
| `RuntimeJournalProofs` | TLAPS: its type invariant and all its safety properties |
| `MCRuntimeJournal` | a small instance of it: which events arrive |
| `ManagedAttachments` | the files of messages: upload, claim by a turn, release, sweep |
| `MCManagedAttachments` | a small instance of it: who uploads what |
| `StoredStateProofs` | TLAPS, of `ProjectionCatchUp`: its type invariant, and that no cursor is ahead of its rows; of `ManagedAttachments`: that files in use have their bytes and are not deleted |

Every operator marked `(mutant)` is a deviating variant of the definition that follows it, one
forgotten guard or one swapped step. No action uses it. Putting it in the place of its
definition makes the run named beside it in PROJECT.json fail, which shows that the property is
sensitive to that code.

## Inventory

The components of the system, the state each keeps and what makes it correct. The column
"model" says where it is modelled; "-" means it is not yet, or not at all (see the last
sections).

| Component | Code | State | Hard behaviour | Model |
|---|---|---|---|---|
| Command engine | `orchestration/Layers/OrchestrationEngine.ts`, `orchestration/orchestrationAdmission.ts` | lanes, wake tokens, admission phase, outstanding counter, read model, receipts, log | retries racing their first attempt, a deadline that interrupts the worker anywhere, store errors, stop, restart | `CommandEngine` |
| Domain event stream | `OrchestrationEngine.ts`, `persistence/Layers/OrchestrationEventStore.ts` | PubSub windows, publication cursor, subscriber cursors | windows that drop, gaps read while the log grows and is purged, second publication after a failure | `DomainEventStream` |
| Snapshot-then-live streams | `wsSnapshotLiveStream.ts`, `wsStreamBackpressure.ts`, `src/apps/web/src/threadDetailResumeCursors.ts` | fence, high water, live buffer, resume cursor, client view | commits between attach, load and replay; slow clients; stale cursors | `SnapshotLiveStream` |
| Projections | `orchestration/Layers/ProjectionPipeline.ts`, `OrchestrationEngine.ts` | one cursor per projector, dirty flag, catch-up fiber, repair backup | deferred projection that fails or is skipped; repair racing commands; restart | `ProjectionCatchUp` |
| Provider command delivery | `orchestration/Layers/ProviderCommandReactor.ts`, `persistence/Layers/OrchestrationEventDeliveries.ts` | delivery rows, consumer cursor, quarantine cache, replay | a crash during a call, timeouts of calls that happened, operator decisions, replay behind the cursor | `ProviderDelivery` |
| Decider and projector | `orchestration/decider.ts`, `orchestration/projector.ts` | none (pure) | rules per command | - |
| Runtime event journal and ingestion | `orchestration/Layers/ProviderRuntimeIngestion.ts`, `orchestration/runtimeJournalPoisonGate.ts`, `persistence/Layers/ProviderRuntimeEvents.ts` | journal, consumer cursor, open turns, caches of open turns, poison gate | poison rows, acknowledgement per page, retention against open turns, crash between processing and acknowledgement | `RuntimeJournal` |
| Runtime event pump | `provider/providerRuntimeEventPump.ts` | per provider: the event in hand, retries, quarantined events, health | an event that cannot be journalled is retried in place or set aside | - (planned; what it does with an event that succeeds is the pump of `ProviderLifecycle`) |
| Queued turns | `persistence/Layers/QueuedTurnPromotions.ts`, `ProviderCommandReactor.ts` | rows queued, promoting, promoted, cancelled; reservations per provider session; draining marks | three fibers that drain, a promoted message that meets another live turn, stops and edits, a crash between dispatch and mark | `QueuedTurns` |
| Client store and retention | `src/apps/web/src/storeProjection.ts`, `threadDetailSubscriptionRetention.ts` | detail slices, cursors, retained subscriptions | eviction while a replay is in flight | partly in `SnapshotLiveStream` |
| WebSocket admission | `wsStreamAdmission.ts`, `wsRequestAdmission.ts` | leases per client | last subscription wins, teardown of the loser | - (planned) |
| Reactors | `orchestration/Layers/ThreadDeletionReactor.ts`, `CheckpointReactor.ts`, `TurnCheckpointCoordinator.ts`, ... | drainable workers, pending baselines | baseline before start of a turn | - (planned) |
| Startup reconciliation, quit resume | `orchestration/startupTurnReconciliation.ts`, `orchestration/quitResume.ts` | turns left running, one record file | a second quit, a crash between claim and resume | - (planned) |
| Automations | `automation/Layers/*` | definitions, due runs, leases | missed and doubled runs | - (planned) |
| Agent gateway | `agentGateway/creationCoordinator.ts` | operations with idempotency keys and leases | recovery of half-done creations | - (planned) |
| Managed attachments | `managedAttachmentStore.ts`, `persistence/Layers/ManagedAttachments.ts`, `managedAttachmentCleanup.ts`, `http.ts` | rows, cleanup jobs, staging and final paths | a sweep racing a slow upload, a cancellation or an expiry racing the turn that claims, pruning by rollback, edit and repair, a crash between file and row | `ManagedAttachments` (partly) |
| Provider sessions | `provider/Layers/ProviderService.ts`, `provider/providerLifecycleCoordinator.ts`, `ProviderSessionDirectory.ts`, `ProviderSessionReaper.ts` | lifecycle lock, published generation, binding row, idle timer, interruption fence, outstanding turns | a switch that fails halfway, work arriving during an idle stop, a turn that ends before it is marked running, events of an older generation | `ProviderLifecycle` (partly) |
| Authentication, terminals, devices, desktop shell, migrations' backup | see PROJECT.json | small tables and processes | low | - (low priority) |
| Adapters, git, settings, diagnostics, contracts, views | see PROJECT.json | translation and I/O | little state of their own | - (not planned) |

How they interact. A caller dispatches a command and waits on a Deferred. The engine's one
worker decides it and commits events, receipt and hot projections in one transaction, runs the
deferred projection of each event, updates its read model and publishes. Subscribers of the
publication are the web streams (through a buffer that slides), the ingestion, and the other
reactors. Provider delivery does not trust the publication: it reads the log behind a durable
cursor of its own. Providers answer with runtime events, which are journalled and turned back
into commands. `ProviderLifecycle` is the runtime underneath a provider call of
`ProviderDelivery` and of `QueuedTurns`: the two see it as an answer, it sees them as a source of
one command at a time. `ManagedAttachments` is what the engine's transactions and the hot message
projection do to a table of their own; it sees a command only as the moment of its commit.

## The modules and the code

### `CommandEngine` (`OrchestrationEngine.ts`, `orchestrationAdmission.ts`)

An *envelope* is one call of `dispatch`; a retry is another envelope with the same command id,
a colliding client one with the same id and another request. A *request* stands for a command's
content together with the principal that sends it: the model keeps its lane, its fingerprint and
its principal. A repeat of a decided command is judged by the fingerprint in its receipt and, when
it was accepted with attachments, by the rows of these attachments as they are at that moment
(`ExactIdentity`): they have to be claimed, and by the sender. A content names its attachments, so
`claim` and `HolderOf`, who uploaded them, are functions of the fingerprint; that all are claimed
or one is not is all that is told apart. What takes claimed attachments away, a rollback, an edit,
a deletion or a repair, is `Release`, at any moment; the module `ManagedAttachments` has the detail.

| State | Code |
|---|---|
| `phase`, `outstanding` | `engineAdmissionState` |
| `lanes`, `wake` | `commandQueues`: three queues, and the queue of wake tokens |
| `cmd`, `req`, `exec`, `reply` | the envelopes: `command`, `executionState`, `result` |
| `pc`, `cur`, `start`, `cause` | where `processEnvelope` is, the envelope in hand, `dispatchStartSequence`, which handler runs |
| `pubNext`, `pubEnd` | the rest of the publication loop |
| `applied`, `snapshot` | `commandReadModel`: the events it reflects, `snapshotSequence` |
| `published` | what was offered to the PubSub |
| `log`, `receipts` | `orchestration_events`, `orchestration_command_receipts` |
| `claim` | `state` of the rows of `managed_attachment_blobs` that a content names |

The timed region of `processEnvelope` is one step per await: lookup, decide, commit, assign,
publish (one step per event), settle. `Timeout` and `WorkerDefect` may strike at each of them,
`StoreError` where the store is used. What follows is the recovery of the code, step by step:
reconciliation (which may fail), publication, the second look at the receipt, the record of a
rejection, the settlement. `RecoveryDefect` is a throw inside these handlers, which falls
through to the crash handler once and to the safety net of `runEnvelope` the second time.
The three pieces of history (`missed`, `passed`, `restarts`) are read by properties and bounds
only. The decider is external to the module: it may accept with one to `MaxEvents` events or refuse.

`CommandLedger` is what clients may rely on, without lanes, worker or failures: an id is decided
once, the events of a call enter the log in one block when it is accepted, only the principal whose
attachments a command names has it accepted or is told that it was, and an answer that
reports a decision reports the one that was made. One answer is weaker than its words: "previously
rejected" may be said of an accepted command when the attachments are not claimed by the caller
(divergence 26). `CommandEngine` maps `decision <- receipts`, `files <- claim`
and `answer <- reply` (`ImplementsLedger`).

### `DomainEventStream` (`OrchestrationEngine.ts`, `OrchestrationEventStore.ts`)

An event is its sequence number. `Commit`, `Assign`, `PublishNext`, `Interrupt`, `Reconcile` are
the steps of the engine's worker that decide what is published and in which order. A subscriber
is its part of the sliding PubSub (`backlog`), a cursor, and, while it repairs a gap, the event
it holds and the page it has read. `Attach` is atomic because the code takes subscription and
cursor under `eventPublicationLock`. `Purge` removes rows of any set of sequence numbers, which
the store does when a thread is purged; AUTOINCREMENT never gives a number out again.
`LogReader` is the promise: in order from the position at which a reader joined, each event
once, and nothing passed over but rows that are gone.

### `SnapshotLiveStream` (`wsSnapshotLiveStream.ts`, `wsStreamBackpressure.ts`, web client)

It EXTENDS `LogReader`: the stream under it is the promise, which `DomainEventStream` implements,
not its implementation. Its phases are those of `makeCursorSafeSnapshotLiveStream`: the resume
path (`head`, `check`), the snapshot path (`load`, `loaded`, `fenced`), `replay`, `live`. The
sliding buffer, its ingress and egress counters and the queue of one behind it are separate
because the loss detection compares the counters while events are in flight between the two.
`fence` is the minimum of the projection cursors, which trails the log; `loaded` is what the
rows of the snapshot contain, which does not, since every commit updates them. The client is its
resume cursor and the set of events its view contains. `deleted` is the `deleted_at` of the thread's row: from then on
no client resumes and no snapshot is found, while the rows of the log stay until a purge takes them (`exists`). The subject of a subscription is a set
of sequence numbers, which stands for the filter by thread or by shell event.

### `ProjectionCatchUp` (`ProjectionPipeline.ts`, `OrchestrationEngine.ts`)

The many projectors are three cursors: `hot`, `def` (thread-shell summaries) and `pcur` (a hot
projector with a narrow event filter, projects). `applied` and `papplied` are the events their rows
reflect; rows and cursor change in one transaction wherever they do in the code. Worker, catch-up
fiber, repair and start-up exclude each other by `maintenanceLock`, which is `lock`; the
bootstrap (`boot`) is run by whoever holds it. `dirty` and `inFlight` are the engine's two
flags, tested and set where the code does.

### `ProviderDelivery` (`ProviderCommandReactor.ts`, `OrchestrationEventDeliveries.ts`, `providerIntentClassification.ts`)

`row` is the delivery table, `acked` the durable consumer cursor, `cursor` its copy in memory,
`quarantined` the cache over the blocking rows, `handled` the keys of turn starts already begun.
Each database transaction of a job is one step, and `job` says who holds `deliverySourceLock`, for
which event and why (in log order, as the reconciled event, in the replay of what was skipped).
Every compare-and-set of the store is an IF whose other branch is `Die`, the reactor's
`Effect.die`. `CallProvider` is the call with its answer *and* whether the provider acted:
an uncertain answer says nothing about the latter. Kinds of events are those that
`providerIntentClassification.ts` tells apart: claimed or not, replay-safe or not, skippable
or exempt from the quarantine. The log grows along one of the sequences `Logs`, event by event.

### `RuntimeJournal` (`ProviderRuntimeIngestion.ts`, `ProviderRuntimeEvents.ts`, `runtimeJournalPoisonGate.ts`)

| State | Code |
|---|---|
| `log`, `stored`, `garbled` | `provider_runtime_events`: every event ever appended, the rows that are left, those that do not decode |
| `cursor`, `opened` | `last_acked_sequence`; `provider_runtime_open_turns`, 0 for a turn without a row |
| `scanned` | `lastRetentionScanSequence`, which lives in memory |
| `phase`, `rebuilt` | where `start` is: pruning, `rebuildAcceptedOpenTurnState` (and its position), the first drain, running, shutdown |
| `drain` | who holds `runtimeJournalDrainLock`, its fence, and where `drainRuntimeJournalThrough` is |
| `queue`, `quarantine` | the page in the worker; where `quarantineUnreplayableCommand` is |
| `pending`, `blocked` | `pendingAckedSequence`, `runtimeJournalPageBlocked` |
| `gate`, `aged` | the poison gate: its cursor and count; whether enough time has passed |
| `live`, `requested`, `wake` | the live drain fiber, `requestedLiveFence`, the sliding queue of one wake-up |

An event is its thread, its turn or none, and whether it is output, the end of a turn or the end
of a thread, which is all that acknowledgement and retention tell apart. Each transaction of the
store is one step: `Acknowledge` is the loop of `advanceConsumerCursorThrough` over the rows,
with the open turns recorded in order and the retention scan, and it may fail before or after it
took effect. A drain is one step per await: flush, page, worker, flush, and then the next page,
the poison gate, or `deadLetterPoisonHeadRow`. Processing a row has three outcomes: it is applied
(`Complete`), it fails and blocks the rest of its page (`Fail`), or its command is one the engine
will refuse for ever (`Collide`), which flushes what precedes it and steps over it. `Rebuild` is
the new process reading the accepted rows of open turns, each of which is applied again or
logged and lost. `done`, `missed`, `failures`, `handled` and `skipped` are history, and `count` bounds the
environment.

### `QueuedTurns` (`QueuedTurnPromotions.ts`, `ProviderCommandReactor.ts`, `decider.ts`)

| State | Code |
|---|---|
| `log` | the intents in `orchestration_events`: queued and direct starts, stops, deletions, edits |
| `row` | `queued_turn_promotions`, keyed by the sequence of the source event |
| `dispatched` | the accepted receipts of `thread.turn.dispatch-queued`, whose command id is fixed by row |
| `cursor`, `inflight`, `quarantined`, `src` | the delivery source, reduced to what the queue sees of it, and the step of its handler |
| `turn`, `ended`, `running` | the live turn, its terminal events, and the projected session, which lags |
| `reservation`, `draining` | `pendingQueuedDispatchBySessionThread`, `drainingQueuedTurns` |
| `fiber` | where the drain of the source, of the terminal events and of the startup is |
| `boot`, `replay` | `queuedTurnPromotionOwner`; the sequence for which startup recovery waits |

`drainQueuedTurnsForThread` is one step per await: `Guard` (live turn, reservation, draining mark),
`ClaimNext`, `Reserve`, `Dispatch` (the engine refuses or repeats its receipt), `MarkPromoted` or
`Undo`. `Matches`, `TurnStart`, `Look`, `Requeue`, `SendTurn`, `Bind`, `Exit` and `ReleaseOrphan` are
the handler of a turn start, which decides on the live turn of the provider and not on the
projection the decider saw; `SendTimesOut` is the uncertain end that quarantines the thread.
`TerminalEvent` is the absorption of an end that may belong to an earlier turn: an unbound
reservation remembers which ends it has seen, a bound one is released by its own turn.
`Crash` forgets reservations, marks and drains, and `RecoverQueues` starts over once the source
has replayed. All threads of the model share one provider session, since sessions meet nowhere.

### `ProviderLifecycle` (`ProviderService.ts`, `providerLifecycleCoordinator.ts`, ...)

| State | Code |
|---|---|
| `lock`, `current`, `gens` | the keyed lock, `currentGenerations`, the generations minted |
| `session` | what each adapter runs for the thread; its generation is what it stamps on its events |
| `binding` | the row of `provider_session_runtime`: provider, generation, active turn, status, retired credential, whether there is a resume cursor |
| `events`, `pump` | runtime events not yet read, and the one between the gate and the update of the binding |
| `idle`, `tasks` | the idle timer and what a running idle stop still owns; the ids in `liveRuntimeTaskIds` |
| `fence` | `providerInterruptionFences` |
| `dispatch`, `outstanding`, `retained`, `recent` | the dispatch state of the thread and `recentlyCompletedTurnsByThread` |
| `call` | per fiber, where its call is and what it captured |
| `haunted`, `missed` | history: a voided dispatch remembered its turn (divergence 19); the generations that were bound when an event of their turns or tasks was dropped or could not be written, that took over a dispatch (20), or whose thread was reported closed |
| `erased` | history: the turns that were active when a report cleared the active turn (27). A row that is written for a fresh runtime, or for none, forgets both (`Forgets`) |

Each action is named for the operation and the stretch of it between two awaits: `StartEnters`,
`StartRoutes`, `StartStopsOld`, ... are `startSessionWithOutcome`; `Recover...` is
`recoverSessionForThread`; `Work...` is `runIdleSensitiveProviderWork` with `resolveRoutableSession`;
`Send...`, `Compact...`, `Interrupt...`, `Delete...`, `Clear...` are `sendTurn`, `compactThread`,
`interruptTurn`, `stopSession` and `clearSessionResumeCursor`; `Stop...` is
`stopRuntimeSessionInternal`, which a restart, the reaper, an interrupt and the idle stop share.
`EnterRun` and `LeaveRun` are the coordinator's `run`: a fresh generation is published at once, and
at the end the run keeps one it owns or puts the previous one back. `Gate` drops the events of any
other generation, and `Apply` is `updateSessionBindingFromRuntimeEvent`, with the rules of
`terminalTurnApplicability.ts`: `NotBound`, `NotApplied`, `Applied`, and `NotWritten` when the row cannot be written,
which is logged and swallowed. The adapters are external: a runtime that starts, may begin a turn,
end it, run a background task, report an error or a state of its session or thread in the middle of a turn
(`Report`), die, or be stopped, which may fail to be proven. `Reports` are the events that clear the active turn
without ending one; states with the same effect share a name.
Assumed: the source has one command in flight, which `ProviderCommandReactor.ts` guarantees; the
idle timer and the reaper's threshold are long (a timer is due only after the thread has been
left alone, then fires at any moment; the reaper looks when nothing happens); a resume cursor is
there or not; a start that times out leaves nothing behind. `Init` is a process that finds the row
of an earlier one; a crash in the middle of a call is not modelled.

### `ManagedAttachments` (`managedAttachmentStore.ts`, `ManagedAttachments.ts`, ...)

| State | Code |
|---|---|
| `blob`, `job` | `managed_attachment_blobs`, `managed_attachment_cleanup_jobs`; `late` and `hold` stand for their clocks |
| `file` | the staging and the final path: where the bytes are, and whether a crash can take them back |
| `upload` | where the upload request is: body, staging file, rename, directory sync, finalisation |
| `phase`, `work` | the sweep: its next transaction, and per leased job the next unlink or the settlement |
| `rows`, `log`, `deleted` | the message rows of the thread, its events, the thread's end |
| `editing` | the edit that the reactor has rolled back and not sent again yet |

One action per await of the upload, of the sweep's transactions and of its unlinks, which run for
several jobs at once. A turn is the one transaction that claims its files, appends its event and
upserts its row; the checks before it (`findServerOwned`) ask less than the claim does. `Rollback`
prunes in its transaction what the remaining messages do not use; `EditRollback` leaves the files to
`EditResend`, which claims them again under the same message id and the loopback principal.
`RepairRows` replays the log over the rows that are there and marks at the end of its batch.
`unusual` bounds failed steps, crashes and repairs together.

## The runs

Twelve runs, one per question. "States" are distinct states.

| Run | Question | Bounds | States |
|---|---|---|---|
| `command_identity` | is a command id decided once, do memory and subscribers follow every commit, and is every answer one the ledger allows? | 2 calls; the second repeats the first, alters it, sends it as another principal, shares its id, or has one of its own; 1-2 events, attachments that may be given up, 1 restart | 1.4M |
| `command_answers` | do counter and priority survive every race of callers, worker, quiesce and stop; is every admitted command answered, and does stop end? | 3 calls of 1 id, one per lane, capacity 3, reserve 1, no attachments | 369k |
| `event_stream` | does the stream implement `LogReader`? | window 1, pages of 1, 4 events, 1 purge, 1 restart | 88k |
| `snapshot_stream` | may a client trust its cursor, and does its view catch up? | subject {1,3} of 3 events, any of which may delete it, replay limit 1, buffer 1, 1 purge, 1 break | 197k |
| `projection_catch_up` | do cursors stay behind their rows through failures, repair and restart? | 4 events, batches of 2, one of each failure, 2 repairs | 4.0M |
| `provider_delivery` | is a provider command carried out at most once per approval, in order, with every intent accounted for; does every compare-and-set succeed, and does the cursor reach the end? | 4 logs of up to 3 events on up to 2 threads, and their prefixes; every answer, 1 crash, 1 approval, 1 abort, 2 attempts | 1.1M |
| `queued_turns` | does a message reach the provider once, and in order? | 1 thread, 3 messages, one stop, deletion, edit or fault | 931k |
| `queued_turns_settle` | is every queued message promoted, and every reservation released? | a thread and a subagent thread of one session, 3 messages queued or steered, no faults | 217k |
| `lifecycle` | does a thread keep one runtime whose events are heard, and does its binding name the turn that runs? | 3 calls of 4 kinds, 2 interchangeable providers, 2 turns, 2 failed calls, unproven exits, deaths or reported errors, or 2 background tasks, or one of each | 2.0M |
| `lifecycle_calls` | do the six fibers never wait for one another for ever? | 2 calls of any of 8 kinds, 1 turn, credential rotations, 1 failed write or unnamed end | 353k |
| `runtime_journal` | is every row applied once in order, acknowledged only when handled, kept as long as a restart needs it; and does the journal drain, whatever wakes it? | 1 thread, 2 events out of output, an end without a turn and a gap, pages of 2, retain 1, scan every row, poison limit 2, 1 fault, 1 restart, 1 pruning, 1 notification, 1 upgrade | 1.1M |
| `attachments` | has every file in use its bytes, is none in use marked for deletion, and is every other reclaimed? | a file of each of 2 principals, 2 messages, 3 events, 2 failed steps, crashes or repairs, 2 attempts, quota 1 and 2 | 745k |

Why the bounds are enough, as far as a bound can be. Every action fires in some run.
*Engine*: two calls are what a retry racing its first attempt or a collision needs; two events per
command put an interruption between two publications; a third call is needed for priority (one in
hand, one overtaken, one overtaking) and to be refused at the limit of the user lanes. Capacity 3
with reserve 1 is the smallest policy in which both limits are reached with something in the
lanes. What two calls may carry is all that can happen between an accepted command and a later one; the second id is for the decision of a command after the commit of another. *Streams*: with a
window of one every second publication drops; four events leave room for a drop, a gap of more
than one page and a purge inside it. Subject {1,3} has a foreign event between two of its own, so
that positions and cursors part. *Projections*: two batches of two on each side of a failure; a
second repair after one that was interrupted. *Delivery*: three events on one thread are two
blockers with a skipped turn between them (an interrupt is exempt, hence the second blocker); two
threads show that a blocked one does not hold up the other; every prefix of a log is a log too. *Queued turns*: three messages are one
that runs, one that is promoted and one that waits behind it; with a crash, the third shows
whether the claim of the second is taken again in order. Two threads of one session are needed for
a drain that finds the session reserved for the other. *Lifecycle*: two providers are a switch;
three calls are a start, a turn and whatever races its end; the second turn is the one an event
may be mistaken for; two faults are what it takes to lose the provider of a dead turn or an event under
a provisional generation (divergences 19 and 20 began as failures of `Coherent` and `QuietAgrees`). Calls of every kind come in pairs, since each waits for at most one other call
and for the idle stop, which comes on top of the two. *Journal*: two rows in a page of two are one
that fails or collides with one before or behind it; an end without a turn closes the one open
turn. A poison limit of two needs two drains at one head, with one fault the drains between them
may fail or acknowledge unseen. One thread is enough because threads meet in nothing but the
order of rows. A row that does not decode appears between two processes, as a new version would
find it. *Attachments*: three events are two messages and a rollback or edit of one of them, or a
message, its rollback and another; two unusual events are a crash on top of a failure, or a failed
unlink for each attempt. CHECK_DEADLOCK FALSE appears where a bound ends the run: all events appended, every
request used up.

What they show. One decision per id survives timeouts between commit and receipt look-up, a
colliding content and a restart (`CommittedAtMostOnce`, `RejectedNeverCommitted`); a caller that
gave up in the queue can rely on it (`AbandonedNeverCommits`). The decider sees every commit and
live subscribers are offered what a caller was told, except after a reconciliation that fails
itself (`missed`), which the code logs and leaves (`DecidesOnEveryCommit`,
`AcceptedMeansPublished`). A wake token per queued envelope is exactly what the final blocking take
of the normal lane needs (with fewer, `EveryCommandAnswered` fails), and one overtaking is the price of polling lanes
in turn (`OvertakenAtMostOnce`). A sliding window is no loss (`DrainedMeansCaughtUp`,
`ImplementsReader`), except that a subscriber waits for the end of a reconciliation. A client's
cursor never vouches for an event its view lacks (`CursorVouches`), although the same event may be
applied twice after a snapshot (the first known divergence). No cursor passes an event that its rows lack, the summaries' as long
as no deferred projection is interrupted or fails (`CursorsNeverAhead`); what does skip is an interruption after a commit (the second). A
delivery is never repeated blindly (`NeverRepeatedBlindly`), even by an operator who reconciles
blockers in any order, and no `Effect.die` of the reactor is reachable (`NoDefect`). A queued
message is sent once although its promotion may be interrupted anywhere: the fixed command id of
the dispatch and the receipt of the engine make the second attempt empty (`SentOnce`). Drains of
three fibers keep the order of a thread's messages because claims are atomic and the oldest claim
of an earlier process counts as queued (`OldestFirst`). One runtime at a time survives every
failure of a switch, and its generation is the published one whenever nobody holds the lock
(`Coherent`); the binding agrees with the runtime when all is quiet, whether a turn's end or the
dispatch that began it was handled first, unless a report cleared that very turn (`QuietAgrees`); the idle stop, which looks three times,
never takes a working runtime (`IdleSparesWork`); a runtime whose interruption is in doubt takes
no turn until it is replaced (`SuspectTakesNoTurn`). Within a process a runtime event is applied
once and in order although pages are read again after every failure (`AppliedOnceInOrder`): what
makes it so is the flush before each page. No acknowledgement covers a row that a failed one held
back (`AcknowledgedMeansHandled`), only a row that failed is given up, never the healthy ones
behind it (`GivenUpFailed`), and retention keeps what a restart needs (`CachesHoldOpenTurns`). An
upload that outlives its writing lease cannot resurrect the row that the sweep took
(`StoredMeansDurable`); the claim of a turn excludes cancellation and expiry, and rollbacks and edits
spare the files of other messages (`ReferencedKept`); what nobody uses leaves disk and quota,
whatever crashes (`Reclaimed`).

## Fairness

* `CommandEngine`: weak fairness of `Worker` and of `StopEnd`. The worker is one fiber that the
  runtime keeps scheduling and `stop` is another; callers, timers, `Refresh`, quiesce and restarts
  are never obliged. Timeouts and defects belong to `Worker`, so fairness does not assume a
  command gets through, only that something happens to it.
* `DomainEventStream`: weak fairness of the worker and of each subscriber's stream, which is
  pulled by a fiber of its consumer.
* `SnapshotLiveStream`: the fairness of `LogReader` for `ui`, of the projectors, of the two fibers
  that move the buffer, and of the stream. It includes the client's subscribing again, which
  `src/apps/web/src/wsTransport.ts` does whenever a stream ends with a retryable error.
  Disconnections, evictions and restarts are bounded, not fair.
* `ProviderDelivery`: weak fairness of the ordered source and of the job that holds the lock. A
  call of a provider returns because each is bounded by a timeout in the reactor. Operators,
  crashes and the auto-healing are never obliged. `DrainsTheLog` is stated for behaviours in which
  no write of the delivery store fails: the source dies with a failing store and comes back only
  with the process.
* `RuntimeJournal`: weak fairness of the worker, the drain, the startup, the poller (its sleep is
  250 ms to 5 s and it repeats for ever) and of `Age` (time passes). The live fiber is not
  obliged, so that the poller alone must drain; neither are providers, notifications, crashes and
  shutdowns. A process that ended, also by a failed startup, is started again: the desktop shell's
  supervision does that, up to five failed starts in a row, and the user does.
* `QueuedTurns`: weak fairness of each drain, of the delivery source, of the reader of terminal
  events and of the startup recovery, fibers of one process; turns end, and ingestion brings the
  projected session up to date. Users are never obliged. The run has no faults: after a crash or an
  uncertain delivery the known divergences below do strand messages.
* `ProviderLifecycle`: weak fairness of the steps of each fiber (a call of an adapter returns, since
  each is bounded by a deadline) and of each pump; turns and tasks end. That the idle timer becomes
  due is not assumed, nor that anybody calls.
* `ManagedAttachments`: weak fairness of `Sweep`, which is forked for the life of the process and
  repeated every five minutes, and of time (leases, staging times and delays run out). Uploads,
  clients and turns are never obliged; `Reclaimed` is about rows whose request has ended.
* `ProjectionCatchUp` has no fairness: its properties are all safety.

## Known divergences

Places where the code does otherwise than its comments or its documentation say, met while
modelling. The properties are stated so that they do not depend on them.

Streams and projections:

1. A snapshot's rows are current while its sequence is the minimum of the projection cursors, so a
   stream replays events its snapshot already contains; the client applies them, and a streaming
   text delta is appended twice until the completion replaces it. `wsSnapshotLiveStream.ts:116`
   says the same fence discipline "covers every event exactly once".
2. The deadline of a command may strike between its commit and its deferred projection
   (`OrchestrationEngine.ts:970`, `1001`). Nothing marks the projection dirty, the next event moves
   the summary cursor past the gap, and no later bootstrap fills it. `ProjectionPipeline.ts:2173`
   says "a committed cursor never runs ahead of its committed rows", and 2311 that a lagging
   cursor is left to the catch-up that must replay its events.
3. The catch-up fiber releases `maintenanceLock` after its bootstrap and clears
   `deferredProjectionDirty` afterwards (`OrchestrationEngine.ts:349-354`). A command that commits
   between the two finds the flag up, leaves its event to a catch-up that has just ended, and the
   flag is cleared: the event stays unprojected while the server is idle, and the next command's
   deferred step moves the summary cursor past it. `CursorsNeverAhead` speaks of the summaries
   only before a failed or interrupted deferred step, for this reason too.
4. The first commit of a fresh database leaves `projection_state` with a hot row and no summary
   row until the deferred step (`ProjectionPipeline.ts:2362`), although
   `ProjectionSnapshotQuery.ts:782` takes the absence of a row as "never behind". In the model it
   is the value `Missing` of `def`.

Provider delivery and the journal:

5. A crash while an event behind the durable cursor is being replayed leaves its row in flight.
   Only authorised retries behind the cursor are listed at the next start, so a replayed event
   without an authorisation keeps its row for ever (`OrchestrationEventDeliveries.ts:307`;
   `src/audit/README.md:1084` says expired claims are settled). `CursorAccountsForEverything`
   counts it as held back.
6. A thread can have two blockers, because interrupts are exempt from the quarantine and their own
   delivery may end dead or uncertain. Reconciling the older one finds the younger still in the
   table and skips the turns between them again; reconciling the younger one replays only what
   follows it (`ProviderCommandReactor.ts:4845`). `src/apps/web/src/lib/threadUnblock.ts:41-47`
   abandons them in this order and says that "messages sent while the thread was blocked are
   dispatched again"; those in between never are, although the thread is unblocked.
7. `hasHandledTurnStartRecently` (`ProviderCommandReactor.ts:2571`) records the key of a turn
   start when its first attempt begins, and nothing removes it when that attempt fails. A safe
   retry of it in the same process (automatic after a `PersistenceSqlError`, or an operator's)
   returns at once, counts as accepted and is recorded as succeeded: the turn is never sent. The
   comment at 3359 has safe retries "retry the whole command". In the model `handled` has this
   effect.
8. `readAcceptedOpenTurnEvents` and `readAfter` decode a whole page outside the per-event
   handlers. One row that does not decode therefore ends the startup, whose `start` is `orDie`, or
   every drain of a running process, and the poison gate is never consulted. The comment at
   `ProviderRuntimeIngestion.ts:3220` says a decode failure must not "make the backend
   unbootable". `JournalDrains` excludes such rows (`garbled`).
9. A dead-lettered or quarantined row of a turn that is still open is processed again by the
   rebuild of the next process, although its durable effects were never committed; the same
   comment takes them to be. In `Rebuild` any accepted row may be applied.
10. A failed read of the cursor after a live drain (`ProviderRuntimeIngestion.ts:3324`) ends the
   live fiber for the life of the process; only the poller remains (`live.pc = "dead"`).

Queued turns (`ProviderCommandReactor.ts` unless named):

11. A direct start that meets a live turn is queued by the delivery source after that turn may have
    ended (2626). Only `thread.turn-queued` has a drain after its delivery (4739), so the message
    waits for the next turn of the session; 2597 says it "is promoted when the live turn settles".
    `QueuedSettles` is about the messages the decider queued.
12. A promoted turn that the provider rejects before `markPromoted` finds its own thread still in
    `drainingQueuedTurns`, and the drain at 2757 passes it over: what 2749-2753 calls "stranded
    indefinitely" happens.
13. The guard at 2813 is per thread for the mark and per session for the reservation, and the
    reservation is set two awaits later (2849): two fibers that drain a root and a child thread of
    one session both pass it and promote overlapping work, which 703-706 excludes.
14. A message queued again while its row is still `promoting` conflicts with that row, and the
    update at `QueuedTurnPromotions.ts:58` does not apply: it is then marked promoted and lost.
15. A crash, or a failed write, between the dispatch of a promotion and `markPromoted` repeats the
    dispatch under the fixed command id; the receipt answers it, no turn starts, and the new
    reservation is never released. A dispatch that the engine once refused is refused for ever.
16. A stop that is handled while a dispatch waits cancels the row and not the start, so the message
    is sent; it also deletes the draining mark and lets a second drain in.
17. An end of a turn without an id, read while the next turn is live, keeps the reservation of the
    turn that ended (3221). A quarantined skip or a timeout of a promoted start, an edit that
    stops a promoted turn, and the skipped start of a deleted child thread leave theirs too.
18. An edit of a message whose row is claimed cannot cancel it (`QueuedTurnPromotions.ts:135`): both
    versions are sent. `SentOnce` counts edits.

Provider sessions (`ProviderService.ts`):

19. A dispatch that was voided by the exit of its runtime still remembers its turn (897); the next
    dispatch that fails promotes it and marks the dead turn as running, which 1188-1191 means to
    invalidate. If the thread has switched providers meanwhile, the promotion puts the old provider
    into the binding (974), and the live runtime is no longer the bound one. `Coherent`,
    `QuietAgrees` and `SuspectTakesNoTurn` exclude it by `haunted`. The same happens when an end
    without an id is read during the dispatch.
20. A run of the coordinator that keeps the live runtime (a clear that preserves it, a recovery that
    adopts another's, an idle stop that gives up) publishes a provisional generation until it
    ends, and events of the runtime read meanwhile are dropped (`missed` keeps the generation). A lost
    `turn.started` or `task.started` lets the idle stop take a runtime that works, although tasks "own the
    runtime until the last one settles" (453-454). A rotation that replaces the runtime between
    the answer of a dispatch and the write of its turn has the turn of the old runtime written into the
    row of the new one; one that replaces it before the dispatch reaches the adapter may write the row of the new
    runtime, without a turn (1455), after that turn was marked in it. `QuietAgrees` and `IdleSparesWork` ask nothing of these generations. A lost
    end of a task makes the next credential rotation wait for ever under the lifecycle lock, which 1335-1338 rules out;
    `CallsEnd` is checked without tasks.
21. If the write of a first start's binding fails, the runtime stays, unbound or under an old
    generation. A start with another provider then makes the thread "dual-owned" (1793), and
    a send that finds no binding goes to the runtime nobody hears (1594-1599). `Coherent` is
    checked without failing writes of the binding.
22. A compaction writes back the binding it read, without the binding lock: it clears the active turn
    of a turn that began meanwhile, and restores the row of the provider before a switch, so `Coherent`
    is checked without compactions; a start that is marked after the deletion of its thread
    brings the binding back; the reaper stops a runtime to which a send has just given a turn.
    `stopSession` waits for the idle stop while it holds the lock for which that waits (2523),
    which takes an idle timeout shorter than the stop.

Attachments:

23. A repair marks the files of later messages for deletion: it replays an old rollback over the rows
    of today, and takes the attachments kept at that point for all that are used
    (`ProjectionPipeline.ts:2213`; `projectMetadataProjection.ts:13` has a repair replay the hot
    projector). The title of `ProjectionPipeline.test.ts:5469` says a rebuild "preserves exact managed
    attachment references", `OrchestrationEngine.ts:1408` that it rebuilds "without deleting chats". `ReferencedKept` exempts what a repair marked (`repaired`).
24. The reactor sends an edited message again as the loopback principal
    (`OrchestrationEngine.ts:1323`), and the lookup at 786 compares owners. The edit of a paired
    client's message that carries a file is refused after its rollback: the message is gone. In
    the model this is `EditRefused`; `ProviderCommandReactor.test.ts:4326` covers the owner only.
25. An upload that outlives its own cleanup has its row cancelled by the finalisation, but the final
    file it renamed meanwhile stays without a row (`managedAttachmentStore.ts`, and `ManagedAttachments.ts:303`
    finds nothing to mark). `Reclaimed` asks this only of rows whose request has ended.

Command engine:

26. A client that repeats its own accepted turn, with nothing changed, after a rollback, an edit, a
    deletion or a repair has given up one of its attachments is told "the command ID was already
    accepted with a different managed attachment set or owner" as a
    `PreviouslyRejected` error (`OrchestrationEngine.ts:264-298`: `findClaimedById` finds claimed rows
    only). Neither set nor owner differs, and the command was not rejected. The ledger allows
    this answer.

Provider sessions, again:

27. A `runtime.error`, a `session.state.changed` to ready, stopped or error, and a `thread.state.changed`
    to archived, closed or error clear the active turn of the binding (`ProviderService.ts:1147-1165`)
    whatever turn is active and whether or not it goes on: the guards of 1106-1136, which keep the end of one turn from
    touching another, are not asked. The Codex adapter emits the first two while a turn runs
    (`CodexAdapter.ts:1712-1727`, `1743-1757`). Until the turn is marked again (by a steer, or by the dispatch
    itself if it has not returned yet) the binding has no turn while one runs, and a stop by the
    user is refused because "no exact active provider turn is bound" (2197-2201). A stopped thread or session is also marked as stopped, and a closed thread arms
    the idle timer. `QuietAgrees` exempts exactly the turns that were cleared so (`erased`).

## What is proved

TLAPS checks eight proof modules, one for each component module (`StoredStateProofs` for two: it
extends `ProjectionCatchUp` and `ManagedAttachments`, which is why the specification of the latter is
called `FilesSpec`), for every value of the constants that satisfies the named assumptions of the component's module: that numbers are numbers and a
capacity is positive, that a table of choices (the lane of a request, the logs and events that may
arrive, the faults, the answers, the drafts) ranges over what it chooses from, and that `None` is none
of the values it stands beside (`NoneAssumption`, `NoneIsNoReceipt`, `NoneIsNoCall`). TLC evaluates each assumption in
the runs. Nothing else is assumed, with two exceptions that are part of their
theorems (`ReferencedFilesStay`, and `NoWriteFaultNorCompaction` in `ProviderLifecycle`; below): any set of calls, ids, requests, subscribers,
threads and attachments, any log, window, page, quota and bound.

Every argument has the same form: an invariant `IInv` that contains the type invariant, a
lemma per action (or per kind of step) that it is preserved, and theorems that read the
properties off it. TLC found each of these invariants to hold on a run before it was proved. What
they add to the properties is where the interest lies:

### Command engine (`CommandEngineProofs`)

* `TypeCorrect`: `Spec => []TypeOK`. Not a formality: `outstanding` is decremented in one place and
  incremented in another, and is a natural number only because of the next invariant. So the
  two are proved together: `IInv == TypeOK /\ HandInv /\ OutstandingCountsUnfinished`, where
  `HandInv` says when the worker holds an envelope and that it is one.
* `OutstandingCorrect`: `OutstandingCountsUnfinished`, from the same invariant.
* `CommittedAtMostOnceCorrect`: `CommitInv` adds that a call with events in the
  log is known (it has a command and a request, which never change) and in flight, and that the
  worker between lookup and commit holds a call in flight. With it, a transaction that finds
  no receipt of its command finds no event of it either.
* `AbandonedNeverCommitsCorrect`: from `CommitInv`, since a call in flight cannot be abandoned.
* `CommitMeetsNoReceiptCorrect`: receipts are inserted in two places, and each leaves the region
  between lookup and commit.
* `RejectedNeverCommittedCorrect`: a refusal comes from a place where the command has no receipt, so
  (`CommitInv`) the call has no event; `RefusedUncommitted` carries that through the recovery
  handlers to the settlement, and `RejectedDone` beyond it: the call stays in flight, and the
  worker begins only queued envelopes.
* `DecidesOnEveryCommitCorrect`, `AcceptedMeansPublishedCorrect`, both as long as no reconciliation has
  failed (`missed`): `MemoryInv`. `Bounded` keeps model and
  publications within the log; `Following` says, place by place in the worker and its handlers,
  which part of the log the model and the subscribers still lack: nothing, unless a call is between
  its transaction and the end of its publication or recovery, and then only what follows the point where its
  dispatch began. A restart refreshes from the log and has nobody to publish to.
* `OvertakenAtMostOnceCorrect`: `PassedInv`. The worker polls the lanes from the top in one
  step each, so an envelope is overtaken only if it came to a lane the poll had already left; the
  next poll meets it first.
* `EngineImplementsLedger`: `Spec => ImplementsLedger`, the whole refinement, since `LedgerSpec` states
  no fairness. Initial states map to initial states and each step to a step of the ledger or a stutter,
  given `LedgerInv` (a call that is known was asked for what it holds; where the worker answers from a
  receipt it has read one; attachments found unclaimed stay so until the caller is told, since only
  the worker claims). `Commit` is the ledger's acceptance, `RecordRejection` its refusal, `Release` its `Release`, and every
  settlement of a caller is its `Tell`.

### Event stream and client view (`DomainEventStreamProofs`, `SnapshotLiveStreamProofs`)

* `StreamTypeCorrect`, `DrainedCorrect`, `GapReadCorrect`: the invariant bounds what is announced
  by the log (`Order`), says that a first publication announces new events (`Fresh`) and a
  reconciliation goes through the rows in order (`Again`), and, per subscriber, that no stream is
  ahead of the announcements (`Behind`), that every row it lacks is revealed by something it has
  still to see (`Covered`), and how a gap read stands to its gap (`InGap`). The window argument is
  the heart: a sliding queue drops its oldest entry, never its newest, and the newest reveals
  whatever was dropped.
* `StreamImplementsReader`: initial states map to initial states of `LogReader`, and every step to a
  step or a stutter of it. This is the safety half of `ImplementsReader`; TLC checks the other.
* `ViewIsVouchedFor`: `CursorVouches` over the promise of `LogReader`, not over its implementation; with
  the refinement above the two compose. What waits for the client (queue, chunk, buffer) is in
  order (`InLine`), no row is missing in front of what waits, nor, while nothing was dropped, up to the last
  received (`Complete`), and each phase knows what the cursor it will leave vouches for
  (`Phased`): a snapshot's sequence trails its rows; a replay has reached the high water when it
  goes live. The counters of ingress and egress make `lost` true before a later event can
  move the cursor past a dropped one.

### Projections (`StoredStateProofs`)

* `RowsReflectCursors`: `CursorsNeverAhead`. `Holders` says who holds the maintenance lock and what
  of its program runs; `HotAtEnd` that the hot cursor moves with every commit and only a repair
  takes it away. `Calm` is what holds as long as no deferred projection fails or times out (the
  summaries are caught up whenever the worker does not hold the lock), `Intact` what holds as long as no
  repair is cut short (the backup of a repair holds every project row it took away).
* `HotCursorVouchesForProjects`: under `Intact`, project rows reflect the whole log whenever a
  command or a catch-up may run.

### Provider delivery (`ProviderDeliveryProofs`)

`IInv` is `Core /\ Accounts /\ Rights /\ Onwards /\ InLogOrder`. `Core` says that rows lie behind the
cursor or next to it (`Behind`), that the holder of the delivery lock owns the row it works on in each of its
steps (`JobFits`), and that it admits a side effect only where the thread has no blocker
(`LeftAlone`). Steps that do alike share a lemma: each action is shown to do one of a dozen
`...Facts`, and each of these to preserve each part.

* `NoDefectReached`: `NoDefect` is part of `Core`: no compare-and-set meets a row of another owner.
* `CursorAccounts`: `CursorAccountsForEverything`, from `Accounts`.
* `NeverRepeated`: `NeverRepeatedBlindly` by counting: `Times(s) + Right(s) <= 1 + approved[s]`, where a
  delivery has a right to be sent while its row is absent or to be retried, or its call is due.
* `InOrderOfTheLog`: `InLogOrder`, from `Onwards`: in the first process neither a replay nor a blocker
  lies behind what a thread's provider has received.
* `BlockedIsLeftAlone`: the action property `BlockedThreadIsLeftAlone`, from `LeftAlone`.

### Provider lifecycle (`ProviderLifecycleProofs`)

* `TypeCorrect`, without any hypothesis. It is proved through `TypeInv`, which says more than
  `TypeOK`: a call that is about to use a provider, or to write back the row it read, has one
  (`GoodCalls`), and so has every row that is not empty.
* `InductiveInvariant`: `CInv == TypeInv /\ Who /\ Locks /\ Fenced /\ (~haunted => Runs /\ Routes /\ Retained /\ Suspects)`,
  for processes in which no write of the binding fails and nobody compacts
  (`NoWriteFaultNorCompaction`). `Locks` says that the lifecycle lock is held by exactly the fiber whose call is
  where the code holds it; `Who`, that only the delivery source starts, sends and interrupts. `Runs` is the
  heart: while the lock is free, what lives is the one runtime the row names, under the
  published generation; while it is held, the place of the holder says what is true instead (`RunOK`): which
  generation the run has published, that the one before still fits if the run rewinds, that the row it has read is
  still the row, and after a stop that nothing lives. `Coherent` speaks of free locks only
  and is not inductive without this. `Routes` keeps the row in step with a dispatch, which works
  without the lock and may write the row (the start of a switch would otherwise be overwritten by the dispatch
  before it); `Retained` confines a kept result to the dispatch that waits to write it, whose
  promotion is the one step that breaks the rest (`haunted`).
* `CoherentCorrect`: `Coherent`, from `CInv`. The hypothesis is needed and not a convenience: a write
  of a first start that fails leaves a runtime beside the row, and a compaction writes back the row
  of the provider before a switch (21 and 22 above). The run checks the same two
  exclusions by its `Kinds` and `Faults`; deletions, reaps and clears, which the run leaves to the other
  one, are covered by the theorem.
* `SuspectTakesNoTurnCorrect`: the action property `SuspectTakesNoTurn`. `Suspects` says that a runtime whose interrupt
  failed lives behind a failed fence, or the interrupt is about to raise it; `Fenced` that no
  dispatch is past the check of a failed fence. Only `SendTurns` gives a runtime a turn
  (`NextTurns`), and where it is enabled there is no suspect (`SendTakesNoTurn`).

Each action has a lemma for its types and one for the invariant. The second kind shares a few
frames: a step without the lock (`FreeStep`, `MovesOn`), of no call at all (`Aside`), one that enters the
run, goes on in it or leaves it (`EntersC`, `KeepsC`, `LeavesC`), and an interrupt that gives its lock up
(`Unlocks`).

### Runtime journal (`RuntimeJournalProofs`)

The properties are not inductive one by one: that nothing is applied twice needs that the worker's
page begins where the process is, that this is so after a failed flush needs what `pending`
stands for, and that a drain goes on needs the fences to be rows. `IInv` has ten parts, all in terms of `Base`, the
row up to which this process is done (the cursor, or `pending` if the cursor lags).

* `TypeCorrect`: numbers and positions stay within the journal.
* `AppliedOnceInOrderCorrect`: from `Applied` (what is done is ascending and ends at `Base`) and `Line`
  (the queue is ascending and begins beyond `Base`). A page is read only where `pending` is 0
  (`Phases`), that is, behind a flush that was seen to commit.
* `AcknowledgedMeansHandledCorrect`: from `Line` again: while the queue may still be applied, it
  leaves out no row between `Base` and its last, and what lies between the cursor and `pending` was
  done. `Table` says which rows are still in the table, so that "no row" means no event either.
* `CachesHoldOpenTurnsCorrect`: `Table` keeps the rows of open turns through the fold of
  `RecordAcked`, the sweep and the pruning (`KeptBefore`: a turn that is open at an acknowledged
  row was open there before); `Caches` follows the rebuild from page to page.
* `NoDefectCorrect`: `Progress` says what each place in the drain still has to find: a page that
  was not blocked has moved the cursor, a blocked one has a row ahead of it. `Fences` says
  that a fence beyond the cursor is a row, which makes the page below it non-empty.
* `GivenUpFailedCorrect`: the action property. `Failures` compares the count of the poison gate with the
  failures of the next row (`HeadFailed`), and, while a drain is under way, with what the gate would count
  if it ended now (`Counted`). The difference of one per fault is a read that fails behind a blocked page, or a
  commit that reported a failure and moved the cursor.

`EarliestFacts`, `InOrderFacts`, `MaxFacts` and `FoldFacts` state what the model's operators on
sets of rows return: a page leaves out no smaller row, the ascending sequence of a set
exists and lists it, and acknowledging rows changes a turn's first row only to 0 or to one of them.

### Queued turns (`QueuedTurnsProofs`)

* `OncePerEdit`: `SentOnce` by counting: `Budget` says that the deliveries of a message and the
  events that may still lead to one (`Live`: a queued row the engine has not dispatched, a start
  or edit whose handler has not given it away) are at most one plus its edits. Every step
  moves one from the second to the first, or neither; only an edit adds one. `Places` (the source
  handles the event behind its cursor, only starts have rows, drains hold rows) is what makes the
  handlers' steps such moves.
* `PromotedInOrder`: `OldestFirst`, from `OrderInv`, which holds while the log has neither a stop nor an
  edit. `RowsInOrder`: a queued event is the first of its message, and the source gives rows to
  events in the order of the log, so whatever is older than a row has had one. `OneDrain`: a
  draining mark stands for one fiber, and a row that this process promotes is held by the fiber
  that drains its thread, so a fiber about to claim sees every older row of its thread that waits
  (`NextClaimFirst`). `InOrder` is the property for rows that are being promoted as well. After a
  crash no row is of the new process, and claimed rows wait again. The steps share five
  lemmas: a fiber leaves, begins, holds or rests, and rows move on (`RowMovesOn`).

### Attachments (`StoredStateProofs`)

* `StoredIsDurable`: `StoredMeansDurable`, from `DiskInv`: jobs exist exactly for deleting
  rows, the sweep works on jobs only, and while a row is uploading its file is as far as its
  request knows. That an upload outlives its lease does no harm because `staged` is only entered from
  `uploading`.
* `ReferencedFilesStay`: `FilesSpec /\ [][FaithfulRepair]_filesVars => []ReferencedKept`. A claimed row leaves that
  state only by a prune of files which no remaining message uses. The hypothesis says that a
  `RepairRows` ends with the message rows it found: it replays the whole log over them, which is a
  recursion over the log whose value for every log the prover cannot give (see below). TLC checks
  `ReferencedKept` without the hypothesis, and found no repair of the run that breaks it.

## What is only model-checked

* Liveness: `EveryCommandAnswered`, `StopCompletes`, the fairness half of `ImplementsReader`,
  `ViewCatchesUp`, `DrainsTheLog`, `QueuedSettles`, `ReservationEnds`, `CallsEnd`, `JournalDrains`,
  `Reclaimed`. Fairness and ENABLED are outside what the prover does.
* Of `ProviderLifecycle`: `QuietAgrees` and `IdleSparesWork`. They relate the row's active turn and the
  idle timer to the events that are still in the queues of the runtimes, which the invariant below
  `Coherent` says nothing about. That invariant is not out of the prover's reach: it is the next proof
  of the plan.
* What a replay of a whole log yields (`FaithfulRepair`): induction over data needs the library's
  induction theorems with an operator as a parameter, which the installed provers cannot
  instantiate.

## What is not modelled

* Decider and projector are pure and sequential: a command's outcome is a choice in
  `CommandEngine`, and the content of a projection is the set of events it reflects.
* In `ProjectionCatchUp`: the several hot projectors are one narrow and one universal cursor,
  the cooldown and coalescing of repairs, and the read pages of the bootstrap.
* In `ProviderDelivery`: what the handlers do inside one provider call (worktrees, sessions,
  attachments), the drain of queued turns (that is `QueuedTurns`), the activities that announce a
  failure, the duration of leases, and purged rows of the log.
* In `QueuedTurns`: the expiry of a claim while its own process still drains (the lease is minutes), the
  content of messages, checkpoints at the start of a turn, and goal continuations. A steer that is
  queued again asks for an interruption of the live turn; in the model turns end at any time.
* In `ProviderLifecycle`: interrupts of a single subagent and their tombstones, fork, rollback, the
  controls of tasks and subagents, answers to approvals, the stop of everything at shutdown, a
  crash in the middle of a call, and starts that time out and leave a process behind. Reports come only in
  the middle of a turn. The idle stop also gives up on a session that is not "ready" or has no
  resume cursor (2653-2673); `IdleLists` does not ask, so the model stops at least where the code does.
* In `RuntimeJournal`: the translation of events into commands and the durable effects of a row that
  fails halfway (their receipts make a repetition harmless; what they do is `CommandEngine`'s
  subject); a row that fails after it has touched the caches in memory is taken to have left them as
  they were; the worker's other inputs (domain events that complete a turn), the size limit
  of rows, a shutdown that arrives before startup has ended, and polls that find nothing. A page
  enters the worker's queue in one step.
* In `SnapshotLiveStream`: the content of events, and several subscriptions of one client; the
  escalation that turns a repeated demand into a slower one is one action with the demand.
* In `ManagedAttachments`: sizes (the quotas count rows), the compaction of deleted rows, the drain at
  shutdown, more jobs than one batch leases, the revert to a checkpoint (which prunes as a
  rollback does), requests interrupted while they write, and forks and handoffs, whose messages
  show files of the source thread.
* Adapters, git, terminals, devices, settings, diagnostics and all views translate and do I/O;
  their notes in PROJECT.json say why they are out or later.

## Plan

The project keeps to a dozen runs, each of which answers a question of its own, so a new
component takes the place of a run that a proof or a wider run has made redundant.

Done: command engine, ledger and stream; snapshot streams; projections; provider
delivery; queued turns; provider lifecycle; runtime journal; managed attachments; the proofs listed above.

Next proofs: `IdleSparesWork`, then `QuietAgrees`, for which the invariant of `ProviderLifecycle` needs a part
about the events a runtime has emitted and the service has not handled yet. On small instances TLC finds no
counterexample to these parts, none of which is stated in a module or proved yet: a start that is pending
for a turn that no longer runs is followed by what settles that turn, before any start of the turn that
does run; a turn or task that runs is known to the row or to `tasks`, or its start is pending; a turn
of the row that does not run has what settles it pending; and while the idle timer is due, or its stop
is owned, no call of the source has passed its wait and the runtime is idle or bound to a turn.

Next modules, in this order:

1. `WsStreamAdmission`: leases of subscriptions, the last one wins, the loser's teardown.
2. Start-up reconciliation and quit resume: a second quit, a crash between claim and resume.
3. Automations and the gateway's creation coordinator: leases, idempotency keys, recovery.
4. The runtime event pump in front of `RuntimeJournal` (an event that cannot be appended).
5. The smaller components of the inventory.
