--------------------------- MODULE ProjectionCatchUp ---------------------------
(***************************************************************************)
(* How the read model follows the log.  A command commits its events with  *)
(* their hot projection in one transaction; the summaries of the shell are *)
(* projected afterwards, event by event, by the same worker.  When that    *)
(* fails, a catch-up fiber replays the log in the background; a repair     *)
(* requested by a user rebuilds the project rows and restores them when it *)
(* fails.  Worker, catch-up and repair exclude each other with the         *)
(* maintenance lock.  The snapshot sequence of every client stream is the  *)
(* minimum of the hot and the summary cursor.                              *)
(***************************************************************************)
EXTENDS Integers, FiniteSets

CONSTANTS MaxSequence,   \* bound: events committed
          MaxBatch,      \* bound: events of one command
          MaxTimeouts,   \* bound: commands interrupted after their commit
          MaxFailures,   \* bound: deferred projections of one event that fail
          MaxReplays,    \* bound: bootstraps that fail
          MaxRepairs,    \* bound: repairs requested
          MaxAborts,     \* bound: repairs interrupted, restores that fail
          MaxRestarts    \* bound: restarts of the process

VARIABLES
  last, summary, project, \* the log: its length, the events of the summaries and of projects
  hot, def, pcur,         \* cursors of the hot phase, of the summaries and of projects
  applied, papplied,      \* the events the summary and the project rows reflect
  dirty, inFlight,        \* deferredProjectionDirty, deferredProjectionCatchUpInFlight
  lock,                   \* who holds maintenanceLock
  wpc, todo,              \* the command worker, and the event its deferred step is at
  cpc,                    \* the catch-up fiber
  rpc, saved,             \* the repair and its backup
  boot,                   \* how far the bootstrap run by the lock's holder is
  count                   \* how often each bounded event happened

logVars  == <<last, summary, project>>
rowVars  == <<hot, def, pcur, applied, papplied>>
flagVars == <<dirty, inFlight>>
vars == <<logVars, rowVars, flagVars, lock, wpc, todo, cpc, rpc, saved, boot, count>>

Missing == -1                                    \* no row in projection_state

Greater(a, b) == IF a > b THEN a ELSE b

Since(cursor, to) == (Greater(cursor, 0) + 1) .. to

Bounds == [timeouts |-> MaxTimeouts, failures |-> MaxFailures, replays |-> MaxReplays,
           repairs |-> MaxRepairs, aborts |-> MaxAborts, restarts |-> MaxRestarts]

ASSUME BoundAssumption == MaxSequence \in Nat /\ \A what \in DOMAIN Bounds : Bounds[what] \in Nat

Occur(what) == /\ count[what] < Bounds[what]
               /\ count' = [count EXCEPT ![what] = @ + 1]

TypeOK ==
  /\ last \in 0 .. MaxSequence
  /\ summary \subseteq 1 .. last /\ project \subseteq (1 .. last) \ summary
  /\ hot \in Missing .. last /\ def \in Missing .. last /\ pcur \in Missing .. last
  /\ applied \subseteq summary /\ papplied \subseteq project
  /\ dirty \in BOOLEAN /\ inFlight \in BOOLEAN
  /\ lock \in {"free", "worker", "catchup", "repair", "startup"}
  /\ wpc \in {"idle", "step", "failed", "schedule", "fork"} /\ todo \in 0 .. last + 1
  /\ cpc \in {"off", "check", "wait", "boot", "clear", "end", "delay"}
  /\ rpc \in {"off", "reset", "boot", "restore"}
  /\ saved \in [hot : Missing .. last, def : Missing .. last, pcur : Missing .. last,
                papplied : SUBSET project]
  /\ boot \in {"none", "projects", "summaries", "done", "failed"}
  /\ count \in [DOMAIN Bounds -> Nat]
  /\ \A what \in DOMAIN Bounds : count[what] <= Bounds[what]

NoBackup == [hot |-> Missing, def |-> Missing, pcur |-> Missing, papplied |-> {}]

Init ==
  /\ last = 0 /\ summary = {} /\ project = {}
  /\ hot = Missing /\ def = Missing /\ pcur = Missing
  /\ applied = {} /\ papplied = {}
  /\ dirty = FALSE /\ inFlight = FALSE
  /\ lock = "free" /\ wpc = "idle" /\ todo = 0 /\ cpc = "off"
  /\ rpc = "off" /\ saved = NoBackup /\ boot = "none"
  /\ count = [what \in DOMAIN Bounds |-> 0]

-----------------------------------------------------------------------------
(* The command worker *)

\* settleDeferredPhaseInHotTransaction: in the transaction of the commit, the summary cursor
\* moves over the events at the start of the batch that no deferred projector selects, and
\* only when it is caught up with the hot cursor.
SettleWhen(caughtUp, new, plain) ==
  IF caughtUp
  THEN CHOOSE d \in new \cup {def} :
         /\ \A e \in new : e <= d => e \in plain
         /\ \A e \in new : (\A q \in new : q <= e => q \in plain) => e <= d
  ELSE def

Settle(new, plain) == SettleWhen(hot # Missing /\ def >= hot, new, plain)

\* A command commits: log, hot rows, hot cursor; a project event moves the project cursor.
Commit ==
  /\ lock = "free" /\ lock' = "worker"
  /\ last' \in (last + 1) .. MaxSequence /\ last' - last <= MaxBatch
  /\ LET new == (last + 1) .. last'
     IN  \E s \in SUBSET new : \E p \in SUBSET (new \ s) :
           /\ summary' = summary \cup s /\ project' = project \cup p
           /\ def' = Settle(new, new \ (s \cup p))
           /\ papplied' = papplied \cup p
           /\ pcur' = IF p = {} THEN pcur ELSE CHOOSE e \in p : \A q \in p : q <= e
           /\ todo' = IF def' > last THEN def' + 1 ELSE last + 1
  /\ hot' = last'
  /\ wpc' = "step"
  /\ UNCHANGED <<applied, flagVars, cpc, rpc, saved, boot, count>>

Step == wpc = "step" /\ todo <= last

\* The dirty flag is up: catch-up will project the event.
StepDirty ==
  /\ Step /\ dirty
  /\ wpc' = "schedule"
  /\ UNCHANGED <<logVars, rowVars, flagVars, lock, todo, cpc, rpc, saved, boot, count>>

\* projectDeferredEvent: the summary row and its cursor in one transaction, or, for an event
\* no deferred projector selects, the cursor alone.
StepProject ==
  /\ Step /\ ~dirty
  /\ def' = Greater(def, todo)
  /\ applied' = applied \cup ({todo} \cap summary)
  /\ todo' = todo + 1
  /\ UNCHANGED <<logVars, hot, pcur, papplied, flagVars, lock, wpc, cpc, rpc, saved, boot,
                 count>>

StepFails ==
  /\ Step /\ ~dirty /\ Occur("failures")
  /\ wpc' = "failed"
  /\ UNCHANGED <<logVars, rowVars, flagVars, lock, todo, cpc, rpc, saved, boot>>

MarkDirty ==
  /\ wpc = "failed"
  /\ dirty' = TRUE
  /\ wpc' = "schedule"
  /\ UNCHANGED <<logVars, rowVars, inFlight, lock, todo, cpc, rpc, saved, boot, count>>

\* scheduleDeferredProjectionCatchUp: test and set inFlight; the winner forks the fiber.
Schedule ==
  /\ wpc = "schedule"
  /\ inFlight' = TRUE
  /\ IF inFlight THEN wpc' = "step" /\ todo' = todo + 1 ELSE wpc' = "fork" /\ UNCHANGED todo
  /\ UNCHANGED <<logVars, rowVars, dirty, lock, cpc, rpc, saved, boot, count>>

Fork ==
  /\ wpc = "fork"
  /\ cpc' = "check"
  /\ wpc' = "step" /\ todo' = todo + 1
  /\ UNCHANGED <<logVars, rowVars, flagVars, lock, rpc, saved, boot, count>>

StepDone ==
  /\ wpc = "step" /\ todo > last
  /\ wpc' = "idle" /\ todo' = 0 /\ lock' = "free"
  /\ UNCHANGED <<logVars, rowVars, flagVars, cpc, rpc, saved, boot, count>>

\* The deadline of the command interrupts the worker after the commit; what follows repairs
\* the decider's model and the publications, and nothing here.
Timeout ==
  /\ wpc # "idle" /\ Occur("timeouts")
  /\ wpc' = "idle" /\ todo' = 0 /\ lock' = "free"
  /\ UNCHANGED <<logVars, rowVars, flagVars, cpc, rpc, saved, boot>>

-----------------------------------------------------------------------------
(* The bootstrap, run by the catch-up fiber, by a repair and at start-up *)

\* Hot projectors replay from their cursors; cursors behind the hot cursor are first moved up
\* to it, because they missed nothing; a projector without a row replays the whole log.
BootProjects ==
  /\ boot = "projects"
  /\ LET from == IF pcur = Missing THEN 0 ELSE Greater(pcur, hot)
     IN  papplied' = papplied \cup (project \cap Since(from, last))
  /\ pcur' = IF last = 0 THEN pcur ELSE last
  /\ boot' = "summaries"
  /\ UNCHANGED <<logVars, hot, def, applied, flagVars, lock, wpc, todo, cpc, rpc, saved, count>>

BootBatchFrom(cursor) ==
  /\ boot = "summaries"
  /\ def' \in Since(def, last)
  /\ applied' = applied \cup (summary \cap Since(cursor, def'))
  /\ UNCHANGED <<logVars, hot, pcur, papplied, flagVars, lock, wpc, todo, cpc, rpc, saved,
                 boot, count>>

BootBatchExclusive == BootBatchFrom(Greater(def, 0) + 1)          \* (mutant)

\* The summaries replay in batches, rows and cursor in one transaction.
BootBatch == BootBatchFrom(def)

\* initializeHotProjectionCursor: the hot cursor is the oldest of the hot projectors.
BootDone ==
  /\ boot = "summaries" /\ Greater(def, 0) = last
  /\ hot' = IF last = 0 THEN hot ELSE Greater(hot, pcur)
  /\ boot' = "done"
  /\ UNCHANGED <<logVars, def, pcur, applied, papplied, flagVars, lock, wpc, todo, cpc, rpc,
                 saved, count>>

BootFails ==
  /\ boot \in {"projects", "summaries"} /\ lock # "startup"
  /\ Occur("replays")
  /\ boot' = "failed"
  /\ UNCHANGED <<logVars, rowVars, flagVars, lock, wpc, todo, cpc, rpc, saved>>

-----------------------------------------------------------------------------
(* The catch-up fiber: while dirty, bootstrap under the lock *)

CheckDirty ==
  /\ cpc = "check"
  /\ cpc' = IF dirty THEN "wait" ELSE "end"
  /\ UNCHANGED <<logVars, rowVars, flagVars, lock, wpc, todo, rpc, saved, boot, count>>

CatchUpBegin ==
  /\ cpc = "wait" /\ lock = "free"
  /\ lock' = "catchup" /\ boot' = "projects" /\ cpc' = "boot"
  /\ UNCHANGED <<logVars, rowVars, flagVars, wpc, todo, rpc, saved, count>>

CatchUpEnd ==
  /\ cpc = "boot" /\ boot \in {"done", "failed"}
  /\ lock' = "free" /\ boot' = "none"
  /\ cpc' = IF boot = "done" THEN "clear" ELSE "delay"
  /\ UNCHANGED <<logVars, rowVars, flagVars, wpc, todo, rpc, saved, count>>

ClearDirty ==
  /\ cpc = "clear"
  /\ dirty' = FALSE
  /\ cpc' = "end"
  /\ UNCHANGED <<logVars, rowVars, inFlight, lock, wpc, todo, rpc, saved, boot, count>>

Retry ==
  /\ cpc = "delay"
  /\ cpc' = "check"
  /\ UNCHANGED <<logVars, rowVars, flagVars, lock, wpc, todo, rpc, saved, boot, count>>

CatchUpExit ==
  /\ cpc = "end"
  /\ inFlight' = FALSE
  /\ cpc' = "off"
  /\ UNCHANGED <<logVars, rowVars, dirty, lock, wpc, todo, rpc, saved, boot, count>>

-----------------------------------------------------------------------------
(* Repair *)

RepairBegin ==
  /\ rpc = "off" /\ lock = "free" /\ Occur("repairs")
  /\ lock' = "repair" /\ rpc' = "reset"
  /\ saved' = [hot |-> hot, def |-> def, pcur |-> pcur, papplied |-> papplied]
  /\ UNCHANGED <<logVars, rowVars, flagVars, wpc, todo, cpc, boot>>

\* resetDerivedProjectionState deletes the project rows and the cursors of the hot phase, the
\* summaries' excepted.
RepairReset ==
  /\ rpc = "reset"
  /\ hot' = Missing /\ pcur' = Missing /\ papplied' = {}
  /\ rpc' = "boot" /\ boot' = "projects"
  /\ UNCHANGED <<logVars, def, applied, flagVars, lock, wpc, todo, cpc, saved, count>>

RepairOver == /\ rpc' = "off" /\ lock' = "free" /\ boot' = "none" /\ saved' = NoBackup

RepairDone ==
  /\ rpc = "boot" /\ boot = "done"
  /\ RepairOver
  /\ UNCHANGED <<logVars, rowVars, flagVars, wpc, todo, cpc, count>>

RepairFails ==
  /\ rpc = "boot" /\ boot = "failed"
  /\ rpc' = "restore"
  /\ UNCHANGED <<logVars, rowVars, flagVars, lock, wpc, todo, cpc, saved, boot, count>>

RestoreCursorsTo(h, p) ==
  /\ rpc = "restore"
  /\ hot' = h /\ def' = saved.def /\ pcur' = saved.pcur /\ papplied' = p
  /\ RepairOver
  /\ UNCHANGED <<logVars, applied, flagVars, wpc, todo, cpc, count>>

RestoreCursorsOnly == RestoreCursorsTo(saved.hot, papplied)       \* (mutant)

Restore == RestoreCursorsTo(saved.hot, saved.papplied)

RestoreFails ==
  /\ rpc = "restore" /\ Occur("aborts")
  /\ RepairOver
  /\ UNCHANGED <<logVars, rowVars, flagVars, wpc, todo, cpc>>

\* The fiber of the request is interrupted: its client is gone.
RepairInterrupted ==
  /\ rpc # "off" /\ Occur("aborts")
  /\ RepairOver
  /\ UNCHANGED <<logVars, rowVars, flagVars, wpc, todo, cpc>>

-----------------------------------------------------------------------------
(* The process *)

Restart ==
  /\ Occur("restarts")
  /\ dirty' = FALSE /\ inFlight' = FALSE
  /\ wpc' = "idle" /\ todo' = 0 /\ cpc' = "off" /\ rpc' = "off" /\ saved' = NoBackup
  /\ lock' = "startup" /\ boot' = "projects"
  /\ UNCHANGED <<logVars, rowVars>>

Started ==
  /\ lock = "startup" /\ boot = "done"
  /\ lock' = "free" /\ boot' = "none"
  /\ UNCHANGED <<logVars, rowVars, flagVars, wpc, todo, cpc, rpc, saved, count>>

Worker  == StepDirty \/ StepProject \/ MarkDirty \/ Schedule \/ Fork \/ StepDone
CatchUp == CheckDirty \/ CatchUpBegin \/ CatchUpEnd \/ ClearDirty \/ Retry \/ CatchUpExit
Boot    == BootProjects \/ BootBatch \/ BootDone
Repair  == RepairReset \/ RepairDone \/ RepairFails \/ Restore
Trouble == StepFails \/ Timeout \/ BootFails \/ RestoreFails \/ RepairInterrupted \/ Restart

Next == Commit \/ Worker \/ Boot \/ CatchUp \/ RepairBegin \/ Repair \/ Started \/ Trouble

Spec == Init /\ [][Next]_vars

-----------------------------------------------------------------------------
(* Properties *)

SummariesApplied == \A e \in summary : e <= def => e \in applied

ProjectsApplied == \A e \in project : e <= pcur \/ e <= hot => e \in papplied

\* "a committed cursor never runs ahead of its committed rows": the rows reflect every event
\* up to their cursor, so that no catch-up passes one over. Restarts, repairs, and repairs
\* that are interrupted or cannot be restored keep it so for the summaries as long as no
\* deferred projection fails and no command is interrupted after its commit; and for the
\* projects, also against the hot cursor that client streams start from, unless a failed
\* repair is interrupted or its restore fails too.
CursorsNeverAhead ==
  /\ count.failures = 0 /\ count.timeouts = 0 => SummariesApplied
  /\ count.aborts = 0 => ProjectsApplied

=============================================================================
