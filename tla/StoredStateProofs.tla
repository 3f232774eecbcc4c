--------------------------- MODULE StoredStateProofs ---------------------------
(***************************************************************************)
(* Theorems about the two components that keep what the store holds in     *)
(* step with the event log: ProjectionCatchUp (Init, Next, Spec), for      *)
(* every length of the log and any number of failures, timeouts, repairs,  *)
(* interruptions and restarts; and ManagedAttachments (FilesInit,          *)
(* FilesNext, FilesSpec), for every set of attachments and of principals,  *)
(* every quota, and every number of messages, events, failures and         *)
(* crashes.  They share no state; each theorem is about one of the two.    *)
(***************************************************************************)
EXTENDS ProjectionCatchUp, ManagedAttachments, TLAPS, WellFoundedInduction

-----------------------------------------------------------------------------
(* ProjectionCatchUp: the cursors and the maintenance lock *)

\* The maintenance lock: each program that holds it is where its holder says, and only a
\* holder that bootstraps has a bootstrap under way.
Holders ==
  /\ wpc # "idle" <=> lock = "worker"
  /\ rpc # "off" <=> lock = "repair"
  /\ cpc = "boot" <=> lock = "catchup"
  /\ boot = "none" <=> lock \in {"free", "worker"} \/ rpc = "reset"
  /\ rpc = "restore" => boot = "failed"

\* The hot cursor is at the end of the log or has no row: it moves with every commit, and
\* only the repair takes it away.
HotAtEnd ==
  /\ hot \in {Missing, last}
  /\ rpc # "off" => saved.hot \in {Missing, last}
  /\ boot \in {"summaries", "done"} /\ last > 0 => pcur = last

StepInLog == wpc \in {"failed", "schedule", "fork"} => todo <= last

CaughtUp(cursor) == Greater(cursor, 0) = last

\* What holds while no deferred projection fails and no command times out: the summaries are
\* caught up with the log whenever the worker does not hold the lock, start-up excepted, and
\* in between the worker is at the event that follows their cursor.
Calm ==
  /\ ~dirty /\ wpc \in {"idle", "step"}
  /\ wpc = "step" => todo = Greater(def, 0) + 1
  /\ lock \in {"free", "repair", "catchup"} => CaughtUp(def)
  /\ rpc # "off" => CaughtUp(saved.def)
  /\ SummariesApplied

\* What holds while no repair is cut short: the hot cursor stands for every project row but
\* in a repair and at start-up, and the backup of a repair holds them all.
Intact ==
  /\ lock \in {"free", "worker", "catchup"} \/ boot = "done" => hot = last \/ last = 0
  /\ rpc # "off" => (saved.hot = last \/ last = 0) /\ project \subseteq saved.papplied
  /\ ProjectsApplied

CatchUpInv ==
  /\ Holders /\ HotAtEnd /\ StepInLog
  /\ boot = "done" => CaughtUp(def)
  /\ count.failures = 0 /\ count.timeouts = 0 => Calm
  /\ count.aborts = 0 => Intact

IInv == TypeOK /\ CatchUpInv


\* The kinds of events that are bounded.
LEMMA KindFacts == DOMAIN Bounds = {"timeouts", "failures", "replays", "repairs", "aborts", "restarts"}
  BY DEF Bounds

\* A bounded event is counted, and no other.
LEMMA OccurFacts ==
  ASSUME TypeOK, NEW what \in DOMAIN Bounds, Occur(what)
  PROVE  /\ count' \in [DOMAIN Bounds -> Nat]
         /\ \A kind \in DOMAIN Bounds : count'[kind] <= Bounds[kind]
         /\ count'[what] # 0
         /\ \A kind \in DOMAIN Bounds : kind # what => count'[kind] = count[kind]
<1>1. count \in [DOMAIN Bounds -> Nat] /\ count'[what] = count[what] + 1
  BY DEF TypeOK, Occur
<1>2. \A kind \in DOMAIN Bounds : kind # what => count'[kind] = count[kind]
  BY <1>1 DEF Occur
<1>3. Bounds[what] \in Nat /\ count[what] \in Nat /\ count[what] < Bounds[what]
  BY <1>1, BoundAssumption DEF Occur
<1>4. \A kind \in DOMAIN Bounds : count'[kind] <= Bounds[kind]
  BY <1>1, <1>2, <1>3 DEF TypeOK
<1>5. count' \in [DOMAIN Bounds -> Nat]
  BY <1>1 DEF Occur
<1>6. count'[what] # 0
  BY <1>1, <1>3
<1>7. QED
  BY <1>2, <1>4, <1>5, <1>6

\* A step of the worker.
LEMMA WorkerStep ==
  ASSUME IInv, StepDirty \/ StepProject \/ MarkDirty \/ Schedule \/ Fork \/ StepDone
  PROVE  IInv'
<1> USE DEF IInv, CatchUpInv, TypeOK, Missing, Greater, Since, logVars, rowVars, flagVars
<1>1. CASE StepDirty
  <2>2. TypeOK'
    BY <1>1 DEF Holders, StepInLog, StepDirty, Step
  <2>3. (Holders /\ HotAtEnd /\ StepInLog /\ (boot = "done" => CaughtUp(def)))'
    BY <1>1 DEF Holders, HotAtEnd, StepInLog, CaughtUp, StepDirty, Step
  <2>4. (count.failures = 0 /\ count.timeouts = 0 => Calm)'
    BY <1>1 DEF Holders, HotAtEnd, Calm, CaughtUp, SummariesApplied, StepDirty, Step
  <2>5. (count.aborts = 0 => Intact)'
    BY <1>1 DEF Holders, HotAtEnd, Intact, ProjectsApplied, StepDirty, Step
  <2>6. QED
    BY <2>2, <2>3, <2>4, <2>5
<1>2. CASE StepProject
  <2>2. TypeOK'
    BY <1>2 DEF Holders, StepInLog, StepProject, Step
  <2>3. (Holders /\ HotAtEnd /\ StepInLog /\ (boot = "done" => CaughtUp(def)))'
    BY <1>2 DEF Holders, HotAtEnd, StepInLog, CaughtUp, StepProject, Step
  <2>4. (count.failures = 0 /\ count.timeouts = 0 => Calm)'
    BY <1>2 DEF Holders, HotAtEnd, Calm, CaughtUp, SummariesApplied, StepProject, Step
  <2>5. (count.aborts = 0 => Intact)'
    BY <1>2 DEF Holders, HotAtEnd, Intact, ProjectsApplied, StepProject, Step
  <2>6. QED
    BY <2>2, <2>3, <2>4, <2>5
<1>3. CASE MarkDirty
  <2>2. TypeOK'
    BY <1>3 DEF Holders, StepInLog, MarkDirty
  <2>3. (Holders /\ HotAtEnd /\ StepInLog /\ (boot = "done" => CaughtUp(def)))'
    BY <1>3 DEF Holders, HotAtEnd, StepInLog, CaughtUp, MarkDirty
  <2>4. (count.failures = 0 /\ count.timeouts = 0 => Calm)'
    BY <1>3 DEF Holders, HotAtEnd, Calm, CaughtUp, SummariesApplied, MarkDirty
  <2>5. (count.aborts = 0 => Intact)'
    BY <1>3 DEF Holders, HotAtEnd, Intact, ProjectsApplied, MarkDirty
  <2>6. QED
    BY <2>2, <2>3, <2>4, <2>5
<1>4. CASE Schedule
  <2>2. TypeOK'
    BY <1>4 DEF Holders, StepInLog, Schedule
  <2>3. (Holders /\ HotAtEnd /\ StepInLog /\ (boot = "done" => CaughtUp(def)))'
    BY <1>4 DEF Holders, HotAtEnd, StepInLog, CaughtUp, Schedule
  <2>4. (count.failures = 0 /\ count.timeouts = 0 => Calm)'
    BY <1>4 DEF Holders, HotAtEnd, Calm, CaughtUp, SummariesApplied, Schedule
  <2>5. (count.aborts = 0 => Intact)'
    BY <1>4 DEF Holders, HotAtEnd, Intact, ProjectsApplied, Schedule
  <2>6. QED
    BY <2>2, <2>3, <2>4, <2>5
<1>5. CASE Fork
  <2>2. TypeOK'
    BY <1>5 DEF Holders, StepInLog, Fork
  <2>3. (Holders /\ HotAtEnd /\ StepInLog /\ (boot = "done" => CaughtUp(def)))'
    BY <1>5 DEF Holders, HotAtEnd, StepInLog, CaughtUp, Fork
  <2>4. (count.failures = 0 /\ count.timeouts = 0 => Calm)'
    BY <1>5 DEF Holders, HotAtEnd, Calm, CaughtUp, SummariesApplied, Fork
  <2>5. (count.aborts = 0 => Intact)'
    BY <1>5 DEF Holders, HotAtEnd, Intact, ProjectsApplied, Fork
  <2>6. QED
    BY <2>2, <2>3, <2>4, <2>5
<1>6. CASE StepDone
  <2>2. TypeOK'
    BY <1>6 DEF Holders, StepInLog, StepDone
  <2>3. (Holders /\ HotAtEnd /\ StepInLog /\ (boot = "done" => CaughtUp(def)))'
    BY <1>6 DEF Holders, HotAtEnd, StepInLog, CaughtUp, StepDone
  <2>4. (count.failures = 0 /\ count.timeouts = 0 => Calm)'
    BY <1>6 DEF Holders, HotAtEnd, Calm, CaughtUp, SummariesApplied, StepDone
  <2>5. (count.aborts = 0 => Intact)'
    BY <1>6 DEF Holders, HotAtEnd, Intact, ProjectsApplied, StepDone
  <2>6. QED
    BY <2>2, <2>3, <2>4, <2>5
<1>7. QED
  BY <1>1, <1>2, <1>3, <1>4, <1>5, <1>6

\* A step of a bootstrap, whoever runs it.
LEMMA BootStep ==
  ASSUME IInv, BootProjects \/ BootBatch \/ BootDone
  PROVE  IInv'
<1> USE DEF IInv, CatchUpInv, TypeOK, Missing, Greater, Since, logVars, rowVars, flagVars
<1>1. CASE BootProjects
  <2>1. pcur' \in Missing .. last' /\ papplied' \subseteq project'
    <3>1. pcur' \in {pcur, last} /\ last' = last /\ project' = project
      BY <1>1 DEF BootProjects
    <3>2. \E new : papplied' = papplied \cup (project \cap new)
      BY ONLY <1>1 DEF BootProjects
    <3>3. papplied \subseteq project /\ pcur \in -1 .. last /\ last \in Nat
      OBVIOUS
    <3>4. QED
      BY ONLY <3>1, <3>2, <3>3 DEF Missing
  <2>2. TypeOK'
    BY <1>1, <2>1 DEF BootProjects
  <2>3. (Holders /\ HotAtEnd /\ StepInLog /\ (boot = "done" => CaughtUp(def)))'
    BY <1>1 DEF Holders, HotAtEnd, StepInLog, CaughtUp, BootProjects
  <2>4. (count.failures = 0 /\ count.timeouts = 0 => Calm)'
    BY <1>1 DEF Holders, HotAtEnd, Calm, CaughtUp, SummariesApplied, BootProjects
  <2>5. (count.aborts = 0 => Intact)'
    BY <1>1 DEF Holders, HotAtEnd, Intact, ProjectsApplied, BootProjects
  <2>6. QED
    BY <2>2, <2>3, <2>4, <2>5
<1>2. CASE BootBatch
  <2>2. TypeOK'
    BY <1>2 DEF Holders, StepInLog, BootBatch, BootBatchFrom
  <2>3. (Holders /\ HotAtEnd /\ StepInLog /\ (boot = "done" => CaughtUp(def)))'
    BY <1>2 DEF Holders, HotAtEnd, StepInLog, CaughtUp, BootBatch, BootBatchFrom
  <2>1. def' \in 1 .. last /\ def' > def /\ def' <= last /\ ~CaughtUp(def)
    BY <1>2 DEF BootBatch, BootBatchFrom, CaughtUp
  <2>7. SummariesApplied => SummariesApplied'
    BY <1>2, <2>1 DEF SummariesApplied, BootBatch, BootBatchFrom
  <2>4. (count.failures = 0 /\ count.timeouts = 0 => Calm)'
    BY <1>2, <2>1, <2>7 DEF Holders, Calm, CaughtUp, BootBatch, BootBatchFrom
  <2>5. (count.aborts = 0 => Intact)'
    BY <1>2 DEF Holders, HotAtEnd, Intact, ProjectsApplied, BootBatch, BootBatchFrom
  <2>6. QED
    BY <2>2, <2>3, <2>4, <2>5
<1>3. CASE BootDone
  <2>2. TypeOK'
    BY <1>3 DEF Holders, StepInLog, BootDone
  <2>3. (Holders /\ HotAtEnd /\ StepInLog /\ (boot = "done" => CaughtUp(def)))'
    BY <1>3 DEF Holders, HotAtEnd, StepInLog, CaughtUp, BootDone
  <2>4. (count.failures = 0 /\ count.timeouts = 0 => Calm)'
    BY <1>3 DEF Holders, HotAtEnd, Calm, CaughtUp, SummariesApplied, BootDone
  <2>5. (count.aborts = 0 => Intact)'
    BY <1>3 DEF Holders, HotAtEnd, Intact, ProjectsApplied, BootDone
  <2>6. QED
    BY <2>2, <2>3, <2>4, <2>5
<1>4. QED
  BY <1>1, <1>2, <1>3

\* A step of the catch-up fiber outside its bootstrap.
LEMMA CatchUpStep ==
  ASSUME IInv, CheckDirty \/ CatchUpBegin \/ CatchUpEnd \/ ClearDirty \/ Retry \/ CatchUpExit
  PROVE  IInv'
<1> USE DEF IInv, CatchUpInv, TypeOK, Missing, Greater, Since, logVars, rowVars, flagVars
<1>1. CASE CheckDirty
  <2>2. TypeOK'
    BY <1>1 DEF Holders, StepInLog, CheckDirty
  <2>3. (Holders /\ HotAtEnd /\ StepInLog /\ (boot = "done" => CaughtUp(def)))'
    BY <1>1 DEF Holders, HotAtEnd, StepInLog, CaughtUp, CheckDirty
  <2>4. (count.failures = 0 /\ count.timeouts = 0 => Calm)'
    BY <1>1 DEF Holders, HotAtEnd, Calm, CaughtUp, SummariesApplied, CheckDirty
  <2>5. (count.aborts = 0 => Intact)'
    BY <1>1 DEF Holders, HotAtEnd, Intact, ProjectsApplied, CheckDirty
  <2>6. QED
    BY <2>2, <2>3, <2>4, <2>5
<1>2. CASE CatchUpBegin
  <2>2. TypeOK'
    BY <1>2 DEF Holders, StepInLog, CatchUpBegin
  <2>3. (Holders /\ HotAtEnd /\ StepInLog /\ (boot = "done" => CaughtUp(def)))'
    BY <1>2 DEF Holders, HotAtEnd, StepInLog, CaughtUp, CatchUpBegin
  <2>4. (count.failures = 0 /\ count.timeouts = 0 => Calm)'
    BY <1>2 DEF Holders, HotAtEnd, Calm, CaughtUp, SummariesApplied, CatchUpBegin
  <2>5. (count.aborts = 0 => Intact)'
    BY <1>2 DEF Holders, HotAtEnd, Intact, ProjectsApplied, CatchUpBegin
  <2>6. QED
    BY <2>2, <2>3, <2>4, <2>5
<1>3. CASE CatchUpEnd
  <2>2. TypeOK'
    BY <1>3 DEF Holders, StepInLog, CatchUpEnd
  <2>3. (Holders /\ HotAtEnd /\ StepInLog /\ (boot = "done" => CaughtUp(def)))'
    BY <1>3 DEF Holders, HotAtEnd, StepInLog, CaughtUp, CatchUpEnd
  <2>4. (count.failures = 0 /\ count.timeouts = 0 => Calm)'
    BY <1>3 DEF Holders, HotAtEnd, Calm, CaughtUp, SummariesApplied, CatchUpEnd
  <2>5. (count.aborts = 0 => Intact)'
    BY <1>3 DEF Holders, HotAtEnd, Intact, ProjectsApplied, CatchUpEnd
  <2>6. QED
    BY <2>2, <2>3, <2>4, <2>5
<1>4. CASE ClearDirty
  <2>2. TypeOK'
    BY <1>4 DEF Holders, StepInLog, ClearDirty
  <2>3. (Holders /\ HotAtEnd /\ StepInLog /\ (boot = "done" => CaughtUp(def)))'
    BY <1>4 DEF Holders, HotAtEnd, StepInLog, CaughtUp, ClearDirty
  <2>4. (count.failures = 0 /\ count.timeouts = 0 => Calm)'
    BY <1>4 DEF Holders, HotAtEnd, Calm, CaughtUp, SummariesApplied, ClearDirty
  <2>5. (count.aborts = 0 => Intact)'
    BY <1>4 DEF Holders, HotAtEnd, Intact, ProjectsApplied, ClearDirty
  <2>6. QED
    BY <2>2, <2>3, <2>4, <2>5
<1>5. CASE Retry
  <2>2. TypeOK'
    BY <1>5 DEF Holders, StepInLog, Retry
  <2>3. (Holders /\ HotAtEnd /\ StepInLog /\ (boot = "done" => CaughtUp(def)))'
    BY <1>5 DEF Holders, HotAtEnd, StepInLog, CaughtUp, Retry
  <2>4. (count.failures = 0 /\ count.timeouts = 0 => Calm)'
    BY <1>5 DEF Holders, HotAtEnd, Calm, CaughtUp, SummariesApplied, Retry
  <2>5. (count.aborts = 0 => Intact)'
    BY <1>5 DEF Holders, HotAtEnd, Intact, ProjectsApplied, Retry
  <2>6. QED
    BY <2>2, <2>3, <2>4, <2>5
<1>6. CASE CatchUpExit
  <2>2. TypeOK'
    BY <1>6 DEF Holders, StepInLog, CatchUpExit
  <2>3. (Holders /\ HotAtEnd /\ StepInLog /\ (boot = "done" => CaughtUp(def)))'
    BY <1>6 DEF Holders, HotAtEnd, StepInLog, CaughtUp, CatchUpExit
  <2>4. (count.failures = 0 /\ count.timeouts = 0 => Calm)'
    BY <1>6 DEF Holders, HotAtEnd, Calm, CaughtUp, SummariesApplied, CatchUpExit
  <2>5. (count.aborts = 0 => Intact)'
    BY <1>6 DEF Holders, HotAtEnd, Intact, ProjectsApplied, CatchUpExit
  <2>6. QED
    BY <2>2, <2>3, <2>4, <2>5
<1>7. QED
  BY <1>1, <1>2, <1>3, <1>4, <1>5, <1>6

\* A step of a repair outside its bootstrap, and the end of start-up.
LEMMA RepairStep ==
  ASSUME IInv, RepairReset \/ RepairDone \/ RepairFails \/ Restore \/ Started
  PROVE  IInv'
<1> USE DEF IInv, CatchUpInv, TypeOK, Missing, Greater, Since, logVars, rowVars, flagVars
<1>1. CASE RepairReset
  <2>2. TypeOK'
    BY <1>1 DEF Holders, StepInLog, RepairReset
  <2>3. (Holders /\ HotAtEnd /\ StepInLog /\ (boot = "done" => CaughtUp(def)))'
    BY <1>1 DEF Holders, HotAtEnd, StepInLog, CaughtUp, RepairReset
  <2>4. (count.failures = 0 /\ count.timeouts = 0 => Calm)'
    BY <1>1 DEF Holders, HotAtEnd, Calm, CaughtUp, SummariesApplied, RepairReset
  <2>5. (count.aborts = 0 => Intact)'
    BY <1>1 DEF Holders, HotAtEnd, Intact, ProjectsApplied, RepairReset
  <2>6. QED
    BY <2>2, <2>3, <2>4, <2>5
<1>2. CASE RepairDone
  <2>2. TypeOK'
    BY <1>2 DEF Holders, StepInLog, RepairDone, RepairOver, NoBackup
  <2>3. (Holders /\ HotAtEnd /\ StepInLog /\ (boot = "done" => CaughtUp(def)))'
    BY <1>2 DEF Holders, HotAtEnd, StepInLog, CaughtUp, RepairDone, RepairOver, NoBackup
  <2>4. (count.failures = 0 /\ count.timeouts = 0 => Calm)'
    BY <1>2 DEF Holders, HotAtEnd, Calm, CaughtUp, SummariesApplied, RepairDone, RepairOver, NoBackup
  <2>5. (count.aborts = 0 => Intact)'
    BY <1>2 DEF Holders, HotAtEnd, Intact, ProjectsApplied, RepairDone, RepairOver, NoBackup
  <2>6. QED
    BY <2>2, <2>3, <2>4, <2>5
<1>3. CASE RepairFails
  <2>2. TypeOK'
    BY <1>3 DEF Holders, StepInLog, RepairFails
  <2>3. (Holders /\ HotAtEnd /\ StepInLog /\ (boot = "done" => CaughtUp(def)))'
    BY <1>3 DEF Holders, HotAtEnd, StepInLog, CaughtUp, RepairFails
  <2>4. (count.failures = 0 /\ count.timeouts = 0 => Calm)'
    BY <1>3 DEF Holders, HotAtEnd, Calm, CaughtUp, SummariesApplied, RepairFails
  <2>5. (count.aborts = 0 => Intact)'
    BY <1>3 DEF Holders, HotAtEnd, Intact, ProjectsApplied, RepairFails
  <2>6. QED
    BY <2>2, <2>3, <2>4, <2>5
<1>4. CASE Restore
  <2>2. TypeOK'
    BY <1>4 DEF Holders, StepInLog, Restore, RestoreCursorsTo, RepairOver, NoBackup
  <2>3. (Holders /\ HotAtEnd /\ StepInLog /\ (boot = "done" => CaughtUp(def)))'
    BY <1>4 DEF Holders, HotAtEnd, StepInLog, CaughtUp, Restore, RestoreCursorsTo, RepairOver, NoBackup
  <2>4. (count.failures = 0 /\ count.timeouts = 0 => Calm)'
    BY <1>4 DEF Holders, HotAtEnd, Calm, CaughtUp, SummariesApplied, Restore, RestoreCursorsTo, RepairOver, NoBackup
  <2>5. (count.aborts = 0 => Intact)'
    BY <1>4 DEF Holders, HotAtEnd, Intact, ProjectsApplied, Restore, RestoreCursorsTo, RepairOver, NoBackup
  <2>6. QED
    BY <2>2, <2>3, <2>4, <2>5
<1>5. CASE Started
  <2>2. TypeOK'
    BY <1>5 DEF Holders, StepInLog, Started
  <2>3. (Holders /\ HotAtEnd /\ StepInLog /\ (boot = "done" => CaughtUp(def)))'
    BY <1>5 DEF Holders, HotAtEnd, StepInLog, CaughtUp, Started
  <2>4. (count.failures = 0 /\ count.timeouts = 0 => Calm)'
    BY <1>5 DEF Holders, HotAtEnd, Calm, CaughtUp, SummariesApplied, Started
  <2>5. (count.aborts = 0 => Intact)'
    BY <1>5 DEF Holders, HotAtEnd, Intact, ProjectsApplied, Started
  <2>6. QED
    BY <2>2, <2>3, <2>4, <2>5
<1>6. QED
  BY <1>1, <1>2, <1>3, <1>4, <1>5

\* The steps that happen a bounded number of times: repairs that begin, failures, timeouts,
\* interruptions and restarts.
LEMMA CountedStep ==
  ASSUME IInv, RepairBegin \/ StepFails \/ Timeout \/ BootFails \/ RestoreFails \/ RepairInterrupted \/ Restart
  PROVE  IInv'
<1> USE DEF IInv, CatchUpInv, TypeOK, Missing, Greater, Since, logVars, rowVars, flagVars
<1>1. CASE RepairBegin
  <2>0. "repairs" \in DOMAIN Bounds /\ Occur("repairs")
    BY <1>1, KindFacts DEF RepairBegin
  <2>1. /\ count' \in [DOMAIN Bounds -> Nat] /\ \A kind \in DOMAIN Bounds : count'[kind] <= Bounds[kind]
        /\ count'.repairs # 0
        /\ \A kind \in {"failures", "timeouts", "aborts"} : kind # "repairs" => count'[kind] = count[kind]
    BY <2>0, OccurFacts, KindFacts
  <2>2. TypeOK'
    BY <1>1, <2>1 DEF Holders, StepInLog, RepairBegin
  <2>3. (Holders /\ HotAtEnd /\ StepInLog /\ (boot = "done" => CaughtUp(def)))'
    BY <1>1 DEF Holders, HotAtEnd, StepInLog, CaughtUp, RepairBegin
  <2>4. (count.failures = 0 /\ count.timeouts = 0 => Calm)'
    BY <1>1, <2>1 DEF Holders, HotAtEnd, Calm, CaughtUp, SummariesApplied, RepairBegin
  <2>5. (count.aborts = 0 => Intact)'
    BY <1>1, <2>1 DEF Holders, HotAtEnd, Intact, ProjectsApplied, RepairBegin
  <2>6. QED
    BY <2>2, <2>3, <2>4, <2>5
<1>2. CASE StepFails
  <2>0. "failures" \in DOMAIN Bounds /\ Occur("failures")
    BY <1>2, KindFacts DEF StepFails
  <2>1. /\ count' \in [DOMAIN Bounds -> Nat] /\ \A kind \in DOMAIN Bounds : count'[kind] <= Bounds[kind]
        /\ count'.failures # 0
        /\ \A kind \in {"failures", "timeouts", "aborts"} : kind # "failures" => count'[kind] = count[kind]
    BY <2>0, OccurFacts, KindFacts
  <2>2. TypeOK'
    BY <1>2, <2>1 DEF Holders, StepInLog, StepFails, Step
  <2>3. (Holders /\ HotAtEnd /\ StepInLog /\ (boot = "done" => CaughtUp(def)))'
    BY <1>2 DEF Holders, HotAtEnd, StepInLog, CaughtUp, StepFails, Step
  <2>4. (count.failures = 0 /\ count.timeouts = 0 => Calm)'
    BY <1>2, <2>1 DEF Holders, HotAtEnd, Calm, CaughtUp, SummariesApplied, StepFails, Step
  <2>5. (count.aborts = 0 => Intact)'
    BY <1>2, <2>1 DEF Holders, HotAtEnd, Intact, ProjectsApplied, StepFails, Step
  <2>6. QED
    BY <2>2, <2>3, <2>4, <2>5
<1>3. CASE Timeout
  <2>0. "timeouts" \in DOMAIN Bounds /\ Occur("timeouts")
    BY <1>3, KindFacts DEF Timeout
  <2>1. /\ count' \in [DOMAIN Bounds -> Nat] /\ \A kind \in DOMAIN Bounds : count'[kind] <= Bounds[kind]
        /\ count'.timeouts # 0
        /\ \A kind \in {"failures", "timeouts", "aborts"} : kind # "timeouts" => count'[kind] = count[kind]
    BY <2>0, OccurFacts, KindFacts
  <2>2. TypeOK'
    BY <1>3, <2>1 DEF Holders, StepInLog, Timeout
  <2>3. (Holders /\ HotAtEnd /\ StepInLog /\ (boot = "done" => CaughtUp(def)))'
    BY <1>3 DEF Holders, HotAtEnd, StepInLog, CaughtUp, Timeout
  <2>4. (count.failures = 0 /\ count.timeouts = 0 => Calm)'
    BY <1>3, <2>1 DEF Holders, HotAtEnd, Calm, CaughtUp, SummariesApplied, Timeout
  <2>5. (count.aborts = 0 => Intact)'
    BY <1>3, <2>1 DEF Holders, HotAtEnd, Intact, ProjectsApplied, Timeout
  <2>6. QED
    BY <2>2, <2>3, <2>4, <2>5
<1>4. CASE BootFails
  <2>0. "replays" \in DOMAIN Bounds /\ Occur("replays")
    BY <1>4, KindFacts DEF BootFails
  <2>1. /\ count' \in [DOMAIN Bounds -> Nat] /\ \A kind \in DOMAIN Bounds : count'[kind] <= Bounds[kind]
        /\ count'.replays # 0
        /\ \A kind \in {"failures", "timeouts", "aborts"} : kind # "replays" => count'[kind] = count[kind]
    BY <2>0, OccurFacts, KindFacts
  <2>2. TypeOK'
    BY <1>4, <2>1 DEF Holders, StepInLog, BootFails
  <2>3. (Holders /\ HotAtEnd /\ StepInLog /\ (boot = "done" => CaughtUp(def)))'
    BY <1>4 DEF Holders, HotAtEnd, StepInLog, CaughtUp, BootFails
  <2>4. (count.failures = 0 /\ count.timeouts = 0 => Calm)'
    BY <1>4, <2>1 DEF Holders, HotAtEnd, Calm, CaughtUp, SummariesApplied, BootFails
  <2>5. (count.aborts = 0 => Intact)'
    BY <1>4, <2>1 DEF Holders, HotAtEnd, Intact, ProjectsApplied, BootFails
  <2>6. QED
    BY <2>2, <2>3, <2>4, <2>5
<1>5. CASE RestoreFails
  <2>0. "aborts" \in DOMAIN Bounds /\ Occur("aborts")
    BY <1>5, KindFacts DEF RestoreFails
  <2>1. /\ count' \in [DOMAIN Bounds -> Nat] /\ \A kind \in DOMAIN Bounds : count'[kind] <= Bounds[kind]
        /\ count'.aborts # 0
        /\ \A kind \in {"failures", "timeouts", "aborts"} : kind # "aborts" => count'[kind] = count[kind]
    BY <2>0, OccurFacts, KindFacts
  <2>2. TypeOK'
    BY <1>5, <2>1 DEF Holders, StepInLog, RestoreFails, RepairOver, NoBackup
  <2>3. (Holders /\ HotAtEnd /\ StepInLog /\ (boot = "done" => CaughtUp(def)))'
    BY <1>5 DEF Holders, HotAtEnd, StepInLog, CaughtUp, RestoreFails, RepairOver, NoBackup
  <2>4. (count.failures = 0 /\ count.timeouts = 0 => Calm)'
    BY <1>5, <2>1 DEF Holders, HotAtEnd, Calm, CaughtUp, SummariesApplied, RestoreFails, RepairOver, NoBackup
  <2>5. (count.aborts = 0 => Intact)'
    BY <1>5, <2>1 DEF Holders, HotAtEnd, Intact, ProjectsApplied, RestoreFails, RepairOver, NoBackup
  <2>6. QED
    BY <2>2, <2>3, <2>4, <2>5
<1>6. CASE RepairInterrupted
  <2>0. "aborts" \in DOMAIN Bounds /\ Occur("aborts")
    BY <1>6, KindFacts DEF RepairInterrupted
  <2>1. /\ count' \in [DOMAIN Bounds -> Nat] /\ \A kind \in DOMAIN Bounds : count'[kind] <= Bounds[kind]
        /\ count'.aborts # 0
        /\ \A kind \in {"failures", "timeouts", "aborts"} : kind # "aborts" => count'[kind] = count[kind]
    BY <2>0, OccurFacts, KindFacts
  <2>2. TypeOK'
    BY <1>6, <2>1 DEF Holders, StepInLog, RepairInterrupted, RepairOver, NoBackup
  <2>3. (Holders /\ HotAtEnd /\ StepInLog /\ (boot = "done" => CaughtUp(def)))'
    BY <1>6 DEF Holders, HotAtEnd, StepInLog, CaughtUp, RepairInterrupted, RepairOver, NoBackup
  <2>4. (count.failures = 0 /\ count.timeouts = 0 => Calm)'
    BY <1>6, <2>1 DEF Holders, HotAtEnd, Calm, CaughtUp, SummariesApplied, RepairInterrupted, RepairOver, NoBackup
  <2>5. (count.aborts = 0 => Intact)'
    BY <1>6, <2>1 DEF Holders, HotAtEnd, Intact, ProjectsApplied, RepairInterrupted, RepairOver, NoBackup
  <2>6. QED
    BY <2>2, <2>3, <2>4, <2>5
<1>7. CASE Restart
  <2>0. "restarts" \in DOMAIN Bounds /\ Occur("restarts")
    BY <1>7, KindFacts DEF Restart
  <2>1. /\ count' \in [DOMAIN Bounds -> Nat] /\ \A kind \in DOMAIN Bounds : count'[kind] <= Bounds[kind]
        /\ count'.restarts # 0
        /\ \A kind \in {"failures", "timeouts", "aborts"} : kind # "restarts" => count'[kind] = count[kind]
    BY <2>0, OccurFacts, KindFacts
  <2>7. todo' \in 0 .. last' + 1 /\ saved' \in [hot : Missing .. last', def : Missing .. last', pcur : Missing .. last',
                                               papplied : SUBSET project']
    BY <1>7 DEF Restart, NoBackup
  <2>2. TypeOK'
    BY <1>7, <2>1, <2>7 DEF Restart
  <2>3. (Holders /\ HotAtEnd /\ StepInLog /\ (boot = "done" => CaughtUp(def)))'
    BY <1>7 DEF Holders, HotAtEnd, StepInLog, CaughtUp, Restart, NoBackup
  <2>4. (count.failures = 0 /\ count.timeouts = 0 => Calm)'
    BY <1>7, <2>1 DEF Holders, HotAtEnd, Calm, CaughtUp, SummariesApplied, Restart, NoBackup
  <2>5. (count.aborts = 0 => Intact)'
    BY <1>7, <2>1 DEF Holders, HotAtEnd, Intact, ProjectsApplied, Restart, NoBackup
  <2>6. QED
    BY <2>2, <2>3, <2>4, <2>5
<1>8. QED
  BY <1>1, <1>2, <1>3, <1>4, <1>5, <1>6, <1>7


\* A set of numbers has a smallest element, and one with a bound a largest.
LEMMA Smallest == ASSUME NEW S \in SUBSET Nat, S # {} PROVE \E m \in S : \A e \in S : e >= m
<1>1. PICK m \in S : \A e \in S : <<e, m>> \notin OpToRel(<, Nat)
  BY NatLessThanWellFounded, WFMin
<1>2. ASSUME NEW e \in S PROVE e >= m
  <2>1. e \in Nat /\ m \in Nat
    OBVIOUS
  <2>2. ~(e < m)
    BY <1>1, <2>1 DEF OpToRel
  <2>3. QED
    BY <2>1, <2>2
<1>3. QED
  BY <1>2

LEMMA Largest ==
  ASSUME NEW top \in Nat, NEW S \in SUBSET (0 .. top), S # {}
  PROVE  \E m \in S : \A e \in S : e <= m
<1> DEFINE rest == {top - e : e \in S}
<1>0. \A e \in S : top - e \in Nat
  OBVIOUS
<1>1. rest \in SUBSET Nat /\ rest # {}
  BY <1>0
<1>2. PICK r \in rest : \A q \in rest : q >= r
  BY <1>1, Smallest
<1>3. PICK m \in S : r = top - m
  OBVIOUS
<1>4. ASSUME NEW e \in S PROVE e <= m
  <2>1. top - e \in rest
    OBVIOUS
  <2>2. top - e >= top - m
    BY <1>2, <1>3, <2>1
  <2>3. QED
    BY <2>2
<1>5. QED
  BY <1>4

\* The cursor of the summaries moves over plain events only: it stays, or it was at the end of
\* the log and every event it moves over is plain.
LEMMA SettleFacts ==
  ASSUME IInv, NEW n \in Nat, n > last, NEW plain \in SUBSET ((last + 1) .. n)
  PROVE  LET d == Settle((last + 1) .. n, plain)
         IN  \/ d = def
             \/ /\ def = last /\ d \in (last + 1) .. n
                /\ \A e \in (last + 1) .. d : e \in plain
<1> DEFINE new == (last + 1) .. n
           odd == {e \in new : e \notin plain}
           Right(d) == /\ \A e \in new : e <= d => e \in plain
                       /\ \A e \in new : (\A q \in new : q <= e => q \in plain) => e <= d
<1>0. last \in Nat /\ def \in Int /\ hot \in Int /\ def <= last /\ hot \in {Missing, last} /\ Missing = -1
  BY DEF IInv, TypeOK, CatchUpInv, HotAtEnd, Missing
<1>1. CASE ~(hot # Missing /\ def >= hot)
  BY <1>1 DEF Settle, SettleWhen
<1>2. CASE hot # Missing /\ def >= hot
  <2>1. def = last
    BY <1>0, <1>2
  <2>2. Settle(new, plain) = CHOOSE d \in new \cup {def} : Right(d)
    BY <1>2 DEF Settle, SettleWhen
  <2>3. \E d \in new \cup {def} : Right(d)
    <3>1. CASE odd = {}
      <4>1. n \in new /\ Right(n)
        BY <1>0, <3>1
      <4>2. QED
        BY <4>1
    <3>2. CASE odd # {}
      <4>1. PICK first \in odd : \A e \in odd : e >= first
        <5>1. odd \in SUBSET Nat
          BY <1>0
        <5>2. QED
          BY <3>2, <5>1, Smallest
      <4>2. first - 1 \in new \cup {def} /\ Right(first - 1)
        BY <1>0, <2>1, <4>1
      <4>3. QED
        BY <4>2
    <3>3. QED
      BY <3>1, <3>2
  <2>4. PICK d \in new \cup {def} : d = Settle(new, plain) /\ Right(d)
    BY <2>2, <2>3
  <2>5. d = def \/ (d \in new /\ \A e \in (last + 1) .. d : e \in plain)
    BY <1>0, <2>4
  <2>6. QED
    BY <2>1, <2>4, <2>5
<1>3. QED
  BY <1>1, <1>2

\* A command commits.
LEMMA CommitStep ==
  ASSUME IInv, Commit
  PROVE  IInv'
<1>0. /\ last \in Nat /\ last' \in Nat /\ last' > last /\ last' <= MaxSequence /\ lock = "free"
      /\ hot' = last' /\ wpc' = "step" /\ lock' = "worker"
      /\ UNCHANGED <<applied, dirty, inFlight, cpc, rpc, saved, boot, count>>
  BY BoundAssumption DEF IInv, TypeOK, Commit, flagVars
<1> DEFINE new == (last + 1) .. last'
<1>1. PICK s \in SUBSET new, p \in SUBSET new :
        /\ p \cap s = {}
        /\ summary' = summary \cup s /\ project' = project \cup p
        /\ def' = Settle(new, new \ (s \cup p))
        /\ papplied' = papplied \cup p
        /\ pcur' = IF p = {} THEN pcur ELSE CHOOSE e \in p : \A q \in p : q <= e
        /\ todo' = IF def' > last THEN def' + 1 ELSE last + 1
  BY DEF Commit
<1>2. \/ def' = def
      \/ def = last /\ def' \in new /\ \A e \in (last + 1) .. def' : e \in new \ (s \cup p)
  BY <1>0, <1>1, SettleFacts
<1>3. def' \in Missing .. last' /\ def' >= def /\ todo' \in 0 .. last' + 1
  BY <1>0, <1>1, <1>2 DEF IInv, TypeOK, Missing
<1>4. pcur' \in Missing .. last'
  <2>1. CASE p = {}
    BY <1>0, <1>1, <2>1 DEF IInv, TypeOK, Missing
  <2>2. CASE p # {}
    <3>1. \E m \in p : \A q \in p : q <= m
      <4>1. p \in SUBSET (0 .. last')
        BY <1>0
      <4>2. QED
        BY <1>0, <2>2, <4>1, Largest
    <3>7. pcur' \in p
      BY <1>1, <2>2, <3>1
    <3>8. QED
      BY <1>0, <3>7 DEF Missing
  <2>3. QED
    BY <2>1, <2>2
<1>5. TypeOK'
  <2>1. /\ summary' \subseteq 1 .. last' /\ project' \subseteq (1 .. last') \ summary'
        /\ applied' \subseteq summary' /\ papplied' \subseteq project'
    BY <1>0, <1>1 DEF IInv, TypeOK
  <2>2. saved' \in [hot : Missing .. last', def : Missing .. last', pcur : Missing .. last',
                    papplied : SUBSET project']
    BY <1>0, <1>1 DEF IInv, TypeOK, Missing
  <2>3. count' \in [DOMAIN Bounds -> Nat] /\ \A what \in DOMAIN Bounds : count'[what] <= Bounds[what]
    BY <1>0 DEF IInv, TypeOK
  <2>4. last' \in 0 .. MaxSequence /\ hot' \in Missing .. last'
    BY <1>0, BoundAssumption DEF Missing
  <2>5. QED
    BY <1>0, <1>3, <1>4, <2>1, <2>2, <2>3, <2>4 DEF IInv, TypeOK
<1>6. (Holders /\ HotAtEnd /\ StepInLog /\ (boot = "done" => CaughtUp(def)))'
  BY <1>0 DEF IInv, CatchUpInv, Holders, HotAtEnd, StepInLog
<1>7. SummariesApplied => SummariesApplied'
  <2> SUFFICES ASSUME SummariesApplied, NEW e \in summary', e <= def' PROVE e \in applied'
    BY DEF SummariesApplied
  <2>1. e \in summary
    <3> SUFFICES ASSUME e \in s PROVE FALSE
      BY <1>1
    <3>1. e \in new /\ e > last /\ def <= last
      BY <1>0, <1>1 DEF IInv, TypeOK, Missing
    <3>2. CASE def' = def
      BY <1>0, <3>1, <3>2 DEF IInv, TypeOK, Missing
    <3>3. CASE def' \in new /\ \A q \in (last + 1) .. def' : q \in new \ (s \cup p)
      BY <1>0, <3>1, <3>3
    <3>4. QED
      BY <1>2, <3>2, <3>3
  <2>2. e <= def
    BY <1>0, <1>2, <2>1 DEF IInv, TypeOK
  <2>3. QED
    BY <1>0, <2>1, <2>2 DEF SummariesApplied
<1>8. (count.failures = 0 /\ count.timeouts = 0 => Calm)'
  <2> SUFFICES ASSUME Calm PROVE Calm'
    BY <1>0 DEF IInv, CatchUpInv
  <2>1. CaughtUp(def)
    BY <1>0 DEF Calm
  <2>2. todo' = Greater(def', 0) + 1
    BY <1>0, <1>1, <1>2, <2>1 DEF IInv, TypeOK, Missing, CaughtUp, Greater
  <2>3. QED
    BY <1>0, <1>7, <2>2 DEF IInv, CatchUpInv, Holders, Calm
<1>9. (count.aborts = 0 => Intact)'
  <2> SUFFICES ASSUME Intact PROVE Intact'
    BY <1>0 DEF IInv, CatchUpInv
  <2>1. project \subseteq papplied
    BY <1>0 DEF IInv, TypeOK, Intact, ProjectsApplied
  <2>2. QED
    BY <1>0, <1>1, <2>1 DEF IInv, CatchUpInv, Holders, Intact, ProjectsApplied
<1>10. QED
  BY <1>5, <1>6, <1>8, <1>9 DEF IInv, CatchUpInv

\* The invariant holds at first.
LEMMA InitStep == Init => IInv
<1> SUFFICES ASSUME Init PROVE IInv
  OBVIOUS
<1>1. TypeOK
  <2>1. count \in [DOMAIN Bounds -> Nat] /\ \A what \in DOMAIN Bounds : count[what] <= Bounds[what]
    BY BoundAssumption DEF Init
  <2>2. saved \in [hot : Missing .. last, def : Missing .. last, pcur : Missing .. last, papplied : SUBSET project]
    BY DEF Init, NoBackup, Missing
  <2>3. last \in 0 .. MaxSequence /\ hot \in Missing .. last
    BY BoundAssumption DEF Init, Missing
  <2>4. /\ summary \subseteq 1 .. last /\ project \subseteq (1 .. last) \ summary
        /\ applied \subseteq summary /\ papplied \subseteq project /\ todo \in 0 .. last + 1
        /\ def \in Missing .. last /\ pcur \in Missing .. last
    BY DEF Init, Missing
  <2>5. QED
    BY <2>1, <2>2, <2>3, <2>4 DEF Init, TypeOK
<1>2. Holders /\ HotAtEnd /\ StepInLog /\ (boot = "done" => CaughtUp(def))
  BY DEF Init, Holders, HotAtEnd, StepInLog
<1>3. Calm /\ Intact
  BY DEF Init, Calm, Intact, CaughtUp, Greater, Missing, SummariesApplied, ProjectsApplied
<1>4. QED
  BY <1>1, <1>2, <1>3 DEF IInv, CatchUpInv

\* Every step preserves the invariant.
LEMMA NextStep == IInv /\ [Next]_vars => IInv'
<1> SUFFICES ASSUME IInv, [Next]_vars PROVE IInv'
  OBVIOUS
<1>1. CASE Next
  BY <1>1, CommitStep, WorkerStep, BootStep, CatchUpStep, RepairStep, CountedStep
     DEF Next, Worker, CatchUp, Boot, Repair, Trouble
<1>2. CASE UNCHANGED vars
  <2>1. TypeOK'
    BY <1>2 DEF IInv, TypeOK, vars, logVars, rowVars, flagVars
  <2>2. CatchUpInv'
    BY <1>2 DEF IInv, CatchUpInv, vars, logVars, rowVars, flagVars, Holders, HotAtEnd, StepInLog, Calm,
                Intact, CaughtUp, SummariesApplied, ProjectsApplied
  <2>3. QED
    BY <2>1, <2>2 DEF IInv
<1>3. QED
  BY <1>1, <1>2

\* The inductive invariant of the read model: who holds the lock, where the cursors are meanwhile,
\* and which rows there are.
THEOREM InductiveInvariant == Spec => []IInv
BY InitStep, NextStep, PTL DEF Spec

\* Every state the read model can be in is well typed.
THEOREM TypeCorrect == Spec => []TypeOK
BY InductiveInvariant, PTL DEF IInv

\* A committed cursor never runs ahead of its rows: whatever the lengths of the log and of its
\* batches, and however commits, catch-ups, repairs and restarts interleave, the rows of the
\* summaries and of the projects reflect every event up to their cursors, and those of the
\* projects every event up to the hot cursor, with the two exceptions the property names.
THEOREM RowsReflectCursors == Spec => []CursorsNeverAhead
<1>1. IInv => CursorsNeverAhead
  BY DEF IInv, CatchUpInv, Calm, Intact, CursorsNeverAhead
<1>2. QED
  BY <1>1, InductiveInvariant, PTL

\* As long as no repair is cut short, the project rows reflect the whole log whenever neither
\* start-up nor a repair holds the lock, whatever failed or timed out before: the snapshot
\* sequence, which is never above the hot cursor, skips no project event.
THEOREM HotCursorVouchesForProjects ==
  Spec => [](count.aborts = 0 /\ lock \in {"free", "worker", "catchup"} => project \subseteq papplied)
<1>1. IInv => (count.aborts = 0 /\ lock \in {"free", "worker", "catchup"} => project \subseteq papplied)
  BY DEF IInv, TypeOK, CatchUpInv, Intact, ProjectsApplied
<1>2. QED
  BY <1>1, InductiveInvariant, PTL

-----------------------------------------------------------------------------
(* ManagedAttachments: the rows and the disk *)

\* The types of the rows, the jobs, the files and the requests.
Recorded ==
    /\ blob \in [Attachments -> Blobs]
    /\ job \in [Attachments -> [tries : Nat, hold : {"free", "leased", "waiting"}] \union {NoJob}]
    /\ file \in [Attachments -> {"none", "part", "renamed", "durable"}]
    /\ upload \in [Attachments -> {"idle", "body", "written", "renamed", "synced"}]
    /\ work \in [Attachments -> {"none", "part", "final", "settle"}]
    /\ editing = NoEdit \/ editing.message \in Messages

\* A job exists exactly while its row is deleting, and the sweep works on existing jobs.
JobsOfDeleting ==
    \A a \in Attachments :
        /\ (job[a] # NoJob) <=> blob[a].state = "deleting"
        /\ work[a] # "none" => job[a] # NoJob

\* A row that a request still uploads is not staged yet, and unless the row was cancelled
\* the file is as far as the request knows.
UploadsKnow ==
    \A a \in Attachments :
        /\ upload[a] # "idle" => blob[a].state \notin {"staged", "claimed"}
        /\ blob[a].state = "uploading" =>
            /\ upload[a] = "renamed" => file[a] = "renamed"
            /\ upload[a] = "synced" => file[a] = "durable"

DiskInv == Recorded /\ JobsOfDeleting /\ UploadsKnow /\ StoredMeansDurable

\* What is marked gets a job, and nothing else moves.
LEMMA MarkFacts ==
    ASSUME DiskInv, NEW S, MarkDeleting(S)
    PROVE  /\ blob' \in [Attachments -> Blobs]
           /\ job' \in [Attachments -> [tries : Nat, hold : {"free", "leased", "waiting"}] \union {NoJob}]
           /\ \A a \in Attachments : a \in S => blob'[a].state = "deleting" /\ job'[a] # NoJob
           /\ \A a \in Attachments : a \notin S => blob'[a] = blob[a] /\ job'[a] = job[a]
           /\ \A a \in Attachments : job[a] # NoJob => job'[a] = job[a]
<1>1. [tries |-> 0, hold |-> "free"] \in [tries : Nat, hold : {"free", "leased", "waiting"}]
      /\ [tries |-> 0, hold |-> "free"] # NoJob
  BY DEF NoJob
<1>2. \A a \in Attachments : [blob[a] EXCEPT !.state = "deleting"] \in Blobs
                             /\ [blob[a] EXCEPT !.state = "deleting"].state = "deleting"
  BY DEF DiskInv, Recorded, Blobs
<1>3. \A a \in Attachments : /\ blob'[a] \in Blobs
                             /\ a \in S => blob'[a].state = "deleting"
                             /\ a \notin S => blob'[a] = blob[a]
  BY <1>2 DEF DiskInv, Recorded, MarkDeleting
<1>4. \A a \in Attachments : /\ job'[a] = job[a] \/ (a \in S /\ job[a] = NoJob)
                             /\ a \in S => job'[a] # NoJob
                             /\ job'[a] \in [tries : Nat, hold : {"free", "leased", "waiting"}] \union {NoJob}
  BY <1>1 DEF DiskInv, Recorded, MarkDeleting
<1>5. QED
  BY <1>3, <1>4 DEF MarkDeleting

\* Rows that are marked deleting take nothing from the disk.
LEMMA MarkOnly ==
    ASSUME DiskInv, NEW S, MarkDeleting(S), UNCHANGED <<file, work>>,
           upload' \in [Attachments -> {"idle", "body", "written", "renamed", "synced"}],
           \A a \in Attachments : upload'[a] \in {upload[a], "idle"},
           editing' = NoEdit \/ editing'.message \in Messages
    PROVE  DiskInv'
BY MarkFacts DEF DiskInv, Recorded, JobsOfDeleting, UploadsKnow, StoredMeansDurable, InState

\* A cancellation marks at most its own row.
LEMMA CancelFacts ==
    ASSUME DiskInv, NEW a \in Attachments, CancelStaged(a)
    PROVE  MarkDeleting({a} \intersect Cancellable)
BY DEF CancelStaged

\* A step of the request that uploads an attachment, or of the one that cancels it.
LEMMA UploadStep ==
    ASSUME DiskInv, NEW x \in Attachments, Upload(x)
    PROVE  DiskInv'
<1> USE DEF sweep, server
<1>0. CASE Reserve(x)
  <2>1. /\ blob' \in [Attachments -> Blobs] /\ blob'[x].state = "uploading"
        /\ \A a \in Attachments : a # x => blob'[a] = blob[a]
        /\ upload' \in [Attachments -> {"idle", "body", "written", "renamed", "synced"}]
        /\ upload'[x] = "body" /\ \A a \in Attachments : a # x => upload'[a] = upload[a]
    BY <1>0 DEF Reserve, DiskInv, Recorded, Blobs
  <2>2. job[x] = NoJob /\ UNCHANGED <<job, file, work, editing>>
    BY <1>0 DEF Reserve, DiskInv, JobsOfDeleting
  <2>3. QED
    BY <2>1, <2>2 DEF DiskInv, Recorded, JobsOfDeleting, UploadsKnow, StoredMeansDurable, InState
<1>1. CASE Disconnect(x) \/ WritePart(x) \/ Rename(x) \/ SyncDirectories(x)
  BY <1>1 DEF Disconnect, WritePart, Rename, SyncDirectories, DiskInv, Recorded,
              JobsOfDeleting, UploadsKnow, StoredMeansDurable, InState
<1>2. CASE RefuseBody(x)
  BY <1>2, MarkOnly, CancelFacts DEF RefuseBody, DiskInv, Recorded
<1>3. CASE Cancel(x)
  BY <1>3, MarkOnly, CancelFacts DEF Cancel, DiskInv, Recorded
<1>4. CASE FailWrite(x)
  <2>1. MarkDeleting({x} \intersect Cancellable) /\ UNCHANGED <<work, editing>>
    BY <1>4, CancelFacts DEF FailWrite
  <2>2. /\ upload' \in [Attachments -> {"idle", "body", "written", "renamed", "synced"}]
        /\ upload'[x] = "idle" /\ \A a \in Attachments : a # x => upload'[a] = upload[a]
        /\ file' \in [Attachments -> {"none", "part", "renamed", "durable"}]
        /\ \A a \in Attachments : a # x => file'[a] = file[a]
        /\ file[x] = "durable" => file'[x] = "durable"
    BY <1>4 DEF FailWrite, DiskInv, Recorded
  <2>3. QED
    BY <2>1, <2>2, MarkFacts DEF DiskInv, Recorded, JobsOfDeleting, UploadsKnow, StoredMeansDurable, InState
<1>5. CASE Finalize(x)
  <2>1. CASE Finalizable(x)
    <3>0. /\ blob' = [blob EXCEPT ![x] = [[blob[x] EXCEPT !.state = "staged"] EXCEPT !.late = FALSE]]
          /\ [[blob[x] EXCEPT !.state = "staged"] EXCEPT !.late = FALSE] \in Blobs
          /\ [[blob[x] EXCEPT !.state = "staged"] EXCEPT !.late = FALSE].state = "staged"
      <4> DEFINE q == [blob[x] EXCEPT !.state = "staged"]
      <4>1. blob' = [blob EXCEPT ![x] = [q EXCEPT !.late = FALSE]]
        BY <1>5, <2>1 DEF Finalize, DiskInv, Recorded
      <4>2. q \in Blobs /\ q.state = "staged"
        BY DEF DiskInv, Recorded, Blobs
      <4> HIDE DEF q
      <4>3. [q EXCEPT !.late = FALSE] \in Blobs
        BY <4>2 DEF Blobs
      <4>4. [q EXCEPT !.late = FALSE].state = "staged"
        BY <4>2 DEF Blobs
      <4>5. QED
        BY <4>1, <4>3, <4>4 DEF q
    <3>1. /\ blob' \in [Attachments -> Blobs] /\ blob'[x].state = "staged"
          /\ \A a \in Attachments : a # x => blob'[a] = blob[a]
          /\ upload' \in [Attachments -> {"idle", "body", "written", "renamed", "synced"}]
          /\ upload'[x] = "idle" /\ \A a \in Attachments : a # x => upload'[a] = upload[a]
      BY <1>5, <3>0 DEF Finalize, DiskInv, Recorded
    <3>2. /\ UNCHANGED <<job, file, work, editing>>
          /\ upload[x] = "synced" /\ blob[x].state = "uploading" /\ file[x] = "durable" /\ job[x] = NoJob
      BY <1>5, <2>1 DEF Finalize, Finalizable, DiskInv, JobsOfDeleting, UploadsKnow
    <3>3. Recorded' /\ JobsOfDeleting'
      BY <3>1, <3>2 DEF DiskInv, Recorded, JobsOfDeleting
    <3>4. UploadsKnow' /\ StoredMeansDurable'
      BY <3>1, <3>2 DEF DiskInv, UploadsKnow, StoredMeansDurable, InState
    <3>5. QED
      BY <3>3, <3>4 DEF DiskInv
  <2>2. CASE ~Finalizable(x)
    BY <1>5, <2>2, MarkOnly, CancelFacts DEF Finalize, DiskInv, Recorded
  <2>3. QED
    BY <2>1, <2>2
<1>6. QED
  BY <1>0, <1>1, <1>2, <1>3, <1>4, <1>5 DEF Upload

\* A turn that is accepted claims only rows whose bytes are durable.
LEMMA AcceptStep ==
    ASSUME DiskInv, NEW principal, NEW m \in Messages, NEW as, AcceptTurn(principal, m, as),
           UNCHANGED <<job, file, upload, work>>,
           editing' = NoEdit \/ editing'.message \in Messages
    PROVE  DiskInv'
BY DEF AcceptTurn, Claimable, DiskInv, Recorded, Blobs, JobsOfDeleting, UploadsKnow, StoredMeansDurable,
       InState

\* Turns, rollbacks, edits, the deletion of the thread and a repair.
LEMMA TurnsStep ==
    ASSUME DiskInv, Turns
    PROVE  DiskInv'
<1> USE DEF sweep
<1>0. editing = NoEdit \/ editing.message \in Messages
  BY DEF DiskInv, Recorded
<1>1. ASSUME NEW as \in Drafts, NEW p \in {Owner[a] : a \in Attachments}, StartTurn(p, as) PROVE DiskInv'
  <2>1. NextMessage \in Messages /\ AcceptTurn(p, NextMessage, as)
    BY <1>1 DEF StartTurn
  <2>2. UNCHANGED <<job, file, upload, work, editing>>
    BY <1>1 DEF StartTurn
  <2>3. QED
    BY <1>0, <2>1, <2>2, AcceptStep
<1>2. ASSUME NEW m \in Messages, Rollback(m) PROVE DiskInv'
  BY <1>0, <1>2, MarkOnly DEF Rollback, DiskInv, Recorded
<1>3. ASSUME NEW live \in BOOLEAN, EditRollback(live) PROVE DiskInv'
  BY <1>3 DEF EditRollback, DiskInv, Recorded, JobsOfDeleting, UploadsKnow, StoredMeansDurable, InState
<1>4. CASE EditResend
  BY <1>0, <1>4, AcceptStep DEF EditResend
<1>5. CASE EditRefused
  BY <1>5 DEF EditRefused, NoEdit, DiskInv, Recorded, JobsOfDeleting, UploadsKnow, StoredMeansDurable, InState
<1>6. CASE DeleteThread
  BY <1>0, <1>6, MarkOnly DEF DeleteThread, DiskInv, Recorded
<1>7. CASE RepairRows
  BY <1>0, <1>7, MarkOnly DEF RepairRows, DiskInv, Recorded
<1>8. QED
  BY <1>1, <1>2, <1>3, <1>4, <1>5, <1>6, <1>7 DEF Turns

\* A step of the sweep, or of the clock.
LEMMA SweepStep ==
    ASSUME DiskInv,
           \/ Sweep \/ SweepBreaks
           \/ \E a \in Attachments : TimePasses(a) \/ JobComesDue(a) \/ FailUnlink(a)
    PROVE  DiskInv'
<1> USE DEF server, sweep
<1>1. CASE SweepMark
  BY <1>1, MarkOnly DEF SweepMark, DiskInv, Recorded
<1>2. CASE SweepLease
  <2>1. \A a \in Attachments : job[a] # NoJob => /\ [job[a] EXCEPT !.hold = "leased"] # NoJob
          /\ [job[a] EXCEPT !.hold = "leased"] \in [tries : Nat, hold : {"free", "leased", "waiting"}]
    BY DEF DiskInv, Recorded, NoJob
  <2>2. \A a \in Attachments :
          /\ job'[a] \in [tries : Nat, hold : {"free", "leased", "waiting"}] \union {NoJob}
          /\ job'[a] # NoJob <=> job[a] # NoJob
          /\ work'[a] \in {"part", "none"} /\ (work'[a] = "part" => job[a] # NoJob)
    BY <1>2, <2>1 DEF SweepLease, Leasable, DiskInv, Recorded
  <2>3. Recorded' /\ JobsOfDeleting'
    BY <1>2, <2>2 DEF SweepLease, DiskInv, Recorded, JobsOfDeleting
  <2>4. UploadsKnow' /\ StoredMeansDurable'
    BY <1>2 DEF SweepLease, DiskInv, UploadsKnow, StoredMeansDurable, InState
  <2>5. QED
    BY <2>3, <2>4 DEF DiskInv
<1>3. CASE SweepEnd \/ SweepBreaks
  BY <1>3 DEF SweepEnd, SweepBreaks, DiskInv, Recorded, JobsOfDeleting, UploadsKnow, StoredMeansDurable, InState
<1>4. ASSUME NEW x \in Attachments, UnlinkPart(x) \/ UnlinkFinal(x) PROVE DiskInv'
  BY <1>4 DEF UnlinkPart, UnlinkFinal, DiskInv, Recorded, JobsOfDeleting, UploadsKnow, StoredMeansDurable, InState
<1>5. ASSUME NEW x \in Attachments, SettleJob(x) PROVE DiskInv'
  <2>1. /\ blob' \in [Attachments -> Blobs] /\ blob'[x].state = "deleted"
        /\ job' = [job EXCEPT ![x] = NoJob] /\ work' = [work EXCEPT ![x] = "none"]
        /\ \A a \in Attachments : a # x => blob'[a] = blob[a]
        /\ UNCHANGED <<file, upload, editing>>
    BY <1>5 DEF SettleJob, DiskInv, Recorded, Blobs
  <2>2. QED
    BY <2>1 DEF DiskInv, Recorded, JobsOfDeleting, UploadsKnow, StoredMeansDurable, InState
<1>6. ASSUME NEW x \in Attachments, TimePasses(x) PROVE DiskInv'
  <2>1. /\ blob' \in [Attachments -> Blobs] /\ blob'[x].state = blob[x].state
        /\ \A a \in Attachments : a # x => blob'[a] = blob[a]
        /\ UNCHANGED <<job, file, upload, work, editing>>
    BY <1>6 DEF TimePasses, DiskInv, Recorded, Blobs
  <2>2. QED
    BY <2>1 DEF DiskInv, Recorded, JobsOfDeleting, UploadsKnow, StoredMeansDurable, InState
<1>7. ASSUME NEW x \in Attachments, JobComesDue(x) \/ FailUnlink(x) PROVE DiskInv'
  <2>1. job[x] # NoJob
    BY <1>7 DEF JobComesDue, ComesDue, FailUnlink, DiskInv, JobsOfDeleting
  <2>2. job[x] \in [tries : Nat, hold : {"free", "leased", "waiting"}]
    BY <2>1 DEF DiskInv, Recorded
  <2>3. /\ job' = [job EXCEPT ![x] = job'[x]]
        /\ job'[x] \in [tries : Nat, hold : {"free", "leased", "waiting"}]
    BY <1>7, <2>2 DEF JobComesDue, FailUnlink, DiskInv, Recorded
  <2>4. /\ UNCHANGED <<blob, file, upload, editing>>
        /\ work' \in [Attachments -> {"none", "part", "final", "settle"}]
        /\ \A a \in Attachments : work'[a] \in {work[a], "none"}
    BY <1>7 DEF JobComesDue, FailUnlink, DiskInv, Recorded
  <2>6. job'[x] # NoJob /\ \A a \in Attachments : a # x => job'[a] = job[a]
    <3>1. job'[x].hold # "no job" /\ NoJob.hold = "no job"
      BY <2>3 DEF NoJob
    <3>2. \A a \in Attachments : a # x => job'[a] = job[a]
      BY <2>3 DEF DiskInv, Recorded
    <3>3. QED
      BY <3>1, <3>2
  <2>7. job' \in [Attachments -> [tries : Nat, hold : {"free", "leased", "waiting"}] \union {NoJob}]
    BY <2>3 DEF DiskInv, Recorded
  <2>5. QED
    BY <2>1, <2>6, <2>7, <2>4 DEF DiskInv, Recorded, JobsOfDeleting, UploadsKnow, StoredMeansDurable, InState
<1>8. QED
  BY <1>1, <1>2, <1>3, <1>4, <1>5, <1>6, <1>7 DEF Sweep, SweepJob

\* A crash takes unsynced bytes, never durable ones.
LEMMA CrashStep == ASSUME DiskInv, Crash PROVE DiskInv'
BY DEF Crash, NoEdit, DiskInv, Recorded, JobsOfDeleting, UploadsKnow, StoredMeansDurable, InState

LEMMA DiskInit == FilesInit => DiskInv
BY DEF FilesInit, NoEdit, NoMessage, DiskInv, Recorded, Blobs, JobsOfDeleting, UploadsKnow, StoredMeansDurable, InState

LEMMA DiskNext == ASSUME DiskInv, [FilesNext]_filesVars PROVE DiskInv'
<1>1. CASE FilesNext
  BY <1>1, UploadStep, TurnsStep, SweepStep, CrashStep DEF FilesNext
<1>2. CASE UNCHANGED filesVars
  BY <1>2 DEF filesVars, server, sweep, DiskInv, Recorded, JobsOfDeleting, UploadsKnow, StoredMeansDurable, InState
<1>3. QED
  BY <1>1, <1>2

\* The inductive invariant of the rows, the jobs and the files.
THEOREM DiskInvariant == FilesSpec => []DiskInv
BY DiskInit, DiskNext, PTL DEF FilesSpec

\* A row that a message can use, or does, has its bytes at their final path and durable there,
\* whatever uploads, cancellations, expiries, sweeps, turns, repairs and crashes interleave.
THEOREM StoredIsDurable == FilesSpec => []StoredMeansDurable
BY DiskInvariant, PTL DEF DiskInv

-----------------------------------------------------------------------------
(* ManagedAttachments: the rows and the messages *)

AttachmentsKnown ==
    /\ \A m \in DOMAIN rows : rows[m].attachments \subseteq Attachments
    /\ editing.attachments \subseteq Attachments

RowsInv == AttachmentsKnown /\ ReferencedKept

\* A repair replays the log over the message rows and ends with the rows it found.
FaithfulRepair == RepairRows => rows' = rows

\* A step that leaves the claimed rows and the messages alone.
LEMMA ClaimsStay ==
    ASSUME DiskInv, RowsInv, UNCHANGED <<rows, editing, deleted, repaired>>,
           \A a \in Attachments : blob[a].state = "claimed" => blob'[a] = blob[a]
    PROVE  RowsInv'
BY DEF RowsInv, AttachmentsKnown, ReferencedKept

\* The rows of a thread after an upsert.
LEMMA UpsertFacts ==
    ASSUME NEW messages, NEW event
    PROVE  /\ DOMAIN Upsert(messages, event) = DOMAIN messages \union {event.message}
           /\ Upsert(messages, event)[event.message].attachments = event.attachments
           /\ \A m \in DOMAIN messages : m # event.message => Upsert(messages, event)[m] = messages[m]
BY DEF Upsert

\* What a rollback keeps is a part of the messages as they were.
LEMMA BeforeFacts ==
    ASSUME NEW messages, NEW m
    PROVE  /\ DOMAIN Before(messages, m) \subseteq DOMAIN messages
           /\ \A k \in DOMAIN Before(messages, m) : Before(messages, m)[k] = messages[k]
BY DEF Before, Restrict

\* A turn that is accepted takes no file from another message.
LEMMA AcceptKeeps ==
    ASSUME DiskInv, RowsInv, NEW principal, NEW m, NEW as \in SUBSET Attachments, AcceptTurn(principal, m, as),
           editing'.attachments \subseteq Attachments, UNCHANGED <<deleted, repaired>>
    PROVE  RowsInv'
<1>1. /\ DOMAIN rows' = DOMAIN rows \union {m} /\ rows'[m].attachments = as
      /\ \A k \in DOMAIN rows : k # m => rows'[k] = rows[k]
  <2> DEFINE event == Sent(m, as)
  <2>1. event.message = m /\ event.attachments = as
    BY DEF Sent
  <2>2. rows' = Upsert(rows, event)
    BY DEF AcceptTurn
  <2> HIDE DEF event
  <2>3. QED
    BY ONLY <2>1, <2>2, UpsertFacts
<1>2. AttachmentsKnown'
  BY <1>1 DEF RowsInv, AttachmentsKnown
<1>3. \A a \in as : blob'[a].state = "claimed" /\ blob'[a].message = m
  BY DEF AcceptTurn
<1>4. \A a \in Attachments : blob[a].state = "claimed" => blob'[a] = blob[a] \/ blob[a].message = m
  BY DEF AcceptTurn, Claimable
<1>5. ASSUME ~deleted, NEW k \in DOMAIN rows, k # m, NEW a \in rows[k].attachments \ repaired
      PROVE  blob'[a].state = "claimed" /\ blob'[a].message = k
  BY <1>4, <1>5 DEF RowsInv, AttachmentsKnown, ReferencedKept
<1>6. ReferencedKept'
  BY <1>1, <1>3, <1>5 DEF ReferencedKept
<1>7. QED
  BY <1>2, <1>6 DEF RowsInv

\* What a rollback marks, no message that stays uses.
LEMMA RollbackKeeps ==
    ASSUME DiskInv, RowsInv, NEW m \in Messages, Rollback(m)
    PROVE  RowsInv'
<1>1. MarkDeleting(Unreferenced(AttachmentsOf(rows'))) /\ UNCHANGED <<editing, deleted, repaired>>
  BY DEF Rollback
<1>2. DOMAIN rows' \subseteq DOMAIN rows /\ \A k \in DOMAIN rows' : rows'[k] = rows[k]
  BY BeforeFacts DEF Rollback
<1>3. ASSUME NEW k \in DOMAIN rows', NEW a \in rows'[k].attachments \ repaired, a \in Attachments
      PROVE  blob'[a] = blob[a]
  BY <1>1, <1>3, MarkFacts DEF Unreferenced, AttachmentsOf
<1>4. QED
  BY <1>1, <1>2, <1>3 DEF RowsInv, AttachmentsKnown, ReferencedKept

\* Turns, rollbacks, edits and a repair leave the files of the messages that stay claimed.
LEMMA TurnsKeep ==
    ASSUME DiskInv, RowsInv, Turns, FaithfulRepair
    PROVE  RowsInv'
<1>1. ASSUME NEW as \in Drafts, NEW p, StartTurn(p, as) PROVE RowsInv'
  BY <1>1, AcceptKeeps, DraftAssumption DEF StartTurn, RowsInv, AttachmentsKnown
<1>2. ASSUME NEW m \in Messages, Rollback(m) PROVE RowsInv'
  BY <1>2, RollbackKeeps
<1>3. ASSUME NEW live \in BOOLEAN, EditRollback(live) PROVE RowsInv'
  <2>1. PICK m \in DOMAIN rows : /\ editing' = [message |-> m, attachments |-> rows[m].attachments]
                                 /\ rows' = rows \/ rows' = Before(rows, m)
    BY <1>3 DEF EditRollback
  <2>2. UNCHANGED <<blob, deleted, repaired>>
    BY <1>3 DEF EditRollback
  <2>3. DOMAIN rows' \subseteq DOMAIN rows /\ \A k \in DOMAIN rows' : rows'[k] = rows[k]
    BY <2>1, BeforeFacts
  <2>4. QED
    BY <2>1, <2>2, <2>3 DEF RowsInv, AttachmentsKnown, ReferencedKept
<1>4. CASE EditResend
  BY <1>4, AcceptKeeps DEF EditResend, NoEdit, RowsInv, AttachmentsKnown
<1>5. CASE EditRefused
  BY <1>5 DEF EditRefused, NoEdit, RowsInv, AttachmentsKnown, ReferencedKept
<1>6. CASE DeleteThread
  BY <1>6 DEF DeleteThread, RowsInv, AttachmentsKnown, ReferencedKept
<1>7. CASE RepairRows
  <2>1. PICK marked : MarkDeleting(marked) /\ repaired' = repaired \union marked
    BY <1>7 DEF RepairRows
  <2>2. UNCHANGED <<rows, editing, deleted>>
    BY <1>7 DEF RepairRows, FaithfulRepair
  <2>3. \A a \in Attachments \ repaired' : blob'[a] = blob[a]
    BY <2>1, MarkFacts
  <2>4. QED
    BY <2>1, <2>2, <2>3 DEF RowsInv, AttachmentsKnown, ReferencedKept
<1>8. QED
  BY <1>1, <1>2, <1>3, <1>4, <1>5, <1>6, <1>7 DEF Turns

\* No step of an upload, of the sweep or of the clock touches a claimed row, and no crash does.
LEMMA OthersKeep ==
    ASSUME DiskInv, RowsInv,
           \/ \E a \in Attachments : Upload(a) \/ TimePasses(a) \/ JobComesDue(a) \/ FailUnlink(a)
           \/ Sweep \/ SweepBreaks \/ Crash
    PROVE  RowsInv'
<1> USE DEF server, sweep
<1>1. ASSUME NEW x \in Attachments, Upload(x) PROVE RowsInv'
  <2>1. UNCHANGED <<rows, editing, deleted, repaired>>
    BY <1>1 DEF Upload, Reserve, RefuseBody, Disconnect, WritePart, Rename, SyncDirectories, FailWrite, Finalize, Cancel
  <2>2. CASE CancelStaged(x)
    <3>1. \A a \in Attachments : blob[a].state = "claimed" => a \notin {x} \intersect Cancellable
      BY DEF Cancellable, InState
    <3>2. \A a \in Attachments : blob[a].state = "claimed" => blob'[a] = blob[a]
      BY <2>2, <3>1, MarkFacts, CancelFacts
    <3>3. QED
      BY <2>1, <3>2, ClaimsStay
  <2>3. CASE ~CancelStaged(x)
    <3>1. /\ \A a \in Attachments : a # x => blob'[a] = blob[a]
          /\ blob[x].state = "claimed" => blob'[x] = blob[x]
      BY <1>1, <2>3
         DEF DiskInv, Recorded, Upload, Reserve, RefuseBody, Disconnect, WritePart, Rename, SyncDirectories, FailWrite, Finalize,
             Finalizable, Cancel
    <3>2. QED
      BY <2>1, <3>1, ClaimsStay
  <2>4. QED
    BY <2>2, <2>3
<1>2. ASSUME NEW x \in Attachments, TimePasses(x) \/ JobComesDue(x) \/ FailUnlink(x) PROVE RowsInv'
  BY <1>2, ClaimsStay DEF TimePasses, JobComesDue, FailUnlink, DiskInv, Recorded
<1>3. CASE SweepMark
  <2>1. \A a \in Attachments : blob[a].state = "claimed" => a \notin Expired
    BY DEF Expired, InState
  <2>2. QED
    BY <1>3, <2>1, MarkFacts, ClaimsStay DEF SweepMark
<1>4. CASE SweepLease \/ SweepEnd \/ SweepBreaks
  BY <1>4, ClaimsStay DEF SweepLease, SweepEnd, SweepBreaks
<1>5. ASSUME NEW x \in Attachments, SweepJob(x) PROVE RowsInv'
  <2>1. blob'[x] = blob[x] \/ blob[x].state = "deleting"
    BY <1>5 DEF SweepJob, UnlinkPart, UnlinkFinal, SettleJob, DiskInv, JobsOfDeleting
  <2>2. /\ UNCHANGED <<rows, editing, deleted, repaired>>
        /\ \A a \in Attachments : a # x => blob'[a] = blob[a]
    BY <1>5 DEF SweepJob, UnlinkPart, UnlinkFinal, SettleJob, DiskInv, Recorded
  <2>3. QED
    BY <2>1, <2>2, ClaimsStay
<1>6. CASE Crash
  BY <1>6 DEF Crash, NoEdit, RowsInv, AttachmentsKnown, ReferencedKept
<1>7. QED
  BY <1>1, <1>2, <1>3, <1>4, <1>5, <1>6 DEF Sweep

LEMMA RowsNext == ASSUME DiskInv, RowsInv, [FilesNext]_filesVars, [FaithfulRepair]_filesVars PROVE RowsInv'
<1>1. CASE UNCHANGED filesVars
  BY <1>1 DEF filesVars, server, sweep, RowsInv, AttachmentsKnown, ReferencedKept
<1>2. CASE FilesNext /\ FaithfulRepair
  BY <1>2, TurnsKeep, OthersKeep DEF FilesNext
<1>3. QED
  BY <1>1, <1>2

LEMMA RowsInit == FilesInit => RowsInv
BY DEF FilesInit, NoEdit, RowsInv, AttachmentsKnown, ReferencedKept

\* A file that a message of the thread shows is claimed by that message: as long as repairs end
\* with the message rows they found, no cancellation, expiry, rollback, edit, sweep or crash marks
\* it for deletion, and of the repairs none but those the history names.
THEOREM ReferencedFilesStay == FilesSpec /\ [][FaithfulRepair]_filesVars => []ReferencedKept
<1>1. DiskInv /\ RowsInv /\ [FilesNext]_filesVars /\ [FaithfulRepair]_filesVars => RowsInv'
  BY RowsNext
<1>2. RowsInv => ReferencedKept
  BY DEF RowsInv
<1>3. QED
  BY <1>1, <1>2, RowsInit, DiskInvariant, PTL DEF FilesSpec
================================================================================
