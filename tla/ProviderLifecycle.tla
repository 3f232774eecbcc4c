------------------------- MODULE ProviderLifecycle -------------------------
(***************************************************************************)
(* The provider runtime of one thread.  ProviderService starts, replaces,  *)
(* recovers and stops it; the coordinator serialises these mutations with  *)
(* a lock and gives each a fresh generation, which the runtime stamps on   *)
(* its events.  A pump per provider drops the events of any generation but *)
(* the current one and applies the others to the thread's binding, which   *)
(* says whose runtime it is, under which generation, and which turn runs.  *)
(*                                                                         *)
(* Six fibers call in: the delivery source, one command at a time; a       *)
(* client that compacts; the deletion of the thread; the reaper; the       *)
(* rotation of a retired gateway credential; and the idle stop that a      *)
(* timer fires.  A step is what runs between two awaits.                   *)
(***************************************************************************)
EXTENDS Naturals, Sequences, FiniteSets

CONSTANTS Providers,  \* names of the adapters
          Kinds,      \* the calls in use, members of CallKinds
          Faults,     \* the faults in use: "fail" (a provider call), "stop" (the exit of a
                      \* process stays unproven), "write" (a binding), "dies" (a runtime),
                      \* "unnamed" (an end or an error does not name its turn), and the
                      \* reports of a runtime
          Retires,    \* may a turn retire the gateway credential of its runtime?
          MaxCalls,   \* bound: calls, apart from rotations and idle stops
          MaxTurns,   \* bound: turns
          MaxTasks,   \* bound: background tasks, which also count among the unusual
          MaxUnusual  \* bound: faults and background tasks

Source == {"start", "send", "interrupt", "restart", "clear"}
CallKinds == Source \cup {"compact", "stop", "reap"}
\* Reports that clear the active turn: session.state.changed to "ready" or "error", and
\* thread.state.changed to "error", are "session.ready"; session.state.changed to "stopped" is
\* "session.stopped"; thread.state.changed to "archived" or "closed" is "thread.closed".
Reports == {"runtime.error", "session.ready", "session.stopped", "thread.closed"}
Fibers == {"source", "client", "deleter", "reaper", "rotator", "idle"}

\* Those that call in this instance: the others take no step.
Callers == {"source", "idle"} \cup {f \in {"client"} : "compact" \in Kinds}
           \cup {f \in {"deleter"} : "stop" \in Kinds} \cup {f \in {"reaper"} : "reap" \in Kinds}
           \cup {f \in {"rotator"} : Retires}

ASSUME ProvidersAssumption == Providers # {} /\ "none" \notin Providers
ASSUME KindsAssumption == Kinds \subseteq CallKinds
ASSUME FaultsAssumption == Faults \subseteq {"fail", "stop", "write", "dies", "unnamed"} \cup Reports
ASSUME RetiresAssumption == Retires \in BOOLEAN
ASSUME BoundsAssumption == {MaxCalls, MaxTurns, MaxTasks, MaxUnusual} \subseteq Nat

VARIABLES
    lock,        \* the fiber that holds the lifecycle lock of the thread, or "free"
    current,     \* currentGenerations: the published generation, or None
    gens,        \* generations minted so far
    session,     \* the adapters: the runtime each provider has for the thread
    binding,     \* provider_session_runtime: the row of the thread
    events,      \* runtime events each adapter has emitted
    pump,        \* the event each pump has accepted and not yet applied
    idle,        \* the idle timer, and what the running idle stop still owns
    tasks,       \* liveRuntimeTaskIds
    fence,       \* providerInterruptionFences: "none", "open" or "failed"
    dispatch,    \* the turn dispatch in flight: "none", "open", "void" after an exit
    outstanding, \* outstandingTurnIds
    retained,    \* successfulResults: the newest one, or NoResult
    recent,      \* recentlyCompletedTurnsByThread
    call,        \* the call of each fiber
    turns, begun, calls, faults, \* history: turns, background tasks, calls, faults so far
    haunted,     \* history: a dispatch remembered its turn after the exit that voided it
    missed,      \* history: the generations of which an event was missed that begins or ends a turn,
                 \* begins a task or ends the runtime, whose runtime took over a dispatch, or
                 \* whose thread was reported closed
    erased       \* history: the turns that were active when a report cleared the active turn

lifecycle == <<lock, current, gens>>
turnState == <<dispatch, outstanding, retained, recent>>
history   == <<turns, begun, calls, faults, haunted, missed, erased>>
vars == <<lifecycle, session, binding, events, pump, idle, tasks, fence, turnState, call, history>>

None == 0       \* no generation
Legacy == 1     \* the generation of a row written without one
NoTurn == 0
NoTask == 0

NoSession == [state |-> "none", gen |-> None, turn |-> NoTurn, tasks |-> {},
              retired |-> FALSE, suspect |-> FALSE]
NoBinding == [provider |-> "none", gen |-> None, turn |-> NoTurn, status |-> "stopped",
              rotation |-> FALSE, cursor |-> FALSE]
NoEvent == [type |-> "none", turn |-> NoTurn, task |-> NoTask, gen |-> None, retired |-> FALSE]
NoResult == [provider |-> "none", turn |-> NoTurn]
NoCall == [kind |-> "none", pc |-> "done", provider |-> "none", gen |-> None, prev |-> None,
           turn |-> NoTurn, snap |-> NoBinding, displaced |-> FALSE, replaces |-> FALSE,
           switches |-> FALSE, locked |-> FALSE]

Bound == binding # NoBinding
Live(p) == session[p].state = "live"
BoundLive == Bound /\ Live(binding.provider)

----------------------------------------------------------------------------
(* Fibers.  Faults and background tasks share a bound. *)

At(f, pc) == call[f].pc = pc
Go(f, pc) == call' = [call EXCEPT ![f] = IF pc = "end" THEN NoCall ELSE [@ EXCEPT !.pc = pc]]
Unusual == faults + begun < MaxUnusual
Fault(kind) == kind \in Faults /\ Unusual /\ faults' = faults + 1
NoFault == UNCHANGED faults

(* Where a fiber goes on after a recovery or a stop of its runtime. *)
Raise(f) ==
    CASE call[f].kind = "send" -> "send.fail"
      [] call[f].kind = "compact" -> "compact.fail"
      [] call[f].kind = "interrupt" -> "interrupt.fail"
      [] call[f].kind = "idle" -> "idle.fail"
      [] OTHER -> "end"
Recovered(f) ==
    CASE call[f].kind = "send" -> "send.turn"
      [] call[f].kind = "compact" -> "compact.adapter"
      [] OTHER -> "end"
Resumed(f, p) == IF Recovered(f) = "end" THEN NoCall
                 ELSE [NoCall EXCEPT !.kind = call[f].kind, !.displaced = call[f].displaced,
                                     !.provider = p, !.pc = Recovered(f)]
Stopped(f) == IF call[f].kind = "interrupt" THEN "interrupt.done" ELSE "end"

(* withThreadLock. *)
Acquire(f) == lock = "free" /\ lock' = f
Release == lock' = "free"

(* run: publish a fresh generation at once; the end of the run keeps one it  *)
(* owns and puts the previous one back otherwise.                            *)
EnterRun(f, from, to) ==
    /\ At(f, from) /\ Acquire(f)
    /\ gens' = gens + 1 /\ current' = gens'
    /\ call' = [call EXCEPT ![f].pc = to, ![f].gen = gens', ![f].prev = current]
LeaveRun(f, generation) ==
    /\ Release /\ UNCHANGED gens
    /\ current' = IF current = call[f].gen THEN generation ELSE current
Rewind(f) == LeaveRun(f, call[f].prev)

(* History: a row that is written for a fresh runtime, or for none, owes nothing  *)
(* to what was missed or cleared of the one before.                               *)
Forgets == missed' = missed \ {binding.gen} /\ erased' = {}

(* directory.upsert: the row keeps what a write omits, if the provider is the same. *)
Upserted(p) ==
    IF binding.provider = p THEN binding
    ELSE [NoBinding EXCEPT !.provider = p, !.gen = Legacy, !.status = "running"]

----------------------------------------------------------------------------
(* The idle timer.  A new generation disowns the timer and the running stop. *)

Cleared == [timer |-> "off", due |-> FALSE, owned |-> FALSE, cleanup |-> FALSE]
Scheduled(live) == IF live # {} THEN Cleared ELSE [Cleared EXCEPT !.timer = "armed"]
Retired == [Cleared EXCEPT !.timer = IF idle.timer = "off" THEN "off" ELSE "stale", !.due = idle.due]
IdleStopInFlight == call["idle"] # NoCall
Displaced == IdleStopInFlight \/ idle.timer # "off"

(* runIdleSensitiveProviderWork, when its work fails. *)
AfterFailure(displaced) == IF displaced THEN Scheduled(tasks) ELSE Retired

----------------------------------------------------------------------------
(* The adapters, as the service uses them.  A stopped runtime can no longer *)
(* be routed to; it is gone once its exit is proven.                        *)

Emit(p, es) == events' = [events EXCEPT ![p] = @ \o es]
Event(type, t, p) == [NoEvent EXCEPT !.type = type, !.turn = t, !.gen = session[p].gen]
TaskEvent(type, task, p) == [Event(type, NoTurn, p) EXCEPT !.task = task]
ExitOf(p) == IF Live(p) THEN <<Event("session.exited", NoTurn, p)>> ELSE <<>>

AdapterStop(p) ==
    /\ session' = [session EXCEPT ![p] = NoSession]
    /\ Emit(p, ExitOf(p))
AdapterStopFails(p) ==
    /\ session[p].state # "none" /\ Fault("stop")
    /\ session' = [session EXCEPT ![p] = [NoSession EXCEPT !.state = "closed"]]
    /\ Emit(p, ExitOf(p))

(* startSession replaces the runtime the thread has.  Its failure, or the    *)
(* service's deadline for it, leaves none behind.                            *)
AdapterStart(p, generation) ==
    /\ session' = [session EXCEPT ![p] = [NoSession EXCEPT !.state = "live", !.gen = generation]]
    /\ Emit(p, Append(ExitOf(p), [NoEvent EXCEPT !.type = "session.started", !.gen = generation]))
AdapterStartFails(p) == Fault("fail") /\ AdapterStop(p)

(* A turn ends, and takes the gateway credential with it if it asks for that. *)
TurnEnds(p) ==
    /\ Live(p) /\ session[p].turn # NoTurn
    /\ \E retires \in {FALSE, Retires}, t \in {session[p].turn, NoTurn} :
        /\ IF t = NoTurn THEN Fault("unnamed") ELSE NoFault
        /\ session' = [session EXCEPT ![p].turn = NoTurn, ![p].retired = @ \/ retires]
        /\ Emit(p, <<[Event("turn.completed", t, p) EXCEPT !.retired = retires]>>)
    /\ UNCHANGED <<lifecycle, binding, pump, idle, tasks, fence, turnState, call, turns, begun, calls, haunted, missed, erased>>

TaskBegins(p) ==
    /\ begun < MaxTasks /\ Unusual /\ begun' = begun + 1
    /\ Live(p) /\ session[p].turn # NoTurn
    /\ session' = [session EXCEPT ![p].tasks = @ \cup {begun'}]
    /\ Emit(p, <<TaskEvent("task.started", begun', p)>>)
    /\ UNCHANGED <<lifecycle, binding, pump, idle, tasks, fence, turnState, call, turns, calls, faults, haunted, missed, erased>>
TaskEnds(p) ==
    /\ Live(p)
    /\ \E task \in session[p].tasks :
        /\ session' = [session EXCEPT ![p].tasks = @ \ {task}]
        /\ Emit(p, <<TaskEvent("task.completed", task, p)>>)
    /\ UNCHANGED <<lifecycle, binding, pump, idle, tasks, fence, turnState, call, history>>

(* In the middle of a turn a runtime reports an error or a new state. *)
Report(p) ==
    /\ Live(p) /\ session[p].turn # NoTurn
    /\ \E type \in Reports, t \in {session[p].turn, NoTurn} :
        /\ Fault(type)
        /\ IF type = "runtime.error" THEN t # NoTurn \/ "unnamed" \in Faults ELSE t = NoTurn
        /\ Emit(p, <<Event(type, t, p)>>)
    /\ UNCHANGED <<lifecycle, session, binding, pump, idle, tasks, fence, turnState, call, turns, begun, calls, haunted, missed, erased>>

Dies(p) ==
    /\ Live(p) /\ Fault("dies")
    /\ AdapterStop(p)
    /\ UNCHANGED <<lifecycle, binding, pump, idle, tasks, fence, turnState, call, turns, begun, calls, haunted, missed, erased>>

----------------------------------------------------------------------------
(* startSession, for provider p.  It alone lifts a failed interruption fence. *)

Calls(f, kind) == kind \in Kinds /\ call[f] = NoCall /\ calls < MaxCalls /\ calls' = calls + 1

StartCalled(p) ==
    /\ Calls("source", "start") /\ fence # "open"
    /\ idle' = Cleared
    /\ call' = [call EXCEPT !["source"] =
        [NoCall EXCEPT !.kind = "start", !.pc = "start.wait", !.provider = p,
                       !.replaces = fence = "failed"]]
    /\ UNCHANGED <<lifecycle, session, binding, events, pump, tasks, fence, turnState, turns, begun, faults, haunted, missed, erased>>

StartEnters(f) ==
    /\ ~IdleStopInFlight
    /\ EnterRun(f, "start.wait", "start.route")
    /\ UNCHANGED <<session, binding, events, pump, idle, tasks, fence, turnState, history>>

StartRoutesOver(f) ==                                          \* (mutant)
    /\ At(f, "start.route")
    /\ call' = [call EXCEPT ![f].snap = binding, ![f].pc = "start.adapter"]
    /\ UNCHANGED <<lifecycle, session, binding, events, pump, idle, tasks, fence, turnState, history>>

(* A switch of provider stops the old runtime before it starts the new one. *)
StartRoutes(f) ==
    /\ At(f, "start.route")
    /\ call' = [call EXCEPT ![f].snap = binding,
        ![f].pc = IF BoundLive /\ binding.provider # call[f].provider
                  THEN "start.stop" ELSE "start.adapter"]
    /\ UNCHANGED <<lifecycle, session, binding, events, pump, idle, tasks, fence, turnState, history>>

StartStopsOld(f) ==
    /\ At(f, "start.stop")
    /\ \/ /\ AdapterStop(call[f].snap.provider) /\ NoFault
          /\ call' = [call EXCEPT ![f].pc = "start.adapter", ![f].switches = TRUE]
          /\ UNCHANGED lifecycle
       \/ /\ AdapterStopFails(call[f].snap.provider)
          /\ Go(f, "end") /\ Rewind(f)
    /\ UNCHANGED <<binding, pump, idle, tasks, fence, turnState, turns, begun, calls, haunted, missed, erased>>

StartStarts(f) ==
    /\ At(f, "start.adapter")
    /\ \/ AdapterStart(call[f].provider, call[f].gen) /\ NoFault
          /\ Go(f, "start.persist") /\ UNCHANGED lifecycle
       \/ /\ AdapterStartFails(call[f].provider)
          /\ IF call[f].switches THEN Go(f, "start.restore") /\ UNCHANGED lifecycle
             ELSE Go(f, "end") /\ Rewind(f)
    /\ UNCHANGED <<binding, pump, idle, tasks, fence, turnState, turns, begun, calls, haunted, missed, erased>>

(* upsertSessionBinding of what startSession returned, a runtime without a turn. *)
Started(p, generation) ==
    [Upserted(p) EXCEPT !.gen = generation, !.turn = NoTurn, !.status = "running", !.cursor = TRUE]
StartPersists(f) ==
    /\ At(f, "start.persist")
    /\ \/ /\ NoFault
          /\ binding' = [Started(call[f].provider, call[f].gen) EXCEPT !.rotation = FALSE]
          /\ fence' = IF call[f].replaces /\ fence = "failed" THEN "none" ELSE fence
          /\ Go(f, "end") /\ LeaveRun(f, call[f].gen) /\ Forgets
       \/ /\ Fault("write") /\ UNCHANGED <<binding, fence, missed, erased>>
          /\ IF call[f].switches THEN Go(f, "start.undo") /\ UNCHANGED lifecycle
             ELSE Go(f, "end") /\ Rewind(f)
    /\ UNCHANGED <<session, events, pump, idle, tasks, turnState, turns, begun, calls, haunted>>

(* A failed switch retires the replacement and restores the old runtime under *)
(* its own generation.                                                        *)
StartUndoes(f) ==
    /\ At(f, "start.undo")
    /\ \/ /\ AdapterStop(call[f].provider) /\ NoFault
          /\ Go(f, "start.restore") /\ UNCHANGED lifecycle
       \/ AdapterStopFails(call[f].provider) /\ Go(f, "end") /\ Rewind(f)
    /\ UNCHANGED <<binding, pump, idle, tasks, fence, turnState, turns, begun, calls, haunted, missed, erased>>
StartRestores(f) ==
    /\ At(f, "start.restore")
    /\ \/ /\ AdapterStart(call[f].snap.provider, call[f].snap.gen) /\ NoFault
          /\ Go(f, "start.restored") /\ UNCHANGED lifecycle
       \/ AdapterStartFails(call[f].snap.provider) /\ Go(f, "end") /\ Rewind(f)
    /\ UNCHANGED <<binding, pump, idle, tasks, fence, turnState, turns, begun, calls, haunted, missed, erased>>
StartRestored(f) ==
    /\ At(f, "start.restored")
    /\ \/ /\ NoFault /\ binding' = Started(call[f].snap.provider, call[f].snap.gen)
          /\ LeaveRun(f, call[f].snap.gen) /\ Forgets
       \/ Fault("write") /\ UNCHANGED <<binding, missed, erased>> /\ Rewind(f)
    /\ Go(f, "end")
    /\ UNCHANGED <<session, events, pump, idle, tasks, fence, turnState, turns, begun, calls, haunted>>

StartSession(f) ==
    \/ StartEnters(f) \/ StartRoutes(f) \/ StartStopsOld(f) \/ StartStarts(f)
    \/ StartPersists(f) \/ StartUndoes(f) \/ StartRestores(f) \/ StartRestored(f)

----------------------------------------------------------------------------
(* recoverSessionForThread.  A runtime whose credential is retired is first  *)
(* stopped under its own generation, once its background tasks have settled: *)
(* under a new one, the event that settles them would be dropped as stale.   *)

Rotating == BoundLive /\ binding.rotation

RecoverDrains(f) ==
    /\ At(f, "recover.drain") /\ lock = "free"
    /\ IF Rotating THEN lock' = f /\ Go(f, "recover.settle")
       ELSE Go(f, IF Bound THEN "recover.lock" ELSE Raise(f)) /\ UNCHANGED lock
    /\ UNCHANGED <<current, gens, session, binding, events, pump, idle, tasks, fence, turnState, history>>
RecoverSettles(f) ==
    /\ At(f, "recover.settle") /\ tasks = {}
    /\ IF Rotating THEN Go(f, "recover.stop") /\ UNCHANGED lock
       ELSE Go(f, IF Bound THEN "recover.lock" ELSE Raise(f)) /\ Release
    /\ UNCHANGED <<current, gens, session, binding, events, pump, idle, tasks, fence, turnState, history>>
RecoverStops(f) ==
    /\ At(f, "recover.stop") /\ Release
    /\ binding' = [binding EXCEPT !.cursor = @ \/ BoundLive]
    /\ \/ AdapterStop(binding.provider) /\ NoFault /\ Go(f, "recover.lock")
       \/ AdapterStopFails(binding.provider) /\ Go(f, Raise(f))
    /\ UNCHANGED <<current, gens, pump, idle, tasks, fence, turnState, turns, begun, calls, haunted, missed, erased>>

RecoverEnters(f) ==
    /\ EnterRun(f, "recover.lock", "recover.route")
    /\ UNCHANGED <<session, binding, events, pump, idle, tasks, fence, turnState, history>>

(* Another recovery may have won: its runtime is adopted. *)
RecoverRoutes(f) ==
    /\ At(f, "recover.route")
    /\ \/ /\ BoundLive /\ ~binding.rotation
          /\ call' = [call EXCEPT ![f] = Resumed(f, binding.provider)]
          /\ LeaveRun(f, binding.gen)
       \/ /\ \/ ~Bound \/ Rotating
             \/ ~BoundLive /\ ~binding.cursor /\ ~binding.rotation
          /\ Go(f, Raise(f)) /\ Rewind(f)
       \/ /\ Bound /\ ~BoundLive /\ (binding.cursor \/ binding.rotation)
          /\ call' = [call EXCEPT ![f].snap = binding, ![f].provider = binding.provider,
                                  ![f].pc = "recover.adapter"]
          /\ UNCHANGED lifecycle
    /\ UNCHANGED <<session, binding, events, pump, idle, tasks, fence, turnState, history>>
RecoverStarts(f) ==
    /\ At(f, "recover.adapter")
    /\ \/ /\ AdapterStart(call[f].provider, call[f].gen) /\ NoFault
          /\ Go(f, "recover.persist") /\ UNCHANGED lifecycle
          /\ missed' = IF f # "source" /\ dispatch = "open" THEN missed \cup {call[f].gen} ELSE missed
       \/ /\ AdapterStartFails(call[f].provider)
          /\ Go(f, Raise(f)) /\ Rewind(f) /\ UNCHANGED missed
    /\ UNCHANGED <<binding, pump, idle, tasks, fence, turnState, turns, begun, calls, haunted, erased>>
RecoverPersists(f) ==
    /\ At(f, "recover.persist")
    /\ \/ /\ NoFault
          /\ binding' = [Started(call[f].provider, call[f].gen)
                            EXCEPT !.rotation = @ /\ ~call[f].snap.rotation]
          /\ call' = [call EXCEPT ![f] = Resumed(f, call[f].provider)]
          /\ LeaveRun(f, call[f].gen) /\ Forgets
       \/ Fault("write") /\ UNCHANGED <<binding, missed, erased>> /\ Go(f, Raise(f)) /\ Rewind(f)
    /\ UNCHANGED <<session, events, pump, idle, tasks, fence, turnState, turns, begun, calls, haunted>>

Recover(f) ==
    \/ RecoverDrains(f) \/ RecoverSettles(f) \/ RecoverStops(f) \/ RecoverEnters(f)
    \/ RecoverRoutes(f) \/ RecoverStarts(f) \/ RecoverPersists(f)

----------------------------------------------------------------------------
(* Work that needs a runtime waits for the fence and for a running idle stop, *)
(* disowns the idle timer, and takes the live runtime or recovers one.        *)

WorkCalled(f, kind) ==
    /\ Calls(f, kind)
    /\ call' = [call EXCEPT ![f] = [NoCall EXCEPT !.kind = kind, !.displaced = Displaced,
                  !.pc = IF IdleStopInFlight THEN "work.queue" ELSE "work.wait"]]
    /\ UNCHANGED <<lifecycle, session, binding, events, pump, idle, tasks, fence, turnState, turns, begun, faults, haunted, missed, erased>>

WorkBeginsUnasked(f) ==                                        \* (mutant)
    /\ At(f, "work.wait") /\ fence # "open"
    /\ idle' = Cleared
    /\ Go(f, "work.ready")
    /\ UNCHANGED <<lifecycle, session, binding, events, pump, tasks, fence, turnState, history>>

(* A fence that has failed refuses the work. *)
WorkBegins(f) ==
    /\ At(f, "work.wait") \/ At(f, "work.queue")
    /\ fence # "open"
    /\ CASE fence = "failed" -> Go(f, Raise(f)) /\ UNCHANGED idle
         [] fence = "none" /\ At(f, "work.queue") -> Go(f, "work.stop") /\ UNCHANGED idle
         [] OTHER -> Go(f, "work.ready") /\ idle' = Cleared
    /\ UNCHANGED <<lifecycle, session, binding, events, pump, tasks, fence, turnState, history>>

WorkDisplaces(f) ==
    /\ At(f, "work.stop") /\ ~IdleStopInFlight
    /\ Go(f, "work.ready")
    /\ idle' = Cleared
    /\ UNCHANGED <<lifecycle, session, binding, events, pump, tasks, fence, turnState, history>>
WorkReady(f) ==
    /\ At(f, "work.ready") /\ ~IdleStopInFlight
    /\ Go(f, "work.route")
    /\ dispatch' = IF call[f].kind = "send" THEN "open" ELSE dispatch
    /\ UNCHANGED <<lifecycle, session, binding, events, pump, idle, tasks, fence, outstanding,
                   retained, recent, history>>

(* resolveRoutableSession: a live runtime under another generation than the  *)
(* current one is a zombie, whose events nobody hears: it is recovered.      *)
WorkRoutes(f) ==
    /\ At(f, "work.route")
    /\ \/ /\ BoundLive /\ ~binding.rotation /\ binding.gen = current
          /\ call' = [call EXCEPT ![f] = Resumed(f, binding.provider)]
       \/ \E p \in Providers :
            /\ ~Bound /\ Live(p)
            /\ call' = [call EXCEPT ![f] = Resumed(f, p)]
       \/ ~Bound /\ (\A p \in Providers : ~Live(p)) /\ Go(f, Raise(f))
       \/ /\ Bound /\ ~(BoundLive /\ ~binding.rotation /\ binding.gen = current)
          /\ Go(f, "recover.drain")
    /\ UNCHANGED <<lifecycle, session, binding, events, pump, idle, tasks, fence, turnState, history>>

Work(f) == WorkBegins(f) \/ WorkDisplaces(f) \/ WorkReady(f) \/ WorkRoutes(f)

----------------------------------------------------------------------------
(* sendTurn, steerTurn and startReview.  The adapter begins a turn, or steers *)
(* the one that runs; the call may fail although the turn began.              *)

SendTurns(f) ==
    /\ At(f, "send.turn")
    /\ LET p == call[f].provider
           began == IF session[p].turn # NoTurn THEN session[p].turn ELSE turns + 1 IN
       \/ /\ Live(p) /\ ~session[p].retired /\ began <= MaxTurns
          /\ session' = [session EXCEPT ![p].turn = began]
          /\ turns' = IF session[p].turn = NoTurn THEN began ELSE turns
          /\ Emit(p, IF session[p].turn = NoTurn THEN <<Event("turn.started", began, p)>> ELSE <<>>)
          /\ \/ NoFault /\ call' = [call EXCEPT ![f].turn = began, ![f].pc = "send.returned"]
             \/ Fault("fail") /\ Go(f, "send.fail")
       \/ /\ ~Live(p) \/ session[p].retired \/ began > MaxTurns
          /\ Go(f, "send.fail") /\ UNCHANGED <<session, turns, events>> /\ NoFault
    /\ UNCHANGED <<lifecycle, binding, pump, idle, tasks, fence, turnState, begun, calls, haunted, missed, erased>>

(* rememberSuccessfulTurnDispatch. *)
SendReturns(f) ==
    /\ At(f, "send.returned")
    /\ outstanding' = outstanding \cup {call[f].turn}
    /\ retained' = [provider |-> call[f].provider, turn |-> call[f].turn]
    /\ haunted' = (haunted \/ dispatch = "void")
    /\ Go(f, "send.persist")
    /\ UNCHANGED <<lifecycle, session, binding, events, pump, idle, tasks, fence, dispatch, recent, turns, begun, calls, faults, missed, erased>>

PersistAnyway(p, t) ==                                         \* (mutant)
    /\ dispatch = "open" /\ NoFault
    /\ retained' = NoResult
    /\ binding' = [Upserted(p) EXCEPT !.status = "running", !.turn = t]
    /\ idle' = Cleared
    /\ UNCHANGED <<outstanding, recent>>

(* persistStartedTurn: nothing once the session has exited; a turn whose end *)
(* has been read is not marked running.                                      *)
Persist(p, t) ==
    /\ dispatch = "open"
    /\ retained' = NoResult
    /\ \/ /\ t \in recent /\ NoFault
          /\ recent' = recent \ {t} /\ outstanding' = outstanding \ {t}
          /\ binding' = IF Bound THEN binding ELSE [Upserted(p) EXCEPT !.status = "stopped"]
          /\ UNCHANGED idle
       \/ /\ t \notin recent /\ NoFault
          /\ binding' = [Upserted(p) EXCEPT !.status = "running", !.turn = t]
          /\ idle' = Cleared
          /\ UNCHANGED <<outstanding, recent>>

PersistFails(t) ==
    /\ dispatch = "open" /\ t \notin recent /\ Fault("write")
    /\ retained' = NoResult /\ outstanding' = outstanding \ {t}
    /\ idle' = Cleared
    /\ UNCHANGED <<binding, recent>>
SendPersists(f) ==
    /\ At(f, "send.persist")
    /\ \/ Persist(call[f].provider, call[f].turn) /\ Go(f, "send.finish")
       \/ PersistFails(call[f].turn) /\ Go(f, "send.fail")
       \/ /\ dispatch = "void" /\ Go(f, "send.finish") /\ NoFault
          /\ UNCHANGED <<binding, idle, outstanding, retained, recent>>
    /\ UNCHANGED <<lifecycle, session, events, pump, tasks, fence, dispatch, turns, begun, calls, haunted, missed, erased>>

(* finishTurnDispatch.  After a failure the newest result that is still      *)
(* retained is promoted.                                                     *)
SendFails(f) ==
    /\ At(f, "send.fail") /\ Go(f, "send.failed")
    /\ \/ retained # NoResult /\ Persist(retained.provider, retained.turn)
       \/ retained # NoResult /\ PersistFails(retained.turn)
       \/ /\ retained = NoResult \/ dispatch # "open"
          /\ UNCHANGED <<binding, idle, outstanding, retained, recent>> /\ NoFault
    /\ UNCHANGED <<lifecycle, session, events, pump, tasks, fence, dispatch, turns, begun, calls, haunted, missed, erased>>
SendFinishes(f) ==
    /\ At(f, "send.finish") \/ At(f, "send.failed")
    /\ dispatch' = "none" /\ recent' = {}
    /\ idle' = IF At(f, "send.failed") THEN AfterFailure(call[f].displaced) ELSE idle
    /\ Go(f, "end")
    /\ UNCHANGED <<lifecycle, session, binding, events, pump, tasks, fence, outstanding,
                   retained, history>>

SendTurn(f) ==
    SendTurns(f) \/ SendReturns(f) \/ SendPersists(f) \/ SendFails(f) \/ SendFinishes(f)

----------------------------------------------------------------------------
(* compactThread writes back what it read, without the binding lock. *)

CompactCompacts(f) ==
    /\ At(f, "compact.adapter")
    /\ \/ Live(call[f].provider) /\ NoFault /\ Go(f, "compact.read")
       \/ ~Live(call[f].provider) /\ NoFault /\ Go(f, "compact.fail")
       \/ Fault("fail") /\ Go(f, "compact.fail")
    /\ UNCHANGED <<lifecycle, session, binding, events, pump, idle, tasks, fence, turnState, turns, begun, calls, haunted, missed, erased>>
CompactReads(f) ==
    /\ At(f, "compact.read")
    /\ call' = [call EXCEPT ![f].snap = binding,
                            ![f].pc = IF Bound THEN "compact.write" ELSE "compact.done"]
    /\ UNCHANGED <<lifecycle, session, binding, events, pump, idle, tasks, fence, turnState, history>>
CompactWrites(f) ==
    /\ At(f, "compact.write")
    /\ LET read == call[f].snap IN
       binding' = [Upserted(read.provider) EXCEPT !.status = "stopped", !.turn = NoTurn,
                        !.rotation = read.rotation, !.cursor = read.cursor]
    /\ Go(f, "compact.done")
    /\ UNCHANGED <<lifecycle, session, events, pump, idle, tasks, fence, turnState, history>>
CompactEnds(f) ==
    /\ At(f, "compact.done") \/ At(f, "compact.fail")
    /\ idle' = IF At(f, "compact.done") THEN Scheduled(tasks) ELSE AfterFailure(call[f].displaced)
    /\ Go(f, "end")
    /\ UNCHANGED <<lifecycle, session, binding, events, pump, tasks, fence, turnState, history>>

CompactThread(f) ==
    CompactCompacts(f) \/ CompactReads(f) \/ CompactWrites(f) \/ CompactEnds(f)

----------------------------------------------------------------------------
(* stopRuntimeSessionInternal: of the source, the reaper, an interrupt, and  *)
(* of an idle stop, which gives up as soon as its generation is disowned.    *)

Disowned(f) == f = "idle" /\ ~idle.owned

RestartCalled ==
    /\ Calls("source", "restart")
    /\ call' = [call EXCEPT !["source"] = [NoCall EXCEPT !.kind = "restart", !.pc = "stop.wait"]]
    /\ UNCHANGED <<lifecycle, session, binding, events, pump, idle, tasks, fence, turnState, turns, begun, faults, haunted, missed, erased>>

(* The reaper takes a thread that has been left alone for half an hour. *)
Quiet ==
    /\ \A f \in Fibers : call[f] = NoCall
    /\ \A p \in Providers : events[p] = <<>> /\ pump[p] = NoEvent

ReapCalled ==
    /\ Calls("reaper", "reap")
    /\ binding.status = "running" /\ binding.turn = NoTurn
    /\ Quiet /\ \A p \in Providers : session[p].turn = NoTurn
    /\ call' = [call EXCEPT !["reaper"] = [NoCall EXCEPT !.kind = "reap", !.pc = "stop.wait"]]
    /\ UNCHANGED <<lifecycle, session, binding, events, pump, idle, tasks, fence, turnState, turns, begun, faults, haunted, missed, erased>>

StopWaits(f) ==
    /\ At(f, "stop.wait") /\ ~IdleStopInFlight
    /\ idle' = Cleared
    /\ Go(f, "stop.lock")
    /\ UNCHANGED <<lifecycle, session, binding, events, pump, tasks, fence, turnState, history>>
StopEnters(f) ==
    /\ EnterRun(f, "stop.lock", "stop.route")
    /\ UNCHANGED <<session, binding, events, pump, idle, tasks, fence, turnState, history>>
StopRoutes(f) ==
    /\ At(f, "stop.route")
    /\ IF Disowned(f) \/ ~Bound THEN Go(f, Stopped(f)) /\ Rewind(f)
       ELSE /\ call' = [call EXCEPT ![f].snap = [binding EXCEPT !.cursor = @ \/ BoundLive],
                                    ![f].pc = "stop.adapter"]
            /\ UNCHANGED lifecycle
    /\ UNCHANGED <<session, binding, events, pump, idle, tasks, fence, turnState, history>>
StopStops(f) ==
    /\ At(f, "stop.adapter")
    /\ \/ /\ Disowned(f) /\ NoFault
          /\ Go(f, Stopped(f)) /\ Rewind(f) /\ UNCHANGED <<session, events>>
       \/ /\ ~Disowned(f) /\ AdapterStop(call[f].snap.provider) /\ NoFault
          /\ Go(f, "stop.persist") /\ UNCHANGED lifecycle
       \/ /\ ~Disowned(f) /\ AdapterStopFails(call[f].snap.provider)
          /\ Go(f, Raise(f)) /\ Rewind(f)
    /\ UNCHANGED <<binding, pump, idle, tasks, fence, turnState, turns, begun, calls, haunted, missed, erased>>
StopPersists(f) ==
    /\ At(f, "stop.persist")
    /\ \/ /\ Disowned(f) /\ NoFault
          /\ Go(f, Stopped(f)) /\ Rewind(f) /\ UNCHANGED <<binding, idle, tasks, missed, erased>>
       \/ /\ ~Disowned(f) /\ NoFault
          /\ tasks' = {}
          /\ binding' = [Upserted(call[f].snap.provider) EXCEPT
                !.status = "stopped", !.gen = call[f].gen, !.turn = NoTurn,
                !.rotation = call[f].snap.rotation \/ call[f].kind = "interrupt",
                !.cursor = call[f].snap.cursor]
          /\ idle' = IF f # "idle" \/ idle.owned THEN Retired ELSE idle
          /\ Go(f, Stopped(f)) /\ LeaveRun(f, call[f].gen) /\ Forgets
       \/ /\ ~Disowned(f) /\ Fault("write")
          /\ tasks' = {}
          /\ Go(f, Raise(f)) /\ Rewind(f) /\ UNCHANGED <<binding, idle, missed, erased>>
    /\ UNCHANGED <<session, events, pump, fence, turnState, turns, begun, calls, haunted>>

StopRuntimeSession(f) ==
    StopWaits(f) \/ StopEnters(f) \/ StopRoutes(f) \/ StopStops(f) \/ StopPersists(f)

----------------------------------------------------------------------------
(* The idle stop.  The timer is long: it is due when the thread has been left *)
(* alone since it was armed, and then fires at any moment, also of a call.    *)

TimePasses ==
    /\ idle.timer # "off" /\ ~idle.due /\ Quiet
    /\ idle' = [idle EXCEPT !.due = TRUE]
    /\ UNCHANGED <<lifecycle, session, binding, events, pump, tasks, fence, turnState, call, history>>
TimerFires ==
    /\ idle.due /\ ~IdleStopInFlight
    /\ idle' = [idle EXCEPT !.timer = "off", !.due = FALSE, !.owned = idle.timer # "stale"]
    /\ call' = [call EXCEPT !["idle"] = [NoCall EXCEPT !.kind = "idle", !.pc = "idle.look",
                                                       !.displaced = idle.timer = "retry"]]
    /\ UNCHANGED <<lifecycle, session, binding, events, pump, tasks, fence, turnState, history>>
IdleLooks(f) ==
    /\ At(f, "idle.look")
    /\ IF ~idle.owned THEN Go(f, "end") /\ UNCHANGED idle
       ELSE IF ~Bound \/ binding.turn # NoTurn \/ tasks # {} THEN Go(f, "end") /\ idle' = Retired
       ELSE Go(f, IF call[f].displaced THEN "stop.lock" ELSE "idle.list") /\ UNCHANGED idle
    /\ UNCHANGED <<lifecycle, session, binding, events, pump, tasks, fence, turnState, history>>
IdleListsThenWaits(f) ==                                       \* (mutant)
    /\ At(f, "idle.list")
    /\ IF ~BoundLive \/ session[binding.provider].turn # NoTurn \/ tasks # {}
       THEN Go(f, "end") /\ idle' = IF idle.owned THEN Retired ELSE idle
       ELSE IF ~idle.owned THEN Go(f, "end") /\ UNCHANGED idle
       ELSE Go(f, "stop.wait") /\ idle' = [idle EXCEPT !.cleanup = TRUE]
    /\ UNCHANGED <<lifecycle, session, binding, events, pump, tasks, fence, turnState, history>>

IdleLists(f) ==
    /\ At(f, "idle.list")
    /\ IF ~BoundLive \/ session[binding.provider].turn # NoTurn \/ tasks # {}
       THEN Go(f, "end") /\ idle' = IF idle.owned THEN Retired ELSE idle
       ELSE IF ~idle.owned THEN Go(f, "end") /\ UNCHANGED idle
       ELSE Go(f, "stop.lock") /\ idle' = [idle EXCEPT !.cleanup = TRUE]
    /\ UNCHANGED <<lifecycle, session, binding, events, pump, tasks, fence, turnState, history>>

IdleFails(f) ==
    /\ At(f, "idle.fail")
    /\ idle' = IF idle.owned THEN [idle EXCEPT !.timer = "retry"] ELSE idle
    /\ Go(f, "end")
    /\ UNCHANGED <<lifecycle, session, binding, events, pump, tasks, fence, turnState, history>>
StopIdleRuntimeSession(f) == IdleLooks(f) \/ IdleLists(f) \/ IdleFails(f)

----------------------------------------------------------------------------
(* interruptTurn: under a fence that holds turn dispatch back, interrupt the *)
(* bound turn and stop its runtime.  After five seconds the first part goes  *)
(* on without the lock.                                                      *)

InterruptCalled ==
    /\ Calls("source", "interrupt") /\ fence # "open"
    /\ IF fence = "failed" THEN UNCHANGED <<call, fence>>
       ELSE /\ fence' = "open"
            /\ call' = [call EXCEPT !["source"] =
                 [NoCall EXCEPT !.kind = "interrupt", !.pc = "interrupt.lock"]]
    /\ UNCHANGED <<lifecycle, session, binding, events, pump, idle, tasks, turnState, turns, begun, faults, haunted, missed, erased>>

Unlock(f) == IF call[f].locked THEN Release ELSE UNCHANGED lock
InterruptEnters(f) ==
    /\ At(f, "interrupt.lock")
    /\ call' = [call EXCEPT ![f].pc = "interrupt.route", ![f].gen = current,
                            ![f].locked = lock = "free"]
    /\ lock' = IF lock = "free" THEN f ELSE lock
    /\ UNCHANGED <<current, gens, session, binding, events, pump, idle, tasks, fence, turnState, history>>
InterruptRoutes(f) ==
    /\ At(f, "interrupt.route")
    /\ IF BoundLive /\ binding.turn # NoTurn /\ (call[f].gen # None => binding.gen = call[f].gen)
       THEN /\ call' = [call EXCEPT ![f].provider = binding.provider, ![f].turn = binding.turn,
                                    ![f].pc = "interrupt.adapter"]
            /\ UNCHANGED <<lock, fence>>
       ELSE Go(f, "end") /\ Unlock(f) /\ fence' = "none"
    /\ UNCHANGED <<current, gens, session, binding, events, pump, idle, tasks, turnState, history>>

(* A call that fails may have reached the runtime: its authority is in doubt. *)
InterruptInterrupts(f) ==
    /\ At(f, "interrupt.adapter")
    /\ LET p == call[f].provider
           hit == Live(p) /\ session[p].turn = call[f].turn IN
       \/ /\ NoFault /\ Go(f, "stop.wait")
          /\ session' = IF hit THEN [session EXCEPT ![p].turn = NoTurn] ELSE session
          /\ Emit(p, IF hit THEN <<Event("turn.completed", call[f].turn, p)>> ELSE <<>>)
       \/ /\ Fault("fail") /\ Go(f, "interrupt.fail")
          /\ session' = IF Live(p) THEN [session EXCEPT ![p].suspect = TRUE] ELSE session
          /\ UNCHANGED events
    /\ Unlock(f)
    /\ UNCHANGED <<current, gens, binding, pump, idle, tasks, fence, turnState, turns, begun, calls, haunted, missed, erased>>
InterruptEnds(f) ==
    /\ \/ At(f, "interrupt.done") /\ fence' = "none"
       \/ At(f, "interrupt.fail") /\ fence' = "failed"
    /\ Go(f, "end")
    /\ UNCHANGED <<lifecycle, session, binding, events, pump, idle, tasks, turnState, history>>

InterruptTurn(f) ==
    InterruptEnters(f) \/ InterruptRoutes(f) \/ InterruptInterrupts(f) \/ InterruptEnds(f)

----------------------------------------------------------------------------
(* stopSession, of the reactor that cleans up after a deleted thread. *)

DeleteCalled ==
    /\ Calls("deleter", "stop")
    /\ call' = [call EXCEPT !["deleter"] = [NoCall EXCEPT !.kind = "stop", !.pc = "delete.wait"]]
    /\ UNCHANGED <<lifecycle, session, binding, events, pump, idle, tasks, fence, turnState, turns, begun, faults, haunted, missed, erased>>
DeleteWaits(f) ==
    /\ At(f, "delete.wait") /\ ~IdleStopInFlight
    /\ idle' = Cleared
    /\ Go(f, "delete.lock")
    /\ UNCHANGED <<lifecycle, session, binding, events, pump, tasks, fence, turnState, history>>
DeleteEnters(f) ==
    /\ EnterRun(f, "delete.lock", "delete.route")
    /\ UNCHANGED <<session, binding, events, pump, idle, tasks, fence, turnState, history>>
DeleteRoutes(f) ==
    /\ At(f, "delete.route")
    /\ \/ \E p \in Providers :
            /\ binding.provider = p \/ (~Bound /\ Live(p))
            /\ call' = [call EXCEPT ![f].provider = p, ![f].pc = "delete.adapter"]
            /\ UNCHANGED <<lifecycle, idle, tasks>>
       \/ /\ ~Bound /\ \A p \in Providers : ~Live(p)
          /\ tasks' = {} /\ idle' = Retired
          /\ Go(f, "end") /\ LeaveRun(f, None)
    /\ UNCHANGED <<session, binding, events, pump, fence, turnState, history>>
DeleteStops(f) ==
    /\ At(f, "delete.adapter")
    /\ \/ /\ AdapterStop(call[f].provider) /\ NoFault
          /\ tasks' = {} /\ Go(f, "delete.remove") /\ UNCHANGED lifecycle
       \/ /\ AdapterStopFails(call[f].provider)
          /\ Go(f, "end") /\ Rewind(f) /\ UNCHANGED tasks
    /\ UNCHANGED <<binding, pump, idle, fence, turnState, turns, begun, calls, haunted, missed, erased>>
DeleteRemoves(f) ==
    /\ At(f, "delete.remove") /\ ~IdleStopInFlight
    /\ \/ /\ NoFault /\ binding' = NoBinding /\ fence' = "none" /\ idle' = Retired
          /\ LeaveRun(f, None) /\ Forgets
       \/ Fault("write") /\ UNCHANGED <<binding, fence, idle, missed, erased>> /\ Rewind(f)
    /\ Go(f, "end")
    /\ UNCHANGED <<session, events, pump, tasks, turnState, turns, begun, calls, haunted>>
StopSession(f) ==
    DeleteWaits(f) \/ DeleteEnters(f) \/ DeleteRoutes(f) \/ DeleteStops(f) \/ DeleteRemoves(f)

----------------------------------------------------------------------------
(* clearSessionResumeCursor, which may keep the runtime that uses the cursor. *)

ClearCalled ==
    /\ Calls("source", "clear")
    /\ \E preserve \in BOOLEAN :
         call' = [call EXCEPT !["source"] = [NoCall EXCEPT !.kind = "clear", !.pc = "clear.wait",
                                                           !.replaces = ~preserve]]
    /\ UNCHANGED <<lifecycle, session, binding, events, pump, idle, tasks, fence, turnState, turns, begun, faults, haunted, missed, erased>>
ClearWaits(f) ==
    /\ At(f, "clear.wait") /\ ~IdleStopInFlight
    /\ idle' = Cleared
    /\ Go(f, "clear.lock")
    /\ UNCHANGED <<lifecycle, session, binding, events, pump, tasks, fence, turnState, history>>
ClearEnters(f) ==
    /\ EnterRun(f, "clear.lock", "clear.clear")
    /\ UNCHANGED <<session, binding, events, pump, idle, tasks, fence, turnState, history>>
ClearClears(f) ==
    /\ At(f, "clear.clear")
    /\ LET p == binding.provider
           keeps == BoundLive /\ ~call[f].replaces
           effective == IF keeps THEN binding.gen ELSE call[f].gen IN
       \/ /\ ~Bound /\ Go(f, "clear.end") /\ Rewind(f) /\ NoFault
          /\ UNCHANGED <<session, events, binding, tasks>>
       \/ /\ Bound /\ NoFault
          /\ IF keeps THEN UNCHANGED <<session, events, tasks>>
             ELSE /\ tasks' = {}
                  /\ IF BoundLive THEN AdapterStop(p) ELSE UNCHANGED <<session, events>>
          /\ binding' = [binding EXCEPT !.gen = effective, !.cursor = FALSE,
                            !.status = IF keeps THEN @ ELSE "stopped",
                            !.turn = IF keeps THEN @ ELSE NoTurn]
          /\ Go(f, "clear.end") /\ LeaveRun(f, effective)
       \/ /\ BoundLive /\ ~keeps /\ AdapterStopFails(p)
          /\ Go(f, "end") /\ Rewind(f) /\ UNCHANGED <<binding, tasks>>
       \/ /\ Bound /\ Fault("write") /\ Go(f, "end") /\ Rewind(f) /\ UNCHANGED binding
          /\ IF keeps THEN UNCHANGED <<session, events, tasks>>
             ELSE /\ tasks' = {}
                  /\ IF BoundLive THEN AdapterStop(p) ELSE UNCHANGED <<session, events>>
    /\ UNCHANGED <<pump, idle, fence, turnState, turns, begun, calls, haunted, missed, erased>>
ClearEnds(f) ==
    /\ At(f, "clear.end") /\ ~IdleStopInFlight
    /\ idle' = Retired
    /\ Go(f, "end")
    /\ UNCHANGED <<lifecycle, session, binding, events, pump, tasks, fence, turnState, history>>
ClearSessionResumeCursor(f) == ClearWaits(f) \/ ClearEnters(f) \/ ClearClears(f) \/ ClearEnds(f)

----------------------------------------------------------------------------
(* The pump of provider p.  The gate drops the events of another generation, *)
(* but for the end of the turn the binding still has, or of any when no      *)
(* generation is current.                                                    *)

Ending == {"turn.completed", "session.exited"}
Terminal(e) == e.type \in Ending \cup {"runtime.error"}
Telling(e) == e.type \in {"turn.started", "task.started"} \cup Ending
Stale(e) == e.gen # current
SettlesAnyway(e) ==
    Terminal(e) /\ (current = None \/ (e.turn # NoTurn /\ binding.turn = e.turn))

Gate(p) ==
    /\ events[p] # <<>> /\ pump[p] = NoEvent
    /\ events' = [events EXCEPT ![p] = Tail(@)]
    /\ LET e == Head(events[p])
           accepted == ~Stale(e) \/ SettlesAnyway(e) IN
       /\ pump' = IF accepted THEN [pump EXCEPT ![p] = e] ELSE pump
       /\ idle' = IF accepted /\ e.type = "turn.started" THEN Cleared ELSE idle
       /\ missed' = IF ~accepted /\ e.gen = binding.gen /\ Telling(e)
                    THEN missed \cup {e.gen} ELSE missed
    /\ UNCHANGED <<lifecycle, session, binding, tasks, fence, turnState, call, turns, begun, calls, faults, haunted, erased>>

(* The tasks that are live after an event, and what it does to the idle timer,  *)
(* which a report, and the end of one of several tasks, leave alone; but the    *)
(* report that the thread is closed ends its tasks.                             *)
LiveTasks(e) ==
    CASE e.type = "task.started" -> tasks \cup {e.task}
      [] e.type = "task.completed" -> tasks \ {e.task}
      [] e.type \in {"session.exited", "thread.closed"} -> {}
      [] OTHER -> tasks
TimerAfter(e, live) ==
    IF e.type \in {"turn.started", "task.started"} THEN Cleared
    ELSE IF e.type = "session.exited" THEN (IF idle.cleanup THEN idle ELSE Cleared)
    ELSE IF e.type \in Reports \ {"thread.closed"} \/ (e.type = "task.completed" /\ live # {}) THEN idle
    ELSE Scheduled(live)

ReconciledAtTurnEnd(e) ==                                      \* (mutant)
    /\ tasks' = IF e.type = "turn.completed" THEN {} ELSE LiveTasks(e)
    /\ idle' = TimerAfter(e, tasks')

(* reconcileRuntimeIdleTimer, which runs last. *)
Reconciled(e) ==
    /\ tasks' = LiveTasks(e)
    /\ idle' = TimerAfter(e, tasks')

(* isStartedTurnApplicable and classifyTerminalTurnApplicability: an event    *)
(* may not touch a turn it does not name, and the end of an unnamed turn ends *)
(* the active one only if no other could be meant.                            *)
Ambiguous == Cardinality(outstanding) > 1 \/ (outstanding # {} /\ dispatch # "none")
Heard(e) == binding.gen = e.gen \/ SettlesAnyway(e)
Applicable(e) ==
    /\ e.type = "turn.started" => binding.turn \in {NoTurn, e.turn}
    /\ e.type = "turn.completed" =>
        \/ binding.turn \in {NoTurn, e.turn}
        \/ e.turn = NoTurn /\ ~Ambiguous
Ended(e) == {IF e.turn = NoTurn THEN binding.turn ELSE e.turn} \ {NoTurn}

(* updateSessionBindingFromRuntimeEvent, under the binding lock. *)
IsTask(e) == e.type \in {"task.started", "task.completed"}
Seen(e) == recent \cup IF e.type = "turn.completed" /\ dispatch # "none" THEN {e.turn} \ {NoTurn} ELSE {}
Open(e) == outstanding \cup IF e.type = "turn.started" THEN {e.turn} ELSE {}

Settled(e) ==
    /\ outstanding' = IF e.type = "turn.completed" THEN Open(e) \ Ended(e) ELSE Open(e)
    /\ recent' = IF e.type = "turn.completed" /\ e.turn = NoTurn THEN recent \cup Ended(e) ELSE Seen(e)

NotBound(e) ==
    /\ IsTask(e) \/ ~Bound
    /\ Reconciled(e)
    /\ IF IsTask(e) THEN UNCHANGED <<recent, outstanding>>
       ELSE recent' = Seen(e) /\ outstanding' = Open(e)
    /\ UNCHANGED <<binding, dispatch, retained, faults, missed, erased>>
NotApplied(e, p) ==
    /\ ~IsTask(e) /\ Bound
    /\ binding.provider # p \/ ~Heard(e) \/ ~Applicable(e)
    /\ recent' = Seen(e)
    /\ outstanding' = IF binding.provider = p /\ Heard(e) /\ e.type = "turn.completed"
                      THEN Open(e) \ {e.turn} ELSE Open(e)
    /\ UNCHANGED <<binding, dispatch, retained, idle, tasks, faults, missed, erased>>

(* A report clears whatever turn is active; nothing asks whose it is. *)
Applied(e, p) ==
    /\ ~IsTask(e)
    /\ binding.provider = p /\ Heard(e) /\ Applicable(e)
    /\ Reconciled(e)
    /\ binding' = [binding EXCEPT
            !.turn = IF e.type = "turn.started" THEN e.turn
                     ELSE IF e.type \in Ending \cup Reports THEN NoTurn ELSE @,
            !.status = IF e.type \in Ending \cup {"session.stopped", "thread.closed"}
                       THEN "stopped" ELSE "running",
            !.rotation = @ \/ e.retired]
    /\ IF e.type = "session.exited"
       THEN /\ dispatch' = IF dispatch = "open" THEN "void" ELSE dispatch
            /\ outstanding' = {} /\ retained' = NoResult /\ recent' = {}
       ELSE Settled(e) /\ UNCHANGED <<dispatch, retained>>
    /\ erased' = IF e.type \in Reports THEN erased \cup ({binding.turn} \ {NoTurn}) ELSE erased
    /\ missed' = IF e.type = "thread.closed" THEN missed \cup {e.gen} ELSE missed
    /\ UNCHANGED faults

(* The row cannot be written, which is logged: the rest is not done either. *)
NotWritten(e, p) ==
    /\ ~IsTask(e) /\ Fault("write")
    /\ binding.provider = p /\ Heard(e) /\ Applicable(e)
    /\ Settled(e)
    /\ missed' = missed \cup {e.gen}
    /\ UNCHANGED <<binding, dispatch, retained, idle, tasks, erased>>

Apply(p) ==
    /\ pump[p] # NoEvent
    /\ pump' = [pump EXCEPT ![p] = NoEvent]
    /\ LET e == pump[p] IN
       /\ NotBound(e) \/ NotApplied(e, p) \/ Applied(e, p) \/ NotWritten(e, p)
       /\ call' = IF e.retired /\ call["rotator"] = NoCall
                  THEN [call EXCEPT !["rotator"] =
                         [NoCall EXCEPT !.kind = "rotate", !.pc = "recover.drain"]]
                  ELSE call
    /\ UNCHANGED <<lifecycle, session, events, fence, turns, begun, calls, haunted>>

----------------------------------------------------------------------------
(* Startup: runtimes do not outlive the process, and the generation of a row *)
(* it left is adopted.                                                       *)

Left(p) == [NoBinding EXCEPT !.provider = p, !.gen = Legacy + 1, !.cursor = TRUE]

Init ==
    /\ binding \in {NoBinding} \cup {Left(p) : p \in Providers}
    /\ current = binding.gen /\ gens = Legacy + 1 /\ lock = "free"
    /\ session = [p \in Providers |-> NoSession]
    /\ events = [p \in Providers |-> <<>>] /\ pump = [p \in Providers |-> NoEvent]
    /\ idle = Cleared /\ tasks = {} /\ fence = "none"
    /\ dispatch = "none" /\ outstanding = {} /\ retained = NoResult /\ recent = {}
    /\ call = [f \in Fibers |-> NoCall]
    /\ haunted = FALSE /\ missed = {} /\ erased = {} /\ begun = 0 /\ turns = 0 /\ calls = 0 /\ faults = 0

Call ==
    \/ \E p \in Providers : StartCalled(p)
    \/ WorkCalled("source", "send") \/ WorkCalled("client", "compact")
    \/ RestartCalled \/ ReapCalled \/ InterruptCalled \/ DeleteCalled \/ ClearCalled

Step(f) ==
    /\ call[f].pc # "done"
    /\ \/ StartSession(f) \/ Recover(f) \/ Work(f) \/ SendTurn(f) \/ CompactThread(f)
       \/ StopRuntimeSession(f) \/ StopIdleRuntimeSession(f) \/ InterruptTurn(f)
       \/ StopSession(f) \/ ClearSessionResumeCursor(f)

Runtime(p) == TurnEnds(p) \/ TaskBegins(p) \/ TaskEnds(p) \/ Report(p) \/ Dies(p)

Next ==
    \/ Call \/ TimePasses \/ TimerFires
    \/ \E f \in Callers : Step(f)
    \/ \E p \in Providers : Runtime(p) \/ Gate(p) \/ Apply(p)

Spec == Init /\ [][Next]_vars

(* Calls and pumps run on, and turns and tasks end. *)
Fairness ==
    /\ \A f \in Callers : WF_vars(Step(f))
    /\ \A p \in Providers : WF_vars(Gate(p) \/ Apply(p)) /\ WF_vars(TurnEnds(p)) /\ WF_vars(TaskEnds(p))
FairSpec == Spec /\ Fairness

----------------------------------------------------------------------------
(* Properties. *)

Turns == 0..MaxTurns
Tasks == 0..MaxTasks
Generations == 0..gens
Sessions ==
    [state : {"none", "live", "closed"}, gen : Generations, turn : Turns,
     tasks : SUBSET Tasks, retired : BOOLEAN, suspect : BOOLEAN]
Bindings ==
    [provider : Providers \cup {"none"}, gen : Generations, turn : Turns,
     status : {"running", "stopped"}, rotation : BOOLEAN, cursor : BOOLEAN]
RuntimeEvents ==
    [type : {"none", "session.started", "session.exited", "turn.started",
             "turn.completed", "task.started", "task.completed"} \cup Reports,
     turn : Turns, task : Tasks, gen : Generations, retired : BOOLEAN]

\* Where a call may be.
StartPcs == {"start.wait", "start.route", "start.stop", "start.adapter", "start.persist",
             "start.undo", "start.restore", "start.restored"}
RecoverPcs == {"recover.drain", "recover.settle", "recover.stop", "recover.lock",
               "recover.route", "recover.adapter", "recover.persist"}
WorkPcs == {"work.wait", "work.queue", "work.stop", "work.ready", "work.route"}
SendPcs == {"send.turn", "send.returned", "send.persist", "send.fail", "send.finish", "send.failed"}
CompactPcs == {"compact.adapter", "compact.read", "compact.write", "compact.done", "compact.fail"}
StopPcs == {"stop.wait", "stop.lock", "stop.route", "stop.adapter", "stop.persist"}
IdlePcs == {"idle.look", "idle.list", "idle.fail"}
InterruptPcs == {"interrupt.lock", "interrupt.route", "interrupt.adapter", "interrupt.done", "interrupt.fail"}
DeletePcs == {"delete.wait", "delete.lock", "delete.route", "delete.adapter", "delete.remove"}
ClearPcs == {"clear.wait", "clear.lock", "clear.clear", "clear.end"}
Pcs == {"done"} \cup StartPcs \cup RecoverPcs \cup WorkPcs \cup SendPcs \cup CompactPcs \cup StopPcs
       \cup IdlePcs \cup InterruptPcs \cup DeletePcs \cup ClearPcs

CallsOfFibers ==
    [kind : CallKinds \cup {"none", "idle", "rotate"}, pc : Pcs,
     provider : Providers \cup {"none"}, gen : Generations, prev : Generations, turn : Turns,
     snap : Bindings, displaced : BOOLEAN, replaces : BOOLEAN, switches : BOOLEAN,
     locked : BOOLEAN]

(* Every variable holds what the tables, maps and references of the code may *)
(* hold; only a minted generation is ever published, stored or stamped.      *)
TypeOK ==
    /\ lock \in Fibers \cup {"free"} /\ gens \in Nat /\ current \in Generations
    /\ session \in [Providers -> Sessions] /\ binding \in Bindings
    /\ events \in [Providers -> Seq(RuntimeEvents)] /\ pump \in [Providers -> RuntimeEvents]
    /\ idle \in [timer : {"off", "armed", "stale", "retry"}, due : BOOLEAN, owned : BOOLEAN, cleanup : BOOLEAN]
    /\ tasks \in SUBSET Tasks /\ fence \in {"none", "open", "failed"}
    /\ dispatch \in {"none", "open", "void"} /\ outstanding \subseteq Turns /\ recent \subseteq Turns
    /\ retained \in [provider : Providers \cup {"none"}, turn : Turns]
    /\ call \in [Fibers -> CallsOfFibers]
    /\ turns \in Turns /\ calls \in 0..MaxCalls /\ begun \in 0..MaxTasks
    /\ faults \in 0..MaxUnusual /\ haunted \in BOOLEAN /\ missed \subseteq Generations
    /\ erased \subseteq Turns

OneRuntime == \A p, q \in Providers : Live(p) /\ Live(q) => p = q

(* The thread is never dual-owned, not even while it switches providers; and *)
(* between two mutations its runtime is the bound one, under the published   *)
(* generation, so that its events are heard: whichever of stop, start, undo  *)
(* and restore failed in a switch, a recovery or a stop, as long as the      *)
(* binding can be written.  (Not so after a dispatch has remembered a turn   *)
(* that the exit of its runtime had voided: the next failing dispatch        *)
(* promotes that turn, and with it the provider it ran on.)                  *)
Coherent == ~haunted =>
    /\ OneRuntime
    /\ lock = "free" => \A p \in Providers : Live(p) =>
        session[p].gen = current /\ binding.provider = p /\ binding.gen = current

(* When all calls have returned and all events are read, a turn the binding  *)
(* names is one that runs, on its runtime; and a turn that runs is the one   *)
(* the binding names, or else it names none, because an error or a new state *)
(* that the runtime reported has cleared that very turn: whichever of a      *)
(* dispatch, the reports, the turn's end and the exit of the runtime was     *)
(* handled first.  (Not so if such an event of the bound runtime was lost:   *)
(* to the gate, which drops it while a run that will put the generation back *)
(* has another one published, or because the row could not be written; nor   *)
(* if a recovery replaced the runtime under a dispatch, whose turn is then   *)
(* written for a runtime that is gone, or cleared for the one that runs it.) *)
QuietAgrees ==
    Quiet /\ ~haunted /\ binding.gen \notin missed =>
        /\ binding.turn # NoTurn =>
            Live(binding.provider) /\ session[binding.provider].turn = binding.turn
        /\ \A p \in Providers : Live(p) /\ session[p].turn # NoTurn =>
            /\ binding.provider = p
            /\ binding.turn = session[p].turn \/ session[p].turn \in erased

(* An idle stop never stops a runtime that has a turn or a background task,  *)
(* though work may arrive between any two of its looks.  (Not so where       *)
(* QuietAgrees does not hold: the stop looks at the row and at the set of    *)
(* live tasks, and at the runtime only for its turn.)                        *)
IdleSparesWork ==
    [][\A p \in Providers : call["idle"].pc = "stop.adapter" /\ call'["idle"] # call["idle"]
        /\ Live(p) /\ session'[p] # session[p] /\ ~haunted /\ session[p].gen \notin missed
        => session[p].turn = NoTurn /\ session[p].tasks = {}]_vars

(* A runtime whose interruption failed gets no other turn: a dispatch that   *)
(* comes later is refused, until a start has replaced the runtime.  (Not so   *)
(* where Coherent does not hold.)                                            *)
SuspectTakesNoTurn ==
    [][\A p \in Providers : ~haunted /\ session[p].suspect /\ session'[p].suspect
        => session'[p].turn \in {NoTurn, session[p].turn}]_vars

(* The calls of the six fibers, which wait for the lifecycle lock, the fence *)
(* and the idle stop, do not wait for one another for ever.                  *)
CallsEnd == []<>(\A f \in Fibers : call[f] = NoCall)

============================================================================
