------------------------ MODULE ProviderLifecycleProofs ------------------------
(***************************************************************************)
(* Theorems about ProviderLifecycle, for every set of providers and any    *)
(* number of calls, turns, tasks and faults: its types; and, where no      *)
(* write to the thread's row fails and nothing is compacted, that the      *)
(* lifecycle lock, the runtimes and the row fit together, and that a       *)
(* runtime whose interrupt failed is handed no turn.                       *)
(*                                                                         *)
(* Each step has a lemma for its types (named ...T) and one for the        *)
(* invariant (...C).                                                       *)
(***************************************************************************)
EXTENDS ProviderLifecycle, TLAPS

-----------------------------------------------------------------------------
(* Types *)

\* The calls whose steps use the provider, and those that use the row they read.
UsesProvider ==
    StartPcs \cup (SendPcs \ {"send.fail", "send.failed", "send.finish"})
    \cup {"recover.adapter", "recover.persist", "compact.adapter", "delete.adapter", "interrupt.adapter"}
UsesRow ==
    {"start.stop", "start.undo", "start.restore", "start.restored", "stop.adapter", "stop.persist",
     "compact.write"}

\* A call that uses a provider, or the row it read, has one; and so have rows and results that
\* are not empty.
GoodCalls ==
    {c \in CallsOfFibers :
        /\ c.pc \in UsesProvider => c.provider \in Providers
        /\ c.pc \in UsesRow => c.snap.provider \in Providers
        /\ c.pc \in {"start.wait", "start.route", "start.stop"} => ~c.switches
        /\ c.pc \in {"start.adapter", "start.persist"} /\ c.switches => c.snap.provider \in Providers}
GoodBindings == {b \in Bindings : b # NoBinding => b.provider \in Providers}
GoodResults == {r \in [provider : Providers \cup {"none"}, turn : Turns] : r # NoResult => r.provider \in Providers}

\* The types of the state, part by part.
LifecycleOK == lock \in Fibers \cup {"free"} /\ gens \in Nat /\ gens > Legacy /\ current \in Generations
RuntimesOK == session \in [Providers -> Sessions] /\ events \in [Providers -> Seq(RuntimeEvents)]
PumpOK == pump \in [Providers -> RuntimeEvents]
IdleOK ==
    idle \in [timer : {"off", "armed", "stale", "retry"}, due : BOOLEAN, owned : BOOLEAN, cleanup : BOOLEAN]
TurnStateOK ==
    /\ dispatch \in {"none", "open", "void"} /\ outstanding \subseteq Turns /\ recent \subseteq Turns
    /\ retained \in GoodResults
CallOK == call \in [Fibers -> GoodCalls]
HistoryOK ==
    /\ turns \in Turns /\ calls \in 0..MaxCalls /\ begun \in 0..MaxTasks
    /\ faults \in 0..MaxUnusual /\ haunted \in BOOLEAN /\ missed \subseteq Generations
    /\ erased \subseteq Turns

TypeInv ==
    /\ LifecycleOK /\ RuntimesOK /\ binding \in GoodBindings /\ PumpOK /\ IdleOK /\ tasks \in SUBSET Tasks
    /\ fence \in {"none", "open", "failed"} /\ TurnStateOK /\ CallOK /\ HistoryOK

\* The invariant implies the type invariant of the model.
LEMMA TypeInvIsTypeOK == TypeInv => TypeOK
BY DEF TypeInv, TypeOK, LifecycleOK, RuntimesOK, PumpOK, IdleOK, TurnStateOK, CallOK, HistoryOK,
       GoodCalls, GoodBindings, GoodResults

\* The bounds are numbers.
LEMMA Numbers == MaxCalls \in Nat /\ MaxTurns \in Nat /\ MaxTasks \in Nat /\ MaxUnusual \in Nat
BY BoundsAssumption

\* The empty records are of their types.
LEMMA Empties ==
    ASSUME gens \in Nat
    PROVE  /\ NoSession \in Sessions /\ NoBinding \in GoodBindings /\ NoEvent \in RuntimeEvents
           /\ NoCall \in GoodCalls /\ NoResult \in GoodResults /\ None \in Generations /\ NoTurn \in Turns
<1>1. 0 \in Generations /\ 0 \in Turns /\ 0 \in Tasks
  BY Numbers DEF Generations, Turns, Tasks
<1>2. NoBinding \in Bindings
  BY <1>1 DEF NoBinding, Bindings, None, NoTurn
<1>3. NoSession \in Sessions
  BY <1>1 DEF NoSession, Sessions, None, NoTurn
<1>4. NoEvent \in RuntimeEvents
  BY <1>1 DEF NoEvent, RuntimeEvents, None, NoTurn, NoTask
<1>5. NoCall \in CallsOfFibers /\ NoCall.pc = "done"
  BY <1>1, <1>2 DEF NoCall, CallsOfFibers, None, NoTurn, Pcs
<1>6. NoCall \in GoodCalls
  BY <1>5 DEF GoodCalls, UsesProvider, UsesRow, StartPcs, SendPcs
<1>7. NoResult \in GoodResults
  BY <1>1 DEF GoodResults, NoResult, NoTurn
<1> QED
  BY <1>1, <1>2, <1>3, <1>4, <1>6, <1>7 DEF GoodBindings, None, NoTurn

\* The types depend on the state only through the generations minted.
LEMMA SameTypes ==
    ASSUME UNCHANGED gens
    PROVE  /\ Generations' = Generations /\ Sessions' = Sessions /\ Bindings' = Bindings
           /\ RuntimeEvents' = RuntimeEvents /\ GoodBindings' = GoodBindings /\ GoodCalls' = GoodCalls
BY DEF Generations, Sessions, Bindings, RuntimeEvents, CallsOfFibers, GoodBindings, GoodCalls

\* A generation more makes every type larger.
LEMMA WiderTypes ==
    ASSUME gens \in Nat, gens' \in Nat, gens' >= gens
    PROVE  /\ Generations \subseteq Generations' /\ Sessions \subseteq Sessions' /\ Bindings \subseteq Bindings'
           /\ RuntimeEvents \subseteq RuntimeEvents' /\ GoodBindings \subseteq GoodBindings'
           /\ GoodCalls \subseteq GoodCalls' /\ Seq(RuntimeEvents) \subseteq Seq(RuntimeEvents')
<1>1. Generations \subseteq Generations'
  BY DEF Generations
<1>2. Sessions \subseteq Sessions'
  BY <1>1 DEF Sessions
<1>3. Bindings \subseteq Bindings'
  BY <1>1 DEF Bindings
<1>4. RuntimeEvents \subseteq RuntimeEvents'
  BY <1>1 DEF RuntimeEvents
<1>5. CallsOfFibers \subseteq CallsOfFibers'
  BY <1>1, <1>3 DEF CallsOfFibers
<1> QED
  BY <1>1, <1>2, <1>3, <1>4, <1>5 DEF GoodBindings, GoodCalls

\* A call moves on.
LEMMA Moves ==
    ASSUME NEW c \in GoodCalls, NEW pc \in Pcs,
           pc \in UsesProvider => c.provider \in Providers,
           pc \in UsesRow => c.snap.provider \in Providers,
           pc \in {"start.wait", "start.route", "start.stop"} => ~c.switches,
           pc \in {"start.adapter", "start.persist"} /\ c.switches => c.snap.provider \in Providers
    PROVE  [c EXCEPT !.pc = pc] \in GoodCalls
<1>1. [c EXCEPT !.pc = pc] \in CallsOfFibers
  BY DEF GoodCalls, CallsOfFibers
<1>2. LET d == [c EXCEPT !.pc = pc] IN
      d.pc = pc /\ d.provider = c.provider /\ d.snap = c.snap /\ d.switches = c.switches
  BY DEF GoodCalls, CallsOfFibers
<1> QED
  BY <1>1, <1>2 DEF GoodCalls

\* The call of one fiber is replaced.
LEMMA CallSet ==
    ASSUME CallOK, NEW f \in Fibers, NEW c \in GoodCalls, call' = [call EXCEPT ![f] = c], UNCHANGED gens
    PROVE  CallOK'
BY SameTypes DEF CallOK

\* The calls are of their type.
LEMMA CallIn == ASSUME TypeInv, NEW f \in Fibers PROVE call[f] \in GoodCalls
BY DEF TypeInv, CallOK

\* A call that goes on keeps its type when its new place may use what it knows.
LEMMA GoTypes ==
    ASSUME TypeInv, NEW f \in Fibers, UNCHANGED gens, NEW pc \in Pcs \cup {"end"}, Go(f, pc),
           pc \in UsesProvider => call[f].provider \in Providers,
           pc \in UsesRow => call[f].snap.provider \in Providers,
           pc \in {"start.wait", "start.route", "start.stop"} => ~call[f].switches,
           pc \in {"start.adapter", "start.persist"} /\ call[f].switches => call[f].snap.provider \in Providers
    PROVE  CallOK'
<1>1. call[f] \in GoodCalls /\ CallOK /\ NoCall \in GoodCalls /\ f \in DOMAIN call
  BY Empties DEF TypeInv, CallOK, LifecycleOK
<1>2. CASE pc = "end"
  BY <1>1, <1>2, CallSet DEF Go
<1>3. CASE pc # "end"
  <2>1. pc \in Pcs
    BY <1>3
  <2>2. [call[f] EXCEPT !.pc = pc] \in GoodCalls
    BY <1>1, <2>1, Moves
  <2>3. call' = [call EXCEPT ![f] = [call[f] EXCEPT !.pc = pc]]
    BY <1>1, <1>3 DEF Go
  <2> QED
    BY <1>1, <2>2, <2>3, CallSet
<1> QED
  BY <1>2, <1>3

\* Most points of a call ask nothing of it.
FreePcs == Pcs \ (UsesProvider \cup UsesRow)

\* A call that goes on to a place that uses neither provider nor row keeps its type.
LEMMA GoFree ==
    ASSUME TypeInv, NEW f \in Fibers, UNCHANGED gens, NEW pc \in FreePcs \cup {"end"}, Go(f, pc)
    PROVE  CallOK'
<1>1. pc \notin {"start.wait", "start.route", "start.stop", "start.adapter", "start.persist"}
      /\ pc \notin UsesProvider /\ pc \notin UsesRow /\ pc \in Pcs \cup {"end"}
  BY DEF FreePcs, UsesProvider, UsesRow, StartPcs, SendPcs
<1> QED
  BY <1>1, GoTypes

\* A failure goes on at a place that needs nothing.
LEMMA RaiseFree == ASSUME NEW f PROVE Raise(f) \in FreePcs \cup {"end"}
BY DEF Raise, FreePcs, Pcs, UsesProvider, UsesRow, StartPcs, SendPcs, CompactPcs, IdlePcs, InterruptPcs

\* A stop goes on at a place that needs nothing.
LEMMA StoppedFree == ASSUME NEW f PROVE Stopped(f) \in FreePcs \cup {"end"}
BY DEF Stopped, FreePcs, Pcs, UsesProvider, UsesRow, StartPcs, SendPcs, InterruptPcs

\* The places of a call, each once.
LEMMA Literals ==
    /\ {"done", "recover.drain", "recover.settle", "recover.stop", "recover.lock", "recover.route",
        "work.wait", "work.queue", "work.stop", "work.ready", "work.route",
        "send.fail", "send.finish", "send.failed", "compact.read", "compact.done", "compact.fail",
        "stop.wait", "stop.lock", "stop.route", "idle.look", "idle.list", "idle.fail",
        "interrupt.lock", "interrupt.route", "interrupt.done", "interrupt.fail",
        "delete.wait", "delete.lock", "delete.route", "delete.remove",
        "clear.wait", "clear.lock", "clear.clear", "clear.end"} = FreePcs
    /\ FreePcs \subseteq Pcs
    /\ {"start.wait", "start.route", "start.stop", "start.adapter", "start.persist", "start.undo",
        "start.restore", "start.restored", "send.turn", "send.returned", "send.persist",
        "recover.adapter", "recover.persist", "compact.adapter", "delete.adapter",
        "interrupt.adapter"} = UsesProvider
    /\ UsesProvider \cup UsesRow \subseteq Pcs
<1> USE DEF Pcs, UsesProvider, UsesRow, StartPcs, RecoverPcs, WorkPcs, SendPcs, CompactPcs, StopPcs,
       IdlePcs, InterruptPcs, DeletePcs, ClearPcs
<1>1. UsesProvider \cup UsesRow \subseteq Pcs
  OBVIOUS
<1>2. {"start.wait", "start.route", "start.stop", "start.adapter", "start.persist", "start.undo",
        "start.restore", "start.restored", "send.turn", "send.returned", "send.persist",
        "recover.adapter", "recover.persist", "compact.adapter", "delete.adapter",
        "interrupt.adapter"} = UsesProvider
  OBVIOUS
<1>3. {"done", "recover.drain", "recover.settle", "recover.stop", "recover.lock", "recover.route",
        "work.wait", "work.queue", "work.stop", "work.ready", "work.route",
        "send.fail", "send.finish", "send.failed", "compact.read", "compact.done", "compact.fail",
        "stop.wait", "stop.lock", "stop.route", "idle.look", "idle.list", "idle.fail",
        "interrupt.lock", "interrupt.route", "interrupt.done", "interrupt.fail",
        "delete.wait", "delete.lock", "delete.route", "delete.remove",
        "clear.wait", "clear.lock", "clear.clear", "clear.end"} = FreePcs
  BY DEF FreePcs
<1>4. FreePcs \subseteq Pcs
  BY DEF FreePcs
<1> QED
  BY <1>1, <1>2, <1>3, <1>4

\* What is emitted keeps the queues typed.
LEMMA EmitTypes ==
    ASSUME TypeInv, UNCHANGED gens, NEW p, NEW es, p \in Providers => es \in Seq(RuntimeEvents), Emit(p, es)
    PROVE  events' \in [Providers -> Seq(RuntimeEvents)]
<1>1. CASE p \in Providers
  BY <1>1 DEF Emit, TypeInv, RuntimesOK
<1>2. CASE p \notin Providers
  BY <1>2 DEF Emit, TypeInv, RuntimesOK
<1> QED
  BY <1>1, <1>2

\* An event is of its type.
LEMMA EventTypes ==
    ASSUME TypeInv, NEW p \in Providers, NEW t \in Turns,
           NEW type \in {"session.started", "session.exited", "turn.started",
                         "turn.completed", "task.started", "task.completed"} \cup Reports
    PROVE  /\ Event(type, t, p) \in RuntimeEvents
           /\ \A task \in Tasks : [Event(type, t, p) EXCEPT !.task = task] \in RuntimeEvents
BY Empties DEF TypeInv, LifecycleOK, RuntimesOK, Sessions, Event, RuntimeEvents

\* So is what a runtime says when it goes.
LEMMA ExitTypes == ASSUME TypeInv, NEW p \in Providers PROVE ExitOf(p) \in Seq(RuntimeEvents)
<1>1. Event("session.exited", NoTurn, p) \in RuntimeEvents
  BY EventTypes, Empties DEF TypeInv, LifecycleOK
<1> QED
  BY <1>1 DEF ExitOf

\* A stop of the adapter keeps the runtimes typed.
LEMMA AdapterStopTypes == ASSUME TypeInv, UNCHANGED gens, NEW p, AdapterStop(p) PROVE RuntimesOK'
<1>1. events' \in [Providers -> Seq(RuntimeEvents)]
  BY EmitTypes, ExitTypes DEF AdapterStop
<1>2. session' \in [Providers -> Sessions]
  BY Empties DEF AdapterStop, TypeInv, RuntimesOK, LifecycleOK
<1> QED
  BY <1>1, <1>2, SameTypes DEF RuntimesOK

\* Faults are counted up to their bound.
LEMMA FaultTypes == ASSUME TypeInv, NEW kind, Fault(kind) PROVE faults' \in 0..MaxUnusual
BY Numbers DEF TypeInv, HistoryOK, Fault, Unusual

\* A failing stop keeps the runtimes typed, and counts.
LEMMA AdapterStopFailsTypes ==
    ASSUME TypeInv, UNCHANGED gens, NEW p, AdapterStopFails(p) PROVE RuntimesOK' /\ faults' \in 0..MaxUnusual
<1>1. events' \in [Providers -> Seq(RuntimeEvents)]
  BY EmitTypes, ExitTypes DEF AdapterStopFails
<1>2. [NoSession EXCEPT !.state = "closed"] \in Sessions
  BY Empties DEF Sessions, TypeInv, LifecycleOK
<1>3. session' \in [Providers -> Sessions]
  BY <1>2 DEF AdapterStopFails, TypeInv, RuntimesOK
<1> QED
  BY <1>1, <1>3, SameTypes, FaultTypes DEF RuntimesOK, AdapterStopFails

\* A start of the adapter keeps the runtimes typed.
LEMMA AdapterStartTypes ==
    ASSUME TypeInv, UNCHANGED gens, NEW p, NEW g \in Generations, AdapterStart(p, g) PROVE RuntimesOK'
<1>1. [NoSession EXCEPT !.state = "live", !.gen = g] \in Sessions
  BY Empties DEF Sessions, TypeInv, LifecycleOK
<1>2. [NoEvent EXCEPT !.type = "session.started", !.gen = g] \in RuntimeEvents
  BY Empties DEF RuntimeEvents, TypeInv, LifecycleOK
<1>3. p \in Providers => Append(ExitOf(p), [NoEvent EXCEPT !.type = "session.started", !.gen = g]) \in Seq(RuntimeEvents)
  BY <1>2, ExitTypes
<1>4. events' \in [Providers -> Seq(RuntimeEvents)]
  BY <1>3, EmitTypes DEF AdapterStart
<1>5. session' \in [Providers -> Sessions]
  BY <1>1 DEF AdapterStart, TypeInv, RuntimesOK
<1> QED
  BY <1>4, <1>5, SameTypes DEF RuntimesOK

\* A failing start keeps the runtimes typed, and counts.
LEMMA AdapterStartFailsTypes ==
    ASSUME TypeInv, UNCHANGED gens, NEW p, AdapterStartFails(p) PROVE RuntimesOK' /\ faults' \in 0..MaxUnusual
BY AdapterStopTypes, FaultTypes DEF AdapterStartFails

\* A write to the row of a provider gives a row of that provider.
LEMMA UpsertedTypes ==
    ASSUME TypeInv, NEW p \in Providers
    PROVE  Upserted(p) \in GoodBindings /\ Upserted(p).provider = p
<1>1. binding \in Bindings /\ NoBinding \in Bindings
  BY Empties DEF TypeInv, LifecycleOK, GoodBindings
<1>2. 1 \in Generations
  BY DEF TypeInv, LifecycleOK, Generations, Legacy
<1>3. CASE binding.provider = p
  BY <1>1, <1>3 DEF Upserted, TypeInv
<1>4. CASE binding.provider # p
  <2>1. /\ [NoBinding EXCEPT !.provider = p, !.gen = Legacy, !.status = "running"] \in Bindings
        /\ [NoBinding EXCEPT !.provider = p, !.gen = Legacy, !.status = "running"].provider = p
    BY <1>1, <1>2 DEF Bindings, Legacy
  <2> QED
    BY <2>1, <1>4 DEF Upserted, GoodBindings
<1> QED
  BY <1>3, <1>4

Idles == [timer : {"off", "armed", "stale", "retry"}, due : BOOLEAN, owned : BOOLEAN, cleanup : BOOLEAN]

\* What becomes of the idle timer is of its type.
LEMMA IdleValues ==
    ASSUME TypeInv
    PROVE  /\ idle \in Idles /\ Cleared \in Idles /\ Retired \in Idles
           /\ \A live : Scheduled(live) \in Idles
           /\ \A b \in BOOLEAN : AfterFailure(b) \in Idles
<1>1. idle \in Idles /\ Cleared \in Idles
  BY DEF TypeInv, IdleOK, Idles, Cleared
<1>2. Retired \in Idles
  BY <1>1 DEF Retired, Idles, Cleared
<1>3. \A live : Scheduled(live) \in Idles
  BY <1>1 DEF Scheduled, Idles, Cleared
<1> QED
  BY <1>1, <1>2, <1>3 DEF AfterFailure, TypeInv

\* A step is well typed if what it changes is.
LEMMA Typed ==
    ASSUME TypeInv, UNCHANGED gens
    PROVE  /\ UNCHANGED lock \/ lock' \in Fibers \cup {"free"} => lock' \in Fibers \cup {"free"}
           /\ UNCHANGED current \/ current' \in Generations => current' \in Generations'
           /\ UNCHANGED <<session, events>> => RuntimesOK'
           /\ UNCHANGED binding \/ binding' \in GoodBindings => binding' \in GoodBindings'
           /\ UNCHANGED pump => PumpOK'
           /\ UNCHANGED idle \/ idle' \in Idles => IdleOK'
           /\ UNCHANGED turnState => TurnStateOK'
           /\ UNCHANGED call => CallOK'
           /\ UNCHANGED <<turns, begun, calls, haunted, missed, erased>> /\ (UNCHANGED faults \/ faults' \in 0..MaxUnusual)
                => HistoryOK'
<1>1. Turns' = Turns
  BY DEF Turns
<1>2. GoodResults' = GoodResults
  BY DEF GoodResults, Turns
<1>3. RuntimesOK /\ LifecycleOK /\ PumpOK /\ IdleOK /\ TurnStateOK /\ CallOK /\ HistoryOK /\ binding \in GoodBindings
  BY DEF TypeInv
<1>4. UNCHANGED <<session, events>> => RuntimesOK'
  BY <1>3, SameTypes DEF RuntimesOK
<1>5. UNCHANGED turnState => TurnStateOK'
  BY <1>1, <1>2, <1>3 DEF TurnStateOK, turnState
<1>6. UNCHANGED <<turns, begun, calls, haunted, missed, erased>> /\ (UNCHANGED faults \/ faults' \in 0..MaxUnusual)
                => HistoryOK'
  BY <1>1, <1>3, SameTypes DEF HistoryOK
<1>7. UNCHANGED call => CallOK'
  BY <1>3, SameTypes DEF CallOK
<1>8. UNCHANGED pump => PumpOK'
  BY <1>3, SameTypes DEF PumpOK
<1>9. UNCHANGED idle \/ idle' \in Idles => IdleOK'
  BY <1>3 DEF IdleOK, Idles
<1> QED
  BY <1>3, <1>4, <1>5, <1>6, <1>7, <1>8, <1>9, SameTypes DEF LifecycleOK

\* The invariant of the next state, part by part.
LEMMA TypeParts ==
    TypeInv' <=>
      /\ LifecycleOK' /\ RuntimesOK' /\ binding' \in GoodBindings' /\ PumpOK' /\ IdleOK' /\ tasks' \in SUBSET Tasks
      /\ fence' \in {"none", "open", "failed"} /\ TurnStateOK' /\ CallOK' /\ HistoryOK'
BY DEF TypeInv

-----------------------------------------------------------------------------
(* Types: a step of each kind *)

\* The types stay when a start looks the thread up, or takes its runtime over.
LEMMA StartRoutesT == ASSUME TypeInv, NEW f \in Fibers, StartRoutes(f) PROVE TypeInv'
<1>1. call[f] \in GoodCalls /\ binding \in GoodBindings /\ UNCHANGED gens
  BY CallIn DEF StartRoutes, lifecycle, TypeInv
<1>2. PICK pc \in {"start.stop", "start.adapter"} :
        /\ call' = [call EXCEPT ![f].snap = binding, ![f].pc = pc]
        /\ pc = "start.stop" => BoundLive
  BY DEF StartRoutes
<1>3. [call[f] EXCEPT !.snap = binding, !.pc = pc] \in GoodCalls
  BY <1>1, <1>2, Literals DEF GoodCalls, CallsOfFibers, StartRoutes, At, BoundLive, Bound, UsesRow, GoodBindings
<1>4. CallOK'
  BY <1>1, <1>2, <1>3, CallSet DEF TypeInv
<1> QED
  BY <1>1, <1>4, Typed DEF StartRoutes, TypeInv, LifecycleOK, lifecycle, turnState, history

\* The types stay when a recovery waits for the events of the dead runtime.
LEMMA RecoverDrainsT == ASSUME TypeInv, NEW f \in Fibers, RecoverDrains(f) PROVE TypeInv'
<1>1. UNCHANGED gens
  BY DEF RecoverDrains
<1>2. CallOK'
  BY <1>1, GoFree, RaiseFree, Literals DEF RecoverDrains
<1> QED
  BY <1>1, <1>2, Typed DEF RecoverDrains, TypeInv, LifecycleOK, lifecycle, turnState, history

\* The types stay when a recovery stops the runtime it found dead.
LEMMA RecoverStopsT == ASSUME TypeInv, NEW f \in Fibers, RecoverStops(f) PROVE TypeInv'
<1>1. UNCHANGED gens
  BY DEF RecoverStops
<1>2. CallOK'
  BY <1>1, GoFree, RaiseFree, Literals DEF RecoverStops
<1>3. RuntimesOK' /\ (UNCHANGED faults \/ faults' \in 0..MaxUnusual)
  BY <1>1, AdapterStopTypes, AdapterStopFailsTypes DEF RecoverStops, NoFault
<1>4. binding' \in GoodBindings
  BY DEF RecoverStops, TypeInv, GoodBindings, Bindings, BoundLive, Bound, NoBinding
<1> QED
  BY <1>1, <1>2, <1>3, <1>4, Typed DEF RecoverStops, Release, TypeInv, LifecycleOK, lifecycle, turnState, history

\* What a call knows is of its type.
LEMMA CallFields ==
    ASSUME TypeInv, NEW f \in Fibers
    PROVE  /\ call[f] \in GoodCalls /\ call[f] \in CallsOfFibers
           /\ call[f].gen \in Generations /\ call[f].prev \in Generations /\ call[f].turn \in Turns
           /\ call[f].snap \in Bindings /\ call[f].snap.gen \in Generations /\ call[f].displaced \in BOOLEAN
           /\ call[f].pc \in UsesProvider => call[f].provider \in Providers
           /\ call[f].pc \in UsesRow => call[f].snap.provider \in Providers
BY CallIn DEF GoodCalls, CallsOfFibers, Bindings

\* Where a recovered call goes on.
LEMMA RecoveredT ==
    ASSUME NEW f PROVE Recovered(f) \in {"send.turn", "compact.adapter", "end"}
BY DEF Recovered

\* The row of a started runtime is of its type.
LEMMA StartedT ==
    ASSUME TypeInv, NEW p \in Providers, NEW g \in Generations
    PROVE  Started(p, g) \in GoodBindings /\ Started(p, g).provider = p
<1>1. Upserted(p) \in GoodBindings /\ Upserted(p).provider = p
  BY UpsertedTypes
<1>2. NoTurn \in Turns
  BY Empties DEF TypeInv, LifecycleOK
<1> QED
  BY <1>1, <1>2 DEF Started, GoodBindings, Bindings

\* A run of the coordinator is entered.
LEMMA EnterRunT ==
    ASSUME TypeInv, NEW f \in Fibers, NEW from \in Pcs, NEW to \in Pcs, EnterRun(f, from, to),
           UNCHANGED <<session, binding, events, pump, idle, tasks, fence, turnState, history>>,
           to \in UsesProvider => from \in UsesProvider, to \notin UsesRow,
           to \notin {"start.wait", "start.stop", "start.adapter", "start.persist"},
           to = "start.route" => from = "start.wait"
    PROVE  TypeInv'
<1>1. gens' = gens + 1 /\ current' = gens + 1 /\ lock' = f /\ call[f].pc = from
      /\ call' = [call EXCEPT ![f] = [call[f] EXCEPT !.pc = to, !.gen = gens + 1, !.prev = current]]
  BY DEF EnterRun, Acquire, At
<1>2. gens \in Nat /\ current \in Generations /\ gens' \in Nat /\ gens' >= gens /\ gens' > Legacy
  BY <1>1 DEF TypeInv, LifecycleOK, Legacy
<1>3. gens + 1 \in Generations' /\ current \in Generations'
  BY <1>1, <1>2, WiderTypes DEF Generations
<1>4. call[f] \in GoodCalls /\ call[f] \in GoodCalls'
  BY <1>2, CallIn, WiderTypes
<1>5. [call[f] EXCEPT !.pc = to, !.gen = gens + 1, !.prev = current] \in GoodCalls'
  BY <1>1, <1>3, <1>4 DEF GoodCalls, CallsOfFibers
<1>6. CallOK'
  BY <1>1, <1>2, <1>5, WiderTypes DEF TypeInv, CallOK
<1>7. RuntimesOK'
  BY <1>2, WiderTypes DEF TypeInv, RuntimesOK
<1>8. Turns' = Turns /\ GoodResults' = GoodResults
  BY DEF Turns, GoodResults
<1>9. LifecycleOK' /\ binding' \in GoodBindings' /\ PumpOK' /\ IdleOK' /\ tasks' \in SUBSET Tasks
      /\ fence' \in {"none", "open", "failed"} /\ TurnStateOK' /\ HistoryOK'
  BY <1>1, <1>2, <1>3, <1>8, WiderTypes
  DEF TypeInv, LifecycleOK, PumpOK, IdleOK, TurnStateOK, HistoryOK, turnState, history
<1> QED
  BY <1>6, <1>7, <1>9, TypeParts

\* The types stay when a start enters its run under the lifecycle lock.
LEMMA StartEntersT == ASSUME TypeInv, NEW f \in Fibers, StartEnters(f) PROVE TypeInv'
<1>1. "start.wait" \in Pcs /\ "start.route" \in Pcs /\ "start.route" \notin UsesRow
      /\ ("start.route" \in UsesProvider => "start.wait" \in UsesProvider)
  BY Literals DEF UsesRow
<1> QED
  BY <1>1, EnterRunT DEF StartEnters

\* The types stay when a recovery enters its run.
LEMMA RecoverEntersT == ASSUME TypeInv, NEW f \in Fibers, RecoverEnters(f) PROVE TypeInv'
<1>1. "recover.lock" \in Pcs /\ "recover.route" \in Pcs /\ "recover.route" \notin UsesRow
      /\ ("recover.route" \in UsesProvider => "recover.lock" \in UsesProvider)
  BY Literals DEF UsesRow
<1> QED
  BY <1>1, EnterRunT DEF RecoverEnters

\* The types stay when a stop enters its run.
LEMMA StopEntersT == ASSUME TypeInv, NEW f \in Fibers, StopEnters(f) PROVE TypeInv'
<1>1. "stop.lock" \in Pcs /\ "stop.route" \in Pcs /\ "stop.route" \notin UsesRow
      /\ ("stop.route" \in UsesProvider => "stop.lock" \in UsesProvider)
  BY Literals DEF UsesRow
<1> QED
  BY <1>1, EnterRunT DEF StopEnters

\* The types stay when a deletion enters its run.
LEMMA DeleteEntersT == ASSUME TypeInv, NEW f \in Fibers, DeleteEnters(f) PROVE TypeInv'
<1>1. "delete.lock" \in Pcs /\ "delete.route" \in Pcs /\ "delete.route" \notin UsesRow
      /\ ("delete.route" \in UsesProvider => "delete.lock" \in UsesProvider)
  BY Literals DEF UsesRow
<1> QED
  BY <1>1, EnterRunT DEF DeleteEnters

\* The types stay when a clearing of the cursor enters its run.
LEMMA ClearEntersT == ASSUME TypeInv, NEW f \in Fibers, ClearEnters(f) PROVE TypeInv'
<1>1. "clear.lock" \in Pcs /\ "clear.clear" \in Pcs /\ "clear.clear" \notin UsesRow
      /\ ("clear.clear" \in UsesProvider => "clear.lock" \in UsesProvider)
  BY Literals DEF UsesRow
<1> QED
  BY <1>1, EnterRunT DEF ClearEnters

\* The types stay when a start that switches the provider stops the runtime before it.
LEMMA StartStopsOldT ==
    ASSUME TypeInv, NEW f \in Fibers, StartStopsOld(f) PROVE TypeInv'
<1>1. UNCHANGED gens
  BY DEF StartStopsOld, lifecycle, Rewind, LeaveRun
<1>2. RuntimesOK' /\ (UNCHANGED faults \/ faults' \in 0..MaxUnusual)
  BY <1>1, AdapterStopTypes, AdapterStopFailsTypes, AdapterStartTypes, AdapterStartFailsTypes,
     CallFields, FaultTypes, Typed DEF StartStopsOld, NoFault
<1>3. lock' \in Fibers \cup {"free"} /\ current' \in Generations
  BY <1>1, CallFields DEF StartStopsOld, Rewind, LeaveRun, Release, lifecycle, TypeInv, LifecycleOK
<1>4. CallOK'
<2>1. call[f].pc = "start.stop" /\ call[f] \in GoodCalls /\ call[f].snap.provider \in Providers /\ call[f].provider \in Providers
    BY CallFields, Literals DEF StartStopsOld, At, UsesRow
  <2>2. CASE Go(f, "end")
    BY <1>1, <2>2, GoFree
  <2>3. CASE call' = [call EXCEPT ![f].pc = "start.adapter", ![f].switches = TRUE]
    <3>1. [call[f] EXCEPT !.pc = "start.adapter", !.switches = TRUE] \in GoodCalls
      BY <2>1, Literals DEF GoodCalls, CallsOfFibers, UsesRow
    <3> QED
      BY <1>1, <2>3, <3>1, CallSet DEF TypeInv
  <2> QED
    BY <2>2, <2>3 DEF StartStopsOld
<1> QED
  BY <1>1, <1>2, <1>3, <1>4, Typed DEF StartStopsOld, TypeInv, LifecycleOK, lifecycle, turnState, history

\* The types stay when a start has the adapter start a runtime.
LEMMA StartStartsT ==
    ASSUME TypeInv, NEW f \in Fibers, StartStarts(f) PROVE TypeInv'
<1>1. UNCHANGED gens
  BY DEF StartStarts, lifecycle, Rewind, LeaveRun
<1>2. call[f].gen \in Generations
  BY <1>1, CallFields
<1>3. RuntimesOK' /\ (UNCHANGED faults \/ faults' \in 0..MaxUnusual)
  BY <1>1, AdapterStopTypes, AdapterStopFailsTypes, AdapterStartTypes, AdapterStartFailsTypes,
     CallFields, FaultTypes, Typed DEF StartStarts, NoFault
<1>4. lock' \in Fibers \cup {"free"} /\ current' \in Generations
  BY <1>1, CallFields DEF StartStarts, Rewind, LeaveRun, Release, lifecycle, TypeInv, LifecycleOK
<1>5. CallOK'
  <2>1. call[f] \in GoodCalls /\ call[f].pc \in UsesProvider /\ call[f].provider \in Providers
    BY CallFields, Literals DEF StartStarts, At
  <2> QED
    BY <1>1, <2>1, GoTypes, GoFree, RaiseFree, RecoveredT, Literals DEF StartStarts, At, UsesRow, GoodCalls
<1> QED
  BY <1>1, <1>2, <1>3, <1>4, <1>5, Typed DEF StartStarts, TypeInv, LifecycleOK, lifecycle, turnState, history

\* What is counted and remembered keeps its types.
LEMMA HistoryT ==
    ASSUME TypeInv, UNCHANGED gens,
           UNCHANGED turns \/ turns' \in Turns, UNCHANGED begun \/ begun' \in 0..MaxTasks,
           UNCHANGED calls \/ calls' \in 0..MaxCalls, UNCHANGED faults \/ faults' \in 0..MaxUnusual,
           UNCHANGED haunted \/ haunted' \in BOOLEAN, UNCHANGED missed \/ missed' \subseteq Generations,
           UNCHANGED erased \/ erased' \subseteq Turns
    PROVE  HistoryOK'
BY SameTypes DEF HistoryOK, TypeInv, Turns

\* So does what a fresh row leaves of it.
LEMMA ForgetsT ==
    ASSUME TypeInv, UNCHANGED gens, Forgets \/ UNCHANGED <<missed, erased>>,
           UNCHANGED <<turns, begun, calls, haunted>>, UNCHANGED faults \/ faults' \in 0..MaxUnusual
    PROVE  HistoryOK'
<1>1. missed' \subseteq Generations /\ erased' \subseteq Turns
  BY DEF Forgets, TypeInv, HistoryOK
<1> QED
  BY <1>1, HistoryT

\* The types stay when a start writes its row.
LEMMA StartPersistsT ==
    ASSUME TypeInv, NEW f \in Fibers, StartPersists(f) PROVE TypeInv'
<1>1. UNCHANGED gens
  BY DEF StartPersists, lifecycle, Rewind, LeaveRun
<1>2. lock' \in Fibers \cup {"free"} /\ current' \in Generations
  BY <1>1, CallFields DEF StartPersists, Rewind, LeaveRun, Release, lifecycle, TypeInv, LifecycleOK
<1>3. CallOK'
  <2>1. call[f] \in GoodCalls /\ call[f].pc \in UsesProvider /\ call[f].provider \in Providers
    BY CallFields, Literals DEF StartPersists, At
  <2> QED
    BY <1>1, <2>1, GoTypes, GoFree, RaiseFree, RecoveredT, Literals DEF StartPersists, At, UsesRow, GoodCalls
<1>4. UNCHANGED faults \/ faults' \in 0..MaxUnusual
  BY <1>1, FaultTypes DEF StartPersists, NoFault
<1>5. binding' \in GoodBindings
  <2>1. call[f].provider \in Providers /\ call[f].gen \in Generations
    BY CallFields, Literals DEF StartPersists, At
  <2>2. Started(call[f].provider, call[f].gen) \in GoodBindings
    BY <2>1, StartedT
  <2>3. [Started(call[f].provider, call[f].gen) EXCEPT !.rotation = FALSE] \in GoodBindings
    BY <2>1, <2>2, StartedT DEF GoodBindings, Bindings
  <2> QED
    BY <2>3 DEF StartPersists, TypeInv
<1>6. fence' \in {"none", "open", "failed"}
  BY <1>1, <1>1 DEF StartPersists, TypeInv
<1>7. HistoryOK'
  BY <1>1, <1>4, ForgetsT DEF StartPersists
<1> QED
  BY <1>1, <1>2, <1>3, <1>4, <1>5, <1>6, <1>7, Typed DEF StartPersists, TypeInv, LifecycleOK, lifecycle, turnState

\* The types stay when a start of an unwritten row stops what it started.
LEMMA StartUndoesT ==
    ASSUME TypeInv, NEW f \in Fibers, StartUndoes(f) PROVE TypeInv'
<1>1. UNCHANGED gens
  BY DEF StartUndoes, lifecycle, Rewind, LeaveRun
<1>2. RuntimesOK' /\ (UNCHANGED faults \/ faults' \in 0..MaxUnusual)
  BY <1>1, AdapterStopTypes, AdapterStopFailsTypes, AdapterStartTypes, AdapterStartFailsTypes,
     CallFields, FaultTypes, Typed DEF StartUndoes, NoFault
<1>3. lock' \in Fibers \cup {"free"} /\ current' \in Generations
  BY <1>1, CallFields DEF StartUndoes, Rewind, LeaveRun, Release, lifecycle, TypeInv, LifecycleOK
<1>4. CallOK'
  <2>1. call[f] \in GoodCalls /\ call[f].pc \in UsesProvider /\ call[f].provider \in Providers
    BY CallFields, Literals DEF StartUndoes, At
  <2> QED
    BY <1>1, <2>1, GoTypes, GoFree, RaiseFree, RecoveredT, Literals DEF StartUndoes, At, UsesRow, GoodCalls
<1> QED
  BY <1>1, <1>2, <1>3, <1>4, Typed DEF StartUndoes, TypeInv, LifecycleOK, lifecycle, turnState, history

\* The types stay when a start whose new provider failed starts the one before it.
LEMMA StartRestoresT ==
    ASSUME TypeInv, NEW f \in Fibers, StartRestores(f) PROVE TypeInv'
<1>1. UNCHANGED gens
  BY DEF StartRestores, lifecycle, Rewind, LeaveRun
<1>2. call[f].snap.gen \in Generations
  BY <1>1, CallFields
<1>3. RuntimesOK' /\ (UNCHANGED faults \/ faults' \in 0..MaxUnusual)
  BY <1>1, AdapterStopTypes, AdapterStopFailsTypes, AdapterStartTypes, AdapterStartFailsTypes,
     CallFields, FaultTypes, Typed DEF StartRestores, NoFault
<1>4. lock' \in Fibers \cup {"free"} /\ current' \in Generations
  BY <1>1, CallFields DEF StartRestores, Rewind, LeaveRun, Release, lifecycle, TypeInv, LifecycleOK
<1>5. CallOK'
  <2>1. call[f] \in GoodCalls /\ call[f].pc \in UsesProvider /\ call[f].provider \in Providers
    BY CallFields, Literals DEF StartRestores, At
  <2> QED
    BY <1>1, <2>1, GoTypes, GoFree, RaiseFree, RecoveredT, Literals DEF StartRestores, At, UsesRow, GoodCalls
<1> QED
  BY <1>1, <1>2, <1>3, <1>4, <1>5, Typed DEF StartRestores, TypeInv, LifecycleOK, lifecycle, turnState, history

\* The types stay when the provider before the switch is bound again.
LEMMA StartRestoredT ==
    ASSUME TypeInv, NEW f \in Fibers, StartRestored(f) PROVE TypeInv'
<1>1. UNCHANGED gens
  BY DEF StartRestored, lifecycle, Rewind, LeaveRun
<1>2. lock' \in Fibers \cup {"free"} /\ current' \in Generations
  BY <1>1, CallFields DEF StartRestored, Rewind, LeaveRun, Release, lifecycle, TypeInv, LifecycleOK
<1>3. CallOK'
  BY <1>1, GoFree, RaiseFree, StoppedFree, RecoveredT, Literals DEF StartRestored
<1>4. UNCHANGED faults \/ faults' \in 0..MaxUnusual
  BY <1>1, FaultTypes DEF StartRestored, NoFault
<1>5. binding' \in GoodBindings
  <2>1. call[f].snap.provider \in Providers /\ call[f].snap.gen \in Generations
    BY CallFields DEF StartRestored, At, UsesRow
  <2> QED
    BY <2>1, StartedT DEF StartRestored, TypeInv
<1>7. HistoryOK'
  BY <1>1, <1>4, ForgetsT DEF StartRestored
<1> QED
  BY <1>1, <1>2, <1>3, <1>4, <1>5, <1>7, Typed DEF StartRestored, TypeInv, LifecycleOK, lifecycle, turnState

\* The types stay when a recovery settles the turns of the dead runtime.
LEMMA RecoverSettlesT ==
    ASSUME TypeInv, NEW f \in Fibers, RecoverSettles(f) PROVE TypeInv'
<1>1. UNCHANGED gens
  BY DEF RecoverSettles, lifecycle, Rewind, LeaveRun
<1>2. CallOK'
  BY <1>1, GoFree, RaiseFree, StoppedFree, RecoveredT, Literals DEF RecoverSettles
<1>3. lock' \in Fibers \cup {"free"}
  BY <1>1, <1>1 DEF RecoverSettles, Release, TypeInv, LifecycleOK
<1> QED
  BY <1>1, <1>2, <1>3, Typed DEF RecoverSettles, TypeInv, LifecycleOK, lifecycle, turnState, history

\* A call that found its runtime is of its type.
LEMMA ResumedT ==
    ASSUME TypeInv, NEW f \in Fibers, NEW p \in Providers
    PROVE  Resumed(f, p) \in GoodCalls
<1>1. CASE Recovered(f) = "end"
  BY <1>1, Empties DEF Resumed, TypeInv, LifecycleOK
<1>2. CASE Recovered(f) # "end"
  <2>1. Recovered(f) \in {"send.turn", "compact.adapter"}
    BY <1>2, RecoveredT
  <2> DEFINE c == [NoCall EXCEPT !.kind = call[f].kind, !.displaced = call[f].displaced,
                                 !.provider = p, !.pc = Recovered(f)]
  <2>2. Resumed(f, p) = c
    BY <1>2 DEF Resumed
  <2>3. Recovered(f) \in Pcs
    BY <2>1, Literals
  <2>0. NoCall \in CallsOfFibers
    BY Empties DEF GoodCalls, TypeInv, LifecycleOK
  <2>4. c \in CallsOfFibers
    BY <2>0, <2>3, CallFields DEF CallsOfFibers
  <2>5. c.pc = Recovered(f) /\ c.provider = p
    BY <2>0 DEF CallsOfFibers
  <2> HIDE DEF c
  <2> QED
    BY <2>1, <2>2, <2>4, <2>5 DEF GoodCalls, UsesRow
<1> QED
  BY <1>1, <1>2

\* A bound thread is bound to a provider.
LEMMA BoundIn == ASSUME TypeInv, Bound PROVE binding.provider \in Providers
BY DEF TypeInv, GoodBindings, Bound

\* The types stay when a recovery looks for a runtime that lives.
LEMMA RecoverRoutesT ==
    ASSUME TypeInv, NEW f \in Fibers, RecoverRoutes(f) PROVE TypeInv'
<1>1. UNCHANGED gens
  BY DEF RecoverRoutes, lifecycle, Rewind, LeaveRun
<1>2. lock' \in Fibers \cup {"free"} /\ current' \in Generations
  BY <1>1, CallFields DEF RecoverRoutes, Rewind, LeaveRun, Release, lifecycle, TypeInv, LifecycleOK,
     GoodBindings, Bindings
<1>3. CallOK'
  <2>1. CASE Go(f, Raise(f))
    BY <1>1, <2>1, GoFree, RaiseFree
  <2>2. CASE BoundLive /\ call' = [call EXCEPT ![f] = Resumed(f, binding.provider)]
    BY <1>1, <2>2, BoundIn, ResumedT, CallSet DEF BoundLive, TypeInv
  <2>3. CASE Bound /\ call' = [call EXCEPT ![f].snap = binding, ![f].provider = binding.provider,
                                  ![f].pc = "recover.adapter"]
    <3> DEFINE c == [call[f] EXCEPT !.snap = binding, !.provider = binding.provider, !.pc = "recover.adapter"]
    <3>1. binding \in Bindings /\ binding.provider \in Providers /\ call[f] \in CallsOfFibers
      BY <2>3, BoundIn, CallFields DEF TypeInv, GoodBindings
    <3>2. c \in CallsOfFibers
      BY <3>1, Literals DEF CallsOfFibers
    <3>3. c.pc = "recover.adapter" /\ c.provider \in Providers
      BY <3>1 DEF CallsOfFibers
    <3>4. c \in GoodCalls
      BY <3>2, <3>3 DEF GoodCalls, UsesRow
    <3>5. call' = [call EXCEPT ![f] = c]
      BY <2>3
    <3> HIDE DEF c
    <3> QED
      BY <1>1, <3>4, <3>5, CallSet DEF TypeInv
  <2> QED
    BY <2>1, <2>2, <2>3 DEF RecoverRoutes
<1> QED
  BY <1>1, <1>2, <1>3, Typed DEF RecoverRoutes, TypeInv, LifecycleOK, lifecycle, turnState, history

\* The types stay when a recovery has the adapter resume the session.
LEMMA RecoverStartsT ==
    ASSUME TypeInv, NEW f \in Fibers, RecoverStarts(f) PROVE TypeInv'
<1>1. UNCHANGED gens
  BY DEF RecoverStarts, lifecycle, Rewind, LeaveRun
<1>2. call[f].gen \in Generations
  BY <1>1, CallFields
<1>3. RuntimesOK' /\ HistoryOK'
  <2>1. RuntimesOK' /\ (UNCHANGED faults \/ faults' \in 0..MaxUnusual)
    BY <1>1, AdapterStopTypes, AdapterStopFailsTypes, AdapterStartTypes, AdapterStartFailsTypes,
       CallFields, FaultTypes, Typed DEF RecoverStarts, NoFault
  <2>2. UNCHANGED missed \/ missed' \subseteq Generations
    BY <1>2 DEF RecoverStarts, TypeInv, HistoryOK
  <2> QED
    BY <1>1, <2>1, <2>2, HistoryT DEF RecoverStarts
<1>4. lock' \in Fibers \cup {"free"} /\ current' \in Generations
  BY <1>1, CallFields DEF RecoverStarts, Rewind, LeaveRun, Release, lifecycle, TypeInv, LifecycleOK
<1>5. CallOK'
  <2>1. call[f] \in GoodCalls /\ call[f].pc \in UsesProvider /\ call[f].provider \in Providers
    BY CallFields, Literals DEF RecoverStarts, At
  <2> QED
    BY <1>1, <2>1, GoTypes, GoFree, RaiseFree, RecoveredT, Literals DEF RecoverStarts, At, UsesRow, GoodCalls
<1> QED
  BY <1>1, <1>2, <1>3, <1>4, <1>5, Typed DEF RecoverStarts, TypeInv, LifecycleOK, lifecycle, turnState

\* The types stay when a recovery writes its row.
LEMMA RecoverPersistsT ==
    ASSUME TypeInv, NEW f \in Fibers, RecoverPersists(f) PROVE TypeInv'
<1>1. UNCHANGED gens
  BY DEF RecoverPersists, lifecycle, Rewind, LeaveRun
<1>2. lock' \in Fibers \cup {"free"} /\ current' \in Generations
  BY <1>1, CallFields DEF RecoverPersists, Rewind, LeaveRun, Release, lifecycle, TypeInv, LifecycleOK
<1>3. CallOK'
  <2>1. call[f] \in GoodCalls /\ call[f].pc \in UsesProvider /\ call[f].provider \in Providers
    BY CallFields, Literals DEF RecoverPersists, At
  <2>2. CASE call' = [call EXCEPT ![f] = Resumed(f, call[f].provider)]
    BY <1>1, <2>1, <2>2, ResumedT, CallSet DEF TypeInv
  <2>3. CASE Go(f, Raise(f))
    BY <1>1, <2>3, GoFree, RaiseFree
  <2> QED
    BY <2>2, <2>3 DEF RecoverPersists
<1>4. UNCHANGED faults \/ faults' \in 0..MaxUnusual
  BY <1>1, FaultTypes DEF RecoverPersists, NoFault
<1>5. binding' \in GoodBindings
  <2>1. call[f].provider \in Providers /\ call[f].gen \in Generations /\ call[f].snap.rotation \in BOOLEAN
    BY CallFields, Literals DEF RecoverPersists, At, Bindings
  <2>2. Started(call[f].provider, call[f].gen) \in GoodBindings
    BY <2>1, StartedT
  <2>3. [Started(call[f].provider, call[f].gen) EXCEPT !.rotation = @ /\ ~call[f].snap.rotation] \in GoodBindings
    BY <2>1, <2>2, StartedT DEF GoodBindings, Bindings
  <2> QED
    BY <2>3 DEF RecoverPersists, TypeInv
<1>7. HistoryOK'
  BY <1>1, <1>4, ForgetsT DEF RecoverPersists
<1> QED
  BY <1>1, <1>2, <1>3, <1>4, <1>5, <1>7, Typed DEF RecoverPersists, TypeInv, LifecycleOK, lifecycle, turnState

\* What is known of the turns keeps its types.
LEMMA TurnStateT ==
    ASSUME TypeInv, UNCHANGED dispatch \/ dispatch' \in {"none", "open", "void"},
           UNCHANGED outstanding \/ outstanding' \subseteq Turns, UNCHANGED recent \/ recent' \subseteq Turns,
           UNCHANGED retained \/ retained' \in GoodResults
    PROVE  TurnStateOK'
BY DEF TurnStateOK, TypeInv, Turns, GoodResults

\* Calls are counted up to their bound.
LEMMA CallsT == ASSUME TypeInv, NEW f, NEW kind, Calls(f, kind) PROVE calls' \in 0..MaxCalls
BY Numbers DEF TypeInv, HistoryOK, Calls

\* A new call is of its type.
LEMMA NewCallT ==
    ASSUME TypeInv, NEW f \in Fibers, UNCHANGED gens, NEW c \in CallsOfFibers, c.pc \in FreePcs,
           call' = [call EXCEPT ![f] = c]
    PROVE  CallOK'
<1>1. c \in GoodCalls
  BY Literals DEF GoodCalls, FreePcs, UsesProvider, StartPcs
<1> QED
  BY <1>1, CallSet DEF TypeInv

\* The types stay when the source restarts the session.
LEMMA RestartCalledT ==
    ASSUME TypeInv, RestartCalled PROVE TypeInv'
<1>1. UNCHANGED gens
  BY DEF RestartCalled, lifecycle, Rewind, LeaveRun
<1>2. CallOK'
  <2> DEFINE c == [NoCall EXCEPT !.kind = "restart", !.pc = "stop.wait"]
  <2>1. NoCall \in CallsOfFibers /\ "source" \in Fibers
    BY Empties DEF TypeInv, LifecycleOK, GoodCalls, Fibers
  <2>2. c \in CallsOfFibers /\ c.pc = "stop.wait"
    BY <2>1, Literals DEF CallsOfFibers, CallKinds, Source
  <2>3. call' = [call EXCEPT !["source"] = c]
    BY DEF RestartCalled
  <2> HIDE DEF c
  <2> QED
    BY <1>1, <2>1, <2>2, <2>3, NewCallT, Literals
<1>3. HistoryOK'
  BY <1>1, CallsT, HistoryT DEF RestartCalled
<1> QED
  BY <1>1, <1>2, <1>3, Typed DEF RestartCalled, TypeInv, LifecycleOK, lifecycle, turnState, history

\* The types stay when the reaper stops the session.
LEMMA ReapCalledT ==
    ASSUME TypeInv, ReapCalled PROVE TypeInv'
<1>1. UNCHANGED gens
  BY DEF ReapCalled, lifecycle, Rewind, LeaveRun
<1>2. CallOK'
  <2> DEFINE c == [NoCall EXCEPT !.kind = "reap", !.pc = "stop.wait"]
  <2>1. NoCall \in CallsOfFibers /\ "reaper" \in Fibers
    BY Empties DEF TypeInv, LifecycleOK, GoodCalls, Fibers
  <2>2. c \in CallsOfFibers /\ c.pc = "stop.wait"
    BY <2>1, Literals DEF CallsOfFibers, CallKinds, Source
  <2>3. call' = [call EXCEPT !["reaper"] = c]
    BY DEF ReapCalled
  <2> HIDE DEF c
  <2> QED
    BY <1>1, <2>1, <2>2, <2>3, NewCallT, Literals
<1>3. HistoryOK'
  BY <1>1, CallsT, HistoryT DEF ReapCalled
<1> QED
  BY <1>1, <1>2, <1>3, Typed DEF ReapCalled, TypeInv, LifecycleOK, lifecycle, turnState, history

\* The types stay when the thread is deleted.
LEMMA DeleteCalledT ==
    ASSUME TypeInv, DeleteCalled PROVE TypeInv'
<1>1. UNCHANGED gens
  BY DEF DeleteCalled, lifecycle, Rewind, LeaveRun
<1>2. CallOK'
  <2> DEFINE c == [NoCall EXCEPT !.kind = "stop", !.pc = "delete.wait"]
  <2>1. NoCall \in CallsOfFibers /\ "deleter" \in Fibers
    BY Empties DEF TypeInv, LifecycleOK, GoodCalls, Fibers
  <2>2. c \in CallsOfFibers /\ c.pc = "delete.wait"
    BY <2>1, Literals DEF CallsOfFibers, CallKinds, Source
  <2>3. call' = [call EXCEPT !["deleter"] = c]
    BY DEF DeleteCalled
  <2> HIDE DEF c
  <2> QED
    BY <1>1, <2>1, <2>2, <2>3, NewCallT, Literals
<1>3. HistoryOK'
  BY <1>1, CallsT, HistoryT DEF DeleteCalled
<1> QED
  BY <1>1, <1>2, <1>3, Typed DEF DeleteCalled, TypeInv, LifecycleOK, lifecycle, turnState, history

\* The types stay when the source starts a session.
LEMMA StartCalledT ==
    ASSUME TypeInv, NEW p \in Providers, StartCalled(p) PROVE TypeInv'
<1>1. UNCHANGED gens
  BY DEF StartCalled, lifecycle
<1>2. CallOK'
  <2> DEFINE c == [NoCall EXCEPT !.kind = "start", !.pc = "start.wait", !.provider = p, !.replaces = fence = "failed"]
  <2>1. NoCall \in CallsOfFibers /\ "source" \in Fibers /\ ~NoCall.switches
    BY Empties DEF TypeInv, LifecycleOK, GoodCalls, Fibers, NoCall
  <2>2. c \in CallsOfFibers /\ c.pc = "start.wait" /\ c.provider = p /\ ~c.switches
    BY <2>1, Literals DEF CallsOfFibers, CallKinds, Source
  <2>3. call' = [call EXCEPT !["source"] = c]
    BY DEF StartCalled
  <2> HIDE DEF c
  <2>4. c \in GoodCalls
    BY <2>2 DEF GoodCalls, UsesRow
  <2> QED
    BY <1>1, <2>1, <2>3, <2>4, CallSet DEF TypeInv
<1>3. HistoryOK'
  BY <1>1, CallsT, HistoryT DEF StartCalled
<1>4. idle' \in Idles
  BY IdleValues DEF StartCalled
<1> QED
  BY <1>1, <1>2, <1>3, <1>4, Typed DEF StartCalled, TypeInv, LifecycleOK, lifecycle, turnState

\* The types stay when the source sends a turn or compacts.
LEMMA WorkCalledT ==
    ASSUME TypeInv, NEW f \in Fibers, NEW kind \in {"send", "compact"}, WorkCalled(f, kind) PROVE TypeInv'
<1>1. UNCHANGED gens
  BY DEF WorkCalled, lifecycle
<1>2. CallOK'
  <2> DEFINE c == [NoCall EXCEPT !.kind = kind, !.displaced = Displaced, 
                      !.pc = IF IdleStopInFlight THEN "work.queue" ELSE "work.wait"]
  <2>1. NoCall \in CallsOfFibers /\ Displaced \in BOOLEAN /\ kind \in CallKinds
    BY Empties DEF TypeInv, LifecycleOK, GoodCalls, Displaced, IdleStopInFlight, CallKinds, Source
  <2>2. (IF IdleStopInFlight THEN "work.queue" ELSE "work.wait") \in Pcs
    BY DEF Pcs, WorkPcs
  <2>3. c \in CallsOfFibers /\ c.pc \in {"work.queue", "work.wait"}
    BY <2>1, <2>2 DEF CallsOfFibers
  <2>4. call' = [call EXCEPT ![f] = c]
    BY DEF WorkCalled
  <2> HIDE DEF c
  <2> QED
    BY <1>1, <2>3, <2>4, NewCallT, Literals
<1>3. HistoryOK'
  BY <1>1, CallsT, HistoryT DEF WorkCalled
<1> QED
  BY <1>1, <1>2, <1>3, Typed DEF WorkCalled, TypeInv, LifecycleOK, lifecycle, turnState

\* The types stay when the source interrupts.
LEMMA InterruptCalledT ==
    ASSUME TypeInv, InterruptCalled PROVE TypeInv'
<1>1. UNCHANGED gens
  BY DEF InterruptCalled, lifecycle
<1>2. CallOK'
  <2> DEFINE c == [NoCall EXCEPT !.kind = "interrupt", !.pc = "interrupt.lock"]
  <2>1. NoCall \in CallsOfFibers /\ "source" \in Fibers
    BY Empties DEF TypeInv, LifecycleOK, GoodCalls, Fibers
  <2>2. c \in CallsOfFibers /\ c.pc = "interrupt.lock"
    BY <2>1, Literals DEF CallsOfFibers, CallKinds, Source
  <2>3. UNCHANGED call \/ call' = [call EXCEPT !["source"] = c]
    BY DEF InterruptCalled
  <2> HIDE DEF c
  <2> QED
    BY <1>1, <2>1, <2>2, <2>3, NewCallT, Literals, Typed
<1>3. HistoryOK'
  BY <1>1, CallsT, HistoryT DEF InterruptCalled
<1> QED
  BY <1>1, <1>2, <1>3, Typed DEF InterruptCalled, TypeInv, LifecycleOK, lifecycle, turnState

\* The types stay when the resume cursor is cleared.
LEMMA ClearCalledT ==
    ASSUME TypeInv, ClearCalled PROVE TypeInv'
<1>1. UNCHANGED gens
  BY DEF ClearCalled, lifecycle
<1>2. CallOK'
  <2>1. PICK preserve \in BOOLEAN :
          call' = [call EXCEPT !["source"] = [NoCall EXCEPT !.kind = "clear", !.pc = "clear.wait", !.replaces = ~preserve]]
    BY DEF ClearCalled
  <2> DEFINE c == [NoCall EXCEPT !.kind = "clear", !.pc = "clear.wait", !.replaces = ~preserve]
  <2>2. NoCall \in CallsOfFibers /\ "source" \in Fibers
    BY Empties DEF TypeInv, LifecycleOK, GoodCalls, Fibers
  <2>3. c \in CallsOfFibers /\ c.pc = "clear.wait"
    BY <2>2, Literals DEF CallsOfFibers, CallKinds, Source
  <2>4. call' = [call EXCEPT !["source"] = c]
    BY <2>1
  <2> HIDE DEF c
  <2> QED
    BY <1>1, <2>2, <2>3, <2>4, NewCallT, Literals
<1>3. HistoryOK'
  BY <1>1, CallsT, HistoryT DEF ClearCalled
<1> QED
  BY <1>1, <1>2, <1>3, Typed DEF ClearCalled, TypeInv, LifecycleOK, lifecycle, turnState

\* The types stay when a stop waits for its place.
LEMMA StopWaitsT ==
    ASSUME TypeInv, NEW f \in Fibers, StopWaits(f) PROVE TypeInv'
<1>1. UNCHANGED gens
  BY DEF StopWaits, lifecycle, Rewind, LeaveRun
<1>2. CallOK'
  BY <1>1, GoFree, RaiseFree, StoppedFree, RecoveredT, Literals DEF StopWaits
<1>3. idle' \in Idles
  BY <1>1, IdleValues DEF StopWaits
<1> QED
  BY <1>1, <1>2, <1>3, Typed DEF StopWaits, TypeInv, LifecycleOK, lifecycle, turnState, history

\* The types stay when a deletion waits for its place.
LEMMA DeleteWaitsT ==
    ASSUME TypeInv, NEW f \in Fibers, DeleteWaits(f) PROVE TypeInv'
<1>1. UNCHANGED gens
  BY DEF DeleteWaits, lifecycle, Rewind, LeaveRun
<1>2. CallOK'
  BY <1>1, GoFree, RaiseFree, StoppedFree, RecoveredT, Literals DEF DeleteWaits
<1>3. idle' \in Idles
  BY <1>1, IdleValues DEF DeleteWaits
<1> QED
  BY <1>1, <1>2, <1>3, Typed DEF DeleteWaits, TypeInv, LifecycleOK, lifecycle, turnState, history

\* The types stay when a clearing waits for its place.
LEMMA ClearWaitsT ==
    ASSUME TypeInv, NEW f \in Fibers, ClearWaits(f) PROVE TypeInv'
<1>1. UNCHANGED gens
  BY DEF ClearWaits, lifecycle, Rewind, LeaveRun
<1>2. CallOK'
  BY <1>1, GoFree, RaiseFree, StoppedFree, RecoveredT, Literals DEF ClearWaits
<1>3. idle' \in Idles
  BY <1>1, IdleValues DEF ClearWaits
<1> QED
  BY <1>1, <1>2, <1>3, Typed DEF ClearWaits, TypeInv, LifecycleOK, lifecycle, turnState, history

\* The types stay when a clearing ends.
LEMMA ClearEndsT ==
    ASSUME TypeInv, NEW f \in Fibers, ClearEnds(f) PROVE TypeInv'
<1>1. UNCHANGED gens
  BY DEF ClearEnds, lifecycle, Rewind, LeaveRun
<1>2. CallOK'
  BY <1>1, GoFree, RaiseFree, StoppedFree, RecoveredT, Literals DEF ClearEnds
<1>3. idle' \in Idles
  BY <1>1, IdleValues DEF ClearEnds
<1> QED
  BY <1>1, <1>2, <1>3, Typed DEF ClearEnds, TypeInv, LifecycleOK, lifecycle, turnState, history

\* The types stay when work waits for the idle stop before it.
LEMMA WorkBeginsT ==
    ASSUME TypeInv, NEW f \in Fibers, WorkBegins(f) PROVE TypeInv'
<1>1. UNCHANGED gens
  BY DEF WorkBegins, lifecycle, Rewind, LeaveRun
<1>2. CallOK'
  BY <1>1, GoFree, RaiseFree, StoppedFree, RecoveredT, Literals DEF WorkBegins
<1>3. idle' \in Idles
  BY <1>1, IdleValues DEF WorkBegins
<1> QED
  BY <1>1, <1>2, <1>3, Typed DEF WorkBegins, TypeInv, LifecycleOK, lifecycle, turnState, history

\* The types stay when work takes the idle timer over.
LEMMA WorkDisplacesT ==
    ASSUME TypeInv, NEW f \in Fibers, WorkDisplaces(f) PROVE TypeInv'
<1>1. UNCHANGED gens
  BY DEF WorkDisplaces, lifecycle, Rewind, LeaveRun
<1>2. CallOK'
  BY <1>1, GoFree, RaiseFree, StoppedFree, RecoveredT, Literals DEF WorkDisplaces
<1>3. idle' \in Idles
  BY <1>1, IdleValues DEF WorkDisplaces
<1> QED
  BY <1>1, <1>2, <1>3, Typed DEF WorkDisplaces, TypeInv, LifecycleOK, lifecycle, turnState, history

\* The types stay when work finds the thread ready.
LEMMA WorkReadyT ==
    ASSUME TypeInv, NEW f \in Fibers, WorkReady(f) PROVE TypeInv'
<1>1. UNCHANGED gens
  BY DEF WorkReady, lifecycle, Rewind, LeaveRun
<1>2. CallOK'
  BY <1>1, GoFree, RaiseFree, StoppedFree, RecoveredT, Literals DEF WorkReady
<1>3. TurnStateOK'
  BY <1>1, TurnStateT DEF WorkReady
<1> QED
  BY <1>1, <1>2, <1>3, Typed DEF WorkReady, TypeInv, LifecycleOK, lifecycle, turnState, history

\* The types stay when work looks up its runtime.
LEMMA WorkRoutesT ==
    ASSUME TypeInv, NEW f \in Fibers, WorkRoutes(f) PROVE TypeInv'
<1>1. UNCHANGED gens
  BY DEF WorkRoutes, lifecycle, Rewind, LeaveRun
<1>2. CallOK'
  <2>1. CASE Go(f, Raise(f)) \/ Go(f, "recover.drain")
    BY <1>1, <2>1, GoFree, RaiseFree, Literals
  <2>2. ASSUME NEW p \in Providers, call' = [call EXCEPT ![f] = Resumed(f, p)] PROVE CallOK'
    BY <1>1, <2>2, ResumedT, CallSet DEF TypeInv
  <2> QED
    BY <2>1, <2>2, BoundIn DEF WorkRoutes, BoundLive
<1> QED
  BY <1>1, <1>2, Typed DEF WorkRoutes, TypeInv, LifecycleOK, lifecycle, turnState, history

\* A runtime that is replaced by one of its type keeps the runtimes typed.
LEMMA SessionT ==
    ASSUME TypeInv, NEW p, NEW s, UNCHANGED gens, p \in Providers => s \in Sessions,
           session' = [session EXCEPT ![p] = s]
    PROVE  session' \in [Providers -> Sessions]
BY DEF TypeInv, RuntimesOK

\* The runtimes are of their types.
LEMMA SessionIn ==
    ASSUME TypeInv, NEW p \in Providers
    PROVE  session[p] \in Sessions /\ session[p].turn \in Turns /\ session[p].gen \in Generations
BY DEF TypeInv, RuntimesOK, Sessions

\* Runtimes and queues of their types.
LEMMA RuntimesT ==
    ASSUME TypeInv, UNCHANGED gens, session' \in [Providers -> Sessions],
           events' \in [Providers -> Seq(RuntimeEvents)]
    PROVE  RuntimesOK'
BY SameTypes DEF RuntimesOK

\* A turn is marked running, or found to have ended.
LEMMA PersistT ==
    ASSUME TypeInv, NEW p \in Providers, NEW t \in Turns, Persist(p, t), UNCHANGED dispatch
    PROVE  binding' \in GoodBindings /\ idle' \in Idles /\ TurnStateOK' /\ UNCHANGED faults
<1>1. Upserted(p) \in GoodBindings /\ Upserted(p).provider = p
  BY UpsertedTypes
<1>2. /\ [Upserted(p) EXCEPT !.status = "stopped"] \in GoodBindings
      /\ [Upserted(p) EXCEPT !.status = "running", !.turn = t] \in GoodBindings
  BY <1>1 DEF GoodBindings, Bindings
<1>3. binding' \in GoodBindings
  BY <1>2 DEF Persist, TypeInv
<1>4. idle' \in Idles
  BY IdleValues DEF Persist
<1>5. outstanding' \subseteq Turns /\ recent' \subseteq Turns
  BY DEF Persist, TypeInv, TurnStateOK
<1>6. retained' \in GoodResults
  BY Empties DEF Persist, TypeInv, LifecycleOK
<1> QED
  BY <1>3, <1>4, <1>5, <1>6, TurnStateT DEF Persist, NoFault

\* A turn that could not be marked keeps the types.
LEMMA PersistFailsT ==
    ASSUME TypeInv, NEW t, PersistFails(t), UNCHANGED dispatch
    PROVE  binding' \in GoodBindings /\ idle' \in Idles /\ TurnStateOK' /\ faults' \in 0..MaxUnusual
<1>1. idle' \in Idles
  BY IdleValues DEF PersistFails
<1>2. outstanding' \subseteq Turns
  BY DEF PersistFails, TypeInv, TurnStateOK
<1>3. retained' \in GoodResults
  BY Empties DEF PersistFails, TypeInv, LifecycleOK
<1>4. faults' \in 0..MaxUnusual
  BY FaultTypes DEF PersistFails
<1> QED
  BY <1>1, <1>2, <1>3, <1>4, TurnStateT DEF PersistFails, TypeInv

\* The types stay when a turn is handed to the adapter.
LEMMA SendTurnsT == ASSUME TypeInv, NEW f \in Fibers, SendTurns(f) PROVE TypeInv'
<1>1. UNCHANGED gens
  BY DEF SendTurns, lifecycle
<1> DEFINE p == call[f].provider
<1> DEFINE began == IF session[p].turn # NoTurn THEN session[p].turn ELSE turns + 1
<1>2. call[f].pc = "send.turn" /\ p \in Providers /\ call[f] \in GoodCalls /\ call[f] \in CallsOfFibers
  BY CallFields, Literals DEF SendTurns, At
<1>3. session[p] \in Sessions /\ session[p].turn \in Turns /\ turns \in Turns /\ MaxTurns \in Nat
  BY <1>2, SessionIn, Numbers DEF TypeInv, HistoryOK
<1>4. CASE /\ Live(p) /\ ~session[p].retired /\ began <= MaxTurns
           /\ session' = [session EXCEPT ![p].turn = began]
           /\ turns' = IF session[p].turn = NoTurn THEN began ELSE turns
           /\ Emit(p, IF session[p].turn = NoTurn THEN <<Event("turn.started", began, p)>> ELSE <<>>)
           /\ \/ NoFault /\ call' = [call EXCEPT ![f].turn = began, ![f].pc = "send.returned"]
              \/ Fault("fail") /\ Go(f, "send.fail")
  <2>1. began \in Turns
    BY <1>3, <1>4 DEF Turns
  <2>2. [session[p] EXCEPT !.turn = began] \in Sessions
    BY <1>3, <2>1 DEF Sessions
  <2>3. session' \in [Providers -> Sessions]
    BY <1>1, <1>2, <1>4, <2>2, SessionT
  <2>4. Event("turn.started", began, p) \in RuntimeEvents
    BY <1>2, <2>1, EventTypes
  <2>5. events' \in [Providers -> Seq(RuntimeEvents)]
    <3>1. (IF session[p].turn = NoTurn THEN <<Event("turn.started", began, p)>> ELSE <<>>) \in Seq(RuntimeEvents)
      BY <2>4
    <3> QED
      BY <1>1, <1>4, <3>1, EmitTypes
  <2>6. RuntimesOK'
    BY <1>1, <2>3, <2>5, RuntimesT
  <2>7. faults' = faults \/ faults' \in 0..MaxUnusual
    BY <1>4, FaultTypes DEF NoFault
  <2>8. HistoryOK'
    BY <1>1, <1>4, <2>1, <2>7, HistoryT DEF SendTurns
  <2>9. CallOK'
    <3>1. CASE Go(f, "send.fail")
      BY <1>1, <3>1, GoFree, Literals
    <3>2. CASE call' = [call EXCEPT ![f].turn = began, ![f].pc = "send.returned"]
      <4> DEFINE c == [call[f] EXCEPT !.turn = began, !.pc = "send.returned"]
      <4>1. c \in CallsOfFibers /\ c.pc = "send.returned" /\ c.provider = p
        BY <1>2, <2>1, Literals DEF CallsOfFibers
      <4>2. c \in GoodCalls
        BY <1>2, <4>1 DEF GoodCalls, UsesRow
      <4>3. call' = [call EXCEPT ![f] = c]
        BY <3>2
      <4> HIDE DEF c
      <4> QED
        BY <1>1, <4>2, <4>3, CallSet DEF TypeInv
    <3> QED
      BY <1>4, <3>1, <3>2
  <2> QED
    BY <1>1, <2>6, <2>8, <2>9, Typed DEF SendTurns, TypeInv, LifecycleOK, lifecycle
<1>5. CASE Go(f, "send.fail") /\ UNCHANGED <<session, turns, events>> /\ NoFault
  BY <1>1, <1>5, GoFree, Literals, Typed DEF SendTurns, NoFault, TypeInv, LifecycleOK, lifecycle
<1> QED
  BY <1>4, <1>5 DEF SendTurns

\* The types stay when the adapter answers a dispatch.
LEMMA SendReturnsT == ASSUME TypeInv, NEW f \in Fibers, SendReturns(f) PROVE TypeInv'
<1>1. UNCHANGED gens
  BY DEF SendReturns, lifecycle
<1>2. call[f].pc = "send.returned" /\ call[f].provider \in Providers /\ call[f].turn \in Turns /\ call[f] \in GoodCalls
  BY CallFields, Literals DEF SendReturns, At
<1>3. CallOK'
  BY <1>1, <1>2, GoTypes, Literals DEF SendReturns, UsesRow
<1>4. [provider |-> call[f].provider, turn |-> call[f].turn] \in GoodResults
  BY <1>2 DEF GoodResults
<1>5. TurnStateOK'
  BY <1>2, <1>4, TurnStateT DEF SendReturns, TypeInv, TurnStateOK
<1>6. HistoryOK'
  BY <1>1, HistoryT DEF SendReturns, TypeInv, HistoryOK
<1> QED
  BY <1>1, <1>3, <1>5, <1>6, Typed DEF SendReturns, TypeInv, LifecycleOK, lifecycle

\* The types stay when a dispatch writes its turn to the row.
LEMMA SendPersistsT == ASSUME TypeInv, NEW f \in Fibers, SendPersists(f) PROVE TypeInv'
<1>1. UNCHANGED gens
  BY DEF SendPersists, lifecycle
<1>2. call[f].pc = "send.persist" /\ call[f].provider \in Providers /\ call[f].turn \in Turns
  BY CallFields, Literals DEF SendPersists, At
<1>3. CallOK'
  BY <1>1, GoFree, Literals DEF SendPersists
<1>4. CASE Persist(call[f].provider, call[f].turn)
  BY <1>1, <1>2, <1>3, <1>4, PersistT, Typed DEF SendPersists, TypeInv, LifecycleOK, lifecycle
<1>5. CASE PersistFails(call[f].turn)
  BY <1>1, <1>3, <1>5, PersistFailsT, Typed DEF SendPersists, TypeInv, LifecycleOK, lifecycle
<1>6. CASE UNCHANGED <<binding, idle, outstanding, retained, recent>> /\ NoFault
  BY <1>1, <1>3, <1>6, Typed DEF SendPersists, NoFault, TypeInv, LifecycleOK, lifecycle, turnState
<1> QED
  BY <1>4, <1>5, <1>6 DEF SendPersists

\* The types stay when a dispatch fails.
LEMMA SendFailsT == ASSUME TypeInv, NEW f \in Fibers, SendFails(f) PROVE TypeInv'
<1>1. UNCHANGED gens
  BY DEF SendFails, lifecycle
<1>2. retained # NoResult => retained.provider \in Providers /\ retained.turn \in Turns
  BY DEF TypeInv, TurnStateOK, GoodResults
<1>3. CallOK'
  BY <1>1, GoFree, Literals DEF SendFails
<1>4. CASE retained # NoResult /\ Persist(retained.provider, retained.turn)
  BY <1>1, <1>2, <1>3, <1>4, PersistT, Typed DEF SendFails, TypeInv, LifecycleOK, lifecycle
<1>5. CASE PersistFails(retained.turn)
  BY <1>1, <1>3, <1>5, PersistFailsT, Typed DEF SendFails, TypeInv, LifecycleOK, lifecycle
<1>6. CASE UNCHANGED <<binding, idle, outstanding, retained, recent>> /\ NoFault
  BY <1>1, <1>3, <1>6, Typed DEF SendFails, NoFault, TypeInv, LifecycleOK, lifecycle, turnState
<1> QED
  BY <1>4, <1>5, <1>6 DEF SendFails

\* What becomes of the timer after a failed dispatch is of its type.
LEMMA AfterFailureT == ASSUME TypeInv, NEW f \in Fibers PROVE AfterFailure(call[f].displaced) \in Idles
BY IdleValues, CallFields

\* The types stay when a dispatch ends.
LEMMA SendFinishesT ==
    ASSUME TypeInv, NEW f \in Fibers, SendFinishes(f) PROVE TypeInv'
<1>1. UNCHANGED gens
  BY DEF SendFinishes, lifecycle, Rewind, LeaveRun
<1>2. CallOK'
  BY <1>1, GoFree, RaiseFree, StoppedFree, RecoveredT, Literals DEF SendFinishes
<1>3. idle' \in Idles
  BY <1>1, IdleValues, AfterFailureT DEF SendFinishes
<1>4. TurnStateOK'
  BY <1>1, TurnStateT DEF SendFinishes
<1> QED
  BY <1>1, <1>2, <1>3, <1>4, Typed DEF SendFinishes, TypeInv, LifecycleOK, lifecycle, turnState, history

\* The types stay when the adapter compacts.
LEMMA CompactCompactsT ==
    ASSUME TypeInv, NEW f \in Fibers, CompactCompacts(f) PROVE TypeInv'
<1>1. UNCHANGED gens
  BY DEF CompactCompacts, lifecycle, Rewind, LeaveRun
<1>2. CallOK'
  <2>1. call[f] \in GoodCalls /\ call[f].pc \in UsesProvider /\ call[f].provider \in Providers
    BY CallFields, Literals DEF CompactCompacts, At
  <2> QED
    BY <1>1, <2>1, GoTypes, GoFree, RaiseFree, RecoveredT, Literals DEF CompactCompacts, At, UsesRow, GoodCalls
<1>3. UNCHANGED faults \/ faults' \in 0..MaxUnusual
  BY <1>1, FaultTypes DEF CompactCompacts, NoFault
<1> QED
  BY <1>1, <1>2, <1>3, Typed DEF CompactCompacts, TypeInv, LifecycleOK, lifecycle, turnState, history

\* The types stay when a compaction reads the row.
LEMMA CompactReadsT ==
    ASSUME TypeInv, NEW f \in Fibers, CompactReads(f) PROVE TypeInv'
<1>1. UNCHANGED gens
  BY DEF CompactReads, lifecycle, Rewind, LeaveRun
<1>2. CallOK'
  <2> DEFINE pc == IF Bound THEN "compact.write" ELSE "compact.done"
  <2> DEFINE c == [call[f] EXCEPT !.snap = binding, !.pc = pc]
  <2>1. call[f] \in CallsOfFibers /\ binding \in Bindings /\ (Bound => binding.provider \in Providers)
    BY CallFields, BoundIn DEF TypeInv, GoodBindings
  <2>2. pc \in Pcs
    BY DEF Pcs, CompactPcs
  <2> HIDE DEF pc
  <2>3. c \in CallsOfFibers /\ c.pc = pc /\ c.snap = binding
    BY <2>1, <2>2 DEF CallsOfFibers
  <2>4. c \in GoodCalls
    <3>1. pc \notin UsesProvider /\ pc \notin {"start.wait", "start.route", "start.stop", "start.adapter", "start.persist"}
      BY Literals DEF pc
    <3>2. pc \in UsesRow => binding.provider \in Providers
      BY <2>1 DEF pc, UsesRow
    <3> QED
      BY <2>3, <3>1, <3>2 DEF GoodCalls
  <2>5. call' = [call EXCEPT ![f] = c]
    BY DEF CompactReads, pc
  <2> HIDE DEF c
  <2> QED
    BY <1>1, <2>4, <2>5, CallSet DEF TypeInv
<1> QED
  BY <1>1, <1>2, Typed DEF CompactReads, TypeInv, LifecycleOK, lifecycle, turnState, history

\* The types stay when a compaction writes the row it read.
LEMMA CompactWritesT ==
    ASSUME TypeInv, NEW f \in Fibers, CompactWrites(f) PROVE TypeInv'
<1>1. UNCHANGED gens
  BY DEF CompactWrites, lifecycle, Rewind, LeaveRun
<1>2. CallOK'
  BY <1>1, GoFree, RaiseFree, StoppedFree, RecoveredT, Literals DEF CompactWrites
<1>3. binding' \in GoodBindings
  <2>1. call[f].snap \in Bindings /\ call[f].snap.provider \in Providers
    BY CallFields DEF CompactWrites, At, UsesRow
  <2>2. Upserted(call[f].snap.provider) \in GoodBindings /\ Upserted(call[f].snap.provider).provider \in Providers
    BY <2>1, UpsertedTypes
  <2>3. [Upserted(call[f].snap.provider) EXCEPT !.status = "stopped", !.turn = NoTurn,
                        !.rotation = call[f].snap.rotation, !.cursor = call[f].snap.cursor] \in GoodBindings
    BY <2>1, <2>2, Empties DEF GoodBindings, Bindings, TypeInv, LifecycleOK
  <2> QED
    BY <2>3 DEF CompactWrites
<1> QED
  BY <1>1, <1>2, <1>3, Typed DEF CompactWrites, TypeInv, LifecycleOK, lifecycle, turnState, history

\* The types stay when a compaction ends.
LEMMA CompactEndsT ==
    ASSUME TypeInv, NEW f \in Fibers, CompactEnds(f) PROVE TypeInv'
<1>1. UNCHANGED gens
  BY DEF CompactEnds, lifecycle, Rewind, LeaveRun
<1>2. CallOK'
  BY <1>1, GoFree, RaiseFree, StoppedFree, RecoveredT, Literals DEF CompactEnds
<1>3. idle' \in Idles
  BY <1>1, IdleValues, AfterFailureT DEF CompactEnds, TypeInv
<1> QED
  BY <1>1, <1>2, <1>3, Typed DEF CompactEnds, TypeInv, LifecycleOK, lifecycle, turnState, history

\* The types stay when a stop looks for the runtime.
LEMMA StopRoutesT ==
    ASSUME TypeInv, NEW f \in Fibers, StopRoutes(f) PROVE TypeInv'
<1>1. UNCHANGED gens
  BY DEF StopRoutes, lifecycle, Rewind, LeaveRun
<1>2. lock' \in Fibers \cup {"free"} /\ current' \in Generations
  BY <1>1, CallFields DEF StopRoutes, Rewind, LeaveRun, Release, lifecycle, TypeInv, LifecycleOK
<1>3. CallOK'
  <2>1. CASE Go(f, Stopped(f))
    BY <1>1, <2>1, GoFree, StoppedFree
  <2>2. CASE Bound /\ call' = [call EXCEPT ![f].snap = [binding EXCEPT !.cursor = @ \/ BoundLive],
                                          ![f].pc = "stop.adapter"]
    <3> DEFINE b == [binding EXCEPT !.cursor = @ \/ BoundLive]
    <3> DEFINE c == [call[f] EXCEPT !.snap = b, !.pc = "stop.adapter"]
    <3>1. call[f] \in CallsOfFibers /\ binding \in Bindings /\ binding.provider \in Providers
      BY <2>2, CallFields, BoundIn DEF TypeInv, GoodBindings
    <3>2. b \in Bindings /\ b.provider \in Providers
      BY <3>1 DEF Bindings, BoundLive, Bound
    <3> HIDE DEF b
    <3>3. c \in CallsOfFibers /\ c.pc = "stop.adapter" /\ c.snap = b
      BY <3>1, <3>2, Literals DEF CallsOfFibers, UsesRow
    <3>4. c \in GoodCalls
      <4>1. "stop.adapter" \notin UsesProvider
        BY Literals
      <4> QED
        BY <3>2, <3>3, <4>1 DEF GoodCalls
    <3>5. call' = [call EXCEPT ![f] = c]
      BY <2>2 DEF b
    <3> HIDE DEF c
    <3> QED
      BY <1>1, <3>4, <3>5, CallSet DEF TypeInv
  <2> QED
    BY <2>1, <2>2 DEF StopRoutes
<1> QED
  BY <1>1, <1>2, <1>3, Typed DEF StopRoutes, TypeInv, LifecycleOK, lifecycle, turnState, history

\* The types stay when a stop has the adapter stop the runtime.
LEMMA StopStopsT ==
    ASSUME TypeInv, NEW f \in Fibers, StopStops(f) PROVE TypeInv'
<1>1. UNCHANGED gens
  BY DEF StopStops, lifecycle, Rewind, LeaveRun
<1>2. RuntimesOK' /\ (UNCHANGED faults \/ faults' \in 0..MaxUnusual)
  BY <1>1, AdapterStopTypes, AdapterStopFailsTypes, Typed DEF StopStops, NoFault
<1>3. lock' \in Fibers \cup {"free"} /\ current' \in Generations
  BY <1>1, CallFields DEF StopStops, Rewind, LeaveRun, Release, lifecycle, TypeInv, LifecycleOK
<1>4. CallOK'
  <2>1. call[f] \in GoodCalls /\ call[f].pc = "stop.adapter" /\ call[f].snap.provider \in Providers
    BY CallFields DEF StopStops, At, UsesRow
  <2>2. CASE Go(f, "stop.persist")
    BY <1>1, <2>1, <2>2, GoTypes, Literals DEF UsesRow
  <2>3. CASE Go(f, Stopped(f)) \/ Go(f, Raise(f))
    BY <1>1, <2>3, GoFree, RaiseFree, StoppedFree
  <2> QED
    BY <2>2, <2>3 DEF StopStops
<1> QED
  BY <1>1, <1>2, <1>3, <1>4, Typed DEF StopStops, TypeInv, LifecycleOK, lifecycle, turnState, history

\* The types stay when a stop writes the row.
LEMMA StopPersistsT ==
    ASSUME TypeInv, NEW f \in Fibers, StopPersists(f) PROVE TypeInv'
<1>1. UNCHANGED gens
  BY DEF StopPersists, lifecycle, Rewind, LeaveRun
<1>2. lock' \in Fibers \cup {"free"} /\ current' \in Generations
  BY <1>1, CallFields DEF StopPersists, Rewind, LeaveRun, Release, lifecycle, TypeInv, LifecycleOK
<1>3. CallOK'
  BY <1>1, GoFree, RaiseFree, StoppedFree, RecoveredT, Literals DEF StopPersists
<1>4. UNCHANGED faults \/ faults' \in 0..MaxUnusual
  BY <1>1, FaultTypes DEF StopPersists, NoFault
<1>5. idle' \in Idles /\ tasks' \in SUBSET Tasks
  BY <1>1, IdleValues DEF StopPersists, TypeInv
<1>6. binding' \in GoodBindings
  <2>1. call[f].snap \in Bindings /\ call[f].snap.provider \in Providers /\ call[f].gen \in Generations
    BY CallFields DEF StopPersists, At, UsesRow
  <2>2. Upserted(call[f].snap.provider) \in GoodBindings /\ Upserted(call[f].snap.provider).provider \in Providers
    BY <2>1, UpsertedTypes
  <2>3. [Upserted(call[f].snap.provider) EXCEPT
                !.status = "stopped", !.gen = call[f].gen, !.turn = NoTurn,
                !.rotation = call[f].snap.rotation \/ call[f].kind = "interrupt",
                !.cursor = call[f].snap.cursor] \in GoodBindings
    <3>1. (call[f].snap.rotation \/ call[f].kind = "interrupt") \in BOOLEAN /\ call[f].snap.cursor \in BOOLEAN /\ NoTurn \in Turns
      BY <2>1, Empties DEF Bindings, TypeInv, LifecycleOK
    <3> QED
      BY <2>1, <2>2, <3>1 DEF GoodBindings, Bindings
  <2> QED
    BY <2>3 DEF StopPersists, TypeInv
<1>7. HistoryOK'
  BY <1>1, <1>4, ForgetsT DEF StopPersists
<1> QED
  BY <1>1, <1>2, <1>3, <1>4, <1>5, <1>6, <1>7, Typed DEF StopPersists, TypeInv, LifecycleOK, lifecycle, turnState

\* The idle timer with one field changed is of its type.
LEMMA IdleSet ==
    ASSUME TypeInv
    PROVE  /\ [idle EXCEPT !.due = TRUE] \in Idles /\ [idle EXCEPT !.cleanup = TRUE] \in Idles
           /\ [idle EXCEPT !.timer = "retry"] \in Idles
           /\ [idle EXCEPT !.timer = "off", !.due = FALSE, !.owned = idle.timer # "stale"] \in Idles
BY IdleValues DEF Idles

\* The types stay when time passes.
LEMMA TimePassesT ==
    ASSUME TypeInv, TimePasses PROVE TypeInv'
<1>1. UNCHANGED gens
  BY DEF TimePasses, lifecycle, Rewind, LeaveRun
<1>2. idle' \in Idles
  BY <1>1, IdleSet DEF TimePasses
<1> QED
  BY <1>1, <1>2, Typed DEF TimePasses, TypeInv, LifecycleOK, lifecycle, turnState, history

\* The types stay when the idle timer fires.
LEMMA TimerFiresT ==
    ASSUME TypeInv, TimerFires PROVE TypeInv'
<1>1. UNCHANGED gens
  BY DEF TimerFires, lifecycle, Rewind, LeaveRun
<1>2. idle' \in Idles
  BY <1>1, IdleSet DEF TimerFires
<1>3. CallOK'
  <2> DEFINE c == [NoCall EXCEPT !.kind = "idle", !.pc = "idle.look", !.displaced = idle.timer = "retry"]
  <2>1. NoCall \in CallsOfFibers /\ "idle" \in Fibers
    BY Empties DEF TypeInv, LifecycleOK, GoodCalls, Fibers
  <2>2. c \in CallsOfFibers /\ c.pc = "idle.look"
    BY <2>1, Literals DEF CallsOfFibers
  <2>3. call' = [call EXCEPT !["idle"] = c]
    BY DEF TimerFires
  <2> HIDE DEF c
  <2> QED
    BY <1>1, <2>1, <2>2, <2>3, NewCallT, Literals
<1> QED
  BY <1>1, <1>2, <1>3, Typed DEF TimerFires, TypeInv, LifecycleOK, lifecycle, turnState, history

\* The types stay when the idle stop looks at the row.
LEMMA IdleLooksT ==
    ASSUME TypeInv, NEW f \in Fibers, IdleLooks(f) PROVE TypeInv'
<1>1. UNCHANGED gens
  BY DEF IdleLooks, lifecycle, Rewind, LeaveRun
<1>2. CallOK'
  BY <1>1, GoFree, RaiseFree, StoppedFree, RecoveredT, Literals DEF IdleLooks
<1>3. idle' \in Idles
  BY <1>1, IdleValues, IdleSet DEF IdleLooks
<1> QED
  BY <1>1, <1>2, <1>3, Typed DEF IdleLooks, TypeInv, LifecycleOK, lifecycle, turnState, history

\* The types stay when the idle stop lists the sessions.
LEMMA IdleListsT ==
    ASSUME TypeInv, NEW f \in Fibers, IdleLists(f) PROVE TypeInv'
<1>1. UNCHANGED gens
  BY DEF IdleLists, lifecycle, Rewind, LeaveRun
<1>2. CallOK'
  BY <1>1, GoFree, RaiseFree, StoppedFree, RecoveredT, Literals DEF IdleLists
<1>3. idle' \in Idles
  BY <1>1, IdleValues, IdleSet DEF IdleLists
<1> QED
  BY <1>1, <1>2, <1>3, Typed DEF IdleLists, TypeInv, LifecycleOK, lifecycle, turnState, history

\* The types stay when the idle stop fails.
LEMMA IdleFailsT ==
    ASSUME TypeInv, NEW f \in Fibers, IdleFails(f) PROVE TypeInv'
<1>1. UNCHANGED gens
  BY DEF IdleFails, lifecycle, Rewind, LeaveRun
<1>2. CallOK'
  BY <1>1, GoFree, RaiseFree, StoppedFree, RecoveredT, Literals DEF IdleFails
<1>3. idle' \in Idles
  BY <1>1, IdleValues, IdleSet DEF IdleFails
<1> QED
  BY <1>1, <1>2, <1>3, Typed DEF IdleFails, TypeInv, LifecycleOK, lifecycle, turnState, history

\* The types stay when an interrupt takes the lock, or goes on without it.
LEMMA InterruptEntersT ==
    ASSUME TypeInv, NEW f \in Fibers, InterruptEnters(f) PROVE TypeInv'
<1>1. UNCHANGED gens
  BY DEF InterruptEnters, lifecycle, Rewind, LeaveRun
<1>2. lock' \in Fibers \cup {"free"}
  BY <1>1 DEF InterruptEnters, Unlock, Release, TypeInv, LifecycleOK
<1>3. CallOK'
  <2> DEFINE c == [call[f] EXCEPT !.pc = "interrupt.route", !.gen = current, !.locked = lock = "free"]
  <2>1. call[f] \in CallsOfFibers /\ current \in Generations
    BY CallFields DEF TypeInv, LifecycleOK
  <2>2. c \in CallsOfFibers /\ c.pc = "interrupt.route"
    BY <2>1, Literals DEF CallsOfFibers
  <2>3. call' = [call EXCEPT ![f] = c]
    BY DEF InterruptEnters
  <2> HIDE DEF c
  <2> QED
    BY <1>1, <2>2, <2>3, NewCallT, Literals
<1> QED
  BY <1>1, <1>2, <1>3, Typed DEF InterruptEnters, TypeInv, LifecycleOK, lifecycle, turnState, history

\* The types stay when an interrupt looks for its runtime.
LEMMA InterruptRoutesT ==
    ASSUME TypeInv, NEW f \in Fibers, InterruptRoutes(f) PROVE TypeInv'
<1>1. UNCHANGED gens
  BY DEF InterruptRoutes, lifecycle, Rewind, LeaveRun
<1>2. lock' \in Fibers \cup {"free"}
  BY <1>1 DEF InterruptRoutes, Unlock, Release, TypeInv, LifecycleOK
<1>3. fence' \in {"none", "open", "failed"}
  BY <1>1 DEF InterruptRoutes, TypeInv
<1>4. CallOK'
  <2>1. CASE Go(f, "end")
    BY <1>1, <2>1, GoFree
  <2>2. CASE BoundLive /\ call' = [call EXCEPT ![f].provider = binding.provider, ![f].turn = binding.turn,
                                    ![f].pc = "interrupt.adapter"]
    <3> DEFINE c == [call[f] EXCEPT !.provider = binding.provider, !.turn = binding.turn, !.pc = "interrupt.adapter"]
    <3>1. call[f] \in CallsOfFibers /\ binding.provider \in Providers /\ binding.turn \in Turns
      BY <2>2, BoundIn, CallFields DEF TypeInv, GoodBindings, Bindings, BoundLive
    <3>2. c \in CallsOfFibers
      BY <3>1, Literals DEF CallsOfFibers
    <3>3. c.pc = "interrupt.adapter" /\ c.provider \in Providers
      BY <3>1 DEF CallsOfFibers
    <3>4. c \in GoodCalls
      BY <3>2, <3>3 DEF GoodCalls, UsesRow
    <3>5. call' = [call EXCEPT ![f] = c]
      BY <2>2
    <3> HIDE DEF c
    <3> QED
      BY <1>1, <3>4, <3>5, CallSet DEF TypeInv
  <2> QED
    BY <2>1, <2>2 DEF InterruptRoutes
<1> QED
  BY <1>1, <1>2, <1>3, <1>4, Typed DEF InterruptRoutes, TypeInv, LifecycleOK, lifecycle, turnState, history

\* The types stay when an interrupt reaches the adapter.
LEMMA InterruptInterruptsT == ASSUME TypeInv, NEW f \in Fibers, InterruptInterrupts(f) PROVE TypeInv'
<1>1. UNCHANGED gens
  BY DEF InterruptInterrupts
<1> DEFINE p == call[f].provider
<1> DEFINE hit == Live(p) /\ session[p].turn = call[f].turn
<1>2. call[f].pc = "interrupt.adapter" /\ p \in Providers /\ call[f].turn \in Turns
  BY CallFields, Literals DEF InterruptInterrupts, At
<1>3. session[p] \in Sessions /\ NoTurn \in Turns
  BY <1>2, SessionIn, Empties DEF TypeInv, LifecycleOK
<1>4. [session[p] EXCEPT !.turn = NoTurn] \in Sessions /\ [session[p] EXCEPT !.suspect = TRUE] \in Sessions
  BY <1>3 DEF Sessions
<1>5. CallOK'
  BY <1>1, GoFree, Literals DEF InterruptInterrupts
<1>6. lock' \in Fibers \cup {"free"}
  BY DEF InterruptInterrupts, Unlock, Release, TypeInv, LifecycleOK
<1>7. CASE /\ NoFault
           /\ session' = IF hit THEN [session EXCEPT ![p].turn = NoTurn] ELSE session
           /\ Emit(p, IF hit THEN <<Event("turn.completed", call[f].turn, p)>> ELSE <<>>)
  <2>1. session' \in [Providers -> Sessions]
    BY <1>2, <1>4, <1>7 DEF TypeInv, RuntimesOK
  <2>2. Event("turn.completed", call[f].turn, p) \in RuntimeEvents
    BY <1>2, EventTypes
  <2>3. (IF hit THEN <<Event("turn.completed", call[f].turn, p)>> ELSE <<>>) \in Seq(RuntimeEvents)
    BY <2>2
  <2>4. events' \in [Providers -> Seq(RuntimeEvents)]
    BY <1>1, <1>7, <2>3, EmitTypes
  <2> QED
    BY <1>1, <1>5, <1>6, <1>7, <2>1, <2>4, RuntimesT, Typed
    DEF InterruptInterrupts, NoFault, TypeInv, LifecycleOK
<1>8. CASE /\ Fault("fail")
           /\ session' = IF Live(p) THEN [session EXCEPT ![p].suspect = TRUE] ELSE session
           /\ UNCHANGED events
  <2>1. session' \in [Providers -> Sessions]
    BY <1>2, <1>4, <1>8 DEF TypeInv, RuntimesOK
  <2>2. events' \in [Providers -> Seq(RuntimeEvents)]
    BY <1>8 DEF TypeInv, RuntimesOK
  <2>3. faults' \in 0..MaxUnusual
    BY <1>8, FaultTypes
  <2> QED
    BY <1>1, <1>5, <1>6, <2>1, <2>2, <2>3, RuntimesT, Typed DEF InterruptInterrupts, TypeInv, LifecycleOK
<1> QED
  BY <1>7, <1>8 DEF InterruptInterrupts

\* The types stay when an interrupt ends.
LEMMA InterruptEndsT ==
    ASSUME TypeInv, NEW f \in Fibers, InterruptEnds(f) PROVE TypeInv'
<1>1. UNCHANGED gens
  BY DEF InterruptEnds, lifecycle, Rewind, LeaveRun
<1>2. CallOK'
  BY <1>1, GoFree, RaiseFree, StoppedFree, RecoveredT, Literals DEF InterruptEnds
<1> QED
  BY <1>1, <1>2, Typed DEF InterruptEnds, TypeInv, LifecycleOK, lifecycle, turnState, history

\* The types stay when a deletion looks for the runtime.
LEMMA DeleteRoutesT ==
    ASSUME TypeInv, NEW f \in Fibers, DeleteRoutes(f) PROVE TypeInv'
<1>1. UNCHANGED gens
  BY DEF DeleteRoutes, lifecycle, Rewind, LeaveRun
<1>2. call[f].gen \in Generations /\ None \in Generations
  BY <1>1, CallFields, Empties DEF TypeInv, LifecycleOK
<1>3. lock' \in Fibers \cup {"free"} /\ current' \in Generations
  BY <1>1, <1>2 DEF DeleteRoutes, LeaveRun, Release, lifecycle, TypeInv, LifecycleOK
<1>4. idle' \in Idles
  BY <1>1, IdleValues DEF DeleteRoutes
<1>5. CallOK'
  <2>1. CASE Go(f, "end")
    BY <1>1, <2>1, GoFree
  <2>2. ASSUME NEW p \in Providers, call' = [call EXCEPT ![f].provider = p, ![f].pc = "delete.adapter"]
        PROVE  CallOK'
    <3> DEFINE c == [call[f] EXCEPT !.provider = p, !.pc = "delete.adapter"]
    <3>1. call[f] \in CallsOfFibers
      BY CallFields
    <3>2. c \in CallsOfFibers
      BY <3>1, Literals DEF CallsOfFibers
    <3>3. c.pc = "delete.adapter" /\ c.provider \in Providers
      BY <3>1 DEF CallsOfFibers
    <3>4. c \in GoodCalls
      BY <3>2, <3>3 DEF GoodCalls, UsesRow
    <3>5. call' = [call EXCEPT ![f] = c]
      BY <2>2
    <3> HIDE DEF c
    <3> QED
      BY <1>1, <3>4, <3>5, CallSet DEF TypeInv
  <2> QED
    BY <2>1, <2>2 DEF DeleteRoutes
<1> QED
  BY <1>1, <1>2, <1>3, <1>4, <1>5, Typed DEF DeleteRoutes, TypeInv, LifecycleOK, lifecycle, turnState, history

\* The types stay when a deletion stops the runtime.
LEMMA DeleteStopsT ==
    ASSUME TypeInv, NEW f \in Fibers, DeleteStops(f) PROVE TypeInv'
<1>1. UNCHANGED gens
  BY DEF DeleteStops, lifecycle, Rewind, LeaveRun
<1>2. RuntimesOK' /\ (UNCHANGED faults \/ faults' \in 0..MaxUnusual)
  BY <1>1, AdapterStopTypes, AdapterStopFailsTypes, FaultTypes, Typed DEF DeleteStops, NoFault
<1>3. lock' \in Fibers \cup {"free"} /\ current' \in Generations
  BY <1>1, CallFields DEF DeleteStops, Rewind, LeaveRun, Release, lifecycle, TypeInv, LifecycleOK
<1>4. CallOK'
  BY <1>1, GoFree, RaiseFree, StoppedFree, RecoveredT, Literals DEF DeleteStops
<1> QED
  BY <1>1, <1>2, <1>3, <1>4, Typed DEF DeleteStops, TypeInv, LifecycleOK, lifecycle, turnState, history

\* The types stay when a deletion removes the row.
LEMMA DeleteRemovesT ==
    ASSUME TypeInv, NEW f \in Fibers, DeleteRemoves(f) PROVE TypeInv'
<1>1. UNCHANGED gens
  BY DEF DeleteRemoves, lifecycle, Rewind, LeaveRun
<1>2. lock' \in Fibers \cup {"free"} /\ current' \in Generations
  BY <1>1, CallFields DEF DeleteRemoves, Rewind, LeaveRun, Release, lifecycle, TypeInv, LifecycleOK, None, Generations
<1>3. CallOK'
  BY <1>1, GoFree, RaiseFree, StoppedFree, RecoveredT, Literals DEF DeleteRemoves
<1>4. UNCHANGED faults \/ faults' \in 0..MaxUnusual
  BY <1>1, FaultTypes DEF DeleteRemoves, NoFault
<1>5. idle' \in Idles /\ binding' \in GoodBindings
  BY <1>1, IdleValues, Empties DEF DeleteRemoves, TypeInv, LifecycleOK
<1>6. fence' \in {"none", "open", "failed"}
  BY <1>1 DEF DeleteRemoves, TypeInv
<1>7. HistoryOK'
  BY <1>1, <1>4, ForgetsT DEF DeleteRemoves
<1> QED
  BY <1>1, <1>2, <1>3, <1>4, <1>5, <1>6, <1>7, Typed DEF DeleteRemoves, TypeInv, LifecycleOK, lifecycle, turnState

\* The types stay when the cursor of the row is cleared.
LEMMA ClearClearsT ==
    ASSUME TypeInv, NEW f \in Fibers, ClearClears(f) PROVE TypeInv'
<1>1. UNCHANGED gens
  BY DEF ClearClears, lifecycle, Rewind, LeaveRun
<1>2. RuntimesOK' /\ (UNCHANGED faults \/ faults' \in 0..MaxUnusual)
  BY <1>1, AdapterStopTypes, AdapterStopFailsTypes, FaultTypes, Typed DEF ClearClears, NoFault
<1>3. CallOK'
  BY <1>1, GoFree, RaiseFree, StoppedFree, RecoveredT, Literals DEF ClearClears
<1>4. call[f].gen \in Generations /\ call[f].prev \in Generations /\ binding.gen \in Generations
  BY <1>1, CallFields DEF TypeInv, GoodBindings, Bindings
<1>5. lock' \in Fibers \cup {"free"}
  BY <1>1, <1>1 DEF ClearClears, Rewind, LeaveRun, Release
<1>6. current' \in Generations
  BY <1>1, <1>1, <1>4 DEF ClearClears, Rewind, LeaveRun, TypeInv, LifecycleOK
<1>7. tasks' \in SUBSET Tasks
  BY <1>1, <1>1 DEF ClearClears, TypeInv
<1>8. binding' \in GoodBindings
  <2> DEFINE keeps == BoundLive /\ ~call[f].replaces
  <2> DEFINE g == IF keeps THEN binding.gen ELSE call[f].gen
  <2>1. CASE UNCHANGED binding
    BY <2>1 DEF TypeInv
  <2>2. CASE /\ Bound
             /\ binding' = [binding EXCEPT !.gen = g, !.cursor = FALSE,
                            !.status = IF keeps THEN @ ELSE "stopped",
                            !.turn = IF keeps THEN @ ELSE NoTurn]
    <3>1. g \in Generations /\ binding \in Bindings /\ binding.provider \in Providers /\ NoTurn \in Turns
      BY <1>4, <2>2, BoundIn, Empties DEF TypeInv, GoodBindings, LifecycleOK
    <3> HIDE DEF g, keeps
    <3>2. binding' \in Bindings /\ binding'.provider = binding.provider
      BY <2>2, <3>1 DEF Bindings
    <3> QED
      BY <3>1, <3>2 DEF GoodBindings
  <2> QED
    BY <2>1, <2>2 DEF ClearClears
<1> QED
  BY <1>1, <1>2, <1>3, <1>4, <1>5, <1>6, <1>7, <1>8, Typed DEF ClearClears, TypeInv, LifecycleOK,
     lifecycle, turnState, history

\* The types stay when a turn ends in its runtime.
LEMMA TurnEndsT == ASSUME TypeInv, NEW p \in Providers, TurnEnds(p) PROVE TypeInv'
<1>1. UNCHANGED gens
  BY DEF TurnEnds, lifecycle
<1>2. PICK retires \in {FALSE, Retires}, t \in {session[p].turn, NoTurn} :
        /\ IF t = NoTurn THEN Fault("unnamed") ELSE NoFault
        /\ session' = [session EXCEPT ![p].turn = NoTurn, ![p].retired = @ \/ retires]
        /\ Emit(p, <<[Event("turn.completed", t, p) EXCEPT !.retired = retires]>>)
  BY DEF TurnEnds
<1>3. session[p] \in Sessions /\ t \in Turns /\ NoTurn \in Turns /\ retires \in BOOLEAN
  BY SessionIn, Empties, RetiresAssumption DEF TypeInv, LifecycleOK
<1>4. [session[p] EXCEPT !.turn = NoTurn, !.retired = @ \/ retires] \in Sessions
  BY <1>3 DEF Sessions
<1>5. session' \in [Providers -> Sessions]
  BY <1>2, <1>4 DEF TypeInv, RuntimesOK
<1>6. [Event("turn.completed", t, p) EXCEPT !.retired = retires] \in RuntimeEvents
  BY <1>3, EventTypes DEF RuntimeEvents
<1>7. events' \in [Providers -> Seq(RuntimeEvents)]
  <2>1. <<[Event("turn.completed", t, p) EXCEPT !.retired = retires]>> \in Seq(RuntimeEvents)
    BY <1>6
  <2> QED
    BY <1>1, <1>2, <1>6, <2>1, EmitTypes
<1>8. UNCHANGED faults \/ faults' \in 0..MaxUnusual
  BY <1>2, FaultTypes DEF NoFault
<1> QED
  BY <1>1, <1>5, <1>7, <1>8, RuntimesT, Typed DEF TurnEnds, TypeInv, LifecycleOK, lifecycle, turnState

\* The types stay when a task begins.
LEMMA TaskBeginsT == ASSUME TypeInv, NEW p \in Providers, TaskBegins(p) PROVE TypeInv'
<1>1. UNCHANGED gens
  BY DEF TaskBegins, lifecycle
<1>2. session[p] \in Sessions /\ NoTurn \in Turns
  BY SessionIn, Empties DEF TypeInv, LifecycleOK
<1>3. begun' \in 0..MaxTasks /\ begun' \in Tasks
  BY Numbers DEF TaskBegins, TypeInv, HistoryOK, Tasks
<1>4. session' \in [Providers -> Sessions]
  <2>1. [session[p] EXCEPT !.tasks = @ \cup {begun'}] \in Sessions
    BY <1>2, <1>3 DEF Sessions
  <2> QED
    BY <2>1 DEF TaskBegins, TypeInv, RuntimesOK
<1>5. TaskEvent("task.started", begun', p) \in RuntimeEvents
  BY <1>2, <1>3, EventTypes DEF TaskEvent
<1>6. events' \in [Providers -> Seq(RuntimeEvents)]
  <2>1. <<TaskEvent("task.started", begun', p)>> \in Seq(RuntimeEvents)
    BY <1>5
  <2> QED
    BY <1>1, <1>5, <2>1, EmitTypes DEF TaskBegins
<1>8. HistoryOK'
  BY <1>1, <1>3, HistoryT DEF TaskBegins
<1> QED
  BY <1>1, <1>4, <1>6, <1>8, RuntimesT, Typed DEF TaskBegins, TypeInv, LifecycleOK, lifecycle, turnState

\* The types stay when a task ends.
LEMMA TaskEndsT == ASSUME TypeInv, NEW p \in Providers, TaskEnds(p) PROVE TypeInv'
<1>1. UNCHANGED gens
  BY DEF TaskEnds, lifecycle
<1>2. PICK task \in session[p].tasks :
        /\ session' = [session EXCEPT ![p].tasks = @ \ {task}]
        /\ Emit(p, <<TaskEvent("task.completed", task, p)>>)
  BY DEF TaskEnds
<1>3. session[p] \in Sessions /\ NoTurn \in Turns /\ task \in Tasks
  BY SessionIn, Empties DEF TypeInv, LifecycleOK, Sessions
<1>4. session' \in [Providers -> Sessions]
  <2>1. [session[p] EXCEPT !.tasks = @ \ {task}] \in Sessions
    BY <1>3 DEF Sessions
  <2> QED
    BY <1>2, <2>1 DEF TypeInv, RuntimesOK
<1>5. TaskEvent("task.completed", task, p) \in RuntimeEvents
  BY <1>3, EventTypes DEF TaskEvent
<1>6. events' \in [Providers -> Seq(RuntimeEvents)]
  <2>1. <<TaskEvent("task.completed", task, p)>> \in Seq(RuntimeEvents)
    BY <1>5
  <2> QED
    BY <1>1, <1>2, <1>5, <2>1, EmitTypes
<1> QED
  BY <1>1, <1>4, <1>6, RuntimesT, Typed DEF TaskEnds, TypeInv, LifecycleOK, lifecycle, turnState, history

\* The types stay when a runtime reports an error or a new state.
LEMMA ReportT == ASSUME TypeInv, NEW p \in Providers, Report(p) PROVE TypeInv'
<1>1. UNCHANGED gens
  BY DEF Report, lifecycle
<1>2. PICK type \in Reports, t \in {session[p].turn, NoTurn} : Fault(type) /\ Emit(p, <<Event(type, t, p)>>)
  BY DEF Report
<1>3. t \in Turns
  BY SessionIn, Empties DEF TypeInv, LifecycleOK, Sessions
<1>4. events' \in [Providers -> Seq(RuntimeEvents)]
  <2>1. <<Event(type, t, p)>> \in Seq(RuntimeEvents)
    BY <1>3, EventTypes
  <2> QED
    BY <1>1, <1>2, <2>1, EmitTypes
<1>5. session' \in [Providers -> Sessions]
  BY DEF Report, TypeInv, RuntimesOK
<1>6. faults' \in 0..MaxUnusual
  BY <1>2, FaultTypes
<1> QED
  BY <1>1, <1>4, <1>5, <1>6, RuntimesT, Typed DEF Report, TypeInv, LifecycleOK, lifecycle, turnState

\* The types stay when a runtime dies.
LEMMA DiesT == ASSUME TypeInv, NEW p \in Providers, Dies(p) PROVE TypeInv'
<1>1. UNCHANGED gens
  BY DEF Dies, lifecycle
<1>2. RuntimesOK'
  BY <1>1, AdapterStopTypes DEF Dies
<1>3. faults' \in 0..MaxUnusual
  BY FaultTypes DEF Dies
<1> QED
  BY <1>1, <1>2, <1>3, Typed DEF Dies, TypeInv, LifecycleOK, lifecycle, turnState

\* The types stay when the gate passes an event on or drops it.
LEMMA GateT == ASSUME TypeInv, NEW p \in Providers, Gate(p) PROVE TypeInv'
<1>1. UNCHANGED gens
  BY DEF Gate, lifecycle
<1>2. events[p] \in Seq(RuntimeEvents) /\ events[p] # <<>>
  BY DEF Gate, TypeInv, RuntimesOK
<1>3. Head(events[p]) \in RuntimeEvents /\ Tail(events[p]) \in Seq(RuntimeEvents)
  BY <1>2
<1>4. events' \in [Providers -> Seq(RuntimeEvents)] /\ session' \in [Providers -> Sessions]
  BY <1>3 DEF Gate, TypeInv, RuntimesOK
<1>5. PumpOK'
  BY <1>1, <1>3, SameTypes DEF Gate, TypeInv, PumpOK
<1>6. idle' \in Idles
  BY IdleValues DEF Gate
<1>7. missed' \subseteq Generations
  BY <1>3 DEF Gate, TypeInv, HistoryOK, RuntimeEvents
<1>8. HistoryOK'
  BY <1>1, <1>7, HistoryT DEF Gate
<1> QED
  BY <1>1, <1>4, <1>5, <1>6, <1>8, RuntimesT, Typed DEF Gate, TypeInv, LifecycleOK, lifecycle, turnState

\* What an event says of the tasks keeps the types.
LEMMA ReconciledT ==
    ASSUME TypeInv, NEW e \in RuntimeEvents, Reconciled(e)
    PROVE  tasks' \in SUBSET Tasks /\ idle' \in Idles
<1>1. e.task \in Tasks /\ tasks \in SUBSET Tasks
  BY DEF RuntimeEvents, TypeInv
<1>2. tasks' \in SUBSET Tasks
  BY <1>1 DEF Reconciled, LiveTasks
<1>3. idle' \in Idles
  BY IdleValues DEF Reconciled, TimerAfter
<1> QED
  BY <1>2, <1>3

\* The turns an event adds or takes are turns.
LEMMA SeenT ==
    ASSUME TypeInv, NEW e \in RuntimeEvents
    PROVE  Seen(e) \subseteq Turns /\ Open(e) \subseteq Turns /\ Ended(e) \subseteq Turns
<1>1. e.turn \in Turns /\ binding.turn \in Turns
  BY DEF RuntimeEvents, TypeInv, GoodBindings, Bindings
<1>2. outstanding \subseteq Turns /\ recent \subseteq Turns
  BY DEF TypeInv, TurnStateOK
<1> QED
  BY <1>1, <1>2 DEF Seen, Open, Ended

\* The types stay when the service handles an event.
LEMMA ApplyT == ASSUME TypeInv, NEW p \in Providers, Apply(p) PROVE TypeInv'
<1> DEFINE e == pump[p]
<1>1. UNCHANGED gens /\ UNCHANGED <<lifecycle, session, events, fence, turns, begun, calls, haunted>>
  BY DEF Apply, lifecycle
<1>2. e \in RuntimeEvents /\ e.turn \in Turns /\ e.retired \in BOOLEAN
  BY DEF TypeInv, PumpOK, RuntimeEvents
<1>3. PumpOK'
  <2>1. NoEvent \in RuntimeEvents
    BY Empties DEF TypeInv, LifecycleOK
  <2> QED
    BY <1>1, <2>1, SameTypes DEF Apply, TypeInv, PumpOK
<1>4. CallOK'
  <2> DEFINE c == [NoCall EXCEPT !.kind = "rotate", !.pc = "recover.drain"]
  <2>1. NoCall \in CallsOfFibers /\ "rotator" \in Fibers
    BY Empties DEF TypeInv, LifecycleOK, GoodCalls, Fibers
  <2>2. c \in CallsOfFibers /\ c.pc = "recover.drain"
    BY <2>1, Literals DEF CallsOfFibers
  <2>3. call' = call \/ call' = [call EXCEPT !["rotator"] = c]
    BY DEF Apply
  <2> HIDE DEF c
  <2> QED
    BY <1>1, <2>1, <2>2, <2>3, NewCallT, Literals, Typed
<1>5. Seen(e) \subseteq Turns /\ Open(e) \subseteq Turns /\ Ended(e) \subseteq Turns
  BY <1>2, SeenT
<1>6. outstanding \subseteq Turns /\ recent \subseteq Turns /\ NoResult \in GoodResults
  BY Empties DEF TypeInv, TurnStateOK, LifecycleOK
<1>7. Settled(e) => outstanding' \subseteq Turns /\ recent' \subseteq Turns
  BY <1>5, <1>6 DEF Settled
<1>8. /\ tasks' \in SUBSET Tasks /\ idle' \in Idles /\ binding' \in GoodBindings
      /\ UNCHANGED dispatch \/ dispatch' \in {"none", "open", "void"}
      /\ outstanding' \subseteq Turns /\ recent' \subseteq Turns
      /\ UNCHANGED retained \/ retained' \in GoodResults
  <2>1. CASE NotBound(e)
    BY <1>2, <1>5, <1>6, <2>1, ReconciledT DEF NotBound, TypeInv
  <2>2. CASE NotApplied(e, p)
    BY <1>5, <1>6, <2>2, IdleValues DEF NotApplied, TypeInv
  <2>3. CASE Applied(e, p)
    <3>1. tasks' \in SUBSET Tasks /\ idle' \in Idles
      BY <1>2, <2>3, ReconciledT DEF Applied
    <3>2. binding' \in GoodBindings
      <4> DEFINE t == IF e.type = "turn.started" THEN e.turn
                      ELSE IF e.type \in Ending \cup Reports THEN NoTurn ELSE binding.turn
      <4> DEFINE s == IF e.type \in Ending \cup {"session.stopped", "thread.closed"} THEN "stopped" ELSE "running"
      <4>1. binding \in Bindings /\ binding.provider \in Providers /\ NoTurn \in Turns
        BY <2>3, Empties DEF Applied, TypeInv, GoodBindings, LifecycleOK
      <4>2. t \in Turns /\ s \in {"running", "stopped"}
        BY <1>2, <4>1 DEF Bindings
      <4>3. binding' = [binding EXCEPT !.turn = t, !.status = s, !.rotation = @ \/ e.retired]
        BY <2>3 DEF Applied
      <4> HIDE DEF t, s
      <4>4. binding' \in Bindings /\ binding'.provider = binding.provider
        BY <1>2, <4>1, <4>2, <4>3 DEF Bindings
      <4> QED
        BY <4>1, <4>4 DEF GoodBindings
    <3>3. CASE e.type = "session.exited"
      BY <1>6, <2>3, <3>1, <3>2, <3>3 DEF Applied
    <3>4. CASE e.type # "session.exited"
      BY <1>7, <2>3, <3>1, <3>2, <3>4 DEF Applied
    <3> QED
      BY <3>3, <3>4
  <2>4. CASE NotWritten(e, p)
    BY <1>7, <2>4, IdleValues DEF NotWritten, TypeInv
  <2> QED
    BY <2>1, <2>2, <2>3, <2>4 DEF Apply
<1>9. TurnStateOK'
  BY <1>8, TurnStateT
<1>10. HistoryOK'
  <2>1. UNCHANGED faults \/ faults' \in 0..MaxUnusual
    BY FaultTypes DEF Apply, NotBound, NotApplied, Applied, NotWritten
  <2>2. e.gen \in Generations /\ binding.turn \in Turns /\ missed \subseteq Generations /\ erased \subseteq Turns
    BY <1>2 DEF RuntimeEvents, TypeInv, HistoryOK, GoodBindings, Bindings
  <2>3. missed' \subseteq Generations /\ erased' \subseteq Turns
    BY <2>2 DEF Apply, NotBound, NotApplied, Applied, NotWritten
  <2> QED
    BY <1>1, <2>1, <2>3, HistoryT
<1> HIDE DEF e
<1> QED
  BY <1>1, <1>3, <1>4, <1>8, <1>9, <1>10, Typed DEF TypeInv, LifecycleOK, lifecycle

\* The initial state is typed.
LEMMA InitT == ASSUME Init PROVE TypeInv
<1>1. gens = 2 /\ Generations = 0..2
  BY DEF Init, Legacy, Generations
<1>2. /\ NoSession \in Sessions /\ NoBinding \in GoodBindings /\ NoEvent \in RuntimeEvents
      /\ NoCall \in GoodCalls /\ NoResult \in GoodResults /\ NoTurn \in Turns
  BY <1>1, Empties
<1>3. binding \in GoodBindings
  <2>1. CASE binding = NoBinding
    BY <1>2, <2>1
  <2>2. ASSUME NEW p \in Providers, binding = Left(p) PROVE binding \in GoodBindings
    <3>1. NoBinding \in Bindings
      BY <1>2 DEF GoodBindings
    <3>2. Left(p) \in Bindings /\ Left(p).provider = p
      <4>1. Legacy + 1 \in Generations /\ p \in Providers \cup {"none"} /\ TRUE \in BOOLEAN
        BY <1>1 DEF Legacy
      <4> QED
        BY <3>1, <4>1 DEF Left, Bindings
    <3> QED
      BY <2>2, <3>2 DEF GoodBindings
  <2> QED
    BY <2>1, <2>2 DEF Init
<1>4. binding.gen \in Generations
  BY <1>3 DEF GoodBindings, Bindings
<1>5. LifecycleOK /\ RuntimesOK /\ PumpOK
  BY <1>1, <1>2, <1>4 DEF Init, LifecycleOK, RuntimesOK, PumpOK, Legacy
<1>6. IdleOK /\ TurnStateOK /\ CallOK
  BY <1>2 DEF Init, IdleOK, Cleared, TurnStateOK, CallOK
<1>7. HistoryOK
  <2>1. turns = 0 /\ calls = 0 /\ begun = 0 /\ faults = 0 /\ haunted = FALSE /\ missed = {} /\ erased = {}
    BY DEF Init, None
  <2>2. 0 \in Turns /\ 0 \in 0..MaxCalls /\ 0 \in 0..MaxTasks /\ 0 \in 0..MaxUnusual /\ 0 \in Generations
    BY <1>1, Numbers DEF Turns
  <2> QED
    BY <2>1, <2>2 DEF HistoryOK
<1> QED
  BY <1>3, <1>5, <1>6, <1>7 DEF Init, TypeInv

\* Every step of a call keeps the types.
LEMMA StepT == ASSUME TypeInv, NEW f \in Fibers, Step(f) PROVE TypeInv'
<1>1. CASE StartSession(f)
  BY <1>1, StartEntersT, StartRoutesT, StartStopsOldT, StartStartsT, StartPersistsT, StartUndoesT,
     StartRestoresT, StartRestoredT DEF StartSession
<1>2. CASE Recover(f)
  BY <1>2, RecoverDrainsT, RecoverSettlesT, RecoverStopsT, RecoverEntersT, RecoverRoutesT, RecoverStartsT,
     RecoverPersistsT DEF Recover
<1>3. CASE Work(f)
  BY <1>3, WorkBeginsT, WorkDisplacesT, WorkReadyT, WorkRoutesT DEF Work
<1>4. CASE SendTurn(f)
  BY <1>4, SendTurnsT, SendReturnsT, SendPersistsT, SendFailsT, SendFinishesT DEF SendTurn
<1>5. CASE CompactThread(f)
  BY <1>5, CompactCompactsT, CompactReadsT, CompactWritesT, CompactEndsT DEF CompactThread
<1>6. CASE StopRuntimeSession(f)
  BY <1>6, StopWaitsT, StopEntersT, StopRoutesT, StopStopsT, StopPersistsT DEF StopRuntimeSession
<1>7. CASE StopIdleRuntimeSession(f)
  BY <1>7, IdleLooksT, IdleListsT, IdleFailsT DEF StopIdleRuntimeSession
<1>8. CASE InterruptTurn(f)
  BY <1>8, InterruptEntersT, InterruptRoutesT, InterruptInterruptsT, InterruptEndsT DEF InterruptTurn
<1>9. CASE StopSession(f)
  BY <1>9, DeleteWaitsT, DeleteEntersT, DeleteRoutesT, DeleteStopsT, DeleteRemovesT DEF StopSession
<1>10. CASE ClearSessionResumeCursor(f)
  BY <1>10, ClearWaitsT, ClearEntersT, ClearClearsT, ClearEndsT DEF ClearSessionResumeCursor
<1> QED
  BY <1>1, <1>2, <1>3, <1>4, <1>5, <1>6, <1>7, <1>8, <1>9, <1>10 DEF Step

\* Every step keeps the types.
LEMMA NextT == ASSUME TypeInv, Next PROVE TypeInv'
<1>1. CASE Call
  <2>1. "source" \in Fibers /\ "client" \in Fibers
    BY DEF Fibers
  <2> QED
    BY <1>1, <2>1, StartCalledT, WorkCalledT, RestartCalledT, ReapCalledT, InterruptCalledT, DeleteCalledT,
       ClearCalledT DEF Call
<1>2. CASE TimePasses \/ TimerFires
  BY <1>2, TimePassesT, TimerFiresT
<1>3. ASSUME NEW f \in Callers, Step(f) PROVE TypeInv'
  BY <1>3, StepT DEF Callers, Fibers
<1>4. ASSUME NEW p \in Providers, Runtime(p) \/ Gate(p) \/ Apply(p) PROVE TypeInv'
  BY <1>4, TurnEndsT, TaskBeginsT, TaskEndsT, ReportT, DiesT, GateT, ApplyT DEF Runtime
<1> QED
  BY <1>1, <1>2, <1>3, <1>4 DEF Next

\* So does no step.
LEMMA StutterT == ASSUME TypeInv, UNCHANGED vars PROVE TypeInv'
BY Typed DEF vars, lifecycle, turnState, history, TypeInv, LifecycleOK

\* Everything keeps its type, whatever calls, failures and runtime events interleave: for any
\* set of providers and any bounds.  In particular a call only uses a provider, or the row it
\* read, where it has one.
THEOREM TypeCorrect == Spec => []TypeOK
<1>1. TypeInv /\ [Next]_vars => TypeInv'
  BY NextT, StutterT
<1> QED
  BY <1>1, InitT, TypeInvIsTypeOK, PTL DEF Spec

-----------------------------------------------------------------------------
(* The inductive invariant *)

\* Where a call is inside a run of the coordinator, and where it holds the lifecycle lock.
RunPcs == {"start.route", "start.stop", "start.adapter", "start.persist", "start.restore", "start.restored",
           "recover.route", "recover.adapter", "recover.persist", "stop.route", "stop.adapter", "stop.persist",
           "delete.route", "delete.adapter", "delete.remove", "clear.clear"}
HoldPcs == RunPcs \cup {"recover.settle", "recover.stop"}
Holds(f) ==
    \/ call[f].pc \in HoldPcs
    \/ call[f].pc \in {"interrupt.route", "interrupt.adapter"} /\ call[f].locked
Locks == \A f \in Fibers : Holds(f) <=> lock = f

\* Who makes which call.
WhoOK(f, c) ==
    /\ c.kind \in {"send", "start", "interrupt"} => f = "source"
    /\ c.pc \in StartPcs \cup SendPcs \cup InterruptPcs => f = "source"
    /\ c.kind # "compact" /\ c.pc \notin {"start.undo"} \cup CompactPcs
Who == \A f \in Fibers : WhoOK(f, call[f])

\* The live runtime is the bound one, under generation g.
Coh(g) == \A p \in Providers : Live(p) => session[p].gen = g /\ binding.provider = p /\ binding.gen = g
NoneLive == \A p \in Providers : ~Live(p)
OnlyLive(p, g) == \A q \in Providers : Live(q) => q = p /\ session[q].gen = g

\* What a fiber that holds the lock knows at each place of its run: which generation it chose,
\* which runtime can live, and that the row it read is still the row.
RunOK(f) ==
    LET c == call[f] IN
    /\ c.pc \notin RunPcs => Coh(current)
    /\ c.pc \in RunPcs => current = c.gen
    /\ c.pc \in {"start.route", "start.stop", "recover.route", "stop.route", "stop.adapter",
                 "delete.route", "delete.adapter", "clear.clear"} => Coh(c.prev)
    /\ c.pc \in {"start.stop", "stop.adapter", "stop.persist"} => c.snap.provider = binding.provider
    /\ c.pc \in {"recover.adapter", "recover.persist", "delete.adapter"} => c.provider = binding.provider
    /\ c.pc \in {"start.restore", "recover.adapter", "stop.persist", "delete.remove"} => NoneLive
    /\ c.pc = "start.adapter" => \A q \in Providers : Live(q) => q = c.provider /\ binding.provider = q
    /\ c.pc \in {"start.persist", "recover.persist"} => OnlyLive(c.provider, c.gen)
    /\ c.pc = "start.restored" => OnlyLive(c.snap.provider, c.snap.gen)
Runs ==
    /\ lock = "free" => Coh(current)
    /\ \A f \in Fibers : lock = f => RunOK(f)

\* A dispatch that has its runtime goes to the provider of the row, unless the row was removed;
\* and a result is kept only for the dispatch that is about to write its turn.
Routed == {"send.turn", "send.returned", "send.persist"}
Routes == call["source"].pc \in Routed => binding.provider \in {call["source"].provider, "none"}
Retained == retained # NoResult => call["source"].pc = "send.persist" /\ dispatch # "void"

\* After an interrupt that failed, no dispatch gets past the fence it leaves.
Asked == {"work.stop", "work.ready", "work.route", "send.turn"} \cup RecoverPcs
Fenced ==
    /\ call["source"].kind = "interrupt" => fence # "failed"
    /\ call["source"].pc \in Asked => fence # "failed"
    /\ call["source"].pc \in InterruptPcs => call["source"].kind = "interrupt"
\* A runtime whose interrupt failed lives, and the fence, or the interrupt that is about to set
\* it, knows of it.
Suspects ==
    /\ \A p \in Providers : session[p].suspect =>
         Live(p) /\ (fence = "failed" \/ call["source"].pc = "interrupt.fail")
    /\ call["source"].pc = "start.persist" => \A p \in Providers : ~session[p].suspect

\* What always holds; what holds until a dispatch remembers a voided turn (haunted); and both.
Always == Who /\ Locks /\ Fenced
Sane == Runs /\ Routes /\ Retained /\ Suspects
CInv == TypeInv /\ Always /\ (~haunted => Sane)

\* The other fibers stay where they are.
Others(f) == \A g \in Fibers \ {f} : call'[g] = call[g]
Same(f) == /\ call'[f].kind = call[f].kind /\ call'[f].provider = call[f].provider
           /\ call'[f].gen = call[f].gen /\ call'[f].prev = call[f].prev /\ call'[f].turn = call[f].turn
           /\ call'[f].snap = call[f].snap /\ call'[f].locked = call[f].locked

\* A call that goes on changes its place, or ends.
LEMMA GoC ==
    ASSUME TypeInv, NEW f \in Fibers, NEW pc, Go(f, pc)
    PROVE  /\ Others(f)
           /\ pc = "end" => call'[f] = NoCall
           /\ pc # "end" => call'[f].pc = pc /\ Same(f)
<1>1. call[f] \in CallsOfFibers /\ f \in DOMAIN call /\ \A g \in Fibers : g \in DOMAIN call
  BY CallFields DEF TypeInv, CallOK
<1>2. CASE pc = "end"
  BY <1>1, <1>2 DEF Go, Others
<1>3. CASE pc # "end"
  <2>1. call' = [call EXCEPT ![f] = [call[f] EXCEPT !.pc = pc]]
    BY <1>1, <1>3 DEF Go
  <2>2. call'[f] = [call[f] EXCEPT !.pc = pc] /\ Others(f)
    BY <1>1, <2>1 DEF Others
  <2> QED
    BY <1>1, <1>3, <2>2 DEF CallsOfFibers, Same
<1> QED
  BY <1>2, <1>3

\* Only the call of f changes, to one that f may make.
LEMMA WhoStep ==
    ASSUME Who, NEW f \in Fibers, Others(f), WhoOK(f, call'[f]) PROVE Who'
BY DEF Who, WhoOK, Others, StartPcs, SendPcs, InterruptPcs, CompactPcs

\* Every fiber may make no call.
LEMMA WhoNone == \A f \in Fibers : WhoOK(f, NoCall)
BY DEF WhoOK, NoCall, StartPcs, SendPcs, InterruptPcs, CompactPcs

\* A call that goes on is still one that its fiber may make.
LEMMA WhoGo ==
    ASSUME TypeInv, Who, NEW f \in Fibers, NEW pc, Go(f, pc), pc \notin {"start.undo"} \cup CompactPcs,
           pc \in StartPcs \cup SendPcs \cup InterruptPcs => f = "source"
    PROVE  Who'
<1>1. CASE pc = "end"
  BY <1>1, GoC, WhoStep, WhoNone
<1>2. CASE pc # "end"
  <2>1. WhoOK(f, call'[f])
    BY <1>2, GoC DEF Who, WhoOK, Same
  <2> QED
    BY <2>1, GoC, WhoStep
<1> QED
  BY <1>1, <1>2

\* Where a fiber goes on.
LEMMA RaiseC ==
    ASSUME Who, NEW f \in Fibers
    PROVE  /\ Raise(f) \in {"send.fail", "interrupt.fail", "idle.fail", "end"}
           /\ Raise(f) \in {"send.fail", "interrupt.fail"} => f = "source"
BY DEF Who, WhoOK, Raise

\* A recovered dispatch goes on to send, and only the source dispatches.
LEMMA RecoveredC ==
    ASSUME Who, NEW f \in Fibers
    PROVE  Recovered(f) \in {"send.turn", "end"} /\ (Recovered(f) = "send.turn" => f = "source")
BY DEF Who, WhoOK, Recovered

\* A stop goes on where its caller waits.
LEMMA StoppedC ==
    ASSUME Who, NEW f \in Fibers
    PROVE  Stopped(f) \in {"interrupt.done", "end"} /\ (Stopped(f) = "interrupt.done" => f = "source")
BY DEF Who, WhoOK, Stopped

\* No fiber is called free.
LEMMA NotFree == "free" \notin Fibers
BY DEF Fibers

\* The lock stays with its holder.
LEMMA LocksKeep ==
    ASSUME Locks, NEW f \in Fibers, Others(f), lock' = lock, Holds(f)' <=> Holds(f) PROVE Locks'
BY DEF Locks, Others, Holds

\* A free lock is taken.
LEMMA LocksTake ==
    ASSUME Locks, NEW f \in Fibers, Others(f), lock = "free", lock' = f, Holds(f)' PROVE Locks'
BY NotFree DEF Locks, Others, Holds

\* The holder gives the lock up.
LEMMA LocksFree ==
    ASSUME Locks, NEW f \in Fibers, Others(f), Holds(f), lock' = "free", ~Holds(f)' PROVE Locks'
BY NotFree DEF Locks, Others, Holds

\* In a run it is the run that says what lives.
LEMMA RunsHold == ASSUME NEW f \in Fibers, lock' = f, RunOK(f)' PROVE Runs'
BY NotFree DEF Runs

\* Without a run the state is coherent.
LEMMA RunsFree == ASSUME lock' = "free", Coh(current)' PROVE Runs'
BY NotFree DEF Runs

\* No runtime starts, and the binding keeps its provider and generation.
Calm ==
    /\ \A q \in Providers : Live(q)' => Live(q) /\ session'[q].gen = session[q].gen
    /\ \/ binding'.provider = binding.provider /\ binding'.gen = binding.gen
       \/ binding.provider = "none" /\ NoneLive

\* A calm step of another fiber leaves the run what it had.
LEMMA RunsFrame ==
    ASSUME TypeInv, Runs, UNCHANGED <<lock, current>>, Calm, \A g \in Fibers : lock = g => call'[g] = call[g]
    PROVE  Runs'
<1>1. CASE lock = "free"
  BY <1>1, RunsFree DEF Calm, Runs, Coh, NoneLive
<1>2. ASSUME NEW g \in Fibers, lock = g PROVE Runs'
  <2>1. call'[g] = call[g] /\ RunOK(g) /\ lock' = g
    BY <1>2 DEF Runs
  <2>2. CASE binding'.provider = binding.provider /\ binding'.gen = binding.gen
    <3>1. RunOK(g)'
      BY <2>1, <2>2 DEF Calm, RunOK, Coh, NoneLive, OnlyLive
    <3> QED
      BY <2>1, <3>1, RunsHold
  <2>3. CASE binding.provider = "none" /\ NoneLive
    <3>1. NoneLive'
      BY <2>3 DEF Calm, NoneLive
    <3>2. call[g].pc \notin {"start.stop", "stop.adapter", "stop.persist", "recover.adapter", "recover.persist",
                             "delete.adapter"}
      BY <2>1, <2>3, CallFields, Literals, ProvidersAssumption DEF RunOK, UsesRow
    <3>3. RunOK(g)'
      BY <2>1, <3>1, <3>2 DEF RunOK, Coh, NoneLive, OnlyLive
    <3> QED
      BY <2>1, <3>3, RunsHold
  <2> QED
    BY <2>2, <2>3 DEF Calm
<1> QED
  BY <1>1, <1>2 DEF TypeInv, LifecycleOK

\* Unless a run has just started a runtime, what lives is bound; and one runtime lives at a time.
LEMMA WhatLivesIsBound ==
    ASSUME TypeInv, Who, Runs, call["source"].pc \notin {"start.persist", "start.restored"}, NEW q \in Providers, Live(q)
    PROVE  binding.provider = q
<1>1. CASE lock = "free"
  BY <1>1 DEF Runs, Coh
<1>2. ASSUME NEW f \in Fibers, lock = f PROVE binding.provider = q
  <2>1. RunOK(f)
    BY <1>2 DEF Runs
  <2>2. call[f].pc \notin {"start.persist", "start.restored"}
    BY DEF Who, WhoOK, StartPcs
  <2> QED
    BY <2>1, <2>2 DEF RunOK, RunPcs, Coh, NoneLive, OnlyLive
<1> QED
  BY <1>1, <1>2 DEF TypeInv, LifecycleOK

\* At most one runtime lives.
LEMMA OneLives == ASSUME TypeInv, Who, Runs PROVE OneRuntime
<1>1. CASE lock = "free"
  BY <1>1 DEF Runs, Coh, OneRuntime
<1>2. ASSUME NEW f \in Fibers, lock = f PROVE OneRuntime
  <2>1. RunOK(f)
    BY <1>2 DEF Runs
  <2> QED
    BY <2>1 DEF RunOK, RunPcs, Coh, NoneLive, OnlyLive, OneRuntime
<1> QED
  BY <1>1, <1>2 DEF TypeInv, LifecycleOK

\* Frames of the other parts.
LEMMA RoutesFrame ==
    ASSUME Routes, binding'.provider = binding.provider \/ binding'.provider = "none",
           \/ call'["source"].pc \notin Routed
           \/ call["source"].pc \in Routed /\ call'["source"].provider = call["source"].provider
    PROVE  Routes'
BY DEF Routes

\* A retained result stays one of the dispatch that waits to write it.
LEMMA RetainedFrame ==
    ASSUME Retained, UNCHANGED <<retained, dispatch>>,
           call'["source"] = call["source"] \/ call["source"].pc # "send.persist"
    PROVE  Retained'
BY DEF Retained, NoResult

\* A failed fence stays one that an interrupt set and no dispatch went past.
LEMMA FencedFrame ==
    ASSUME Fenced, fence' = fence \/ fence' = "none",
           call'["source"].kind = "interrupt" => call["source"].kind = "interrupt",
           call'["source"].pc \in Asked => call["source"].pc \in Asked,
           call'["source"].pc \in InterruptPcs => call'["source"].kind = "interrupt"
    PROVE  Fenced'
BY DEF Fenced, Asked, RecoverPcs, InterruptPcs

\* A suspect stays behind its fence.
LEMMA SuspectsFrame ==
    ASSUME Suspects, UNCHANGED fence,
           \A p \in Providers : session'[p].suspect => session[p].suspect /\ Live(p)',
           call["source"].pc = "interrupt.fail" => call'["source"].pc = "interrupt.fail",
           call'["source"].pc = "start.persist" => call["source"].pc = "start.persist"
    PROVE  Suspects'
BY DEF Suspects

-----------------------------------------------------------------------------
(* Steps without the lock *)

\* Only an interrupt fails as an interrupt.
LEMMA RaiseKind == ASSUME NEW f PROVE Raise(f) = "interrupt.fail" => call[f].kind = "interrupt"
BY DEF Raise

\* Only an interrupt waits for the stop of an interrupt.
LEMMA StoppedKind == ASSUME NEW f PROVE Stopped(f) = "interrupt.done" => call[f].kind = "interrupt"
BY DEF Stopped

\* No suspect appears.
NoNewSuspect == \A p \in Providers : session'[p].suspect => session[p].suspect /\ Live(p)'

\* What a step of f leaves of the fence, the routes, the results and the suspects.
LEMMA Sides ==
    ASSUME CInv, NEW f \in Fibers, Others(f), UNCHANGED <<retained, dispatch, fence>>, Sane => NoNewSuspect,
           Sane => \/ binding'.provider \in {binding.provider, "none"}
                   \/ f = "source" /\ call'[f].pc \notin Routed,
           Sane => \/ call'[f].pc \notin Routed
                   \/ call[f].pc \in Routed /\ call'[f].provider = call[f].provider
                   \/ binding'.provider \in {call'[f].provider, "none"},
           call[f].pc # "send.persist", call[f].pc # "interrupt.fail", call'[f].pc # "start.persist",
           call'[f].kind = "interrupt" => call[f].kind = "interrupt" \/ fence # "failed",
           call'[f].pc \in Asked => call[f].pc \in Asked \/ fence # "failed",
           call'[f].pc \in InterruptPcs => call'[f].kind = "interrupt"
    PROVE  Fenced' /\ (Sane => Routes' /\ Retained' /\ Suspects')
<1>1. "source" \in Fibers /\ (f # "source" => call'["source"] = call["source"])
  BY DEF Fibers, Others
<1>2. Fenced
  BY DEF CInv, Always
<1>3. CASE f = "source"
  <2>1. Fenced'
    BY <1>2, <1>3 DEF Fenced, Asked, RecoverPcs, InterruptPcs
  <2>2. Sane => Routes'
    BY <1>3 DEF Sane, Routes
  <2>3. Sane => Retained'
    BY <1>3, RetainedFrame DEF Sane
  <2>4. Sane => Suspects'
    BY <1>3 DEF Sane, Suspects, NoNewSuspect
  <2> QED
    BY <2>1, <2>2, <2>3, <2>4
<1>4. CASE f # "source"
  <2>1. Fenced'
    BY <1>1, <1>2, <1>4 DEF Fenced, Asked, RecoverPcs, InterruptPcs
  <2>2. Sane => Routes'
    BY <1>1, <1>4, RoutesFrame DEF Sane
  <2>3. Sane => Retained'
    BY <1>1, <1>4, RetainedFrame DEF Sane
  <2>4. Sane => Suspects'
    BY <1>1, <1>4, SuspectsFrame DEF Sane, NoNewSuspect
  <2> QED
    BY <2>1, <2>2, <2>3, <2>4
<1> QED
  BY <1>3, <1>4

\* A step of a fiber that does not hold the lifecycle lock, before or after.
LEMMA FreeStep ==
    ASSUME CInv, TypeInv', NEW f \in Fibers, Others(f), UNCHANGED <<lock, current>>, Sane => Calm,
           haunted => haunted', ~Holds(f), ~Holds(f)', WhoOK(f, call'[f]),
           Fenced', ~haunted' /\ Sane => Routes' /\ Retained' /\ Suspects'
    PROVE  CInv'
<1>1. Who' /\ Locks'
  BY WhoStep, LocksKeep DEF CInv, Always
<1>2. ASSUME ~haunted' PROVE Sane'
  <2>1. Sane
    BY <1>2 DEF CInv
  <2>2. \A g \in Fibers : lock = g => call'[g] = call[g]
    BY DEF Others, CInv, Always, Locks
  <2>3. Runs'
    BY <2>1, <2>2, RunsFrame DEF CInv, Sane
  <2> QED
    BY <1>2, <2>1, <2>3 DEF Sane
<1> QED
  BY <1>1, <1>2 DEF CInv, Always

\* Where no runtime and no binding is concerned, the step is calm.
LEMMA Still ==
    ASSUME UNCHANGED <<session, binding>>
    PROVE  Calm
BY DEF Calm, Live

\* Where no runtime changes there is no new suspect.
LEMMA StillSuspects == ASSUME Sane, UNCHANGED session PROVE NoNewSuspect
BY DEF NoNewSuspect, Sane, Suspects, Live

FreeFrom == {"work.wait", "work.queue", "work.stop", "work.ready", "work.route", "send.turn", "send.returned",
             "send.fail", "send.finish", "send.failed", "stop.wait", "idle.look", "idle.list", "idle.fail",
             "delete.wait", "clear.wait", "clear.end", "interrupt.done", "interrupt.fail", "recover.drain"}
FreeTo == {"end", "work.wait", "work.queue", "work.stop", "work.ready", "work.route", "send.turn", "send.returned",
             "send.persist", "send.fail", "send.finish", "send.failed", "stop.lock", "idle.look", "idle.list", "idle.fail",
             "delete.lock", "clear.lock", "interrupt.done", "interrupt.fail", "recover.drain",
           "recover.lock"}

\* A call that holds nothing moves on, and the bindings and runtimes stay.
LEMMA MovesOn ==
    ASSUME CInv, TypeInv', NEW f \in Fibers, NEW from \in FreeFrom \ {"interrupt.fail"}, NEW pc \in FreeTo, At(f, from), Go(f, pc),
           UNCHANGED <<lock, current, session, binding, fence, retained, dispatch>>, haunted => haunted',
           pc \in Routed => from \in Routed, pc \in Asked => from \in Asked \/ fence # "failed",
           pc \in SendPcs \cup InterruptPcs => f = "source",
           pc \in InterruptPcs => call[f].kind = "interrupt"
    PROVE  CInv'
<1>1. TypeInv /\ Who /\ call[f].pc = from
  BY DEF CInv, Always, At
<1>2. /\ Others(f)
      /\ pc = "end" => call'[f] = NoCall
      /\ pc # "end" => call'[f].pc = pc /\ Same(f)
  BY <1>1, GoC
<1>3. NoCall.pc = "done" /\ NoCall.kind = "none"
  BY DEF NoCall
<1>4. Who'
  BY <1>1, WhoGo DEF FreeTo, StartPcs, CompactPcs
<1>5. ~Holds(f) /\ ~Holds(f)'
  BY <1>1, <1>2, <1>3 DEF Holds, HoldPcs, RunPcs, FreeFrom, FreeTo
<1>6. Fenced' /\ (Sane => Routes' /\ Retained' /\ Suspects')
  <2>1. call[f].pc # "send.persist" /\ call[f].pc # "interrupt.fail" /\ call'[f].pc # "start.persist"
    BY <1>1, <1>2, <1>3 DEF FreeFrom, FreeTo
  <2>2. \/ call'[f].pc \notin Routed
        \/ call[f].pc \in Routed /\ call'[f].provider = call[f].provider
    <3>1. CASE pc = "end"
      BY <1>2, <1>3, <3>1 DEF Routed
    <3>2. CASE pc # "end"
      BY <1>1, <1>2, <3>2 DEF Same
    <3> QED
      BY <3>1, <3>2
  <2>3. call'[f].kind = "interrupt" => call[f].kind = "interrupt"
    BY <1>2, <1>3 DEF Same
  <2>4. call'[f].pc \in Asked => call[f].pc \in Asked \/ fence # "failed"
    BY <1>1, <1>2, <1>3 DEF Asked, RecoverPcs
  <2>5. call'[f].pc \in InterruptPcs => call'[f].kind = "interrupt"
    BY <1>2, <1>3 DEF Same, InterruptPcs
  <2> QED
    BY <1>2, <2>1, <2>2, <2>3, <2>4, <2>5, StillSuspects, Sides
<1>7. WhoOK(f, call'[f])
  BY <1>4 DEF Who
<1> QED
  BY <1>2, <1>5, <1>6, <1>7, Still, FreeStep

\* What a lemma about a step of f needs of the invariant.
LEMMA Parts ==
    ASSUME CInv, NEW f \in Fibers
    PROVE  /\ TypeInv /\ Who /\ WhoOK(f, call[f]) /\ Locks /\ Fenced
           /\ call[f] \in CallsOfFibers /\ f \in DOMAIN call /\ call[f].pc \notin CompactPcs \cup {"start.undo"}
           /\ call[f].pc \in SendPcs \cup StartPcs \cup InterruptPcs => f = "source"
BY CallFields DEF CInv, Always, TypeInv, CallOK, Who, WhoOK

\* The call of f is replaced, and no other.
LEMMA SetC ==
    ASSUME TypeInv, NEW f \in Fibers, NEW c, call' = [call EXCEPT ![f] = c]
    PROVE  Others(f) /\ call'[f] = c
BY DEF TypeInv, CallOK, Others

\* The steps of a call that waits.

\* The invariant stays when a stop waits for its place.
LEMMA StopWaitsC == ASSUME CInv, TypeInv', NEW f \in Fibers, StopWaits(f) PROVE CInv'
<1>1. UNCHANGED <<lock, current, session, binding, fence, retained, dispatch, haunted>>
  BY DEF StopWaits, lifecycle, turnState, history
<1> QED
  BY <1>1, MovesOn DEF StopWaits, FreeFrom, FreeTo, Routed, Asked, RecoverPcs, SendPcs, InterruptPcs

\* The invariant stays when a deletion waits for its place.
LEMMA DeleteWaitsC == ASSUME CInv, TypeInv', NEW f \in Fibers, DeleteWaits(f) PROVE CInv'
<1>1. UNCHANGED <<lock, current, session, binding, fence, retained, dispatch, haunted>>
  BY DEF DeleteWaits, lifecycle, turnState, history
<1> QED
  BY <1>1, MovesOn DEF DeleteWaits, FreeFrom, FreeTo, Routed, Asked, RecoverPcs, SendPcs, InterruptPcs

\* The invariant stays when a clearing waits for its place.
LEMMA ClearWaitsC == ASSUME CInv, TypeInv', NEW f \in Fibers, ClearWaits(f) PROVE CInv'
<1>1. UNCHANGED <<lock, current, session, binding, fence, retained, dispatch, haunted>>
  BY DEF ClearWaits, lifecycle, turnState, history
<1> QED
  BY <1>1, MovesOn DEF ClearWaits, FreeFrom, FreeTo, Routed, Asked, RecoverPcs, SendPcs, InterruptPcs

\* The invariant stays when a clearing ends.
LEMMA ClearEndsC == ASSUME CInv, TypeInv', NEW f \in Fibers, ClearEnds(f) PROVE CInv'
<1>1. UNCHANGED <<lock, current, session, binding, fence, retained, dispatch, haunted>>
  BY DEF ClearEnds, lifecycle, turnState, history
<1> QED
  BY <1>1, MovesOn DEF ClearEnds, FreeFrom, FreeTo, Routed, Asked, RecoverPcs, SendPcs, InterruptPcs

\* The invariant stays when the idle stop fails.
LEMMA IdleFailsC == ASSUME CInv, TypeInv', NEW f \in Fibers, IdleFails(f) PROVE CInv'
<1>1. UNCHANGED <<lock, current, session, binding, fence, retained, dispatch, haunted>>
  BY DEF IdleFails, lifecycle, turnState, history
<1> QED
  BY <1>1, MovesOn DEF IdleFails, FreeFrom, FreeTo, Routed, Asked, RecoverPcs, SendPcs, InterruptPcs

\* The invariant stays when the idle stop looks at the row.
LEMMA IdleLooksC == ASSUME CInv, TypeInv', NEW f \in Fibers, IdleLooks(f) PROVE CInv'
<1>1. UNCHANGED <<lock, current, session, binding, fence, retained, dispatch, haunted>>
  BY DEF IdleLooks, lifecycle, turnState, history
<1>2. At(f, "idle.look") /\ (Go(f, "end") \/ Go(f, "stop.lock") \/ Go(f, "idle.list"))
  BY DEF IdleLooks
<1> QED
  BY <1>1, <1>2, MovesOn DEF FreeFrom, FreeTo, Routed, Asked, RecoverPcs, SendPcs, InterruptPcs

\* The invariant stays when the idle stop lists the sessions.
LEMMA IdleListsC == ASSUME CInv, TypeInv', NEW f \in Fibers, IdleLists(f) PROVE CInv'
<1>1. UNCHANGED <<lock, current, session, binding, fence, retained, dispatch, haunted>>
  BY DEF IdleLists, lifecycle, turnState, history
<1>2. At(f, "idle.list") /\ (Go(f, "end") \/ Go(f, "stop.lock"))
  BY DEF IdleLists
<1> QED
  BY <1>1, <1>2, MovesOn DEF FreeFrom, FreeTo, Routed, Asked, RecoverPcs, SendPcs, InterruptPcs

\* A call that fails without the lock.
LEMMA RaisesC ==
    ASSUME CInv, TypeInv', NEW f \in Fibers, NEW from \in FreeFrom \ {"interrupt.fail"}, At(f, from), Go(f, Raise(f)),
           UNCHANGED <<lock, current, session, binding, fence, retained, dispatch, haunted>>
    PROVE  CInv'
<1>1. /\ Raise(f) \in {"send.fail", "interrupt.fail", "idle.fail", "end"}
      /\ Raise(f) \in {"send.fail", "interrupt.fail"} => f = "source"
      /\ Raise(f) = "interrupt.fail" => call[f].kind = "interrupt"
  BY Parts, RaiseC, RaiseKind
<1>2. /\ Raise(f) \in FreeTo /\ Raise(f) \notin Routed /\ Raise(f) \notin Asked
      /\ Raise(f) \in SendPcs \cup InterruptPcs => f = "source"
      /\ Raise(f) \in InterruptPcs => call[f].kind = "interrupt"
  BY <1>1 DEF FreeTo, Routed, Asked, RecoverPcs, SendPcs, InterruptPcs
<1> QED
  BY <1>2, MovesOn

\* The invariant stays when work waits for the idle stop before it.
LEMMA WorkBeginsC == ASSUME CInv, TypeInv', NEW f \in Fibers, WorkBegins(f) PROVE CInv'
<1>1. UNCHANGED <<lock, current, session, binding, fence, retained, dispatch, haunted>>
  BY DEF WorkBegins, lifecycle, turnState, history
<1>2. PICK from \in {"work.wait", "work.queue"} : At(f, from)
  BY DEF WorkBegins
<1>3. from \in FreeFrom \ {"interrupt.fail"}
  BY DEF FreeFrom
<1>4. CASE fence = "failed"
  BY <1>1, <1>2, <1>3, <1>4, RaisesC DEF WorkBegins
<1>5. CASE fence # "failed"
  <2>1. Go(f, "work.stop") \/ Go(f, "work.ready")
    BY <1>5 DEF WorkBegins
  <2> QED
    BY <1>1, <1>2, <1>3, <1>5, <2>1, MovesOn DEF FreeTo, Routed, SendPcs, InterruptPcs
<1> QED
  BY <1>4, <1>5

\* The invariant stays when work takes the idle timer over.
LEMMA WorkDisplacesC == ASSUME CInv, TypeInv', NEW f \in Fibers, WorkDisplaces(f) PROVE CInv'
<1>1. UNCHANGED <<lock, current, session, binding, fence, retained, dispatch, haunted>>
  BY DEF WorkDisplaces, lifecycle, turnState, history
<1> QED
  BY <1>1, MovesOn DEF WorkDisplaces, FreeFrom, FreeTo, Routed, Asked, SendPcs, InterruptPcs

\* The invariant stays when work finds the thread ready.
LEMMA WorkReadyC == ASSUME CInv, TypeInv', NEW f \in Fibers, WorkReady(f) PROVE CInv'
<1>1. /\ UNCHANGED <<lock, current, session, binding, fence, retained, haunted>> /\ call[f].pc = "work.ready"
      /\ Go(f, "work.route") /\ dispatch' = IF call[f].kind = "send" THEN "open" ELSE dispatch
  BY DEF WorkReady, At, lifecycle, history
<1>2. Others(f) /\ call'[f].pc = "work.route" /\ Same(f)
  BY <1>1, Parts, GoC
<1>3. WhoOK(f, call'[f])
  BY <1>1, <1>2, Parts DEF WhoOK, Same, StartPcs, SendPcs, InterruptPcs, CompactPcs
<1>4. ~Holds(f) /\ ~Holds(f)'
  BY <1>1, <1>2 DEF Holds, HoldPcs, RunPcs
<1>5. "source" \in Fibers /\ (f # "source" => call'["source"] = call["source"])
  BY <1>2 DEF Fibers, Others
<1>6. Fenced'
  BY <1>1, <1>2, <1>5, Parts DEF Fenced, Same, Asked, RecoverPcs, InterruptPcs
<1>7. ASSUME Sane PROVE Routes' /\ Retained' /\ Suspects'
  <2>1. Routes'
    BY <1>1, <1>2, <1>5, <1>7 DEF Sane, Routes, Routed
  <2>2. Retained'
    BY <1>1, <1>2, <1>5, <1>7, Parts DEF Sane, Retained, WhoOK
  <2>3. Suspects'
    BY <1>1, <1>2, <1>5, <1>7 DEF Sane, Suspects, Live
  <2> QED
    BY <2>1, <2>2, <2>3
<1> QED
  BY <1>1, <1>2, <1>3, <1>4, <1>6, <1>7, Still, FreeStep

\* A call that found its runtime goes on with it.
LEMMA ResumedC ==
    ASSUME CInv, NEW f \in Fibers, NEW p, call' = [call EXCEPT ![f] = Resumed(f, p)]
    PROVE  /\ Others(f) /\ call'[f].pc \in {"send.turn", "done"} /\ WhoOK(f, call'[f])
           /\ call'[f].kind \in {"none", call[f].kind}
           /\ call'[f].pc = "send.turn" => f = "source" /\ call'[f].provider = p
<1>1. Others(f) /\ call'[f] = Resumed(f, p)
  BY Parts, SetC
<1>2. CASE Recovered(f) = "end"
  <2>1. call'[f] = NoCall /\ WhoOK(f, NoCall)
    BY <1>1, <1>2, WhoNone DEF Resumed
  <2>2. NoCall.pc = "done" /\ NoCall.kind = "none"
    BY DEF NoCall
  <2> QED
    BY <1>1, <2>1, <2>2
<1>3. CASE Recovered(f) # "end"
  <2>1. Recovered(f) = "send.turn" /\ f = "source"
    BY <1>3, Parts, RecoveredC
  <2>2. /\ call'[f].pc = "send.turn" /\ call'[f].provider = p /\ call'[f].kind = call[f].kind
    BY <1>1, <1>3, <2>1, Parts DEF Resumed, NoCall
  <2> QED
    BY <1>1, <2>1, <2>2, Parts DEF WhoOK, StartPcs, SendPcs, InterruptPcs, CompactPcs
<1> QED
  BY <1>2, <1>3

\* The invariant stays when work looks up its runtime.
LEMMA WorkRoutesC == ASSUME CInv, TypeInv', NEW f \in Fibers, WorkRoutes(f) PROVE CInv'
<1>1. UNCHANGED <<lock, current, session, binding, fence, retained, dispatch, haunted>> /\ call[f].pc = "work.route"
  BY DEF WorkRoutes, At, lifecycle, turnState, history
<1>2. ASSUME NEW p, call' = [call EXCEPT ![f] = Resumed(f, p)], binding.provider \in {p, "none"} PROVE CInv'
  <2>1. /\ Others(f) /\ call'[f].pc \in {"send.turn", "done"} /\ WhoOK(f, call'[f])
        /\ call'[f].kind \in {"none", call[f].kind}
        /\ call'[f].pc = "send.turn" => f = "source" /\ call'[f].provider = p
    BY <1>2, ResumedC
  <2>2. ~Holds(f) /\ ~Holds(f)'
    BY <1>1, <2>1 DEF Holds, HoldPcs, RunPcs
  <2>3. Fenced' /\ (Sane => Routes' /\ Retained' /\ Suspects')
    <3>1. \/ call'[f].pc \notin Routed
          \/ call[f].pc \in Routed /\ call'[f].provider = call[f].provider
          \/ binding'.provider \in {call'[f].provider, "none"}
      BY <1>1, <1>2, <2>1 DEF Routed
    <3>2. call[f].pc # "send.persist" /\ call[f].pc # "interrupt.fail" /\ call'[f].pc # "start.persist"
      BY <1>1, <2>1
    <3>3. /\ call'[f].kind = "interrupt" => call[f].kind = "interrupt"
          /\ call'[f].pc \in Asked => call[f].pc \in Asked
          /\ call'[f].pc \in InterruptPcs => call'[f].kind = "interrupt"
      BY <1>1, <2>1 DEF Asked, InterruptPcs
    <3> QED
      BY <1>1, <2>1, <3>1, <3>2, <3>3, StillSuspects, Sides
  <2> QED
    BY <1>1, <2>1, <2>2, <2>3, Still, FreeStep
<1>3. ASSUME Go(f, Raise(f)) PROVE CInv'
  BY <1>1, <1>3, RaisesC DEF FreeFrom, At
<1>4. ASSUME Go(f, "recover.drain") PROVE CInv'
  BY <1>1, <1>4, MovesOn DEF FreeFrom, FreeTo, Routed, Asked, SendPcs, InterruptPcs, At
<1>5. ~Bound => binding.provider = "none"
  BY DEF Bound, NoBinding
<1> QED
  BY <1>2, <1>3, <1>4, <1>5 DEF WorkRoutes

-----------------------------------------------------------------------------
(* Runtimes and their events *)

\* A runtime's turn, task or credential changes, or the runtime goes.
LEMMA Touched ==
    ASSUME TypeInv, NEW p \in Providers, NEW s, session' = [session EXCEPT ![p] = s],
           s.state = session[p].state /\ s.gen = session[p].gen /\ s.suspect = session[p].suspect
    PROVE  \A q \in Providers : /\ Live(q)' <=> Live(q)
                                /\ session'[q].gen = session[q].gen /\ session'[q].suspect = session[q].suspect
BY DEF TypeInv, RuntimesOK, Live

\* A runtime whose life, generation and suspicion stay leaves the step calm.
LEMMA TouchedC ==
    ASSUME UNCHANGED binding,
           \A q \in Providers : /\ Live(q)' <=> Live(q)
                                /\ session'[q].gen = session[q].gen /\ session'[q].suspect = session[q].suspect
    PROVE  Calm /\ (Sane => NoNewSuspect)
BY DEF Calm, NoNewSuspect, Sane, Suspects

\* A stop of the adapter, whether it fails, takes its runtime and no other.
LEMMA StopTouches ==
    ASSUME TypeInv, NEW p, AdapterStop(p) \/ AdapterStopFails(p)
    PROVE  \A q \in Providers : /\ Live(q)' => q # p /\ Live(q) /\ session'[q] = session[q]
                                /\ session'[q].suspect => q # p /\ session'[q] = session[q]
<1>1. PICK s : session' = [session EXCEPT ![p] = s] /\ s.state # "live" /\ ~s.suspect
  <2>1. NoSession.state # "live" /\ ~NoSession.suspect
    BY DEF NoSession
  <2>2. [NoSession EXCEPT !.state = "closed"].state # "live" /\ ~[NoSession EXCEPT !.state = "closed"].suspect
    BY DEF NoSession
  <2> QED
    BY <2>1, <2>2 DEF AdapterStop, AdapterStopFails
<1> QED
  BY <1>1 DEF TypeInv, RuntimesOK, Live

\* A stop of the adapter is calm.
LEMMA StopCalms ==
    ASSUME TypeInv, NEW p, AdapterStop(p) \/ AdapterStopFails(p), UNCHANGED binding
    PROVE  Calm /\ (Sane => NoNewSuspect)
<1>1. Calm
  BY StopTouches DEF Calm
<1>2. Sane => NoNewSuspect
  BY StopTouches DEF NoNewSuspect, Sane, Suspects, Live
<1> QED
  BY <1>1, <1>2

\* A step of no call, which keeps the binding's provider.
LEMMA Aside ==
    ASSUME CInv, TypeInv', UNCHANGED <<lock, current, call, fence, haunted>>, Sane => Calm /\ NoNewSuspect,
           binding'.provider = binding.provider,
           retained' = NoResult \/ UNCHANGED <<retained, dispatch>>
    PROVE  CInv'
<1>1. TypeInv /\ Who /\ Locks /\ Fenced
  BY DEF CInv, Always
<1>2. Who' /\ Locks' /\ Fenced'
  BY <1>1 DEF Who, WhoOK, Locks, Holds, Fenced
<1>3. ASSUME Sane PROVE Sane'
  <2>1. Runs'
    BY <1>1, <1>3, RunsFrame DEF Sane
  <2>2. Routes' /\ Retained'
    BY <1>3 DEF Sane, Routes, Retained
  <2>3. Suspects'
    BY <1>3 DEF Sane, Suspects, NoNewSuspect
  <2> QED
    BY <2>1, <2>2, <2>3 DEF Sane
<1> QED
  BY <1>2, <1>3 DEF CInv, Always

\* The invariant stays when time passes.
LEMMA TimePassesC == ASSUME CInv, TypeInv', TimePasses PROVE CInv'
BY Aside, Still, StillSuspects DEF TimePasses, lifecycle, turnState, history

\* The invariant stays when a turn ends in its runtime.
LEMMA TurnEndsC == ASSUME CInv, TypeInv', NEW p \in Providers, TurnEnds(p) PROVE CInv'
<1>1. TypeInv /\ session[p] \in Sessions
  BY SessionIn DEF CInv
<1>2. PICK retires : session' = [session EXCEPT ![p].turn = NoTurn, ![p].retired = @ \/ retires]
  BY DEF TurnEnds
<1> DEFINE s == [session[p] EXCEPT !.turn = NoTurn, !.retired = @ \/ retires]
<1>3. session' = [session EXCEPT ![p] = s]
  BY <1>2
<1>4. s.state = session[p].state /\ s.gen = session[p].gen /\ s.suspect = session[p].suspect
  BY <1>1 DEF Sessions
<1> HIDE DEF s
<1>5. UNCHANGED binding
  BY DEF TurnEnds
<1>6. Calm /\ (Sane => NoNewSuspect)
  BY <1>1, <1>3, <1>4, <1>5, Touched, TouchedC
<1> QED
  BY <1>6, Aside DEF TurnEnds, lifecycle, turnState

\* The invariant stays when a task begins.
LEMMA TaskBeginsC == ASSUME CInv, TypeInv', NEW p \in Providers, TaskBegins(p) PROVE CInv'
<1>1. TypeInv /\ session[p] \in Sessions
  BY SessionIn DEF CInv
<1> DEFINE s == [session[p] EXCEPT !.tasks = @ \cup {begun'}]
<1>2. session' = [session EXCEPT ![p] = s] /\ UNCHANGED binding
  BY DEF TaskBegins
<1>3. s.state = session[p].state /\ s.gen = session[p].gen /\ s.suspect = session[p].suspect
  BY <1>1 DEF Sessions
<1> HIDE DEF s
<1>4. Calm /\ (Sane => NoNewSuspect)
  BY <1>1, <1>2, <1>3, Touched, TouchedC
<1> QED
  BY <1>4, Aside DEF TaskBegins, lifecycle, turnState, history

\* The invariant stays when a task ends.
LEMMA TaskEndsC == ASSUME CInv, TypeInv', NEW p \in Providers, TaskEnds(p) PROVE CInv'
<1>1. TypeInv /\ session[p] \in Sessions
  BY SessionIn DEF CInv
<1>5. PICK task : session' = [session EXCEPT ![p].tasks = @ \ {task}]
  BY DEF TaskEnds
<1> DEFINE s == [session[p] EXCEPT !.tasks = @ \ {task}]
<1>2. session' = [session EXCEPT ![p] = s] /\ UNCHANGED binding
  BY <1>5 DEF TaskEnds
<1>3. s.state = session[p].state /\ s.gen = session[p].gen /\ s.suspect = session[p].suspect
  BY <1>1 DEF Sessions
<1> HIDE DEF s
<1>4. Calm /\ (Sane => NoNewSuspect)
  BY <1>1, <1>2, <1>3, Touched, TouchedC
<1> QED
  BY <1>4, Aside DEF TaskEnds, lifecycle, turnState, history

\* The invariant stays when a runtime reports an error or a new state.
LEMMA ReportC == ASSUME CInv, TypeInv', NEW p \in Providers, Report(p) PROVE CInv'
BY Aside, Still, StillSuspects DEF Report, lifecycle, turnState

\* The invariant stays when a runtime dies.
LEMMA DiesC == ASSUME CInv, TypeInv', NEW p \in Providers, Dies(p) PROVE CInv'
<1>1. TypeInv
  BY DEF CInv
<1> QED
  BY <1>1, Aside, StopCalms DEF Dies, lifecycle, turnState

\* The invariant stays when the gate passes an event on or drops it.
LEMMA GateC == ASSUME CInv, TypeInv', NEW p \in Providers, Gate(p) PROVE CInv'
BY Aside, Still, StillSuspects DEF Gate, lifecycle, turnState

\* The invariant stays when the service handles an event.
LEMMA ApplyC == ASSUME CInv, TypeInv', NEW p \in Providers, Apply(p) PROVE CInv'
<1> DEFINE e == pump[p]
<1>1. UNCHANGED <<lock, current, session, fence, haunted>>
  BY DEF Apply, lifecycle
<1>2. /\ binding'.provider = binding.provider /\ binding'.gen = binding.gen
      /\ retained' = NoResult \/ UNCHANGED <<retained, dispatch>>
  <2>1. CASE NotBound(e) \/ NotApplied(e, p) \/ NotWritten(e, p)
    BY <2>1 DEF NotBound, NotApplied, NotWritten
  <2>2. CASE Applied(e, p)
    <3>1. binding \in Bindings
      BY DEF CInv, TypeInv, GoodBindings
    <3>2. binding'.provider = binding.provider /\ binding'.gen = binding.gen
      BY <2>2, <3>1 DEF Applied, Bindings
    <3> QED
      BY <2>2, <3>2 DEF Applied
  <2> QED
    BY <2>1, <2>2 DEF Apply
<1>3. Calm /\ (Sane => NoNewSuspect)
  BY <1>1, <1>2, StillSuspects DEF Calm, Live
<1>4. CASE call' = call
  BY <1>1, <1>2, <1>3, <1>4, Aside
<1>5. CASE call' # call
  <2> DEFINE c == [NoCall EXCEPT !.kind = "rotate", !.pc = "recover.drain"]
  <2>1. call["rotator"] = NoCall /\ call' = [call EXCEPT !["rotator"] = c] /\ "rotator" \in Fibers
    BY <1>5 DEF Apply, Fibers
  <2>2. c.kind = "rotate" /\ c.pc = "recover.drain" /\ NoCall.pc = "done"
    BY DEF NoCall
  <2> HIDE DEF c
  <2>3. Others("rotator") /\ call'["rotator"] = c
    BY <2>1, Parts, SetC
  <2>4. WhoOK("rotator", c)
    BY <2>2 DEF WhoOK, StartPcs, SendPcs, InterruptPcs, CompactPcs
  <2>5. ~Holds("rotator") /\ ~Holds("rotator")'
    BY <2>1, <2>2, <2>3 DEF Holds, HoldPcs, RunPcs
  <2>6. call'["source"] = call["source"]
    BY <2>3 DEF Others, Fibers
  <2>7. Fenced'
    BY <1>1, <2>6 DEF CInv, Always, Fenced
  <2>8. ASSUME Sane PROVE Routes' /\ Retained' /\ Suspects'
    BY <1>1, <1>2, <2>6, <2>8 DEF Sane, Routes, Retained, Suspects, Live
  <2> QED
    BY <1>1, <1>3, <2>1, <2>3, <2>4, <2>5, <2>7, <2>8, FreeStep
<1> QED
  BY <1>4, <1>5

-----------------------------------------------------------------------------
(* Calls begin; turns are sent *)

\* A call begins.
LEMMA NewCallC ==
    ASSUME CInv, TypeInv', NEW f \in Fibers, NEW c, call[f] = NoCall, call' = [call EXCEPT ![f] = c],
           UNCHANGED <<lock, current, session, binding, fence, retained, dispatch, haunted>>,
           WhoOK(f, c), c.pc \in {"start.wait", "work.wait", "work.queue", "stop.wait", "delete.wait", "clear.wait", "idle.look"},
           c.kind # "interrupt"
    PROVE  CInv'
<1>1. Others(f) /\ call'[f] = c /\ call[f].pc = "done"
  <2>1. NoCall.pc = "done"
    BY DEF NoCall
  <2> QED
    BY <2>1, Parts, SetC
<1>2. ~Holds(f) /\ ~Holds(f)'
  BY <1>1 DEF Holds, HoldPcs, RunPcs
<1>3. c.pc \notin Routed /\ c.pc \notin Asked /\ c.pc \notin InterruptPcs /\ c.pc # "start.persist"
  BY DEF Routed, Asked, RecoverPcs, InterruptPcs
<1>4. Fenced' /\ (Sane => Routes' /\ Retained' /\ Suspects')
  BY <1>1, <1>3, StillSuspects, Sides
<1> QED
  BY <1>1, <1>2, <1>4, Still, FreeStep

\* The invariant stays when the source starts a session.
LEMMA StartCalledC == ASSUME CInv, TypeInv', NEW p \in Providers, StartCalled(p) PROVE CInv'
<1> DEFINE c == [NoCall EXCEPT !.kind = "start", !.pc = "start.wait", !.provider = p,
                              !.replaces = fence = "failed"]
<1>1. UNCHANGED <<lock, current, session, binding, fence, retained, dispatch, haunted>>
  BY DEF StartCalled, lifecycle, turnState, history
<1>2. call' = [call EXCEPT !["source"] = c] /\ "source" \in Fibers /\ call["source"] = NoCall
  BY DEF StartCalled, Calls, Fibers, IdleStopInFlight
<1>3. c.kind = "start" /\ c.pc \in {"start.wait"}
  BY DEF NoCall
<1> HIDE DEF c
<1>4. WhoOK("source", c)
  BY <1>3 DEF WhoOK, StartPcs, SendPcs, InterruptPcs, CompactPcs
<1> QED
  BY <1>1, <1>2, <1>3, <1>4, NewCallC

\* The invariant stays when the source restarts the session.
LEMMA RestartCalledC == ASSUME CInv, TypeInv', RestartCalled PROVE CInv'
<1> DEFINE c == [NoCall EXCEPT !.kind = "restart", !.pc = "stop.wait"]
<1>1. UNCHANGED <<lock, current, session, binding, fence, retained, dispatch, haunted>>
  BY DEF RestartCalled, lifecycle, turnState, history
<1>2. call' = [call EXCEPT !["source"] = c] /\ "source" \in Fibers /\ call["source"] = NoCall
  BY DEF RestartCalled, Calls, Fibers, IdleStopInFlight
<1>3. c.kind = "restart" /\ c.pc \in {"stop.wait"}
  BY DEF NoCall
<1> HIDE DEF c
<1>4. WhoOK("source", c)
  BY <1>3 DEF WhoOK, StartPcs, SendPcs, InterruptPcs, CompactPcs
<1> QED
  BY <1>1, <1>2, <1>3, <1>4, NewCallC

\* The invariant stays when the reaper stops the session.
LEMMA ReapCalledC == ASSUME CInv, TypeInv', ReapCalled PROVE CInv'
<1> DEFINE c == [NoCall EXCEPT !.kind = "reap", !.pc = "stop.wait"]
<1>1. UNCHANGED <<lock, current, session, binding, fence, retained, dispatch, haunted>>
  BY DEF ReapCalled, lifecycle, turnState, history
<1>2. call' = [call EXCEPT !["reaper"] = c] /\ "reaper" \in Fibers /\ call["reaper"] = NoCall
  BY DEF ReapCalled, Calls, Fibers, IdleStopInFlight
<1>3. c.kind = "reap" /\ c.pc \in {"stop.wait"}
  BY DEF NoCall
<1> HIDE DEF c
<1>4. WhoOK("reaper", c)
  BY <1>3 DEF WhoOK, StartPcs, SendPcs, InterruptPcs, CompactPcs
<1> QED
  BY <1>1, <1>2, <1>3, <1>4, NewCallC

\* The invariant stays when the thread is deleted.
LEMMA DeleteCalledC == ASSUME CInv, TypeInv', DeleteCalled PROVE CInv'
<1> DEFINE c == [NoCall EXCEPT !.kind = "stop", !.pc = "delete.wait"]
<1>1. UNCHANGED <<lock, current, session, binding, fence, retained, dispatch, haunted>>
  BY DEF DeleteCalled, lifecycle, turnState, history
<1>2. call' = [call EXCEPT !["deleter"] = c] /\ "deleter" \in Fibers /\ call["deleter"] = NoCall
  BY DEF DeleteCalled, Calls, Fibers, IdleStopInFlight
<1>3. c.kind = "stop" /\ c.pc \in {"delete.wait"}
  BY DEF NoCall
<1> HIDE DEF c
<1>4. WhoOK("deleter", c)
  BY <1>3 DEF WhoOK, StartPcs, SendPcs, InterruptPcs, CompactPcs
<1> QED
  BY <1>1, <1>2, <1>3, <1>4, NewCallC

\* The invariant stays when the source sends a turn.
LEMMA SendCalledC == ASSUME CInv, TypeInv', WorkCalled("source", "send") PROVE CInv'
<1> DEFINE c == [NoCall EXCEPT !.kind = "send", !.displaced = Displaced,
                  !.pc = IF IdleStopInFlight THEN "work.queue" ELSE "work.wait"]
<1>1. UNCHANGED <<lock, current, session, binding, fence, retained, dispatch, haunted>>
  BY DEF WorkCalled, lifecycle, turnState, history
<1>2. call' = [call EXCEPT !["source"] = c] /\ "source" \in Fibers /\ call["source"] = NoCall
  BY DEF WorkCalled, Calls, Fibers, IdleStopInFlight
<1>3. c.kind = "send" /\ c.pc \in {"work.wait", "work.queue"}
  BY DEF NoCall
<1> HIDE DEF c
<1>4. WhoOK("source", c)
  BY <1>3 DEF WhoOK, StartPcs, SendPcs, InterruptPcs, CompactPcs
<1> QED
  BY <1>1, <1>2, <1>3, <1>4, NewCallC

\* The invariant stays when the idle timer fires.
LEMMA TimerFiresC == ASSUME CInv, TypeInv', TimerFires PROVE CInv'
<1> DEFINE c == [NoCall EXCEPT !.kind = "idle", !.pc = "idle.look", !.displaced = idle.timer = "retry"]
<1>1. UNCHANGED <<lock, current, session, binding, fence, retained, dispatch, haunted>>
  BY DEF TimerFires, lifecycle, turnState, history
<1>2. call' = [call EXCEPT !["idle"] = c] /\ "idle" \in Fibers /\ call["idle"] = NoCall
  BY DEF TimerFires, Calls, Fibers, IdleStopInFlight
<1>3. c.kind = "idle" /\ c.pc \in {"idle.look"}
  BY DEF NoCall
<1> HIDE DEF c
<1>4. WhoOK("idle", c)
  BY <1>3 DEF WhoOK, StartPcs, SendPcs, InterruptPcs, CompactPcs
<1> QED
  BY <1>1, <1>2, <1>3, <1>4, NewCallC

\* The invariant stays when the resume cursor is cleared.
LEMMA ClearCalledC == ASSUME CInv, TypeInv', ClearCalled PROVE CInv'
<1>1. UNCHANGED <<lock, current, session, binding, fence, retained, dispatch, haunted>>
  BY DEF ClearCalled, lifecycle, turnState
<1>2. PICK r \in BOOLEAN :
        call' = [call EXCEPT !["source"] = [NoCall EXCEPT !.kind = "clear", !.pc = "clear.wait", !.replaces = r]]
  <2>1. PICK preserve \in BOOLEAN :
          call' = [call EXCEPT !["source"] = [NoCall EXCEPT !.kind = "clear", !.pc = "clear.wait", !.replaces = ~preserve]]
    BY DEF ClearCalled
  <2> QED
    BY <2>1
<1> DEFINE c == [NoCall EXCEPT !.kind = "clear", !.pc = "clear.wait", !.replaces = r]
<1>3. call' = [call EXCEPT !["source"] = c] /\ "source" \in Fibers /\ call["source"] = NoCall
  BY <1>2 DEF ClearCalled, Calls, Fibers
<1>4. c.kind = "clear" /\ c.pc = "clear.wait"
  BY DEF NoCall
<1> HIDE DEF c
<1>5. WhoOK("source", c)
  BY <1>4 DEF WhoOK, StartPcs, SendPcs, InterruptPcs, CompactPcs
<1> QED
  BY <1>1, <1>3, <1>4, <1>5, NewCallC

\* The fence and the interrupt.
LEMMA NoSuspects ==
    ASSUME Suspects, fence # "failed", call["source"].pc # "interrupt.fail", NEW p \in Providers PROVE ~session[p].suspect
BY DEF Suspects

\* The invariant stays when the source interrupts.
LEMMA InterruptCalledC == ASSUME CInv, TypeInv', InterruptCalled PROVE CInv'
<1>1. UNCHANGED <<lock, current, session, binding, retained, dispatch, haunted>> /\ call["source"] = NoCall
  BY DEF InterruptCalled, Calls, lifecycle, turnState
<1>2. CASE fence = "failed"
  BY <1>1, <1>2, Aside, Still, StillSuspects DEF InterruptCalled
<1>3. CASE fence # "failed"
  <2> DEFINE c == [NoCall EXCEPT !.kind = "interrupt", !.pc = "interrupt.lock"]
  <2>1. call' = [call EXCEPT !["source"] = c] /\ fence' = "open" /\ "source" \in Fibers
    BY <1>3 DEF InterruptCalled, Fibers
  <2>2. c.kind = "interrupt" /\ c.pc = "interrupt.lock" /\ NoCall.pc = "done"
    BY DEF NoCall
  <2> HIDE DEF c
  <2>3. Others("source") /\ call'["source"] = c
    BY <2>1, Parts, SetC
  <2>4. WhoOK("source", c)
    BY <2>2 DEF WhoOK, StartPcs, CompactPcs
  <2>5. ~Holds("source") /\ ~Holds("source")'
    BY <1>1, <2>2, <2>3 DEF Holds, HoldPcs, RunPcs
  <2>6. Fenced'
    BY <2>1, <2>2, <2>3 DEF Fenced, Asked, RecoverPcs
  <2>7. ASSUME Sane PROVE Routes' /\ Retained' /\ Suspects'
    <3>1. \A p \in Providers : ~session[p].suspect
      BY <1>1, <1>3, <2>2, <2>7, NoSuspects DEF Sane
    <3> QED
      BY <1>1, <2>2, <2>3, <2>7, <3>1 DEF Sane, Routes, Routed, Retained, Suspects
  <2> QED
    BY <1>1, <2>1, <2>3, <2>4, <2>5, <2>6, <2>7, Still, FreeStep
<1> QED
  BY <1>2, <1>3

\* The invariant stays when an interrupt ends.
LEMMA InterruptEndsC == ASSUME CInv, TypeInv', NEW f \in Fibers, InterruptEnds(f) PROVE CInv'
<1>1. /\ UNCHANGED <<lock, current, session, binding, retained, dispatch, haunted>> /\ Go(f, "end")
      /\ \/ call[f].pc = "interrupt.done" /\ fence' = "none"
         \/ call[f].pc = "interrupt.fail" /\ fence' = "failed"
  BY DEF InterruptEnds, At, lifecycle, turnState, history
<1>2. Others(f) /\ call'[f] = NoCall /\ f = "source"
  BY <1>1, Parts, GoC DEF InterruptPcs
<1>3. NoCall.pc = "done" /\ NoCall.kind = "none" /\ WhoOK(f, NoCall)
  <2>1. WhoOK(f, NoCall)
    BY WhoNone
  <2>2. NoCall.pc = "done" /\ NoCall.kind = "none"
    BY DEF NoCall
  <2> QED
    BY <2>1, <2>2
<1>4. ~Holds(f) /\ ~Holds(f)'
  BY <1>1, <1>2, <1>3 DEF Holds, HoldPcs, RunPcs
<1>5. Fenced'
  BY <1>2, <1>3 DEF Fenced, Asked, RecoverPcs, InterruptPcs
<1>6. ASSUME Sane PROVE Routes' /\ Retained' /\ Suspects'
  <2>1. fence # "failed"
    BY <1>1, <1>2, Parts DEF Fenced, InterruptPcs
  <2>2. \A p \in Providers : session[p].suspect => Live(p) /\ fence' = "failed"
    BY <1>1, <1>2, <1>6, <2>1 DEF Sane, Suspects
  <2> QED
    BY <1>1, <1>2, <1>3, <1>6, <2>2 DEF Sane, Routes, Routed, Retained, Suspects, Live
<1> QED
  BY <1>1, <1>2, <1>3, <1>4, <1>5, <1>6, Still, FreeStep

\* The turn dispatch.

\* The invariant stays when a turn is handed to the adapter.
LEMMA SendTurnsC == ASSUME CInv, TypeInv', NEW f \in Fibers, SendTurns(f) PROVE CInv'
<1> DEFINE p == call[f].provider
<1>1. UNCHANGED <<lock, current, binding, fence, retained, dispatch, haunted>> /\ call[f].pc = "send.turn"
  BY DEF SendTurns, At, lifecycle, turnState
<1>2. f = "source" /\ p \in Providers /\ TypeInv
  BY <1>1, Parts, CallFields DEF UsesProvider, SendPcs
<1>3. CASE Go(f, "send.fail") /\ UNCHANGED session
  BY <1>1, <1>2, <1>3, MovesOn DEF FreeFrom, FreeTo, Routed, Asked, RecoverPcs, InterruptPcs, At
<1>4. ASSUME NEW t, session' = [session EXCEPT ![p].turn = t],
             \/ call' = [call EXCEPT ![f].turn = t, ![f].pc = "send.returned"]
             \/ Go(f, "send.fail")
      PROVE  CInv'
  <2>1. Others(f) /\ call'[f].pc \in {"send.returned", "send.fail"} /\ call'[f].kind = call[f].kind
        /\ call'[f].provider = call[f].provider
    <3>1. CASE Go(f, "send.fail")
      BY <1>2, <3>1, GoC DEF Same
    <3>2. CASE call' = [call EXCEPT ![f].turn = t, ![f].pc = "send.returned"]
      <4> DEFINE c == [call[f] EXCEPT !.turn = t, !.pc = "send.returned"]
      <4>1. call' = [call EXCEPT ![f] = c]
        BY <3>2
      <4>2. c.pc = "send.returned" /\ c.kind = call[f].kind /\ c.provider = call[f].provider
        BY Parts DEF CallsOfFibers
      <4> HIDE DEF c
      <4> QED
        BY <1>2, <4>1, <4>2, SetC
    <3> QED
      BY <1>4, <3>1, <3>2
  <2>2. WhoOK(f, call'[f])
    BY <1>2, <2>1, Parts DEF WhoOK, CompactPcs
  <2>3. ~Holds(f) /\ ~Holds(f)'
    BY <1>1, <2>1 DEF Holds, HoldPcs, RunPcs
  <2>4. Calm /\ (Sane => NoNewSuspect)
    <3> DEFINE s == [session[p] EXCEPT !.turn = t]
    <3>1. session' = [session EXCEPT ![p] = s]
      BY <1>4
    <3>2. s.state = session[p].state /\ s.gen = session[p].gen /\ s.suspect = session[p].suspect
      BY <1>2, SessionIn DEF Sessions
    <3> HIDE DEF s, p
    <3> QED
      BY <1>1, <1>2, <3>1, <3>2, Touched, TouchedC
  <2>5. Fenced' /\ (Sane => Routes' /\ Retained' /\ Suspects')
    <3>1. \/ call'[f].pc \notin Routed
          \/ call[f].pc \in Routed /\ call'[f].provider = call[f].provider
      BY <1>1, <2>1 DEF Routed
    <3>2. call'[f].pc \notin Asked /\ call'[f].pc \notin InterruptPcs
      BY <2>1 DEF Asked, RecoverPcs, InterruptPcs
    <3> QED
      BY <1>1, <2>1, <2>4, <3>1, <3>2, Sides
  <2> QED
    BY <1>1, <2>1, <2>2, <2>3, <2>4, <2>5, FreeStep
<1>5. \/ Go(f, "send.fail") /\ UNCHANGED session
      \/ \E t : /\ session' = [session EXCEPT ![p].turn = t]
                /\ \/ call' = [call EXCEPT ![f].turn = t, ![f].pc = "send.returned"]
                   \/ Go(f, "send.fail")
  BY DEF SendTurns
<1> QED
  BY <1>3, <1>4, <1>5

\* The invariant stays when the adapter answers a dispatch.
LEMMA SendReturnsC == ASSUME CInv, TypeInv', NEW f \in Fibers, SendReturns(f) PROVE CInv'
<1>1. /\ UNCHANGED <<lock, current, session, binding, fence, dispatch>> /\ call[f].pc = "send.returned"
      /\ Go(f, "send.persist") /\ haunted' = (haunted \/ dispatch = "void")
  BY DEF SendReturns, At, lifecycle
<1>2. f = "source" /\ Others(f) /\ call'[f].pc = "send.persist" /\ Same(f)
  BY <1>1, Parts, GoC DEF SendPcs
<1>3. WhoOK(f, call'[f])
  BY <1>2, Parts DEF WhoOK, Same, CompactPcs
<1>4. ~Holds(f) /\ ~Holds(f)'
  BY <1>1, <1>2 DEF Holds, HoldPcs, RunPcs
<1>5. Fenced'
  BY <1>1, <1>2, Parts DEF Fenced, Same, Asked, RecoverPcs, InterruptPcs
<1>6. ASSUME Sane, ~haunted' PROVE Routes' /\ Retained' /\ Suspects'
  <2>1. dispatch # "void"
    BY <1>1, <1>6
  <2>2. Routes'
    BY <1>1, <1>2, <1>6 DEF Sane, Routes, Routed, Same
  <2>3. Retained'
    BY <1>1, <1>2, <2>1 DEF Retained
  <2>4. Suspects'
    BY <1>1, <1>2, <1>6 DEF Sane, Suspects, Live
  <2> QED
    BY <2>2, <2>3, <2>4
<1>7. haunted => haunted'
  BY <1>1
<1> QED
  BY <1>1, <1>2, <1>3, <1>4, <1>5, <1>6, <1>7, Still, FreeStep

\* What a write to the row of a provider keeps.
LEMMA UpsertedC ==
    ASSUME TypeInv, NEW p \in Providers
    PROVE  /\ Upserted(p) \in Bindings /\ Upserted(p).provider = p
           /\ binding.provider = p => Upserted(p).gen = binding.gen
BY UpsertedTypes DEF GoodBindings, Upserted

\* The status and the turn of a row leave its provider and its generation alone.
LEMMA RowFields ==
    ASSUME NEW b \in Bindings, NEW s, NEW t
    PROVE  /\ [b EXCEPT !.status = s].provider = b.provider /\ [b EXCEPT !.status = s].gen = b.gen
           /\ [b EXCEPT !.status = s, !.turn = t].provider = b.provider
           /\ [b EXCEPT !.status = s, !.turn = t].gen = b.gen
BY DEF Bindings

\* A dispatch writes the row of the runtime that lives.
LEMMA PersistC ==
    ASSUME TypeInv, NEW p \in Providers, NEW t, Persist(p, t) \/ PersistFails(t), binding.provider \in {p, "none"},
           \A q \in Providers : Live(q) => binding.provider = q, UNCHANGED session
    PROVE  Calm /\ retained' = NoResult
<1>1. retained' = NoResult
  BY DEF Persist, PersistFails
<1>2. \/ binding' = binding
      \/ \E s : binding' = [Upserted(p) EXCEPT !.status = s] /\ ~Bound
      \/ binding' = [Upserted(p) EXCEPT !.status = "running", !.turn = t]
  BY DEF Persist, PersistFails
<1>3. binding' = binding \/ (binding'.provider = p /\ binding'.gen = Upserted(p).gen)
  <2>1. Upserted(p) \in Bindings /\ Upserted(p).provider = p
    BY UpsertedC
  <2> DEFINE row == Upserted(p)
  <2> HIDE DEF row
  <2>2. ASSUME NEW s, binding' = [row EXCEPT !.status = s]
        PROVE  binding'.provider = p /\ binding'.gen = row.gen
    BY <2>1, <2>2, RowFields DEF row
  <2>3. ASSUME binding' = [row EXCEPT !.status = "running", !.turn = t]
        PROVE  binding'.provider = p /\ binding'.gen = row.gen
    BY <2>1, <2>3, RowFields DEF row
  <2> QED
    BY <1>2, <2>2, <2>3 DEF row
<1>4. binding.provider = "none" => NoneLive
  BY ProvidersAssumption DEF NoneLive
<1> QED
  BY <1>1, <1>3, <1>4, UpsertedC DEF Calm, Live

\* The invariant stays when a dispatch writes its turn to the row.
LEMMA SendPersistsC == ASSUME CInv, TypeInv', NEW f \in Fibers, SendPersists(f) PROVE CInv'
<1> DEFINE p == call[f].provider
<1> DEFINE t == call[f].turn
<1>1. UNCHANGED <<lock, current, session, fence, dispatch, haunted>> /\ call[f].pc = "send.persist"
  BY DEF SendPersists, At, lifecycle
<1>2. f = "source" /\ p \in Providers /\ TypeInv
  BY <1>1, Parts, CallFields DEF UsesProvider, SendPcs
<1>3. PICK pc \in {"send.finish", "send.fail"} : Go(f, pc)
  BY DEF SendPersists
<1>4. Others(f) /\ call'[f].pc = pc /\ Same(f)
  BY <1>2, <1>3, GoC
<1>5. WhoOK(f, call'[f])
  BY <1>2, <1>4, Parts DEF WhoOK, Same, CompactPcs
<1>6. ~Holds(f) /\ ~Holds(f)'
  BY <1>1, <1>4 DEF Holds, HoldPcs, RunPcs
<1>7. Fenced'
  BY <1>1, <1>2, <1>4, Parts DEF Fenced, Same, Asked, RecoverPcs, InterruptPcs
<1>8. ASSUME Sane PROVE Calm /\ Routes' /\ Retained' /\ Suspects'
  <2>1. binding.provider \in {p, "none"}
    BY <1>1, <1>2, <1>8 DEF Sane, Routes, Routed
  <2>2. \A q \in Providers : Live(q) => binding.provider = q
    BY <1>1, <1>2, <1>8, Parts, WhatLivesIsBound DEF Sane
  <2>3. Calm /\ retained' = NoResult
    <3>1. CASE Persist(p, t) \/ PersistFails(t)
      <4> HIDE DEF p, t
      <4> QED
        BY <1>1, <1>2, <2>1, <2>2, <3>1, PersistC
    <3>2. CASE dispatch = "void" /\ UNCHANGED <<binding, retained>>
      BY <1>1, <1>8, <3>2, Still DEF Sane, Retained
    <3> QED
      BY <3>1, <3>2 DEF SendPersists
  <2>4. Routes' /\ Retained'
    BY <1>2, <1>4, <2>3 DEF Routes, Routed, Retained
  <2>5. Suspects'
    BY <1>1, <1>2, <1>4, <1>8 DEF Sane, Suspects, Live
  <2> QED
    BY <2>3, <2>4, <2>5
<1> QED
  BY <1>1, <1>4, <1>5, <1>6, <1>7, <1>8, FreeStep

\* The invariant stays when a dispatch fails.
LEMMA SendFailsC == ASSUME CInv, TypeInv', NEW f \in Fibers, SendFails(f) PROVE CInv'
<1>1. UNCHANGED <<lock, current, session, fence, dispatch, haunted>> /\ call[f].pc = "send.fail" /\ Go(f, "send.failed")
  BY DEF SendFails, At, lifecycle
<1>2. f = "source" /\ Others(f) /\ call'[f].pc = "send.failed" /\ Same(f)
  BY <1>1, Parts, GoC DEF SendPcs
<1>3. WhoOK(f, call'[f])
  BY <1>2, Parts DEF WhoOK, Same, CompactPcs
<1>4. ~Holds(f) /\ ~Holds(f)'
  BY <1>1, <1>2 DEF Holds, HoldPcs, RunPcs
<1>5. Fenced'
  BY <1>1, <1>2, Parts DEF Fenced, Same, Asked, RecoverPcs, InterruptPcs
<1>6. ASSUME Sane PROVE Calm /\ Routes' /\ Retained' /\ Suspects'
  <2>1. retained = NoResult
    BY <1>1, <1>2, <1>6 DEF Sane, Retained
  <2>2. UNCHANGED <<binding, retained>>
    BY <2>1 DEF SendFails
  <2> QED
    BY <1>1, <1>2, <1>6, <2>1, <2>2, Still DEF Sane, Routes, Routed, Retained, Suspects, Live
<1> QED
  BY <1>1, <1>2, <1>3, <1>4, <1>5, <1>6, FreeStep

\* The invariant stays when a dispatch ends.
LEMMA SendFinishesC == ASSUME CInv, TypeInv', NEW f \in Fibers, SendFinishes(f) PROVE CInv'
<1>1. /\ UNCHANGED <<lock, current, session, binding, retained, fence, haunted>>
      /\ call[f].pc \in {"send.finish", "send.failed"} /\ Go(f, "end")
  BY DEF SendFinishes, At, lifecycle, history
<1>2. f = "source" /\ Others(f) /\ call'[f] = NoCall
  BY <1>1, Parts, GoC DEF SendPcs
<1>3. WhoOK(f, NoCall)
  BY WhoNone
<1>4. NoCall.pc = "done" /\ NoCall.kind = "none"
  BY DEF NoCall
<1>5. ~Holds(f) /\ ~Holds(f)'
  BY <1>1, <1>2, <1>4 DEF Holds, HoldPcs, RunPcs
<1>6. Fenced'
  BY <1>2, <1>4 DEF Fenced, Asked, RecoverPcs, InterruptPcs
<1>7. ASSUME Sane PROVE Routes' /\ Retained' /\ Suspects'
  <2>1. retained = NoResult
    BY <1>1, <1>2, <1>7 DEF Sane, Retained
  <2> QED
    BY <1>1, <1>2, <1>4, <1>7, <2>1 DEF Sane, Routes, Routed, Retained, Suspects, Live
<1> QED
  BY <1>1, <1>2, <1>3, <1>5, <1>6, <1>7, Still, FreeStep

-----------------------------------------------------------------------------
(* Runs under the lock *)

\* The steps of the fiber that holds the lifecycle lock.
LEMMA InRun ==
    ASSUME CInv, Sane, NEW f \in Fibers, Holds(f)
    PROVE  lock = f /\ RunOK(f)
BY DEF CInv, Always, Locks, Sane, Runs

\* A run that ends publishes the generation it chose.
LEMMA LeavesRun ==
    ASSUME CInv, Sane, NEW f \in Fibers, call[f].pc \in RunPcs, NEW g, LeaveRun(f, g)
    PROVE  current' = g
BY InRun DEF LeaveRun, RunOK, Holds, HoldPcs

\* The holder of the lock goes on within its run.
LEMMA KeepStep ==
    ASSUME CInv, TypeInv', NEW f \in Fibers, Others(f), Holds(f), Holds(f)', lock' = lock, WhoOK(f, call'[f]),
           UNCHANGED haunted, Fenced', Sane => RunOK(f)' /\ Routes' /\ Retained' /\ Suspects'
    PROVE  CInv'
<1>1. Who' /\ Locks' /\ lock' = f
  BY WhoStep, LocksKeep DEF CInv, Always, Locks
<1> QED
  BY <1>1, RunsHold DEF CInv, Always, Sane

\* The holder leaves its run, and the lock, in a coherent state.
LEMMA LeaveStep ==
    ASSUME CInv, TypeInv', NEW f \in Fibers, Others(f), Holds(f), ~Holds(f)', lock' = "free", WhoOK(f, call'[f]),
           UNCHANGED haunted, Fenced', Sane => Coh(current)' /\ Routes' /\ Retained' /\ Suspects'
    PROVE  CInv'
<1>1. Who' /\ Locks'
  BY WhoStep, LocksFree DEF CInv, Always
<1> QED
  BY <1>1, RunsFree DEF CInv, Always, Sane

\* A fiber takes the lock and enters its run.
LEMMA TakeStep ==
    ASSUME CInv, TypeInv', NEW f \in Fibers, Others(f), lock = "free", lock' = f, Holds(f)', WhoOK(f, call'[f]),
           UNCHANGED haunted, Fenced', Sane => RunOK(f)' /\ Routes' /\ Retained' /\ Suspects'
    PROVE  CInv'
<1>1. Who' /\ Locks'
  BY WhoStep, LocksTake DEF CInv, Always
<1> QED
  BY <1>1, RunsHold DEF CInv, Always, Sane

\* The holder goes on.
LEMMA KeepsC ==
    ASSUME CInv, TypeInv', NEW f \in Fibers, Others(f), call[f].pc \in HoldPcs, call'[f].pc \in HoldPcs,
           UNCHANGED <<lock, fence, retained, dispatch, haunted>>, call'[f].kind = call[f].kind,
           call'[f].pc \in StartPcs => f = "source", call'[f].pc \in RecoverPcs => call[f].pc \in RecoverPcs,
           call'[f].pc # "start.persist",
           Sane => binding'.provider = binding.provider /\ NoNewSuspect /\ RunOK(f)'
    PROVE  CInv'
<1>1. /\ Holds(f) /\ Holds(f)'
      /\ call'[f].pc \notin Routed /\ call'[f].pc \notin InterruptPcs /\ call'[f].pc \notin SendPcs
      /\ call'[f].pc \notin CompactPcs \cup {"start.undo"}
      /\ call[f].pc # "send.persist" /\ call[f].pc # "interrupt.fail"
  BY DEF Holds, HoldPcs, RunPcs, Routed, InterruptPcs, SendPcs, CompactPcs
<1>2. WhoOK(f, call'[f])
  BY <1>1, Parts DEF WhoOK
<1>3. call'[f].pc \in Asked => call[f].pc \in Asked
  BY <1>1 DEF Asked, HoldPcs, RunPcs, RecoverPcs
<1>4. Fenced' /\ (Sane => Routes' /\ Retained' /\ Suspects')
  BY <1>1, <1>3, Sides
<1> QED
  BY <1>1, <1>2, <1>4, KeepStep

\* The holder leaves.
LeaveTo == {"end", "send.fail", "send.turn", "interrupt.fail", "interrupt.done", "idle.fail", "clear.end", "recover.lock"}

\* The holder goes on without the lock.
LEMMA LeavesC ==
    ASSUME CInv, TypeInv', NEW f \in Fibers, NEW pc \in LeaveTo, call[f].pc \in HoldPcs, Go(f, pc), lock' = "free",
           UNCHANGED <<fence, retained, dispatch, haunted>>,
           pc \in SendPcs \cup InterruptPcs => f = "source", pc \in InterruptPcs => call[f].kind = "interrupt",
           pc \in Asked => call[f].pc \in RecoverPcs,
           Sane => /\ binding'.provider \in {binding.provider, "none"} /\ NoNewSuspect /\ Coh(current)'
                   /\ pc = "send.turn" => binding'.provider = call[f].provider
    PROVE  CInv'
<1>1. /\ Others(f) /\ TypeInv
      /\ pc = "end" => call'[f] = NoCall
      /\ pc # "end" => call'[f].pc = pc /\ Same(f)
  BY Parts, GoC
<1>2. NoCall.pc = "done" /\ NoCall.kind = "none"
  BY DEF NoCall
<1>3. WhoOK(f, call'[f])
  <2>1. Who'
    BY Parts, WhoGo DEF LeaveTo, StartPcs, CompactPcs
  <2> QED
    BY <2>1 DEF Who
<1>4. Holds(f) /\ ~Holds(f)'
  BY <1>1, <1>2 DEF Holds, HoldPcs, RunPcs, LeaveTo
<1>5. Fenced' /\ (Sane => Routes' /\ Retained' /\ Suspects')
  <2>1. call[f].pc # "send.persist" /\ call[f].pc # "interrupt.fail" /\ call'[f].pc # "start.persist"
    BY <1>1, <1>2 DEF HoldPcs, RunPcs, LeaveTo
  <2>2. call'[f].kind = "interrupt" => call[f].kind = "interrupt"
    BY <1>1, <1>2 DEF Same
  <2>3. call'[f].pc \in Asked => call[f].pc \in Asked
    BY <1>1, <1>2 DEF Asked, RecoverPcs
  <2>4. call'[f].pc \in InterruptPcs => call'[f].kind = "interrupt"
    BY <1>1, <1>2 DEF Same, InterruptPcs
  <2>5. Sane => \/ call'[f].pc \notin Routed
                \/ binding'.provider \in {call'[f].provider, "none"}
    BY <1>1, <1>2 DEF Same, Routed, LeaveTo
  <2> QED
    BY <1>1, <2>1, <2>2, <2>3, <2>4, <2>5, Sides
<1> QED
  BY <1>1, <1>3, <1>4, <1>5, LeaveStep

\* A failing run leaves to where its caller handles the failure.
LEMMA RaiseLeaves ==
    ASSUME CInv, NEW f \in Fibers
    PROVE  /\ Raise(f) \in LeaveTo /\ Raise(f) \notin Asked /\ Raise(f) # "send.turn"
           /\ Raise(f) \in SendPcs \cup InterruptPcs => f = "source"
           /\ Raise(f) \in InterruptPcs => call[f].kind = "interrupt"
<1>1. /\ Raise(f) \in {"send.fail", "interrupt.fail", "idle.fail", "end"}
      /\ Raise(f) \in {"send.fail", "interrupt.fail"} => f = "source"
      /\ Raise(f) = "interrupt.fail" => call[f].kind = "interrupt"
  BY Parts, RaiseC, RaiseKind
<1> QED
  BY <1>1 DEF LeaveTo, Asked, RecoverPcs, SendPcs, InterruptPcs

\* A stop leaves to where its caller waits.
LEMMA StoppedLeaves ==
    ASSUME CInv, NEW f \in Fibers
    PROVE  /\ Stopped(f) \in LeaveTo /\ Stopped(f) \notin Asked /\ Stopped(f) # "send.turn"
           /\ Stopped(f) \in SendPcs \cup InterruptPcs => f = "source"
           /\ Stopped(f) \in InterruptPcs => call[f].kind = "interrupt"
<1>1. /\ Stopped(f) \in {"interrupt.done", "end"}
      /\ Stopped(f) = "interrupt.done" => f = "source" /\ call[f].kind = "interrupt"
  BY Parts, StoppedC, StoppedKind
<1> QED
  BY <1>1 DEF LeaveTo, Asked, RecoverPcs, SendPcs, InterruptPcs

\* A run that ends leaves nothing behind.
LEMMA EndLeaves ==
    "end" \in LeaveTo /\ "end" \notin Asked /\ "end" \notin SendPcs \cup InterruptPcs
BY DEF LeaveTo, Asked, RecoverPcs, SendPcs, InterruptPcs

\* A run is entered.
LEMMA EntersC ==
    ASSUME CInv, TypeInv', NEW f \in Fibers, NEW from, NEW to, EnterRun(f, from, to),
           to \in {"start.route", "recover.route", "stop.route", "delete.route", "clear.clear"},
           to = "start.route" => from \in StartPcs, to = "recover.route" => from \in RecoverPcs,
           from \notin {"send.persist", "interrupt.fail"},
           UNCHANGED <<session, binding, fence, retained, dispatch, haunted>>
    PROVE  CInv'
<1> DEFINE c == [call[f] EXCEPT !.pc = to, !.gen = gens', !.prev = current]
<1>1. lock = "free" /\ lock' = f /\ current' = gens' /\ call[f].pc = from /\ call' = [call EXCEPT ![f] = c]
  BY DEF EnterRun, Acquire, At
<1>2. c.pc = to /\ c.gen = gens' /\ c.prev = current /\ c.kind = call[f].kind
  BY Parts DEF CallsOfFibers
<1> HIDE DEF c
<1>3. Others(f) /\ call'[f] = c
  BY <1>1, Parts, SetC
<1>4. Holds(f)'
  BY <1>2, <1>3 DEF Holds, HoldPcs, RunPcs
<1>5. WhoOK(f, call'[f])
  BY <1>1, <1>2, <1>3, Parts DEF WhoOK, StartPcs, SendPcs, InterruptPcs, CompactPcs
<1>6. Fenced' /\ (Sane => Routes' /\ Retained' /\ Suspects')
  <2>1. c.pc \notin Routed /\ c.pc \notin InterruptPcs /\ c.pc # "start.persist" /\ (c.pc \in Asked => from \in RecoverPcs)
    BY <1>2 DEF Routed, InterruptPcs, Asked, RecoverPcs
  <2> QED
    BY <1>1, <1>2, <1>3, <2>1, StillSuspects, Sides DEF Asked
<1>7. Sane => RunOK(f)'
  <2>1. Sane => Coh(current)
    BY <1>1 DEF Sane, Runs
  <2> QED
    BY <1>1, <1>2, <1>3, <2>1 DEF RunOK, RunPcs, Coh, Live
<1> QED
  BY <1>1, <1>3, <1>4, <1>5, <1>6, <1>7, TakeStep

\* The invariant stays when a start enters its run under the lifecycle lock.
LEMMA StartEntersC == ASSUME CInv, TypeInv', NEW f \in Fibers, StartEnters(f) PROVE CInv'
<1>1. EnterRun(f, "start.wait", "start.route") /\ UNCHANGED <<session, binding, fence, retained, dispatch, haunted>>
  BY DEF StartEnters, turnState, history
<1> QED
  BY <1>1, EntersC DEF StartPcs, RecoverPcs

\* The invariant stays when a recovery enters its run.
LEMMA RecoverEntersC == ASSUME CInv, TypeInv', NEW f \in Fibers, RecoverEnters(f) PROVE CInv'
<1>1. EnterRun(f, "recover.lock", "recover.route") /\ UNCHANGED <<session, binding, fence, retained, dispatch, haunted>>
  BY DEF RecoverEnters, turnState, history
<1> QED
  BY <1>1, EntersC DEF StartPcs, RecoverPcs

\* The invariant stays when a stop enters its run.
LEMMA StopEntersC == ASSUME CInv, TypeInv', NEW f \in Fibers, StopEnters(f) PROVE CInv'
<1>1. EnterRun(f, "stop.lock", "stop.route") /\ UNCHANGED <<session, binding, fence, retained, dispatch, haunted>>
  BY DEF StopEnters, turnState, history
<1> QED
  BY <1>1, EntersC DEF StartPcs, RecoverPcs

\* The invariant stays when a deletion enters its run.
LEMMA DeleteEntersC == ASSUME CInv, TypeInv', NEW f \in Fibers, DeleteEnters(f) PROVE CInv'
<1>1. EnterRun(f, "delete.lock", "delete.route") /\ UNCHANGED <<session, binding, fence, retained, dispatch, haunted>>
  BY DEF DeleteEnters, turnState, history
<1> QED
  BY <1>1, EntersC DEF StartPcs, RecoverPcs

\* The invariant stays when a clearing of the cursor enters its run.
LEMMA ClearEntersC == ASSUME CInv, TypeInv', NEW f \in Fibers, ClearEnters(f) PROVE CInv'
<1>1. EnterRun(f, "clear.lock", "clear.clear") /\ UNCHANGED <<session, binding, fence, retained, dispatch, haunted>>
  BY DEF ClearEnters, turnState, history
<1> QED
  BY <1>1, EntersC DEF StartPcs, RecoverPcs

-----------------------------------------------------------------------------
(* startSession *)

\* A start of the adapter makes a runtime of its generation, which is no suspect.
LEMMA StartTouches ==
    ASSUME TypeInv, NEW p \in Providers, NEW g, AdapterStart(p, g)
    PROVE  /\ session'[p].gen = g /\ ~session'[p].suspect
           /\ \A q \in Providers : q # p => session'[q] = session[q]
<1>1. PICK s : session' = [session EXCEPT ![p] = s] /\ s.gen = g /\ ~s.suspect
  <2>1. [NoSession EXCEPT !.state = "live", !.gen = g].gen = g /\ ~[NoSession EXCEPT !.state = "live", !.gen = g].suspect
    BY DEF NoSession
  <2> QED
    BY <2>1 DEF AdapterStart
<1> QED
  BY <1>1 DEF TypeInv, RuntimesOK

\* Stopping the only runtime leaves none.
LEMMA StopsAll ==
    ASSUME TypeInv, NEW p, AdapterStop(p) \/ AdapterStopFails(p), \A q \in Providers : Live(q) => q = p
    PROVE  NoneLive'
BY StopTouches DEF NoneLive

\* Starting where no other lives leaves one.
LEMMA StartsOnly ==
    ASSUME TypeInv, NEW p \in Providers, NEW g, AdapterStart(p, g), \A q \in Providers : Live(q) => q = p
    PROVE  \A q \in Providers : Live(q)' => q = p /\ session'[q].gen = g
BY StartTouches DEF Live

\* A start makes no suspect.
LEMMA StartSuspects ==
    ASSUME TypeInv, Sane, NEW p \in Providers, NEW g, AdapterStart(p, g)
    PROVE  NoNewSuspect
BY StartTouches DEF NoNewSuspect, Sane, Suspects, Live

\* Where nothing lives the state is coherent.
LEMMA NoneIsCoherent == NoneLive' => Coh(current)'
BY DEF NoneLive, Coh

\* A start that fails stops what it replaced.
LEMMA StartFailsStops == ASSUME NEW p, AdapterStartFails(p) PROVE AdapterStop(p)
BY DEF AdapterStartFails

\* startSession.

\* The invariant stays when a start looks the thread up, or takes its runtime over.
LEMMA StartRoutesC == ASSUME CInv, TypeInv', NEW f \in Fibers, StartRoutes(f) PROVE CInv'
<1>1. UNCHANGED <<lock, current, session, binding, fence, retained, dispatch, haunted>> /\ call[f].pc = "start.route"
  BY DEF StartRoutes, At, lifecycle, turnState, history
<1>2. PICK pc \in {"start.stop", "start.adapter"} :
        /\ call' = [call EXCEPT ![f].snap = binding, ![f].pc = pc]
        /\ pc = "start.adapter" => ~(BoundLive /\ binding.provider # call[f].provider)
  BY DEF StartRoutes
<1> DEFINE c == [call[f] EXCEPT !.snap = binding, !.pc = pc]
<1>3. call' = [call EXCEPT ![f] = c]
  BY <1>2
<1>4. c.pc = pc /\ c.snap = binding /\ c.kind = call[f].kind /\ c.gen = call[f].gen /\ c.prev = call[f].prev
      /\ c.provider = call[f].provider
  BY Parts DEF CallsOfFibers
<1> HIDE DEF c
<1>5. Others(f) /\ call'[f] = c /\ f = "source"
  BY <1>1, <1>3, Parts, SetC DEF StartPcs
<1>6. Holds(f)
  BY <1>1 DEF Holds, HoldPcs, RunPcs
<1>7. ASSUME Sane PROVE RunOK(f)'
  <2>1. current = call[f].gen /\ Coh(call[f].prev)
    BY <1>1, <1>6, <1>7, InRun DEF RunOK, RunPcs
  <2>2. CASE pc = "start.stop"
    BY <1>1, <1>4, <1>5, <2>1, <2>2 DEF RunOK, RunPcs, Coh, Live
  <2>3. CASE pc = "start.adapter"
    <3>1. ASSUME NEW q \in Providers, Live(q) PROVE q = call[f].provider /\ binding.provider = q
      <4>1. binding.provider = q
        BY <2>1, <3>1 DEF Coh
      <4>2. Bound
        BY <4>1, ProvidersAssumption DEF Bound, NoBinding
      <4> QED
        BY <1>2, <2>3, <3>1, <4>1, <4>2 DEF BoundLive
    <3> QED
      BY <1>1, <1>4, <1>5, <2>1, <2>3, <3>1 DEF RunOK, RunPcs, Live
  <2> QED
    BY <2>2, <2>3
<1> QED
  BY <1>1, <1>2, <1>4, <1>5, <1>7, StillSuspects, KeepsC DEF HoldPcs, RunPcs, RecoverPcs

\* The invariant stays when a start that switches the provider stops the runtime before it.
LEMMA StartStopsOldC == ASSUME CInv, TypeInv', NEW f \in Fibers, StartStopsOld(f) PROVE CInv'
<1> DEFINE p == call[f].snap.provider
<1>1. UNCHANGED <<binding, fence, retained, dispatch, haunted>> /\ call[f].pc = "start.stop"
      /\ (AdapterStop(p) \/ AdapterStopFails(p))
  BY DEF StartStopsOld, At, turnState
<1>2. f = "source" /\ Holds(f) /\ TypeInv /\ call[f].pc \in RunPcs
  BY <1>1, Parts DEF StartPcs, Holds, HoldPcs, RunPcs
<1>3. Sane => NoneLive' /\ NoNewSuspect
  <2>1. Sane => \A q \in Providers : Live(q) => q = p
    BY <1>1, <1>2, InRun DEF RunOK, Coh
  <2> HIDE DEF p
  <2> QED
    BY <1>1, <1>2, <2>1, StopsAll, StopCalms
<1>4. CASE call' = [call EXCEPT ![f].pc = "start.adapter", ![f].switches = TRUE] /\ UNCHANGED lifecycle
  <2> DEFINE c == [call[f] EXCEPT !.pc = "start.adapter", !.switches = TRUE]
  <2>1. call' = [call EXCEPT ![f] = c]
    BY <1>4
  <2>2. c.pc = "start.adapter" /\ c.kind = call[f].kind /\ c.gen = call[f].gen
    BY Parts DEF CallsOfFibers
  <2> HIDE DEF c
  <2>3. Others(f) /\ call'[f] = c
    BY <1>2, <2>1, SetC
  <2>4. lock' = lock /\ current' = current
    BY <1>4 DEF lifecycle
  <2>5. Sane => RunOK(f)'
    BY <1>1, <1>2, <1>3, <2>2, <2>3, <2>4, InRun DEF RunOK, RunPcs, NoneLive
  <2> QED
    BY <1>1, <1>2, <1>3, <2>2, <2>3, <2>4, <2>5, KeepsC DEF HoldPcs, RunPcs, RecoverPcs
<1>5. CASE Go(f, "end") /\ Rewind(f)
  <2>1. lock' = "free"
    BY <1>5 DEF Rewind, LeaveRun, Release
  <2> QED
    BY <1>1, <1>2, <1>3, <1>5, <2>1, NoneIsCoherent, LeavesC, EndLeaves DEF HoldPcs
<1> QED
  BY <1>4, <1>5 DEF StartStopsOld

\* The invariant stays when a start has the adapter start a runtime.
LEMMA StartStartsC == ASSUME CInv, TypeInv', NEW f \in Fibers, StartStarts(f) PROVE CInv'
<1> DEFINE p == call[f].provider
<1>1. UNCHANGED <<binding, fence, retained, dispatch, haunted>> /\ call[f].pc = "start.adapter"
  BY DEF StartStarts, At, turnState
<1>2. f = "source" /\ Holds(f) /\ TypeInv /\ call[f].pc \in RunPcs /\ p \in Providers
  BY <1>1, Parts, CallFields DEF StartPcs, Holds, HoldPcs, RunPcs, UsesProvider
<1>3. Sane => current = call[f].gen /\ \A q \in Providers : Live(q) => q = p
  BY <1>1, <1>2, InRun DEF RunOK
<1>4. CASE AdapterStart(p, call[f].gen) /\ Go(f, "start.persist") /\ UNCHANGED lifecycle
  <2>1. Others(f) /\ call'[f].pc = "start.persist" /\ Same(f) /\ lock' = lock /\ current' = current
    BY <1>2, <1>4, GoC DEF lifecycle
  <2>2. Holds(f)'
    BY <2>1 DEF Holds, HoldPcs, RunPcs
  <2>3. WhoOK(f, call'[f])
    BY <1>2, <2>1, Parts DEF WhoOK, Same, CompactPcs
  <2>4. Fenced'
    BY <1>1, <1>2, <2>1, Parts DEF Fenced, Same, Asked, RecoverPcs, InterruptPcs
  <2>5. ASSUME Sane PROVE RunOK(f)' /\ Routes' /\ Retained' /\ Suspects'
    <3>1. \A q \in Providers : Live(q)' => q = p /\ session'[q].gen = call[f].gen
      <4> HIDE DEF p
      <4> QED
        BY <1>2, <1>3, <1>4, <2>5, StartsOnly
    <3>2. RunOK(f)'
      BY <1>3, <2>1, <2>5, <3>1 DEF RunOK, RunPcs, OnlyLive, Same
    <3>3. Routes' /\ Retained'
      BY <1>1, <1>2, <2>1, <2>5 DEF Sane, Routes, Routed, Retained
    <3>4. \A q \in Providers : ~session'[q].suspect
      <4>1. \A q \in Providers : q # p => ~session[q].suspect
        BY <1>3, <2>5 DEF Sane, Suspects
      <4> HIDE DEF p
      <4> QED
        BY <1>2, <1>4, <4>1, StartTouches
    <3> QED
      BY <3>2, <3>3, <3>4 DEF Suspects
  <2> QED
    BY <1>1, <1>2, <2>1, <2>2, <2>3, <2>4, <2>5, KeepStep
<1>5. CASE AdapterStartFails(p)
  <2>1. Sane => NoneLive' /\ NoNewSuspect
    <3> HIDE DEF p
    <3> QED
      BY <1>1, <1>2, <1>3, <1>5, StartFailsStops, StopsAll, StopCalms
  <2>2. CASE Go(f, "start.restore") /\ UNCHANGED lifecycle
    <3>1. Others(f) /\ call'[f].pc = "start.restore" /\ Same(f) /\ lock' = lock /\ current' = current
      BY <1>2, <2>2, GoC DEF lifecycle
    <3>2. Sane => RunOK(f)'
      BY <1>3, <2>1, <3>1 DEF RunOK, RunPcs, Same
    <3> QED
      BY <1>1, <1>2, <2>1, <3>1, <3>2, KeepsC DEF HoldPcs, RunPcs, RecoverPcs, Same
  <2>3. CASE Go(f, "end") /\ Rewind(f)
    <3>1. lock' = "free"
      BY <2>3 DEF Rewind, LeaveRun, Release
    <3> QED
      BY <1>1, <1>2, <2>1, <2>3, <3>1, NoneIsCoherent, LeavesC, EndLeaves DEF HoldPcs
  <2> QED
    BY <1>4, <2>2, <2>3 DEF StartStarts
<1> QED
  BY <1>4, <1>5 DEF StartStarts

\* Without write faults.
NoWriteFault == "write" \notin Faults

\* Without write faults no write fails.
LEMMA NoWrite == ASSUME NoWriteFault PROVE ~Fault("write")
BY DEF NoWriteFault, Fault

\* The row of a started runtime names its provider and its generation.
LEMMA StartedC ==
    ASSUME TypeInv, NEW p \in Providers, NEW g
    PROVE  Started(p, g).provider = p /\ Started(p, g).gen = g /\ DOMAIN Started(p, g) = DOMAIN NoBinding
           /\ \A r : LET b == [Started(p, g) EXCEPT !.rotation = r] IN b.provider = p /\ b.gen = g
<1>1. Upserted(p) \in Bindings /\ Upserted(p).provider = p
  BY UpsertedC
<1> QED
  BY <1>1 DEF Started, Bindings, NoBinding

\* The invariant stays when a start writes its row.
LEMMA StartPersistsC == ASSUME CInv, TypeInv', NoWriteFault, NEW f \in Fibers, StartPersists(f) PROVE CInv'
<1> DEFINE p == call[f].provider
<1>1. /\ UNCHANGED <<session, retained, dispatch, haunted>> /\ call[f].pc = "start.persist"
      /\ binding' = [Started(p, call[f].gen) EXCEPT !.rotation = FALSE]
      /\ fence' = fence \/ fence' = "none"
      /\ Go(f, "end") /\ LeaveRun(f, call[f].gen)
  BY NoWrite DEF StartPersists, At, turnState
<1>2. f = "source" /\ Holds(f) /\ TypeInv /\ call[f].pc \in RunPcs /\ p \in Providers
  BY <1>1, Parts, CallFields DEF StartPcs, Holds, HoldPcs, RunPcs, UsesProvider
<1>3. binding'.provider = p /\ binding'.gen = call[f].gen
  <2> HIDE DEF p
  <2> QED
    BY <1>1, <1>2, StartedC
<1>4. Others(f) /\ call'[f] = NoCall /\ lock' = "free"
  BY <1>1, <1>2, GoC DEF LeaveRun, Release
<1>5. WhoOK(f, NoCall)
  BY WhoNone
<1>6. NoCall.pc = "done" /\ NoCall.kind = "none"
  BY DEF NoCall
<1>7. ~Holds(f)'
  BY <1>4, <1>6 DEF Holds, HoldPcs, RunPcs
<1>8. Fenced'
  BY <1>2, <1>4, <1>6 DEF Fenced, Asked, RecoverPcs, InterruptPcs
<1>9. ASSUME Sane PROVE Coh(current)' /\ Routes' /\ Retained' /\ Suspects'
  <2>1. current' = call[f].gen /\ OnlyLive(p, call[f].gen)
    BY <1>1, <1>2, <1>9, InRun, LeavesRun DEF RunOK
  <2>2. Coh(current)'
    BY <1>1, <1>3, <2>1 DEF Coh, OnlyLive, Live
  <2>3. Routes' /\ Retained'
    BY <1>1, <1>2, <1>4, <1>6, <1>9 DEF Sane, Routes, Routed, Retained
  <2>4. Suspects'
    BY <1>1, <1>2, <1>4, <1>6, <1>9 DEF Sane, Suspects
  <2> QED
    BY <2>2, <2>3, <2>4
<1> QED
  BY <1>1, <1>2, <1>4, <1>5, <1>7, <1>8, <1>9, LeaveStep

\* The invariant stays when a start whose new provider failed starts the one before it.
LEMMA StartRestoresC == ASSUME CInv, TypeInv', NEW f \in Fibers, StartRestores(f) PROVE CInv'
<1> DEFINE p == call[f].snap.provider
<1> DEFINE g == call[f].snap.gen
<1>1. UNCHANGED <<binding, fence, retained, dispatch, haunted>> /\ call[f].pc = "start.restore"
  BY DEF StartRestores, At, turnState
<1>2. f = "source" /\ Holds(f) /\ TypeInv /\ call[f].pc \in RunPcs /\ p \in Providers
  BY <1>1, Parts, CallFields DEF StartPcs, Holds, HoldPcs, RunPcs, UsesRow
<1>3. Sane => current = call[f].gen /\ NoneLive
  BY <1>1, <1>2, InRun DEF RunOK
<1>4. CASE AdapterStart(p, g) /\ Go(f, "start.restored") /\ UNCHANGED lifecycle
  <2>1. Others(f) /\ call'[f].pc = "start.restored" /\ Same(f) /\ lock' = lock /\ current' = current
    BY <1>2, <1>4, GoC DEF lifecycle
  <2>2. Sane => NoNewSuspect /\ \A q \in Providers : Live(q)' => q = p /\ session'[q].gen = g
    <3>1. NoneLive => \A q \in Providers : Live(q) => q = p
      BY DEF NoneLive
    <3> HIDE DEF p, g
    <3> QED
      BY <1>2, <1>3, <1>4, <3>1, StartsOnly, StartSuspects
  <2>3. Sane => RunOK(f)'
    BY <1>3, <2>1, <2>2 DEF RunOK, RunPcs, OnlyLive, Same
  <2> QED
    BY <1>1, <1>2, <2>1, <2>2, <2>3, KeepsC DEF HoldPcs, RunPcs, RecoverPcs, Same
<1>5. CASE AdapterStartFails(p) /\ Go(f, "end") /\ Rewind(f)
  <2>1. Sane => NoneLive' /\ NoNewSuspect
    <3>1. NoneLive => \A q \in Providers : Live(q) => q = p
      BY DEF NoneLive
    <3> HIDE DEF p
    <3> QED
      BY <1>1, <1>2, <1>3, <1>5, <3>1, StartFailsStops, StopsAll, StopCalms
  <2>2. lock' = "free"
    BY <1>5 DEF Rewind, LeaveRun, Release
  <2> QED
    BY <1>1, <1>2, <1>5, <2>1, <2>2, NoneIsCoherent, LeavesC, EndLeaves DEF HoldPcs
<1> QED
  BY <1>4, <1>5 DEF StartRestores

\* The invariant stays when the provider before the switch is bound again.
LEMMA StartRestoredC == ASSUME CInv, TypeInv', NoWriteFault, NEW f \in Fibers, StartRestored(f) PROVE CInv'
<1> DEFINE p == call[f].snap.provider
<1> DEFINE g == call[f].snap.gen
<1>1. /\ UNCHANGED <<session, fence, retained, dispatch, haunted>> /\ call[f].pc = "start.restored"
      /\ binding' = Started(p, g) /\ Go(f, "end") /\ LeaveRun(f, g)
  BY NoWrite DEF StartRestored, At, turnState
<1>2. f = "source" /\ Holds(f) /\ TypeInv /\ call[f].pc \in RunPcs /\ p \in Providers
  BY <1>1, Parts, CallFields DEF StartPcs, Holds, HoldPcs, RunPcs, UsesRow
<1>3. binding'.provider = p /\ binding'.gen = g
  <2> HIDE DEF p, g
  <2> QED
    BY <1>1, <1>2, StartedC
<1>4. Others(f) /\ call'[f] = NoCall /\ lock' = "free"
  BY <1>1, <1>2, GoC DEF LeaveRun, Release
<1>5. WhoOK(f, NoCall)
  BY WhoNone
<1>6. NoCall.pc = "done" /\ NoCall.kind = "none"
  BY DEF NoCall
<1>7. ~Holds(f)'
  BY <1>4, <1>6 DEF Holds, HoldPcs, RunPcs
<1>8. Fenced' /\ (Sane => Routes' /\ Retained' /\ Suspects')
  BY <1>1, <1>2, <1>4, <1>6, StillSuspects, Sides DEF Routed, Asked, RecoverPcs, InterruptPcs
<1>9. Sane => Coh(current)'
  <2>1. Sane => current' = g /\ OnlyLive(p, g)
    <3>1. Sane => OnlyLive(p, g)
      BY <1>1, <1>2, InRun DEF RunOK
    <3> HIDE DEF p, g
    <3> QED
      BY <1>1, <1>2, <3>1, LeavesRun
  <2> QED
    BY <1>1, <1>3, <2>1 DEF Coh, OnlyLive, Live
<1> QED
  BY <1>1, <1>2, <1>4, <1>5, <1>7, <1>8, <1>9, LeaveStep

-----------------------------------------------------------------------------
(* recoverSessionForThread *)

\* recoverSessionForThread.
LEMMA RecoverLeaves ==
    "recover.lock" \in LeaveTo /\ "recover.lock" \notin SendPcs \cup InterruptPcs
BY DEF LeaveTo, SendPcs, InterruptPcs

\* The invariant stays when a recovery waits for the events of the dead runtime.
LEMMA RecoverDrainsC == ASSUME CInv, TypeInv', NEW f \in Fibers, RecoverDrains(f) PROVE CInv'
<1>1. UNCHANGED <<current, session, binding, fence, retained, dispatch, haunted>> /\ call[f].pc = "recover.drain"
      /\ lock = "free"
  BY DEF RecoverDrains, At, turnState, history
<1>2. CASE lock' = f /\ Go(f, "recover.settle")
  <2>1. Others(f) /\ call'[f].pc = "recover.settle" /\ Same(f)
    BY <1>2, Parts, GoC
  <2>2. Holds(f)'
    BY <2>1 DEF Holds, HoldPcs
  <2>3. WhoOK(f, call'[f])
    BY <2>1, Parts DEF WhoOK, Same, StartPcs, SendPcs, InterruptPcs, CompactPcs
  <2>4. Fenced' /\ (Sane => Routes' /\ Retained' /\ Suspects')
    BY <1>1, <2>1, StillSuspects, Sides DEF Routed, Asked, RecoverPcs, InterruptPcs, Same
  <2>5. Sane => RunOK(f)'
    <3>1. Sane => Coh(current)
      BY <1>1 DEF Sane, Runs
    <3> QED
      BY <1>1, <2>1, <3>1 DEF RunOK, RunPcs, Coh, Live
  <2> QED
    BY <1>1, <1>2, <2>1, <2>2, <2>3, <2>4, <2>5, TakeStep
<1>3. CASE Go(f, "recover.lock") /\ UNCHANGED lock
  BY <1>1, <1>3, MovesOn DEF FreeFrom, FreeTo, Routed, Asked, RecoverPcs, SendPcs, InterruptPcs, At
<1>4. CASE Go(f, Raise(f)) /\ UNCHANGED lock
  BY <1>1, <1>4, RaisesC DEF FreeFrom, At
<1> QED
  BY <1>2, <1>3, <1>4 DEF RecoverDrains

\* The invariant stays when a recovery settles the turns of the dead runtime.
LEMMA RecoverSettlesC == ASSUME CInv, TypeInv', NEW f \in Fibers, RecoverSettles(f) PROVE CInv'
<1>1. UNCHANGED <<current, session, binding, fence, retained, dispatch, haunted>> /\ call[f].pc = "recover.settle"
  BY DEF RecoverSettles, At, turnState, history
<1>2. call[f].pc \in HoldPcs /\ call[f].pc \in RecoverPcs /\ Holds(f) /\ call[f].pc \notin RunPcs
  BY <1>1 DEF HoldPcs, RecoverPcs, Holds, RunPcs
<1>3. Sane => Coh(current) /\ Coh(current)'
  <2>1. Sane => Coh(current)
    BY <1>2, InRun DEF RunOK
  <2> QED
    BY <1>1, <2>1 DEF Coh, Live
<1>4. CASE Go(f, "recover.stop") /\ UNCHANGED lock
  <2>1. Others(f) /\ call'[f].pc = "recover.stop" /\ Same(f)
    BY <1>4, Parts, GoC
  <2>2. Sane => RunOK(f)'
    BY <1>1, <1>3, <2>1 DEF RunOK, RunPcs
  <2> QED
    BY <1>1, <1>2, <1>4, <2>1, <2>2, StillSuspects, KeepsC DEF HoldPcs, StartPcs, Same
<1>5. CASE Go(f, "recover.lock") /\ Release
  BY <1>1, <1>2, <1>3, <1>5, StillSuspects, RecoverLeaves, LeavesC DEF Release
<1>6. CASE Go(f, Raise(f)) /\ Release
  BY <1>1, <1>2, <1>3, <1>6, StillSuspects, RaiseLeaves, LeavesC DEF Release
<1> QED
  BY <1>4, <1>5, <1>6 DEF RecoverSettles

\* The invariant stays when a recovery stops the runtime it found dead.
LEMMA RecoverStopsC == ASSUME CInv, TypeInv', NEW f \in Fibers, RecoverStops(f) PROVE CInv'
<1> DEFINE p == binding.provider
<1>1. /\ UNCHANGED <<current, fence, retained, dispatch, haunted>> /\ call[f].pc = "recover.stop"
      /\ lock' = "free" /\ (AdapterStop(p) \/ AdapterStopFails(p))
      /\ binding' = [binding EXCEPT !.cursor = @ \/ BoundLive]
      /\ Go(f, "recover.lock") \/ Go(f, Raise(f))
  BY DEF RecoverStops, At, Release, turnState
<1>2. call[f].pc \in HoldPcs /\ call[f].pc \in RecoverPcs /\ Holds(f) /\ call[f].pc \notin RunPcs /\ TypeInv
  BY <1>1, Parts DEF HoldPcs, RecoverPcs, Holds, RunPcs
<1>3. binding'.provider = p
  BY <1>1, <1>2 DEF TypeInv, GoodBindings, Bindings
<1>4. Sane => NoneLive' /\ NoNewSuspect
  <2>1. Sane => \A q \in Providers : Live(q) => q = p
    BY <1>2, InRun DEF RunOK, Coh
  <2>2. Sane => NoNewSuspect
    BY <1>1, <1>2, StopTouches DEF NoNewSuspect, Sane, Suspects, Live
  <2> HIDE DEF p
  <2> QED
    BY <1>1, <1>2, <2>1, <2>2, StopsAll
<1>5. CASE Go(f, "recover.lock")
  BY <1>1, <1>2, <1>3, <1>4, <1>5, NoneIsCoherent, RecoverLeaves, LeavesC
<1>6. CASE Go(f, Raise(f))
  BY <1>1, <1>2, <1>3, <1>4, <1>6, NoneIsCoherent, RaiseLeaves, LeavesC
<1> QED
  BY <1>1, <1>5, <1>6

\* The invariant stays when a recovery looks for a runtime that lives.
LEMMA RecoverRoutesC == ASSUME CInv, TypeInv', NEW f \in Fibers, RecoverRoutes(f) PROVE CInv'
<1>1. UNCHANGED <<session, binding, fence, retained, dispatch, haunted>> /\ call[f].pc = "recover.route"
  BY DEF RecoverRoutes, At, turnState, history
<1>2. call[f].pc \in HoldPcs /\ call[f].pc \in RecoverPcs /\ Holds(f) /\ call[f].pc \in RunPcs /\ TypeInv
  BY <1>1, Parts DEF HoldPcs, RecoverPcs, Holds, RunPcs
<1>3. Sane => current = call[f].gen /\ Coh(call[f].prev)
  BY <1>1, <1>2, InRun DEF RunOK
<1>4. CASE /\ BoundLive
           /\ call' = [call EXCEPT ![f] = Resumed(f, binding.provider)]
           /\ LeaveRun(f, binding.gen)
  <2>1. /\ Others(f) /\ call'[f].pc \in {"send.turn", "done"} /\ WhoOK(f, call'[f])
        /\ call'[f].kind \in {"none", call[f].kind}
        /\ call'[f].pc = "send.turn" => f = "source" /\ call'[f].provider = binding.provider
    BY <1>4, ResumedC
  <2>2. ~Holds(f)' /\ lock' = "free"
    BY <1>4, <2>1 DEF Holds, HoldPcs, RunPcs, LeaveRun, Release
  <2>3. Fenced' /\ (Sane => Routes' /\ Retained' /\ Suspects')
    <3>1. call'[f].pc \notin Routed \/ binding'.provider \in {call'[f].provider, "none"}
      BY <1>1, <2>1 DEF Routed
    <3>2. call[f].pc # "send.persist" /\ call[f].pc # "interrupt.fail" /\ call'[f].pc # "start.persist"
      BY <1>1, <2>1
    <3>3. /\ call'[f].kind = "interrupt" => call[f].kind = "interrupt"
          /\ call'[f].pc \in Asked => call[f].pc \in Asked
          /\ call'[f].pc \in InterruptPcs => call'[f].kind = "interrupt"
      BY <1>2, <2>1 DEF Asked, InterruptPcs
    <3> QED
      BY <1>1, <2>1, <3>1, <3>2, <3>3, StillSuspects, Sides
  <2>4. Sane => Coh(current)'
    <3>1. Sane => current' = binding.gen
      BY <1>2, <1>4, LeavesRun
    <3>2. Sane => \A q \in Providers : Live(q) => session[q].gen = binding.gen /\ binding.provider = q
      BY <1>3 DEF Coh
    <3> QED
      BY <1>1, <3>1, <3>2 DEF Coh, Live
  <2> QED
    BY <1>1, <1>2, <2>1, <2>2, <2>3, <2>4, LeaveStep
<1>5. CASE Go(f, Raise(f)) /\ Rewind(f)
  <2>1. lock' = "free"
    BY <1>5 DEF Rewind, LeaveRun, Release
  <2>2. Sane => Coh(current)'
    <3>1. Sane => current' = call[f].prev
      BY <1>2, <1>5, LeavesRun DEF Rewind
    <3> QED
      BY <1>1, <1>3, <3>1 DEF Coh, Live
  <2> QED
    BY <1>1, <1>2, <1>5, <2>1, <2>2, StillSuspects, RaiseLeaves, LeavesC
<1>6. CASE /\ Bound /\ ~BoundLive /\ UNCHANGED lifecycle
           /\ call' = [call EXCEPT ![f].snap = binding, ![f].provider = binding.provider, ![f].pc = "recover.adapter"]
  <2> DEFINE c == [call[f] EXCEPT !.snap = binding, !.provider = binding.provider, !.pc = "recover.adapter"]
  <2>1. call' = [call EXCEPT ![f] = c]
    BY <1>6
  <2>2. c.pc = "recover.adapter" /\ c.provider = binding.provider /\ c.kind = call[f].kind /\ c.gen = call[f].gen
    BY Parts DEF CallsOfFibers
  <2> HIDE DEF c
  <2>3. Others(f) /\ call'[f] = c /\ lock' = lock /\ current' = current
    BY <1>2, <1>6, <2>1, SetC DEF lifecycle
  <2>4. Sane => NoneLive'
    <3>1. Sane => \A q \in Providers : ~Live(q)
      BY <1>3, <1>6 DEF Coh, BoundLive
    <3> QED
      BY <1>1, <3>1 DEF NoneLive, Live
  <2>5. Sane => RunOK(f)'
    BY <1>1, <1>3, <2>2, <2>3, <2>4 DEF RunOK, RunPcs
  <2> QED
    BY <1>1, <1>2, <2>2, <2>3, <2>5, StillSuspects, KeepsC DEF HoldPcs, RunPcs, StartPcs
<1> QED
  BY <1>4, <1>5, <1>6 DEF RecoverRoutes

\* The invariant stays when a recovery has the adapter resume the session.
LEMMA RecoverStartsC == ASSUME CInv, TypeInv', NEW f \in Fibers, RecoverStarts(f) PROVE CInv'
<1> DEFINE p == call[f].provider
<1> DEFINE g == call[f].gen
<1>1. UNCHANGED <<binding, fence, retained, dispatch, haunted>> /\ call[f].pc = "recover.adapter"
  BY DEF RecoverStarts, At, turnState
<1>2. call[f].pc \in HoldPcs /\ call[f].pc \in RecoverPcs /\ Holds(f) /\ TypeInv /\ call[f].pc \in RunPcs /\ p \in Providers
  BY <1>1, Parts, CallFields DEF RecoverPcs, Holds, HoldPcs, RunPcs, UsesProvider
<1>3. Sane => current = g /\ p = binding.provider /\ NoneLive /\ \A q \in Providers : Live(q) => q = p
  BY <1>1, <1>2, InRun DEF RunOK, NoneLive
<1>4. CASE AdapterStart(p, g) /\ Go(f, "recover.persist") /\ UNCHANGED lifecycle
  <2>1. Others(f) /\ call'[f].pc = "recover.persist" /\ Same(f) /\ lock' = lock /\ current' = current
    BY <1>2, <1>4, GoC DEF lifecycle
  <2>2. Sane => NoNewSuspect /\ \A q \in Providers : Live(q)' => q = p /\ session'[q].gen = g
    <3> HIDE DEF p, g
    <3> QED
      BY <1>2, <1>3, <1>4, StartsOnly, StartSuspects
  <2>3. Sane => RunOK(f)'
    BY <1>1, <1>3, <2>1, <2>2 DEF RunOK, RunPcs, OnlyLive, Same
  <2> QED
    BY <1>1, <1>2, <2>1, <2>2, <2>3, KeepsC DEF HoldPcs, RunPcs, StartPcs, Same
<1>5. CASE AdapterStartFails(p) /\ Go(f, Raise(f)) /\ Rewind(f)
  <2>1. Sane => NoneLive' /\ NoNewSuspect
    <3> HIDE DEF p
    <3> QED
      BY <1>1, <1>2, <1>3, <1>5, StartFailsStops, StopsAll, StopCalms
  <2>2. lock' = "free"
    BY <1>5 DEF Rewind, LeaveRun, Release
  <2> QED
    BY <1>1, <1>2, <1>5, <2>1, <2>2, NoneIsCoherent, RaiseLeaves, LeavesC
<1> QED
  BY <1>4, <1>5 DEF RecoverStarts

\* The invariant stays when a recovery writes its row.
LEMMA RecoverPersistsC == ASSUME CInv, TypeInv', NoWriteFault, NEW f \in Fibers, RecoverPersists(f) PROVE CInv'
<1> DEFINE p == call[f].provider
<1> DEFINE g == call[f].gen
<1>1. /\ UNCHANGED <<session, fence, retained, dispatch, haunted>> /\ call[f].pc = "recover.persist"
      /\ binding' = [Started(p, g) EXCEPT !.rotation = @ /\ ~call[f].snap.rotation]
      /\ call' = [call EXCEPT ![f] = Resumed(f, p)] /\ LeaveRun(f, g)
  BY NoWrite DEF RecoverPersists, At, turnState
<1>2. call[f].pc \in HoldPcs /\ call[f].pc \in RecoverPcs /\ Holds(f) /\ TypeInv /\ call[f].pc \in RunPcs /\ p \in Providers
  BY <1>1, Parts, CallFields DEF RecoverPcs, Holds, HoldPcs, RunPcs, UsesProvider
<1>3. binding'.provider = p /\ binding'.gen = g
  <2>1. \E r : binding' = [Started(p, g) EXCEPT !.rotation = r]
    BY <1>1
  <2> HIDE DEF p, g
  <2> QED
    BY <1>2, <2>1, StartedC
<1>4. Sane => current' = g /\ OnlyLive(p, g) /\ p = binding.provider
  <2>1. Sane => OnlyLive(p, g) /\ p = binding.provider
    BY <1>1, <1>2, InRun DEF RunOK
  <2>2. Sane => current' = g
    BY <1>1, <1>2, LeavesRun
  <2> QED
    BY <2>1, <2>2
<1>5. Sane => Coh(current)'
  BY <1>1, <1>3, <1>4 DEF Coh, OnlyLive, Live
<1>6. /\ Others(f) /\ call'[f].pc \in {"send.turn", "done"} /\ WhoOK(f, call'[f])
      /\ call'[f].kind \in {"none", call[f].kind}
      /\ call'[f].pc = "send.turn" => f = "source" /\ call'[f].provider = p
  BY <1>1, ResumedC
<1>7. ~Holds(f)' /\ lock' = "free"
  BY <1>1, <1>6 DEF Holds, HoldPcs, RunPcs, LeaveRun, Release
<1>8. Fenced' /\ (Sane => Routes' /\ Retained' /\ Suspects')
  <2>1. call'[f].pc \notin Routed \/ binding'.provider \in {call'[f].provider, "none"}
    BY <1>3, <1>6 DEF Routed
  <2>2. call[f].pc # "send.persist" /\ call[f].pc # "interrupt.fail" /\ call'[f].pc # "start.persist"
    BY <1>1, <1>6
  <2>3. /\ call'[f].kind = "interrupt" => call[f].kind = "interrupt"
        /\ call'[f].pc \in Asked => call[f].pc \in Asked
        /\ call'[f].pc \in InterruptPcs => call'[f].kind = "interrupt"
    BY <1>2, <1>6 DEF Asked, InterruptPcs
  <2>4. Sane => binding'.provider \in {binding.provider, "none"}
    BY <1>3, <1>4
  <2> QED
    BY <1>1, <1>6, <2>1, <2>2, <2>3, <2>4, StillSuspects, Sides
<1> QED
  BY <1>1, <1>2, <1>5, <1>6, <1>7, <1>8, LeaveStep

-----------------------------------------------------------------------------
(* stopRuntimeSessionInternal, stopSession, clearSessionResumeCursor *)

\* The generation before the run is put back, or one that fits the row.
LEMMA RewindCoherent ==
    ASSUME CInv, Sane, NEW f \in Fibers, call[f].pc \in RunPcs, Rewind(f), UNCHANGED <<session, binding>>, Coh(call[f].prev)
    PROVE  Coh(current)'
<1>1. current' = call[f].prev
  BY LeavesRun DEF Rewind
<1> QED
  BY <1>1 DEF Coh, Live

\* A run that is rewound gives up the lock.
LEMMA RewindFrees == ASSUME NEW f, Rewind(f) PROVE lock' = "free"
BY DEF Rewind, LeaveRun, Release

\* A run that is left gives up the lock.
LEMMA LeaveFrees == ASSUME NEW f, NEW g, LeaveRun(f, g) PROVE lock' = "free"
BY DEF LeaveRun, Release

\* stopRuntimeSessionInternal.

\* The invariant stays when a stop looks for the runtime.
LEMMA StopRoutesC == ASSUME CInv, TypeInv', NEW f \in Fibers, StopRoutes(f) PROVE CInv'
<1>1. UNCHANGED <<session, binding, fence, retained, dispatch, haunted>> /\ call[f].pc = "stop.route"
  BY DEF StopRoutes, At, turnState, history
<1>2. call[f].pc \in HoldPcs /\ Holds(f) /\ call[f].pc \in RunPcs /\ TypeInv
  BY <1>1, Parts DEF HoldPcs, Holds, RunPcs
<1>3. Sane => current = call[f].gen /\ Coh(call[f].prev)
  BY <1>1, <1>2, InRun DEF RunOK
<1>4. CASE Go(f, Stopped(f)) /\ Rewind(f)
  BY <1>1, <1>2, <1>3, <1>4, RewindCoherent, RewindFrees, StillSuspects, StoppedLeaves, LeavesC
<1>5. CASE /\ call' = [call EXCEPT ![f].snap = [binding EXCEPT !.cursor = @ \/ BoundLive], ![f].pc = "stop.adapter"]
           /\ UNCHANGED lifecycle
  <2> DEFINE b == [binding EXCEPT !.cursor = @ \/ BoundLive]
  <2> DEFINE c == [call[f] EXCEPT !.snap = b, !.pc = "stop.adapter"]
  <2>1. call' = [call EXCEPT ![f] = c]
    BY <1>5
  <2>2. b.provider = binding.provider
    BY <1>2 DEF TypeInv, GoodBindings, Bindings
  <2> HIDE DEF b
  <2>3. c.pc = "stop.adapter" /\ c.snap = b /\ c.kind = call[f].kind /\ c.gen = call[f].gen /\ c.prev = call[f].prev
    BY Parts DEF CallsOfFibers
  <2> HIDE DEF c
  <2>4. Others(f) /\ call'[f] = c /\ lock' = lock /\ current' = current
    BY <1>2, <1>5, <2>1, SetC DEF lifecycle
  <2>5. Sane => RunOK(f)'
    BY <1>1, <1>3, <2>2, <2>3, <2>4 DEF RunOK, RunPcs, Coh, Live
  <2> QED
    BY <1>1, <1>2, <2>3, <2>4, <2>5, StillSuspects, KeepsC DEF HoldPcs, RunPcs, StartPcs, RecoverPcs
<1> QED
  BY <1>4, <1>5 DEF StopRoutes

\* The invariant stays when a stop has the adapter stop the runtime.
LEMMA StopStopsC == ASSUME CInv, TypeInv', NEW f \in Fibers, StopStops(f) PROVE CInv'
<1> DEFINE p == call[f].snap.provider
<1>1. UNCHANGED <<binding, fence, retained, dispatch, haunted>> /\ call[f].pc = "stop.adapter"
  BY DEF StopStops, At, turnState
<1>2. call[f].pc \in HoldPcs /\ Holds(f) /\ call[f].pc \in RunPcs /\ TypeInv
  BY <1>1, Parts DEF HoldPcs, Holds, RunPcs
<1>3. Sane => current = call[f].gen /\ Coh(call[f].prev) /\ p = binding.provider /\ \A q \in Providers : Live(q) => q = p
  BY <1>1, <1>2, InRun DEF RunOK, Coh
<1>4. CASE Go(f, Stopped(f)) /\ Rewind(f) /\ UNCHANGED session
  BY <1>1, <1>2, <1>3, <1>4, RewindCoherent, RewindFrees, StillSuspects, StoppedLeaves, LeavesC
<1>5. ASSUME AdapterStop(p) \/ AdapterStopFails(p) PROVE Sane => NoneLive' /\ NoNewSuspect
  <2> HIDE DEF p
  <2> QED
    BY <1>1, <1>2, <1>3, <1>5, StopsAll, StopCalms
<1>6. CASE AdapterStop(p) /\ Go(f, "stop.persist") /\ UNCHANGED lifecycle
  <2>1. Others(f) /\ call'[f].pc = "stop.persist" /\ Same(f) /\ lock' = lock /\ current' = current
    BY <1>2, <1>6, GoC DEF lifecycle
  <2>2. Sane => RunOK(f)'
    BY <1>1, <1>3, <1>5, <1>6, <2>1 DEF RunOK, RunPcs, Same
  <2> QED
    BY <1>1, <1>2, <1>5, <1>6, <2>1, <2>2, KeepsC DEF HoldPcs, RunPcs, StartPcs, RecoverPcs, Same
<1>7. CASE AdapterStopFails(p) /\ Go(f, Raise(f)) /\ Rewind(f)
  BY <1>1, <1>2, <1>5, <1>7, NoneIsCoherent, RewindFrees, RaiseLeaves, LeavesC
<1> QED
  BY <1>4, <1>6, <1>7 DEF StopStops

\* The invariant stays when a stop writes the row.
LEMMA StopPersistsC == ASSUME CInv, TypeInv', NoWriteFault, NEW f \in Fibers, StopPersists(f) PROVE CInv'
<1> DEFINE p == call[f].snap.provider
<1>1. UNCHANGED <<session, fence, retained, dispatch, haunted>> /\ call[f].pc = "stop.persist"
  BY DEF StopPersists, At, turnState
<1>2. call[f].pc \in HoldPcs /\ Holds(f) /\ call[f].pc \in RunPcs /\ TypeInv
  BY <1>1, Parts DEF HoldPcs, Holds, RunPcs
<1>3. Sane => p = binding.provider /\ NoneLive'
  <2>1. Sane => p = binding.provider /\ NoneLive
    BY <1>1, <1>2, InRun DEF RunOK
  <2> QED
    BY <1>1, <2>1 DEF NoneLive, Live
<1>4. Go(f, Stopped(f)) /\ lock' = "free"
  BY NoWrite, RewindFrees, LeaveFrees DEF StopPersists
<1>5. binding' = binding \/ binding'.provider = p
  <2>1. p \in Providers
    BY <1>1, CallFields, <1>2 DEF UsesRow
  <2>2. CASE UNCHANGED binding
    BY <2>2
  <2>3. CASE binding' # binding
    <3>1. \E r : binding' = [Upserted(p) EXCEPT !.status = "stopped", !.gen = call[f].gen, !.turn = NoTurn,
                                                !.rotation = r, !.cursor = call[f].snap.cursor]
      BY <2>3, NoWrite DEF StopPersists
    <3> HIDE DEF p
    <3> QED
      BY <1>2, <2>1, <3>1, UpsertedC DEF Bindings
  <2> QED
    BY <2>2, <2>3
<1> QED
  BY <1>1, <1>2, <1>3, <1>4, <1>5, NoneIsCoherent, StillSuspects, StoppedLeaves, LeavesC

\* stopSession.

\* The invariant stays when a deletion looks for the runtime.
LEMMA DeleteRoutesC == ASSUME CInv, TypeInv', NEW f \in Fibers, DeleteRoutes(f) PROVE CInv'
<1>1. UNCHANGED <<session, binding, fence, retained, dispatch, haunted>> /\ call[f].pc = "delete.route"
  BY DEF DeleteRoutes, At, turnState, history
<1>2. call[f].pc \in HoldPcs /\ Holds(f) /\ call[f].pc \in RunPcs /\ TypeInv
  BY <1>1, Parts DEF HoldPcs, Holds, RunPcs
<1>3. Sane => current = call[f].gen /\ Coh(call[f].prev)
  BY <1>1, <1>2, InRun DEF RunOK
<1>4. ASSUME NEW p \in Providers, binding.provider = p \/ Live(p), UNCHANGED lifecycle,
             call' = [call EXCEPT ![f].provider = p, ![f].pc = "delete.adapter"]
      PROVE  CInv'
  <2> DEFINE c == [call[f] EXCEPT !.provider = p, !.pc = "delete.adapter"]
  <2>1. call' = [call EXCEPT ![f] = c]
    BY <1>4
  <2>2. c.pc = "delete.adapter" /\ c.provider = p /\ c.kind = call[f].kind /\ c.gen = call[f].gen /\ c.prev = call[f].prev
    BY Parts DEF CallsOfFibers
  <2> HIDE DEF c
  <2>3. Others(f) /\ call'[f] = c /\ lock' = lock /\ current' = current
    BY <1>2, <1>4, <2>1, SetC DEF lifecycle
  <2>4. Sane => binding.provider = p
    BY <1>3, <1>4 DEF Coh
  <2>5. Sane => RunOK(f)'
    BY <1>1, <1>3, <2>2, <2>3, <2>4 DEF RunOK, RunPcs, Coh, Live
  <2> QED
    BY <1>1, <1>2, <2>2, <2>3, <2>5, StillSuspects, KeepsC DEF HoldPcs, RunPcs, StartPcs, RecoverPcs
<1>5. CASE (\A p \in Providers : ~Live(p)) /\ Go(f, "end") /\ LeaveRun(f, None)
  <2>1. NoneLive'
    BY <1>1, <1>5 DEF NoneLive, Live
  <2> QED
    BY <1>1, <1>2, <1>5, <2>1, NoneIsCoherent, LeaveFrees, StillSuspects, EndLeaves, LeavesC
<1> QED
  BY <1>4, <1>5 DEF DeleteRoutes

\* The invariant stays when a deletion stops the runtime.
LEMMA DeleteStopsC == ASSUME CInv, TypeInv', NEW f \in Fibers, DeleteStops(f) PROVE CInv'
<1> DEFINE p == call[f].provider
<1>1. UNCHANGED <<binding, fence, retained, dispatch, haunted>> /\ call[f].pc = "delete.adapter"
      /\ (AdapterStop(p) \/ AdapterStopFails(p))
  BY DEF DeleteStops, At, turnState
<1>2. call[f].pc \in HoldPcs /\ Holds(f) /\ call[f].pc \in RunPcs /\ TypeInv
  BY <1>1, Parts DEF HoldPcs, Holds, RunPcs
<1>3. Sane => current = call[f].gen /\ NoneLive' /\ NoNewSuspect
  <2>1. Sane => current = call[f].gen /\ \A q \in Providers : Live(q) => q = p
    BY <1>1, <1>2, InRun DEF RunOK, Coh
  <2> HIDE DEF p
  <2> QED
    BY <1>1, <1>2, <2>1, StopsAll, StopCalms
<1>4. CASE Go(f, "delete.remove") /\ UNCHANGED lifecycle
  <2>1. Others(f) /\ call'[f].pc = "delete.remove" /\ Same(f) /\ lock' = lock /\ current' = current
    BY <1>2, <1>4, GoC DEF lifecycle
  <2>2. Sane => RunOK(f)'
    BY <1>1, <1>3, <2>1 DEF RunOK, RunPcs, Same
  <2> QED
    BY <1>1, <1>2, <1>3, <2>1, <2>2, KeepsC DEF HoldPcs, RunPcs, StartPcs, RecoverPcs, Same
<1>5. CASE Go(f, "end") /\ Rewind(f)
  BY <1>1, <1>2, <1>3, <1>5, NoneIsCoherent, RewindFrees, EndLeaves, LeavesC
<1> QED
  BY <1>4, <1>5 DEF DeleteStops

\* The invariant stays when a deletion removes the row.
LEMMA DeleteRemovesC == ASSUME CInv, TypeInv', NoWriteFault, NEW f \in Fibers, DeleteRemoves(f) PROVE CInv'
<1>1. /\ UNCHANGED <<session, retained, dispatch, haunted>> /\ call[f].pc = "delete.remove"
      /\ binding' = NoBinding /\ fence' = "none" /\ LeaveRun(f, None) /\ Go(f, "end")
  BY NoWrite DEF DeleteRemoves, At, turnState
<1>2. call[f].pc \in HoldPcs /\ Holds(f) /\ call[f].pc \in RunPcs /\ TypeInv
  BY <1>1, Parts DEF HoldPcs, Holds, RunPcs
<1>3. Others(f) /\ call'[f] = NoCall /\ lock' = "free"
  BY <1>1, <1>2, GoC, LeaveFrees
<1>4. WhoOK(f, NoCall)
  BY WhoNone
<1>5. NoCall.pc = "done" /\ NoCall.kind = "none" /\ NoBinding.provider = "none"
  BY DEF NoCall, NoBinding
<1>6. ~Holds(f)'
  BY <1>3, <1>5 DEF Holds, HoldPcs, RunPcs
<1>7. "source" \in Fibers /\ call'["source"] \in {call["source"], NoCall}
  BY <1>3 DEF Fibers, Others
<1>8. Fenced'
  BY <1>1, <1>5, <1>7, Parts DEF Fenced, Asked, RecoverPcs, InterruptPcs
<1>9. ASSUME Sane PROVE Coh(current)' /\ Routes' /\ Retained' /\ Suspects'
  <2>1. NoneLive
    BY <1>1, <1>2, <1>9, InRun DEF RunOK
  <2>2. Coh(current)'
    BY <1>1, <2>1 DEF Coh, NoneLive, Live
  <2>3. Routes'
    BY <1>1, <1>5 DEF Routes
  <2>4. call["source"].pc = "send.persist" => call'["source"] = call["source"]
    BY <1>1, <1>3, <1>7 DEF Others
  <2>5. Retained'
    BY <1>1, <1>9, <2>4 DEF Sane, Retained
  <2>6. Suspects'
    BY <1>1, <1>9, <2>1 DEF Sane, Suspects, NoneLive
  <2> QED
    BY <2>2, <2>3, <2>5, <2>6
<1> QED
  BY <1>1, <1>2, <1>3, <1>4, <1>6, <1>8, <1>9, LeaveStep

\* clearSessionResumeCursor: the invariant stays when the cursor of the row is cleared.
LEMMA ClearClearsC == ASSUME CInv, TypeInv', NoWriteFault, NEW f \in Fibers, ClearClears(f) PROVE CInv'
<1> DEFINE p == binding.provider
<1> DEFINE keeps == BoundLive /\ ~call[f].replaces
<1> DEFINE effective == IF keeps THEN binding.gen ELSE call[f].gen
<1>1. UNCHANGED <<fence, retained, dispatch, haunted>> /\ call[f].pc = "clear.clear"
  BY DEF ClearClears, At, turnState
<1>2. call[f].pc \in HoldPcs /\ Holds(f) /\ call[f].pc \in RunPcs /\ TypeInv
  BY <1>1, Parts DEF HoldPcs, Holds, RunPcs
<1>3. Sane => current = call[f].gen /\ Coh(call[f].prev)
              /\ \A q \in Providers : Live(q) => q = p /\ session[q].gen = call[f].prev /\ binding.gen = call[f].prev
  BY <1>1, <1>2, InRun DEF RunOK, Coh
<1>4. CASE ~Bound /\ Go(f, "clear.end") /\ Rewind(f) /\ UNCHANGED <<session, binding>>
  <2>1. "clear.end" \in LeaveTo /\ "clear.end" \notin SendPcs \cup InterruptPcs /\ "clear.end" \notin Asked
    BY DEF LeaveTo, SendPcs, InterruptPcs, Asked, RecoverPcs
  <2> QED
    BY <1>1, <1>2, <1>3, <1>4, <2>1, RewindCoherent, RewindFrees, StillSuspects, LeavesC
<1>5. CASE /\ Bound /\ Go(f, "clear.end") /\ LeaveRun(f, effective)
           /\ IF keeps \/ ~BoundLive THEN UNCHANGED session ELSE AdapterStop(p)
           /\ binding'.provider = p /\ binding'.gen = effective
  <2>1. "clear.end" \in LeaveTo /\ "clear.end" \notin SendPcs \cup InterruptPcs /\ "clear.end" \notin Asked
    BY DEF LeaveTo, SendPcs, InterruptPcs, Asked, RecoverPcs
  <2>2. lock' = "free"
    BY <1>5, LeaveFrees
  <2>3. Sane => NoNewSuspect
    BY <1>2, <1>5, StillSuspects, StopTouches DEF NoNewSuspect, Sane, Suspects, Live
  <2>4. Sane => Coh(current)'
    <3>1. CASE keeps
      <4>1. Sane => current' = binding.gen
        BY <1>2, <1>5, <3>1, LeavesRun
      <4> QED
        BY <1>3, <1>5, <3>1, <4>1 DEF Coh, Live
    <3>2. CASE ~keeps /\ BoundLive
      <4>1. Sane => NoneLive'
        <5>1. AdapterStop(p)
          BY <1>5, <3>2
        <5> HIDE DEF p
        <5> QED
          BY <1>2, <1>3, <5>1, StopsAll
      <4> QED
        BY <4>1, NoneIsCoherent
    <3>3. CASE ~BoundLive
      <4>1. Sane => NoneLive'
        BY <1>3, <1>5, <3>3 DEF BoundLive, NoneLive, Live
      <4> QED
        BY <4>1, NoneIsCoherent
    <3> QED
      BY <3>1, <3>2, <3>3
  <2> QED
    BY <1>1, <1>2, <1>5, <2>1, <2>2, <2>3, <2>4, LeavesC
<1>6. CASE AdapterStopFails(p) /\ Go(f, "end") /\ Rewind(f) /\ UNCHANGED binding
  <2>1. Sane => NoneLive' /\ NoNewSuspect
    <3>1. Sane => \A q \in Providers : Live(q) => q = p
      BY <1>3
    <3> HIDE DEF p
    <3> QED
      BY <1>2, <1>6, <3>1, StopsAll, StopCalms
  <2> QED
    BY <1>1, <1>2, <1>6, <2>1, NoneIsCoherent, RewindFrees, EndLeaves, LeavesC
<1>7. ASSUME Bound, NoFault,
             IF keeps THEN UNCHANGED <<session, events, tasks>>
             ELSE /\ tasks' = {}
                  /\ IF BoundLive THEN AdapterStop(p) ELSE UNCHANGED <<session, events>>,
             binding' = [binding EXCEPT !.gen = effective, !.cursor = FALSE,
                            !.status = IF keeps THEN @ ELSE "stopped",
                            !.turn = IF keeps THEN @ ELSE NoTurn],
             Go(f, "clear.end"), LeaveRun(f, effective)
      PROVE  CInv'
  <2>1. binding'.provider = p /\ binding'.gen = effective
    BY <1>2, <1>7 DEF TypeInv, GoodBindings, Bindings
  <2>2. IF keeps \/ ~BoundLive THEN UNCHANGED session ELSE AdapterStop(p)
    BY <1>7
  <2> QED
    BY <1>5, <1>7, <2>1, <2>2
<1> QED
  BY <1>4, <1>6, <1>7, NoWrite DEF ClearClears

-----------------------------------------------------------------------------
(* interruptTurn *)

\* interruptTurn, which may have given up the lock.
LEMMA CalmCoherent ==
    ASSUME UNCHANGED <<current, binding>>, Calm, Coh(current) PROVE Coh(current)'
BY DEF Calm, Coh

\* An interrupt ends its use of the lock, if it had it.
LEMMA Unlocks ==
    ASSUME CInv, TypeInv', NEW f \in Fibers, call[f].pc \in {"interrupt.route", "interrupt.adapter"}, Others(f), ~Holds(f)',
           Unlock(f), UNCHANGED <<current, binding, haunted>>, Sane => Calm, WhoOK(f, call'[f]), Fenced',
           Sane => Routes' /\ Retained' /\ Suspects'
    PROVE  CInv'
<1>1. CASE call[f].locked
  <2>1. Holds(f) /\ lock' = "free"
    BY <1>1 DEF Holds, Unlock, Release
  <2>2. Sane => Coh(current)'
    <3>1. Sane => Coh(current)
      BY <2>1, InRun DEF RunOK, RunPcs
    <3> QED
      BY <3>1, CalmCoherent
  <2> QED
    BY <2>1, <2>2, LeaveStep
<1>2. CASE ~call[f].locked
  <2>1. ~Holds(f) /\ lock' = lock
    BY <1>2 DEF Holds, HoldPcs, RunPcs, Unlock
  <2> QED
    BY <2>1, FreeStep
<1> QED
  BY <1>1, <1>2

\* The invariant stays when an interrupt takes the lock, or goes on without it.
LEMMA InterruptEntersC == ASSUME CInv, TypeInv', NEW f \in Fibers, InterruptEnters(f) PROVE CInv'
<1> DEFINE c == [call[f] EXCEPT !.pc = "interrupt.route", !.gen = current, !.locked = lock = "free"]
<1>1. /\ UNCHANGED <<current, session, binding, fence, retained, dispatch, haunted>> /\ call[f].pc = "interrupt.lock"
      /\ lock' = (IF lock = "free" THEN f ELSE lock)
      /\ call' = [call EXCEPT ![f] = c]
  BY DEF InterruptEnters, At, turnState, history
<1>2. c.pc = "interrupt.route" /\ c.kind = call[f].kind /\ c.locked = (lock = "free")
  BY Parts DEF CallsOfFibers
<1> HIDE DEF c
<1>3. Others(f) /\ call'[f] = c /\ f = "source"
  BY <1>1, Parts, SetC DEF InterruptPcs
<1>4. WhoOK(f, call'[f])
  BY <1>2, <1>3, Parts DEF WhoOK, CompactPcs
<1>5. Fenced' /\ (Sane => Routes' /\ Retained' /\ Suspects')
  <2>1. call[f].kind = "interrupt"
    BY <1>1, <1>3, Parts DEF Fenced, InterruptPcs
  <2> QED
    BY <1>1, <1>2, <1>3, <2>1, StillSuspects, Sides DEF Routed, Asked, RecoverPcs
<1>6. CASE lock = "free"
  <2>1. Holds(f)'
    BY <1>2, <1>3, <1>6 DEF Holds
  <2>2. Sane => RunOK(f)'
    <3>1. Sane => Coh(current)
      BY <1>6 DEF Sane, Runs
    <3> QED
      BY <1>1, <1>2, <1>3, <3>1 DEF RunOK, RunPcs, Coh, Live
  <2> QED
    BY <1>1, <1>3, <1>4, <1>5, <1>6, <2>1, <2>2, TakeStep
<1>7. CASE lock # "free"
  <2>1. ~Holds(f) /\ ~Holds(f)'
    BY <1>1, <1>2, <1>3, <1>7 DEF Holds, HoldPcs, RunPcs
  <2> QED
    BY <1>1, <1>3, <1>4, <1>5, <1>7, <2>1, Still, FreeStep
<1> QED
  BY <1>6, <1>7

\* The invariant stays when an interrupt looks for its runtime.
LEMMA InterruptRoutesC == ASSUME CInv, TypeInv', NEW f \in Fibers, InterruptRoutes(f) PROVE CInv'
<1>1. UNCHANGED <<current, session, binding, retained, dispatch, haunted>> /\ call[f].pc = "interrupt.route"
  BY DEF InterruptRoutes, At, turnState, history
<1>2. f = "source" /\ call[f].kind = "interrupt" /\ fence # "failed" /\ TypeInv
  BY <1>1, Parts DEF InterruptPcs, Fenced
<1>3. CASE /\ call' = [call EXCEPT ![f].provider = binding.provider, ![f].turn = binding.turn, ![f].pc = "interrupt.adapter"]
           /\ UNCHANGED <<lock, fence>>
  <2> DEFINE c == [call[f] EXCEPT !.provider = binding.provider, !.turn = binding.turn, !.pc = "interrupt.adapter"]
  <2>1. call' = [call EXCEPT ![f] = c]
    BY <1>3
  <2>2. c.pc = "interrupt.adapter" /\ c.kind = call[f].kind /\ c.locked = call[f].locked
    BY Parts DEF CallsOfFibers
  <2> HIDE DEF c
  <2>3. Others(f) /\ call'[f] = c
    BY <1>2, <2>1, SetC
  <2>4. WhoOK(f, call'[f])
    BY <1>2, <2>2, <2>3, Parts DEF WhoOK, CompactPcs
  <2>5. Fenced' /\ (Sane => Routes' /\ Retained' /\ Suspects')
    BY <1>1, <1>2, <1>3, <2>2, <2>3, StillSuspects, Sides DEF Routed, Asked, RecoverPcs
  <2>6. CASE call[f].locked
    <3>1. Holds(f) /\ Holds(f)'
      BY <1>1, <2>2, <2>3, <2>6 DEF Holds
    <3>2. Sane => RunOK(f)'
      <4>1. Sane => Coh(current)
        BY <1>1, <3>1, InRun DEF RunOK, RunPcs
      <4> QED
        BY <1>1, <2>2, <2>3, <4>1 DEF RunOK, RunPcs, Coh, Live
    <3> QED
      BY <1>1, <1>3, <2>3, <2>4, <2>5, <3>1, <3>2, KeepStep
  <2>7. CASE ~call[f].locked
    <3>1. ~Holds(f) /\ ~Holds(f)'
      BY <1>1, <2>2, <2>3, <2>7 DEF Holds, HoldPcs, RunPcs
    <3> QED
      BY <1>1, <1>3, <2>3, <2>4, <2>5, <3>1, Still, FreeStep
  <2> QED
    BY <2>6, <2>7
<1>4. CASE Go(f, "end") /\ Unlock(f) /\ fence' = "none"
  <2>1. Others(f) /\ call'[f] = NoCall
    BY <1>2, <1>4, GoC
  <2>2. WhoOK(f, NoCall)
    BY WhoNone
  <2>3. NoCall.pc = "done" /\ NoCall.kind = "none"
    BY DEF NoCall
  <2>4. ~Holds(f)'
    BY <2>1, <2>3 DEF Holds, HoldPcs, RunPcs
  <2>5. Fenced'
    BY <1>2, <2>1, <2>3 DEF Fenced, Asked, RecoverPcs, InterruptPcs
  <2>6. ASSUME Sane PROVE Routes' /\ Retained' /\ Suspects'
    <3>1. \A p \in Providers : ~session[p].suspect
      BY <1>1, <1>2, <2>6, NoSuspects DEF Sane
    <3> QED
      BY <1>1, <1>2, <2>1, <2>3, <2>6, <3>1 DEF Sane, Routes, Routed, Retained, Suspects
  <2> QED
    BY <1>1, <1>4, <2>1, <2>2, <2>4, <2>5, <2>6, Still, Unlocks
<1> QED
  BY <1>3, <1>4 DEF InterruptRoutes

\* The invariant stays when an interrupt reaches the adapter.
LEMMA InterruptInterruptsC == ASSUME CInv, TypeInv', NEW f \in Fibers, InterruptInterrupts(f) PROVE CInv'
<1> DEFINE p == call[f].provider
<1>1. UNCHANGED <<current, binding, fence, retained, dispatch, haunted>> /\ call[f].pc = "interrupt.adapter" /\ Unlock(f)
  BY DEF InterruptInterrupts, At, turnState
<1>2. f = "source" /\ call[f].kind = "interrupt" /\ TypeInv /\ p \in Providers /\ session[p] \in Sessions
  BY <1>1, Parts, CallFields, SessionIn DEF InterruptPcs, Fenced, UsesProvider
<1>3. PICK pc \in {"stop.wait", "interrupt.fail"} :
        /\ Go(f, pc)
        /\ \/ session' = session
           \/ session' = [session EXCEPT ![p].turn = NoTurn]
           \/ session' = [session EXCEPT ![p].suspect = TRUE] /\ pc = "interrupt.fail" /\ Live(p)
  BY DEF InterruptInterrupts
<1>4. Others(f) /\ call'[f].pc = pc /\ Same(f)
  BY <1>2, <1>3, GoC
<1>5. WhoOK(f, call'[f])
  BY <1>2, <1>4, Parts DEF WhoOK, Same, CompactPcs
<1>6. ~Holds(f)'
  BY <1>4 DEF Holds, HoldPcs, RunPcs
<1>7. Fenced'
  BY <1>1, <1>2, <1>4, Parts DEF Fenced, Same, Asked, RecoverPcs
<1>8. \A q \in Providers : /\ Live(q)' <=> Live(q)
                           /\ session'[q].gen = session[q].gen
                           /\ session'[q].suspect => session[q].suspect \/ (pc = "interrupt.fail" /\ Live(q))
  <2>1. PICK s : /\ session' = [session EXCEPT ![p] = s] \/ session' = session
                 /\ s.state = session[p].state /\ s.gen = session[p].gen
                 /\ s.suspect => session[p].suspect \/ (pc = "interrupt.fail" /\ Live(p))
    <3>1. CASE session' = session
      BY <3>1
    <3>2. CASE session' = [session EXCEPT ![p].turn = NoTurn]
      <4> DEFINE s == [session[p] EXCEPT !.turn = NoTurn]
      <4>1. session' = [session EXCEPT ![p] = s]
        BY <3>2
      <4>2. s.state = session[p].state /\ s.gen = session[p].gen /\ s.suspect = session[p].suspect
        BY <1>2 DEF Sessions
      <4> HIDE DEF s, p
      <4> QED
        BY <4>1, <4>2
    <3>3. CASE session' = [session EXCEPT ![p].suspect = TRUE] /\ pc = "interrupt.fail" /\ Live(p)
      <4> DEFINE s == [session[p] EXCEPT !.suspect = TRUE]
      <4>1. session' = [session EXCEPT ![p] = s]
        BY <3>3
      <4>2. s.state = session[p].state /\ s.gen = session[p].gen
        BY <1>2 DEF Sessions
      <4>3. pc = "interrupt.fail" /\ Live(p)
        BY <3>3
      <4> HIDE DEF s, p
      <4> QED
        BY <4>1, <4>2, <4>3
    <3> QED
      BY <1>3, <3>1, <3>2, <3>3
  <2> HIDE DEF p
  <2> QED
    BY <1>2, <2>1 DEF TypeInv, RuntimesOK, Live
<1>9. Calm
  BY <1>1, <1>8 DEF Calm
<1>10. ASSUME Sane PROVE Routes' /\ Retained' /\ Suspects'
  <2>1. Routes' /\ Retained'
    BY <1>1, <1>2, <1>3, <1>4, <1>10 DEF Sane, Routes, Routed, Retained
  <2>2. Suspects'
    BY <1>1, <1>2, <1>3, <1>4, <1>8, <1>10 DEF Sane, Suspects
  <2> QED
    BY <2>1, <2>2
<1> QED
  BY <1>1, <1>4, <1>5, <1>6, <1>7, <1>9, <1>10, Unlocks

-----------------------------------------------------------------------------
(* The invariant holds *)

\* The invariant holds initially.
LEMMA InitC == ASSUME Init PROVE CInv
<1>1. /\ \A f \in Fibers : call[f] = NoCall
      /\ call["source"] = NoCall /\ lock = "free" /\ retained = NoResult
      /\ \A p \in Providers : session[p] = NoSession
  BY DEF Init, Fibers
<1>2. NoCall.pc = "done" /\ NoCall.kind = "none" /\ NoSession.state = "none" /\ ~NoSession.suspect
  BY DEF NoCall, NoSession
<1>3. Who
  BY <1>1, WhoNone DEF Who
<1>4. Locks
  BY <1>1, <1>2, NotFree DEF Locks, Holds, HoldPcs, RunPcs
<1>5. Fenced
  BY <1>1, <1>2 DEF Fenced, Asked, RecoverPcs, InterruptPcs
<1>6. Runs
  BY <1>1, <1>2, NotFree DEF Runs, Coh, Live
<1>7. Routes /\ Retained /\ Suspects
  BY <1>1, <1>2 DEF Routes, Routed, Retained, Suspects
<1> QED
  BY <1>3, <1>4, <1>5, <1>6, <1>7, InitT DEF CInv, Always, Sane

\* Nobody compacts, and every binding can be written.
NoWriteFaultNorCompaction == "write" \notin Faults /\ "compact" \notin Kinds

\* Every step of a call keeps the invariant.
LEMMA StepC == ASSUME CInv, TypeInv', NoWriteFault, NEW f \in Fibers, Step(f) PROVE CInv'
<1>1. CASE StartSession(f)
  <2>1. ~StartUndoes(f)
    BY Parts DEF StartUndoes, At
  <2> QED
    BY <1>1, <2>1, StartEntersC, StartRoutesC, StartStopsOldC, StartStartsC, StartPersistsC,
       StartRestoresC, StartRestoredC DEF StartSession
<1>2. CASE Recover(f)
  BY <1>2, RecoverDrainsC, RecoverSettlesC, RecoverStopsC, RecoverEntersC, RecoverRoutesC, RecoverStartsC,
     RecoverPersistsC DEF Recover
<1>3. CASE Work(f)
  BY <1>3, WorkBeginsC, WorkDisplacesC, WorkReadyC, WorkRoutesC DEF Work
<1>4. CASE SendTurn(f)
  BY <1>4, SendTurnsC, SendReturnsC, SendPersistsC, SendFailsC, SendFinishesC DEF SendTurn
<1>5. ~CompactThread(f)
  BY Parts DEF CompactThread, CompactCompacts, CompactReads, CompactWrites, CompactEnds, CompactPcs, At
<1>6. CASE StopRuntimeSession(f)
  BY <1>6, StopWaitsC, StopEntersC, StopRoutesC, StopStopsC, StopPersistsC DEF StopRuntimeSession
<1>7. CASE StopIdleRuntimeSession(f)
  BY <1>7, IdleLooksC, IdleListsC, IdleFailsC DEF StopIdleRuntimeSession
<1>8. CASE InterruptTurn(f)
  BY <1>8, InterruptEntersC, InterruptRoutesC, InterruptInterruptsC, InterruptEndsC DEF InterruptTurn
<1>9. CASE StopSession(f)
  BY <1>9, DeleteWaitsC, DeleteEntersC, DeleteRoutesC, DeleteStopsC, DeleteRemovesC DEF StopSession
<1>10. CASE ClearSessionResumeCursor(f)
  BY <1>10, ClearWaitsC, ClearEntersC, ClearClearsC, ClearEndsC DEF ClearSessionResumeCursor
<1> QED
  BY <1>1, <1>2, <1>3, <1>4, <1>5, <1>6, <1>7, <1>8, <1>9, <1>10 DEF Step

\* Every step keeps the invariant.
LEMMA NextC == ASSUME CInv, NoWriteFaultNorCompaction, Next PROVE CInv'
<1>1. TypeInv' /\ NoWriteFault
  BY NextT DEF CInv, NoWriteFaultNorCompaction, NoWriteFault
<1>2. CASE Call
  <2>1. ~WorkCalled("client", "compact")
    BY DEF NoWriteFaultNorCompaction, WorkCalled, Calls
  <2> QED
    BY <1>1, <1>2, <2>1, StartCalledC, SendCalledC, RestartCalledC, ReapCalledC, InterruptCalledC, DeleteCalledC,
       ClearCalledC DEF Call
<1>3. CASE TimePasses \/ TimerFires
  BY <1>1, <1>3, TimePassesC, TimerFiresC
<1>4. ASSUME NEW f \in Callers, Step(f) PROVE CInv'
  BY <1>1, <1>4, StepC DEF Callers, Fibers
<1>5. ASSUME NEW p \in Providers, Runtime(p) \/ Gate(p) \/ Apply(p) PROVE CInv'
  BY <1>1, <1>5, TurnEndsC, TaskBeginsC, TaskEndsC, ReportC, DiesC, GateC, ApplyC DEF Runtime
<1> QED
  BY <1>2, <1>3, <1>4, <1>5 DEF Next

\* So does no step.
LEMMA StutterC == ASSUME CInv, UNCHANGED vars PROVE CInv'
<1>1. TypeInv'
  BY StutterT DEF CInv
<1> QED
  BY <1>1, Aside, Still, StillSuspects DEF vars, lifecycle, turnState, history

\* Without failing writes and compactions the invariant of the lifecycle holds: the lock, the
\* run of its holder, the runtimes that live and the row fit together in every state.
THEOREM InductiveInvariant == ASSUME NoWriteFaultNorCompaction PROVE Spec => []CInv
<1>1. CInv /\ [Next]_vars => CInv'
  BY NextC, StutterC
<1> QED
  BY <1>1, InitC, PTL DEF Spec

\* Without failing writes and compactions at most one runtime of the thread lives, and while no
\* run holds the lifecycle lock (keyed coordinator of ProviderService) a runtime that lives is of
\* the published generation and is the one the row names: whatever starts, switches, recoveries,
\* stops, idle stops, interrupts, deletions and runtime exits interleave.
THEOREM CoherentCorrect == ASSUME NoWriteFaultNorCompaction PROVE Spec => []Coherent
<1>1. CInv => Coherent
  <2> SUFFICES ASSUME CInv, ~haunted
               PROVE  /\ OneRuntime
                      /\ lock = "free" => \A p \in Providers : Live(p) =>
                           session[p].gen = current /\ binding.provider = p /\ binding.gen = current
    BY DEF Coherent
  <2>1. TypeInv /\ Who /\ Runs
    BY DEF CInv, Always, Sane
  <2> QED
    BY <2>1, OneLives DEF Runs, Coh
<1> QED
  BY <1>1, InductiveInvariant, PTL

\* What a step makes of a turn.
SameTurns ==
    \A p \in Providers : session'[p].suspect => session'[p].turn \in {NoTurn, session[p].turn}

\* A runtime that is replaced by one that is no suspect, or has the same turn or none, takes no turn as a suspect.
LEMMA ReplacedTurns ==
    ASSUME TypeInv, NEW p, NEW s, session' = [session EXCEPT ![p] = s],
           ~s.suspect \/ p \notin Providers \/ s.turn \in {NoTurn, session[p].turn}
    PROVE  SameTurns
BY DEF SameTurns, TypeInv, RuntimesOK

\* Runtimes that stay take no turn.
LEMMA KeptTurns == ASSUME UNCHANGED session PROVE SameTurns
BY DEF SameTurns

\* A stopped runtime takes no turn.
LEMMA StopTurns ==
    ASSUME TypeInv, NEW p, AdapterStop(p) \/ AdapterStopFails(p) \/ AdapterStartFails(p) PROVE SameTurns
<1>1. \A q \in Providers : session'[q].suspect => session'[q] = session[q]
  BY StopTouches, StartFailsStops
<1> QED
  BY <1>1 DEF SameTurns

\* A started runtime is no suspect.
LEMMA StartTurns ==
    ASSUME TypeInv, NEW p \in Providers, NEW g, AdapterStart(p, g) PROVE SameTurns
BY StartTouches DEF SameTurns

\* When a turn is dispatched no runtime is a suspect.
LEMMA SendTakesNoTurn ==
    ASSUME CInv, Sane, NEW f \in Fibers, SendTurns(f) PROVE \A p \in Providers : ~session[p].suspect
<1>1. call[f].pc = "send.turn" /\ f = "source"
  BY Parts DEF SendTurns, At, SendPcs
<1>2. fence # "failed" /\ call["source"].pc # "interrupt.fail"
  BY <1>1, Parts DEF Fenced, Asked
<1> QED
  BY <1>2, NoSuspects DEF Sane

\* What a runtime does by itself gives it no turn.
LEMMA RuntimeTurns == ASSUME TypeInv, NEW p \in Providers, Runtime(p) PROVE SameTurns
<1>1. session[p] \in Sessions
  BY SessionIn
<1>2. CASE TurnEnds(p)
  <2>1. PICK retires : session' = [session EXCEPT ![p].turn = NoTurn, ![p].retired = @ \/ retires]
    BY <1>2 DEF TurnEnds
  <2> DEFINE s == [session[p] EXCEPT !.turn = NoTurn, !.retired = @ \/ retires]
  <2>2. session' = [session EXCEPT ![p] = s]
    BY <2>1
  <2>3. s.turn = NoTurn
    BY <1>1 DEF Sessions
  <2> HIDE DEF s
  <2> QED
    BY <2>2, <2>3, ReplacedTurns
<1>3. ASSUME NEW live, session' = [session EXCEPT ![p].tasks = live] PROVE SameTurns
  <2> DEFINE s == [session[p] EXCEPT !.tasks = live]
  <2>1. session' = [session EXCEPT ![p] = s]
    BY <1>3
  <2>2. s.turn = session[p].turn
    BY <1>1 DEF Sessions
  <2> HIDE DEF s
  <2> QED
    BY <2>1, <2>2, ReplacedTurns
<1>4. CASE TaskBegins(p)
  <2>1. session' = [session EXCEPT ![p].tasks = session[p].tasks \cup {begun'}]
    BY <1>1, <1>4 DEF TaskBegins
  <2> QED
    BY <1>3, <2>1
<1>6. CASE TaskEnds(p)
  <2>1. PICK task : session' = [session EXCEPT ![p].tasks = session[p].tasks \ {task}]
    BY <1>1, <1>6 DEF TaskEnds
  <2> QED
    BY <1>3, <2>1
<1>5. CASE Dies(p)
  BY <1>5, StopTurns DEF Dies
<1>7. CASE Report(p)
  BY <1>7, KeptTurns DEF Report
<1> QED
  BY <1>2, <1>4, <1>5, <1>6, <1>7 DEF Runtime

\* An interrupt gives no turn.
LEMMA InterruptTurns == ASSUME CInv, NEW f \in Fibers, InterruptInterrupts(f) PROVE SameTurns
<1> DEFINE p == call[f].provider
<1>1. TypeInv /\ p \in Providers /\ session[p] \in Sessions
  BY Parts, CallFields, SessionIn DEF InterruptInterrupts, At, UsesProvider
<1>2. PICK t \in {NoTurn, session[p].turn}, b \in BOOLEAN :
        session' = session \/ session' = [session EXCEPT ![p] = [session[p] EXCEPT !.turn = t, !.suspect = b]]
  <2>1. CASE session' = session
    BY <2>1
  <2>2. CASE session' = [session EXCEPT ![p].turn = NoTurn]
    <3>1. [session[p] EXCEPT !.turn = NoTurn] = [session[p] EXCEPT !.turn = NoTurn, !.suspect = session[p].suspect]
          /\ session[p].suspect \in BOOLEAN
      BY <1>1 DEF Sessions
    <3>2. session' = [session EXCEPT ![p] = [session[p] EXCEPT !.turn = NoTurn]]
      BY <2>2
    <3> QED
      BY <3>1, <3>2
  <2>3. CASE session' = [session EXCEPT ![p].suspect = TRUE]
    <3>1. [session[p] EXCEPT !.suspect = TRUE] = [session[p] EXCEPT !.turn = session[p].turn, !.suspect = TRUE]
      BY <1>1 DEF Sessions
    <3>2. session' = [session EXCEPT ![p] = [session[p] EXCEPT !.suspect = TRUE]]
      BY <2>3
    <3> QED
      BY <3>1, <3>2
  <2> QED
    BY <2>1, <2>2, <2>3 DEF InterruptInterrupts
<1> DEFINE s == [session[p] EXCEPT !.turn = t, !.suspect = b]
<1>3. s.turn = t
  BY <1>1 DEF Sessions
<1>4. session' = session \/ session' = [session EXCEPT ![p] = s]
  BY <1>2
<1> HIDE DEF s, p
<1> QED
  BY <1>1, <1>2, <1>3, <1>4, KeptTurns, ReplacedTurns

\* A start gives no turn.
LEMMA StartStepTurns == ASSUME CInv, NEW f \in Fibers, StartSession(f) PROVE SameTurns
<1>1. CASE StartEnters(f) \/ StartRoutes(f) \/ StartPersists(f) \/ StartRestored(f)
  BY <1>1, KeptTurns DEF StartEnters, StartRoutes, StartPersists, StartRestored
<1>2. CASE StartStopsOld(f) \/ StartUndoes(f)
  BY <1>2, Parts, StopTurns DEF StartStopsOld, StartUndoes
<1>3. CASE StartStarts(f)
  <2>1. call[f].provider \in Providers
    BY <1>3, Parts, CallFields DEF StartStarts, At, UsesProvider, StartPcs
  <2> QED
    BY <1>3, <2>1, Parts, StopTurns, StartTurns DEF StartStarts
<1>4. CASE StartRestores(f)
  <2>1. call[f].snap.provider \in Providers
    BY <1>4, Parts, CallFields DEF StartRestores, At, UsesRow
  <2> QED
    BY <1>4, <2>1, Parts, StopTurns, StartTurns DEF StartRestores
<1> QED
  BY <1>1, <1>2, <1>3, <1>4 DEF StartSession

\* A recovery gives no turn.
LEMMA RecoverStepTurns == ASSUME CInv, NEW f \in Fibers, Recover(f) PROVE SameTurns
<1>1. CASE RecoverDrains(f) \/ RecoverSettles(f) \/ RecoverEnters(f) \/ RecoverRoutes(f) \/ RecoverPersists(f)
  BY <1>1, KeptTurns DEF RecoverDrains, RecoverSettles, RecoverEnters, RecoverRoutes, RecoverPersists
<1>2. CASE RecoverStops(f)
  BY <1>2, Parts, StopTurns DEF RecoverStops
<1>3. CASE RecoverStarts(f)
  <2>1. call[f].provider \in Providers
    BY <1>3, Parts, CallFields DEF RecoverStarts, At, UsesProvider
  <2> QED
    BY <1>3, <2>1, Parts, StopTurns, StartTurns DEF RecoverStarts
<1> QED
  BY <1>1, <1>2, <1>3 DEF Recover

\* A clearing gives no turn.
LEMMA ClearTurns == ASSUME CInv, NEW f \in Fibers, ClearClears(f) PROVE SameTurns
<1>1. UNCHANGED session \/ AdapterStop(binding.provider) \/ AdapterStopFails(binding.provider)
  BY DEF ClearClears
<1> QED
  BY <1>1, Parts, KeptTurns, StopTurns

\* Only a dispatch gives a turn.
LEMMA StepTurns ==
    ASSUME CInv, NEW f \in Fibers, Step(f) PROVE SameTurns \/ SendTurns(f)
<1>1. CASE StartSession(f) \/ Recover(f)
  BY <1>1, StartStepTurns, RecoverStepTurns
<1>2. CASE Work(f)
  BY <1>2, KeptTurns DEF Work, WorkBegins, WorkDisplaces, WorkReady, WorkRoutes
<1>3. CASE SendTurn(f)
  BY <1>3, KeptTurns DEF SendTurn, SendReturns, SendPersists, SendFails, SendFinishes
<1>4. CASE CompactThread(f)
  BY <1>4, KeptTurns DEF CompactThread, CompactCompacts, CompactReads, CompactWrites, CompactEnds
<1>5. CASE StopRuntimeSession(f)
  <2>1. CASE StopStops(f)
    BY <2>1, Parts, KeptTurns, StopTurns DEF StopStops
  <2> QED
    BY <1>5, <2>1, KeptTurns DEF StopRuntimeSession, StopWaits, StopEnters, StopRoutes, StopPersists
<1>6. CASE StopIdleRuntimeSession(f)
  BY <1>6, KeptTurns DEF StopIdleRuntimeSession, IdleLooks, IdleLists, IdleFails
<1>7. CASE InterruptTurn(f)
  BY <1>7, KeptTurns, InterruptTurns DEF InterruptTurn, InterruptEnters, InterruptRoutes, InterruptEnds
<1>8. CASE StopSession(f)
  <2>1. CASE DeleteStops(f)
    BY <2>1, Parts, StopTurns DEF DeleteStops
  <2> QED
    BY <1>8, <2>1, KeptTurns DEF StopSession, DeleteWaits, DeleteEnters, DeleteRoutes, DeleteRemoves
<1>9. CASE ClearSessionResumeCursor(f)
  BY <1>9, KeptTurns, ClearTurns DEF ClearSessionResumeCursor, ClearWaits, ClearEnters, ClearEnds
<1> QED
  BY <1>1, <1>2, <1>3, <1>4, <1>5, <1>6, <1>7, <1>8, <1>9 DEF Step

\* So does every other step.
LEMMA NextTurns ==
    ASSUME CInv, Next PROVE SameTurns \/ \E f \in Fibers : SendTurns(f)
<1>1. CASE Call
  BY <1>1, KeptTurns DEF Call, StartCalled, WorkCalled, RestartCalled, ReapCalled, InterruptCalled,
     DeleteCalled, ClearCalled
<1>2. CASE TimePasses \/ TimerFires
  BY <1>2, KeptTurns DEF TimePasses, TimerFires
<1>3. ASSUME NEW f \in Callers, Step(f) PROVE SameTurns \/ \E g \in Fibers : SendTurns(g)
  BY <1>3, StepTurns DEF Callers, Fibers
<1>4. ASSUME NEW p \in Providers, Runtime(p) \/ Gate(p) \/ Apply(p) PROVE SameTurns
  BY <1>4, RuntimeTurns, KeptTurns DEF CInv, Gate, Apply
<1> QED
  BY <1>1, <1>2, <1>3, <1>4 DEF Next

\* Without failing writes and compactions a runtime whose interrupt failed is handed no turn: the
\* fence that the interrupt leaves (interruptTurn) refuses a dispatch until a start has replaced
\* the runtime, and the source, which makes one call at a time, has none beyond the fence then.
THEOREM SuspectTakesNoTurnCorrect == ASSUME NoWriteFaultNorCompaction PROVE Spec => SuspectTakesNoTurn
<1> DEFINE A == \A p \in Providers : ~haunted /\ session[p].suspect /\ session'[p].suspect
                  => session'[p].turn \in {NoTurn, session[p].turn}
<1>1. CInv /\ [Next]_vars => [A]_vars
  <2> SUFFICES ASSUME CInv, Next PROVE A
    OBVIOUS
  <2>1. CASE SameTurns
    BY <2>1 DEF SameTurns
  <2>2. ASSUME NEW f \in Fibers, SendTurns(f) PROVE A
    BY <2>2, SendTakesNoTurn DEF CInv
  <2> QED
    BY <2>1, <2>2, NextTurns
<1> QED
  BY <1>1, InductiveInvariant, PTL DEF Spec, SuspectTakesNoTurn
================================================================================
