------------------------------ MODULE Signals -------------------------------
(***************************************************************************)
(* Series, filters, control loops and diagnostics while they are added,    *)
(* changed and deleted under running acquisition.                          *)
(*                                                                         *)
(*   - The runtime thread executes one command at a time.  A command       *)
(*     changes the series store, which it shares, and asks the processing  *)
(*     thread, which owns the graph, the registry and the diagnostics; the *)
(*     two agree only between commands.                                    *)
(*   - Connection workers sample raw series and queue the samples.         *)
(*   - The processing thread passes each sample to the loops and filters   *)
(*     it feeds.  It can be gone; then all that is asked of it fails.      *)
(*                                                                         *)
(* A request the runtime waits for is answered behind the samples queued   *)
(* before it; a sample processed after it may as well have been queued     *)
(* after it, so a request is one step that samples surround.               *)
(***************************************************************************)
EXTENDS SignalGraph, Sequences

CONSTANTS
  Controllers,   \* names of control loops
  MaxRevisions,  \* bound: replacements of a filter that discard its state
  MaxSamples     \* bound: samples waiting for the processing thread

ASSUME SignalsAssumption == MaxRevisions \in Nat /\ MaxSamples \in Nat

VARIABLES
  store,          \* the series that exist, by identity
  next_id,        \* the identity the next series gets
  graph,          \* the filters
  registry,       \* the control loops, by name
  bindings,       \* the diagnostics computed: which loop feeds which series
  samples,        \* raw series whose samples the processing thread will take
  processing_up,  \* the processing thread answers
  task            \* the command the runtime is executing

vars == <<store, next_id, graph, registry, bindings, samples, processing_up, task>>

-----------------------------------------------------------------------------
Series ==
       [source : {"Raw", "ControllerDiagnostic"}]
  \cup [source : {"Filtered"}, input : Signal, kind : FilterKind]
RawSeries == [source |-> "Raw"]
DiagnosticSeries == [source |-> "ControllerDiagnostic"]
FilteredSeries(input, kind) == [source |-> "Filtered", input |-> input, kind |-> kind]

\* What a loop's derivative refers to: the stamp of its last measurement.
NoBaseline == <<0, 0>>
\* safe: the last write of the loop's output was its confirmed safe value.
Loop ==
  [input : Signal, state : {"Running", "Paused"}, baseline : (0 .. MaxSignal) \X Nat,
   safe : BOOLEAN]
NewLoop(input) ==
  [input |-> input, state |-> "Running", baseline |-> NoBaseline, safe |-> FALSE]

Resynchronized(loop) == [loop EXCEPT !.baseline = NoBaseline]

Binding == [controller : Controllers, output : Signal]

\* todo: loops still to be paused.  removed: outputs the processing thread has
\* dropped, whose series are to follow.
Operation == {"none", "AddFilter", "AddDiagnostic", "Delete", "Clear", "Remove", "Pause"}
Task(operation, signal, todo) ==
  [operation |-> operation, signal |-> signal, controller |-> "", todo |-> todo,
   removed |-> {}]
NoTask == Task("none", 0, {})
Idle == task.operation = "none"

Init ==
  /\ store = [s \in {} |-> RawSeries]
  /\ next_id = 1
  /\ graph = EmptyGraph
  /\ registry = [c \in {} |-> NewLoop(1)]
  /\ bindings = {}
  /\ samples = <<>>
  /\ processing_up = TRUE
  /\ task = NoTask

-----------------------------------------------------------------------------
(***************************************************************************)
(* The store.  A command names a series and finds its identity, which is   *)
(* never used again.                                                       *)
(***************************************************************************)
Without(table, keys) == [k \in DOMAIN table \ keys |-> table[k]]
With(table, key, value) ==
  [k \in DOMAIN table \cup {key} |-> IF k = key THEN value ELSE table[k]]

AddSeries(series) ==
  /\ next_id <= MaxSignal
  /\ store' = With(store, next_id, series)
  /\ next_id' = next_id + 1

RemoveSeries(ids) == store' = Without(store, ids)
IdByName(s) == s \in DOMAIN store

-----------------------------------------------------------------------------
(***************************************************************************)
(* The registry.                                                           *)
(***************************************************************************)
NamesFrom(signals) == {c \in DOMAIN registry : registry[c].input \in signals}

ResynchronizeFrom(loops, signals) ==
  [c \in DOMAIN loops |->
     IF loops[c].input \in signals THEN Resynchronized(loops[c]) ELSE loops[c]]

SetLoop(c, loop) == registry' = [registry EXCEPT ![c] = loop]

\* Mutant: the loops of the signal itself, not of what is computed from it.
AffectedDirectly(signal) == NamesFrom({signal})

\* The preview of a removal: loops on the signal or on anything downstream.
ControllersAffectedByRemoval(signal) ==
  NamesFrom({signal} \cup RemovalSetFrom(graph, signal))

-----------------------------------------------------------------------------
(***************************************************************************)
(* Commands that one request or one store operation completes.             *)
(***************************************************************************)
AddRaw ==
  /\ Idle
  /\ AddSeries(RawSeries)
  /\ UNCHANGED <<graph, registry, bindings, samples, processing_up, task>>

\* ReplaceFilter in the processing thread: controllers are resynchronized on
\* everything the removal of the output would take.
ReplacedLoops(output, kind) ==
  IF Preserves(graph[output], kind) THEN registry
  ELSE ResynchronizeFrom(registry, RemovalSetFrom(graph, output))

\* The stored definition follows the filter; it is there, since only this
\* thread removes series, so the rollback of the code is never taken.
SetFilter(s, kind) ==
  /\ Idle /\ processing_up
  /\ IdByName(s) /\ store[s].source = "Filtered" /\ s \in Outputs(graph)
  /\ graph[s].revision < MaxRevisions
  /\ graph' = ReplaceFilter(graph, s, kind)
  /\ registry' = ReplacedLoops(s, kind)
  /\ store' = [store EXCEPT ![s].kind = kind]
  /\ UNCHANGED <<next_id, bindings, samples, processing_up, task>>

AddController(c, input) ==
  /\ Idle /\ processing_up
  /\ IdByName(input)
  /\ c \notin DOMAIN registry
  /\ registry' = With(registry, c, NewLoop(input))
  /\ UNCHANGED <<store, next_id, graph, bindings, samples, processing_up, task>>

\* ControlLoop::set_input.
Moved(loop, input) ==
  IF loop.input = input THEN loop ELSE Resynchronized([loop EXCEPT !.input = input])

SetControllerInput(c, input) ==
  /\ Idle /\ processing_up
  /\ IdByName(input) /\ c \in DOMAIN registry
  /\ SetLoop(c, Moved(registry[c], input))
  /\ UNCHANGED <<store, next_id, graph, bindings, samples, processing_up, task>>

\* Whether the output service grants the takeover is not for this module.
ResumeController(c) ==
  /\ Idle /\ processing_up
  /\ c \in DOMAIN registry /\ registry[c].state = "Paused"
  /\ SetLoop(c, [Resynchronized(registry[c]) EXCEPT !.state = "Running", !.safe = FALSE])
  /\ UNCHANGED <<store, next_id, graph, bindings, samples, processing_up, task>>

\* Replacing the reference or resetting the loop.
RestartLoop(c) ==
  /\ Idle /\ processing_up
  /\ c \in DOMAIN registry
  /\ SetLoop(c, Resynchronized(registry[c]))
  /\ UNCHANGED <<store, next_id, graph, bindings, samples, processing_up, task>>

-----------------------------------------------------------------------------
(***************************************************************************)
(* Commands that add a derived series: the store first, then processing,   *)
(* and the series is taken back if processing refuses.                     *)
(***************************************************************************)
TakenBack == RemoveSeries({task.signal})

BeginAddFilter(input, kind) ==
  /\ Idle
  /\ IdByName(input)
  /\ AddSeries(FilteredSeries(input, kind))
  /\ task' = Task("AddFilter", next_id, {})
  /\ UNCHANGED <<graph, registry, bindings, samples, processing_up>>

InstallFilter ==
  LET s == task.signal
      series == store[s]
      result == AddFilterResult(graph, series.input, s)
  IN /\ task.operation = "AddFilter"
     /\ task' = NoTask
     /\ IF processing_up /\ result = "ok"
        THEN graph' = AddFilter(graph, series.input, s, series.kind) /\ UNCHANGED store
        ELSE TakenBack /\ UNCHANGED graph
     /\ UNCHANGED <<next_id, registry, bindings, samples, processing_up>>

BeginAddDiagnostic(c) ==
  /\ Idle
  /\ AddSeries(DiagnosticSeries)
  /\ task' = [Task("AddDiagnostic", next_id, {}) EXCEPT !.controller = c]
  /\ UNCHANGED <<graph, registry, bindings, samples, processing_up>>

\* add_controller_diagnostic of the processing thread.
DiagnosticAccepted(c, output) ==
  /\ c \in DOMAIN registry
  /\ output \notin Outputs(graph) \cup {b.output : b \in bindings}

InstallDiagnostic ==
  LET c == task.controller
  IN /\ task.operation = "AddDiagnostic"
     /\ task' = NoTask
     /\ IF processing_up /\ DiagnosticAccepted(c, task.signal)
        THEN /\ bindings' = bindings \cup {[controller |-> c, output |-> task.signal]}
             /\ UNCHANGED store
        ELSE TakenBack /\ UNCHANGED bindings
     /\ UNCHANGED <<next_id, graph, registry, samples, processing_up>>

-----------------------------------------------------------------------------
(***************************************************************************)
(* Commands that pause loops safely before they remove them.               *)
(***************************************************************************)
BeginPausing(operation, signal, loops) ==
  /\ Idle /\ processing_up
  /\ task' = Task(operation, signal, loops)
  /\ UNCHANGED <<store, next_id, graph, registry, bindings, samples, processing_up>>

Delete(s) == IdByName(s) /\ BeginPausing("Delete", s, ControllersAffectedByRemoval(s))
Clear == BeginPausing("Clear", 0, DOMAIN registry)
PauseController(c) == c \in DOMAIN registry /\ BeginPausing("Pause", 0, {c})
RemoveController(c) ==
  /\ Idle /\ processing_up
  /\ c \in DOMAIN registry
  /\ task' = [Task("Remove", 0, {c}) EXCEPT !.controller = c]
  /\ UNCHANGED <<store, next_id, graph, registry, bindings, samples, processing_up>>

\* The first loop that cannot be made safe ends the command; the loops paused
\* before it stay paused.
AfterPause(c, written) ==
  IF ~written \/ ~processing_up \/ (task.operation = "Pause" /\ task.todo = {c}) THEN NoTask
  ELSE [task EXCEPT !.todo = @ \ {c}]

\* pause_controller_safely: computation is paused even if the safe write fails.
PauseNext ==
  /\ \E c \in task.todo, written \in BOOLEAN :
       /\ task' = AfterPause(c, written)
       /\ IF processing_up
          THEN SetLoop(c, [registry[c] EXCEPT !.state = "Paused", !.safe = written])
          ELSE UNCHANGED registry
  /\ UNCHANGED <<store, next_id, graph, bindings, samples, processing_up>>

AllPaused(operation) == task.operation = operation /\ task.todo = {} /\ task.removed = {}

\* RemoveFrom in the processing thread.  Diagnostics of the loops it removes
\* go with them, but not what is fed by those diagnostics.
RemoveBranch ==
  LET s == task.signal
      removed == RemovalSetFrom(graph, s)
      loops == NamesFrom({s} \cup removed)
      silenced == {b \in bindings : b.controller \in loops}
  IN /\ AllPaused("Delete")
     /\ IF processing_up
        THEN /\ graph' = RemoveFrom(graph, s)
             /\ registry' = Without(registry, loops)
             /\ bindings' = {b \in bindings : b.output # s} \ silenced
             /\ task' = [task EXCEPT !.removed = {s} \cup removed
                                       \cup {b.output : b \in silenced}]
        ELSE task' = NoTask /\ UNCHANGED <<graph, registry, bindings>>
     /\ UNCHANGED <<store, next_id, samples, processing_up>>

\* Mutant: the series of dependents stay.
OnlyNamed(removed) == {task.signal}

Forgotten(removed) == removed

RemoveSeriesOfBranch ==
  /\ task.removed # {}
  /\ RemoveSeries(Forgotten(task.removed))
  /\ task' = NoTask
  /\ UNCHANGED <<next_id, graph, registry, bindings, samples, processing_up>>

\* Clear in the processing thread, and then the store.
ClearProcessing ==
  /\ AllPaused("Clear")
  /\ IF processing_up
     THEN /\ graph' = EmptyGraph
          /\ registry' = Without(registry, DOMAIN registry)
          /\ bindings' = {}
          /\ store' = Without(store, DOMAIN store)
     ELSE UNCHANGED <<store, graph, registry, bindings>>
  /\ task' = NoTask
  /\ UNCHANGED <<next_id, samples, processing_up>>

Unbound(c) == {b \in bindings : b.controller # c}

\* RemoveController in the processing thread: its diagnostic series remain.
DetachLoop ==
  LET c == task.controller
  IN /\ AllPaused("Remove")
     /\ IF processing_up
        THEN registry' = Without(registry, {c}) /\ bindings' = Unbound(c)
        ELSE UNCHANGED <<registry, bindings>>
     /\ task' = NoTask
     /\ UNCHANGED <<store, next_id, graph, samples, processing_up>>

-----------------------------------------------------------------------------
(***************************************************************************)
(* Samples.                                                                *)
(***************************************************************************)
\* A worker has stored a sample of the series and hands it on.
Sample(s) ==
  /\ IdByName(s) /\ store[s].source = "Raw"
  /\ Len(samples) < MaxSamples
  /\ samples' = Append(samples, s)
  /\ UNCHANGED <<store, next_id, graph, registry, bindings, processing_up, task>>

\* Loops on a signal that passed see its measurement, if they are running.
Computed(signals) ==
  LET stamp == Stamps(graph)
      sees(loop) == loop.state = "Running" /\ loop.input \in signals
  IN [c \in DOMAIN registry |->
        IF sees(registry[c])
        THEN [registry[c] EXCEPT !.safe = FALSE,
                !.baseline = <<registry[c].input, stamp[registry[c].input]>>]
        ELSE registry[c]]

TakeSample ==
  /\ processing_up /\ samples # <<>>
  /\ samples' = Tail(samples)

\* The loops on the raw signal first, then the graph, then the loops on what
\* it computed.
Process ==
  LET s == Head(samples)
  IN /\ TakeSample
     /\ registry' = Computed({s} \cup Reach(graph, s))
     /\ graph' = Pass(graph, s, Reach(graph, s))
     /\ UNCHANGED <<store, next_id, bindings, processing_up, task>>

\* A filter refuses its input: nothing the graph computed goes any further.
ProcessFails ==
  LET s == Head(samples)
  IN /\ TakeSample
     /\ \E done \in Interrupted(graph, s) : graph' = Pass(graph, s, done)
     /\ registry' = Computed({s})
     /\ UNCHANGED <<store, next_id, bindings, processing_up, task>>

ProcessingEnds ==
  /\ processing_up
  /\ processing_up' = FALSE
  /\ UNCHANGED <<store, next_id, graph, registry, bindings, samples, task>>

-----------------------------------------------------------------------------
Next ==
  \/ AddRaw
  \/ \E s \in Signal, kind \in FilterKind : BeginAddFilter(s, kind) \/ SetFilter(s, kind)
  \/ InstallFilter
  \/ \E c \in Controllers, s \in Signal : AddController(c, s) \/ SetControllerInput(c, s)
  \/ \E c \in Controllers :
       \/ ResumeController(c)
       \/ RestartLoop(c)
       \/ BeginAddDiagnostic(c)
       \/ RemoveController(c)
       \/ PauseController(c)
  \/ InstallDiagnostic
  \/ \E s \in Signal : Delete(s)
  \/ Clear
  \/ PauseNext
  \/ RemoveBranch
  \/ RemoveSeriesOfBranch
  \/ ClearProcessing
  \/ DetachLoop
  \/ \E s \in Signal : Sample(s)
  \/ Process
  \/ ProcessFails
  \/ ProcessingEnds

Spec == Init /\ [][Next]_vars

-----------------------------------------------------------------------------
(***************************************************************************)
(* Properties.                                                             *)
(***************************************************************************)
TypeOK ==
  /\ next_id \in 1 .. MaxSignal + 1
  /\ DOMAIN store \subseteq Signal /\ \A s \in DOMAIN store : store[s] \in Series
  /\ DOMAIN graph \subseteq Signal /\ \A s \in DOMAIN graph : graph[s] \in Node
  /\ DOMAIN registry \subseteq Controllers
  /\ \A c \in DOMAIN registry : registry[c] \in Loop
  /\ bindings \subseteq Binding
  /\ samples \in Seq(Signal)
  /\ processing_up \in BOOLEAN
  /\ task.operation \in Operation /\ task.todo \subseteq Controllers
  /\ task.removed \subseteq Signal

\* No filter's window and no loop's derivative ever spans a replacement of a
\* filter it depends on, however far upstream, or a change of input: a reset
\* reaches every dependent (replace_filter, resynchronize_from, set_input),
\* whatever samples were queued meanwhile.
NothingSpansAReplacement ==
  LET stamp == Stamps(graph)
  IN /\ HistoriesAreCurrent(graph)
     /\ \A c \in DOMAIN registry :
          LET loop == registry[c]
          IN loop.baseline \in {NoBaseline, <<loop.input, stamp[loop.input]>>}

FiltersAreInStore ==
  /\ {s \in DOMAIN store : store[s].source = "Filtered"} = Outputs(graph)
  /\ \A s \in Outputs(graph) :
       store[s].input = graph[s].input /\ store[s].kind = graph[s].kind

BindingsAreLive ==
  \A b \in bindings : b.controller \in DOMAIN registry /\ b.output \in DOMAIN store

\* Between commands the store and the processing thread describe the same
\* filters, although each command changes them one after the other and may
\* fail in between (add_filter, set_filter, delete_series, clear_series); and
\* every diagnostic that is computed belongs to a loop that exists and goes to
\* a series that exists, in spite of four ways to remove either (RemoveFrom,
\* RemoveController, Clear, the rollback of an addition).
StoreMatchesGraph == Idle /\ processing_up => FiltersAreInStore /\ BindingsAreLive

\* A loop is removed only while it is paused with its safe value confirmed:
\* the preview of delete_series covers every loop that RemoveFrom then drops.
OnlySafeLoopsAreRemoved ==
  [][\A c \in DOMAIN registry \ DOMAIN registry' :
       registry[c].state = "Paused" /\ registry[c].safe]_vars

\* What remains is fed by something that exists.
EverythingIsFed ==
  Idle /\ processing_up =>
    /\ \A s \in Outputs(graph) : graph[s].input \in DOMAIN store
    /\ \A c \in DOMAIN registry : registry[c].input \in DOMAIN store

=============================================================================
