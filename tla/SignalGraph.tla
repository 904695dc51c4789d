---------------------------- MODULE SignalGraph -----------------------------
(***************************************************************************)
(* The filter graph of the processing thread, as operators from one graph  *)
(* to the next.  Every node is the filter that computes one output from    *)
(* one input, so a graph is a function from outputs to nodes, and the      *)
(* table outputs_by_input of the code is its inverse.                      *)
(*                                                                         *)
(* What a filter has seen is its `history`: the stamps of the samples in   *)
(* it.  The stamp of a signal counts the replacements, along the whole     *)
(* path from its raw series, that changed what its samples mean; samples   *)
(* with different stamps must never be mixed in one history.               *)
(***************************************************************************)
EXTENDS Naturals, FiniteSets

CONSTANT MaxSignal   \* bound: identities handed out

ASSUME SignalGraphAssumption == MaxSignal \in Nat

Signal == 1 .. MaxSignal

\* The kinds of filter: only an exponential one can be retuned in place.
FilterKind == {"Exponential", "Windowed"}

\* revision is not in the code: the replacements that discarded the state.
Node == [input : Signal, kind : FilterKind, revision : Nat, history : SUBSET Nat]
NewNode(input, kind) ==
  [input |-> input, kind |-> kind, revision |-> 0, history |-> {}]

EmptyGraph == [s \in {} |-> NewNode(s, "Windowed")]

Outputs(graph) == DOMAIN graph
DependentsOf(graph, signals) == {o \in Outputs(graph) : graph[o].input \in signals}

\* The outputs at most n filters away from a signal, and all of them.
Reach(graph, signal) ==
  LET within[n \in 0 .. MaxSignal] ==
        IF n = 0 THEN DependentsOf(graph, {signal})
        ELSE within[n - 1] \cup DependentsOf(graph, within[n - 1])
  IN within[MaxSignal]

WouldCreateCycle(graph, input, output) ==
  input = output \/ input \in Reach(graph, output)

\* Why add_filter refuses, "ok" if it does not.
AddFilterResult(graph, input, output) ==
  IF output \in Outputs(graph) THEN "DuplicateOutput"
  ELSE IF WouldCreateCycle(graph, input, output) THEN "Cycle" ELSE "ok"

AddFilter(graph, input, output, kind) ==
  [o \in Outputs(graph) \cup {output} |->
     IF o = output THEN NewNode(input, kind) ELSE graph[o]]

\* Mutant: dependents keep the samples they have.
ResetNothing(graph, signal) == graph

\* Everything downstream of the signal forgets its samples.
ResetFrom(graph, signal) ==
  [o \in Outputs(graph) |->
     IF o \in Reach(graph, signal)
     THEN [graph[o] EXCEPT !.history = {}] ELSE graph[o]]

\* SignalFilter::reconfigure: the time constant of an exponential filter is
\* retuned with its output and clock kept; anything else starts afresh.
Preserves(node, kind) == node.kind = "Exponential" /\ kind = "Exponential"

ReplaceFilter(graph, output, kind) ==
  LET node == graph[output]
      fresh == [node EXCEPT !.kind = kind, !.revision = node.revision + 1, !.history = {}]
  IN IF Preserves(node, kind) THEN graph
     ELSE ResetFrom([graph EXCEPT ![output] = fresh], output)

\* The outputs that go when the signal goes, itself if it is one.
RemovalSetFrom(graph, signal) ==
  ({signal} \cap Outputs(graph)) \cup Reach(graph, signal)

RemoveFrom(graph, signal) ==
  [o \in Outputs(graph) \ RemovalSetFrom(graph, signal) |-> graph[o]]

\* The revisions on the path from a raw series to the signal.  Identities are
\* handed out in order, so an input is smaller than its output.
Stamps(graph) ==
  LET stamp[s \in 0 .. MaxSignal] ==
        IF s \in Outputs(graph)
        THEN graph[s].revision + stamp[IF graph[s].input < s THEN graph[s].input ELSE 0]
        ELSE 0
  IN stamp

\* A sample of the signal passes through the outputs of `done`: all that are
\* downstream, or those before the filter that refuses its input.
Pass(graph, signal, done) ==
  LET stamp == Stamps(graph)
  IN [o \in Outputs(graph) |->
        IF o \in done
        THEN [graph[o] EXCEPT !.history = @ \cup {stamp[o]}] ELSE graph[o]]

\* What can have passed when a filter refuses: inputs come before outputs, and
\* the one that refuses is not there.
Interrupted(graph, signal) ==
  {done \in SUBSET Reach(graph, signal) :
     /\ done # Reach(graph, signal)
     /\ \A o \in done : graph[o].input \in done \cup {signal}}

\* No history mixes samples of before and after a replacement.
HistoriesAreCurrent(graph) ==
  LET stamp == Stamps(graph)
  IN \A o \in Outputs(graph) : graph[o].history \subseteq {stamp[o]}

=============================================================================
