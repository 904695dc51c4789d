--------------------------- MODULE ScenarioScripts ---------------------------
(***************************************************************************)
(* How scripts build one scenario (LuaScenarioHandle of lua_api/           *)
(* scenarios.rs) and what the scenario service keeps of it.  A handle      *)
(* refuses what it can see to be wrong and sends the rest as commands; it  *)
(* only knows of its own calls, and the service only of the id, so several *)
(* handles build the same scenario and the service checks again.           *)
(*                                                                         *)
(* Here are the definitions of a run and the way through its stages; how   *)
(* callbacks, actions and the end of a run interleave is in Scenario.      *)
(***************************************************************************)
EXTENDS ScenarioTables, SequencesExt

CONSTANTS
  Calls,       \* Methods called with their arguments.
  Values,      \* A range of values wide enough for every condition in Calls.
  MaxHandles, MaxCalls  \* Bounds.

VARIABLE scripts  \* handles, queue (to the service), run (<< >> or <<Run>>), calls

NewHandle == [names |-> {}, targets |-> {}, started |-> FALSE, handlers |-> {}]

\* current: the stage entered last, if any; entering: its transitions are not
\* armed yet; busy: a callback is in flight; a wait that leads to stages names
\* the one of each trigger.
NewRun == [stages |-> << >>, started |-> FALSE, current |-> << >>, entering |-> FALSE,
           busy |-> FALSE, waits |-> << >>, closed |-> FALSE, handlers |-> {}]

-----------------------------------------------------------------------------
(* The handle. *)

Timers == {"after", "at"}
Handlers == {"on_stop", "on_error"}
Endings == {"complete", "stop", "cancel"}
IsText(text) == text \notin Blank
IsDuration(seconds) == seconds # NotFinite /\ seconds >= 0

TriggersOf(stage) == [i \in DOMAIN stage |-> stage[i].trigger]
NextOf(stage) == [i \in DOMAIN stage |-> stage[i].next]
TargetsOf(stage) == {stage[i].next : i \in DOMAIN stage}

Accepts(handle, call) ==
  CASE call.method \in Timers -> IsDuration(call.time) /\ IsText(call.callback)
    [] call.method = "when" -> IsCondition(call.table) /\ IsText(call.callback)
    [] call.method = "race" -> IsRace(call.array)
    [] call.method = "stage" ->
         /\ ~handle.started
         /\ call.name \in Identifiers /\ call.name \notin handle.names
         /\ IsStage(call.table)
    [] call.method = "start" ->
         /\ ~handle.started
         /\ call.name \in handle.names
         /\ handle.targets \subseteq handle.names
    [] call.method \in Handlers -> call.method \notin handle.handlers /\ IsText(call.callback)
    [] call.method \in {"complete", "stop"} -> IsText(call.reason)
    [] call.method = "cancel" -> TRUE

\* What the handle remembers of a call it has sent.
Remembers(handle, call) ==
  CASE call.method = "stage" ->
         [handle EXCEPT !.names = @ \cup {call.name},
                        !.targets = @ \cup TargetsOf(Stage(call.table))]
    [] call.method = "start" -> [handle EXCEPT !.started = TRUE]
    [] call.method \in Handlers -> [handle EXCEPT !.handlers = @ \cup {call.method}]
    [] OTHER -> handle

Command(call) ==
  CASE call.method \in Timers ->
         [kind |-> "wait", triggers |-> <<[kind |-> call.method, time |-> call.time]>>]
    [] call.method = "when" ->
         [kind |-> "wait", triggers |-> <<[kind |-> "when", nodes |-> Nodes(call.table)]>>]
    [] call.method = "race" -> [kind |-> "wait", triggers |-> Race(call.array)]
    [] call.method = "stage" ->
         [kind |-> "stage", name |-> call.name, stage |-> Stage(call.table)]
    [] call.method = "start" -> [kind |-> "start", name |-> call.name]
    [] call.method \in Handlers -> [kind |-> "handler", handler |-> call.method]
    [] call.method \in Endings -> [kind |-> call.method]

-----------------------------------------------------------------------------
(* The service. *)

\* Mutant: a stage may be defined while the stages run.
DefineStageAnyTime(run, command) ==
  IF command.name \in DOMAIN run.stages THEN run
  ELSE [run EXCEPT !.stages = @ @@ (command.name :> command.stage)]

DefineStage(run, command) ==
  IF run.started \/ command.name \in DOMAIN run.stages THEN run
  ELSE [run EXCEPT !.stages = @ @@ (command.name :> command.stage)]

CanStart(run, name) ==
  /\ ~run.started /\ ~run.busy
  /\ name \in DOMAIN run.stages
  /\ \A source \in DOMAIN run.stages : TargetsOf(run.stages[source]) \subseteq DOMAIN run.stages

Enter(run, name) ==
  [run EXCEPT !.current = <<name>>, !.entering = TRUE, !.busy = TRUE]

StartStage(run, name) ==
  IF CanStart(run, name) THEN Enter([run EXCEPT !.started = TRUE], name) ELSE run

\* Finalization waits for a callback underway; its result is still reported.
Close(run) == [run EXCEPT !.closed = TRUE, !.waits = << >>, !.entering = FALSE]
Cancel(run) == [Close(run) EXCEPT !.busy = FALSE]

Executed(run, command) ==
  IF command.kind = "register" THEN <<NewRun>>
  ELSE IF run = << >> THEN run
  ELSE IF command.kind = "cancel" THEN <<Cancel(run[1])>>
  ELSE IF run[1].closed THEN run
  ELSE CASE command.kind = "wait" -> <<[run[1] EXCEPT !.waits = Append(@, [triggers |-> command.triggers, next |-> << >>])]>>
         [] command.kind = "stage" -> <<DefineStage(run[1], command)>>
         [] command.kind = "start" -> <<StartStage(run[1], command.name)>>
         [] command.kind = "handler" ->
              <<[run[1] EXCEPT !.handlers = @ \cup {command.handler}]>>
         [] command.kind \in {"complete", "stop"} -> <<Close(run[1])>>

-----------------------------------------------------------------------------
Init == scripts = [handles |-> << >>, queue |-> << >>, run |-> << >>, calls |-> 0]

\* app.scenario{id = ...}
CreateHandle ==
  /\ Len(scripts.handles) < MaxHandles
  /\ scripts' = [scripts EXCEPT !.handles = Append(@, NewHandle),
                                !.queue = Append(@, [kind |-> "register"])]

CallMethod(h, call) ==
  /\ scripts.calls < MaxCalls
  /\ Accepts(scripts.handles[h], call)
  /\ scripts' = [scripts EXCEPT !.handles[h] = Remembers(@, call),
                                !.queue = Append(@, Command(call)),
                                !.calls = @ + 1]

\* The error is raised in the script, which may catch it and go on.
RefusedCall(h, call) ==
  /\ scripts.calls < MaxCalls
  /\ ~Accepts(scripts.handles[h], call)
  /\ UNCHANGED scripts

ExecuteCommand ==
  /\ scripts.queue # << >>
  /\ scripts' = [scripts EXCEPT !.queue = Tail(@), !.run = Executed(@, Head(scripts.queue))]

Running == scripts.run # << >>
Change(run) == scripts' = [scripts EXCEPT !.run = <<run>>]

\* The callback has returned and its actions have settled: the transitions of
\* the stage that was entered are armed, as a race.
CallbackSettles ==
  /\ Running
  /\ LET run == scripts.run[1]
         armed == IF run.entering THEN run.stages[run.current[1]] ELSE << >>
     IN /\ run.busy
        /\ Change([run EXCEPT !.busy = FALSE, !.entering = FALSE,
                              !.waits = IF armed = << >> THEN @
                                        ELSE Append(@, [triggers |-> TriggersOf(armed),
                                                        next |-> NextOf(armed)])])

\* A trigger of a wait fires: its callback is invoked, or that of the stage it
\* leads to.  The other waits stay.
Fire(w, i) ==
  /\ Running
  /\ LET run == scripts.run[1]
         left == [run EXCEPT !.waits = RemoveAt(@, w)]
     IN /\ ~run.closed /\ ~run.busy
        /\ w \in DOMAIN run.waits /\ i \in DOMAIN run.waits[w].triggers
        /\ Change(IF run.waits[w].next = << >> THEN [left EXCEPT !.busy = TRUE]
                  ELSE Enter(left, run.waits[w].next[i]))

Next ==
  \/ CreateHandle
  \/ \E h \in DOMAIN scripts.handles, call \in Calls : CallMethod(h, call)
  \/ \E h \in DOMAIN scripts.handles, call \in Calls : RefusedCall(h, call)
  \/ ExecuteCommand
  \/ CallbackSettles
  \/ \E w \in 1..MaxCalls, i \in 1..2 : Fire(w, i)

-----------------------------------------------------------------------------
Says(leaf, x, entered) ==
  CASE leaf.kind = "threshold" ->
         Beyond(leaf.direction, x, leaf.threshold, leaf.hysteresis, entered)
    [] leaf.kind = "inside" -> Within(leaf, x, entered)
    [] leaf.kind = "outside" -> Beside(leaf, x, entered)
    [] leaf.kind = "stable" -> Near(leaf, x, entered)

\* A leaf that begins to hold at some value, and then ceases to at another.
CanTurn(leaf) ==
  leaf.kind \in {"threshold", "inside", "outside", "stable"} =>
    (\E x \in Values : Says(leaf, x, FALSE)) /\ (\E x \in Values : ~Says(leaf, x, TRUE))

Conditions(triggers) ==
  {triggers[i].nodes : i \in {j \in DOMAIN triggers : triggers[j].kind = "when"}}

(* A run the service has started never meets a stage that is not defined,   *)
(* where it would have to give up, and every condition it waits for, alone, *)
(* in a race or on the way to another stage, can begin and cease to hold:   *)
(* whichever handles the definitions came through, in whatever order.       *)
ScenariosCanAdvance ==
  Running =>
    LET run == scripts.run[1]
        awaited == {run.waits[i].triggers : i \in DOMAIN run.waits}
                   \cup {TriggersOf(run.stages[s]) : s \in DOMAIN run.stages}
    IN /\ run.started =>
            /\ run.current[1] \in DOMAIN run.stages
            /\ \A s \in DOMAIN run.stages : TargetsOf(run.stages[s]) \subseteq DOMAIN run.stages
       /\ \A triggers \in awaited : \A nodes \in Conditions(triggers) :
            \A i \in DOMAIN nodes : CanTurn(nodes[i])
=============================================================================
