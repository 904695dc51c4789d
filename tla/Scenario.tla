------------------------------ MODULE Scenario ------------------------------
(***************************************************************************)
(* The scenario service at work: one scenario id, registered any number of *)
(* times, between two threads.                                             *)
(*                                                                         *)
(*   - The Lua worker executes one callback or console line at a time. A   *)
(*     callback sends its commands, labelled with its run, through the     *)
(*     application command channel and its result through another channel. *)
(*   - The runtime thread polls: it executes the commands that are in the  *)
(*     channel, then handles the callback results, then the application    *)
(*     events, then the triggers that became ready.                        *)
(*                                                                         *)
(* The channels are drained one after the other within a poll, and nothing *)
(* stops the Lua worker meanwhile.  A command whose callback waits for its *)
(* answer is an action that settles before the callback goes on.           *)
(***************************************************************************)
EXTENDS ScenarioRun, Sequences

CONSTANTS
  Kinds,       \* the kinds of command the model's Lua code sends
  MaxRuns,     \* bound of the model: runs registered
  MaxActions,  \* bound of the model: actions of callbacks
  MaxCommands  \* bound of the model: commands waiting in the channel

CommandKind == {"register", "timer", "condition", "race", "start", "on_stop",
                "on_error", "complete", "stop", "cancel", "action"}

ASSUME ScenarioAssumption ==
  /\ Kinds \subseteq CommandKind
  /\ MaxRuns \in Nat /\ MaxActions \in Nat /\ MaxCommands \in Nat

VARIABLES
  scenario,           \* the state the service keeps for the id
  next_run_id,
  next_action_id,
  lua_commands,       \* application commands the runtime has not drained
  lua_queue,          \* callback invocations the Lua worker has not taken
  lua,                \* the invocation it executes
  results,            \* callback results the runtime has not drained
  application_events, \* action events the service has not drained
  in_flight,          \* actions executed, whose result is not recorded yet
  poll                \* where the runtime thread is in its poll

channelVars == <<lua_commands, lua_queue, results, application_events>>
vars == <<scenario, next_run_id, next_action_id, channelVars, lua, lua_up,
          in_flight, poll>>

-----------------------------------------------------------------------------
(***************************************************************************)
(* Messages.                                                               *)
(***************************************************************************)
\* Why a callback was invoked; a command carries the cause of its callback,
\* and run 0 if it does not come from one.
Cause == {"trigger", "stage", "cleanup"}
Invocation == [run : Nat, cause : Cause]
NoInvocation == [run |-> 0, cause |-> "trigger"]
CallbackResult == [run : Nat, cause : Cause, ok : BOOLEAN]
LuaCommand == [run : Nat, cause : Cause, kind : CommandKind]
ActionEvent == [action : Nat, ok : BOOLEAN]
Dispatched == [action : Nat, run : Nat, cause : Cause]

\* fired: the wait whose callback this poll invokes at its end; eligible: the
\* run was idle when the poll looked at its timers.
Phase == {"idle", "commands", "results", "events"}
Poll ==
  [phase : Phase, todo : Seq(LuaCommand) \cup Seq(CallbackResult) \cup Seq(ActionEvent),
   eligible : BOOLEAN, fired : Wait \cup {"none"}]

IdlePoll == [phase |-> "idle", todo |-> <<>>, eligible |-> FALSE, fired |-> "none"]
In(phase) == poll.phase = phase
Enter(phase, todo) == poll' = [IdlePoll EXCEPT !.phase = phase, !.todo = todo]
Head1 == Head(poll.todo)
Next1 == poll.todo # <<>> /\ poll' = [poll EXCEPT !.todo = Tail(@)]

\* A setup script has registered the scenario with some waits and handlers.
Init ==
  /\ \E waits \in SUBSET (Kinds \cap Wait), on_stop, on_error \in BOOLEAN :
       scenario = [NewScenario(1) EXCEPT !.waits = waits, !.on_stop = on_stop,
                                         !.on_error = on_error]
  /\ next_run_id = 2
  /\ next_action_id = 1
  /\ lua_commands = <<>> /\ lua_queue = <<>> /\ results = <<>>
  /\ application_events = <<>>
  /\ lua = NoInvocation
  /\ lua_up = TRUE
  /\ in_flight = {}
  /\ poll = IdlePoll

-----------------------------------------------------------------------------
(***************************************************************************)
(* The Lua worker.                                                         *)
(***************************************************************************)
InChannel(kind) ==
  {i \in DOMAIN lua_commands : lua_commands[i].kind = kind}
    \cup (IF In("commands") THEN {i \in DOMAIN poll.todo : poll.todo[i].kind = kind} ELSE {})

\* A callback's command carries its run; a console line's does not, and the
\* actions of console lines are of no concern to a scenario.
LuaSend(kind) ==
  /\ lua_up
  /\ kind \in Kinds
  /\ Len(lua_commands) < MaxCommands
  /\ kind = "register" => next_run_id + Cardinality(InChannel(kind)) <= MaxRuns
  /\ kind = "action" =>
       lua # NoInvocation /\ next_action_id + Cardinality(InChannel(kind)) <= MaxActions
  /\ lua_commands' = Append(lua_commands, [run |-> lua.run, cause |-> lua.cause, kind |-> kind])
  /\ UNCHANGED <<scenario, next_run_id, next_action_id, lua_queue, results,
                 application_events, lua, lua_up, in_flight, poll>>

LuaBegin ==
  /\ lua_up
  /\ lua = NoInvocation
  /\ lua_queue # <<>>
  /\ lua' = Head(lua_queue)
  /\ lua_queue' = Tail(lua_queue)
  /\ UNCHANGED <<scenario, next_run_id, next_action_id, lua_commands, results,
                 application_events, lua_up, in_flight, poll>>

\* Mutant: an error is logged and its result forgotten.
LuaReturnUnreported(ok) ==
  /\ lua_up
  /\ lua # NoInvocation
  /\ lua' = NoInvocation
  /\ results' = IF ok THEN Append(results, [run |-> lua.run, cause |-> lua.cause, ok |-> ok])
                ELSE results
  /\ UNCHANGED <<scenario, next_run_id, next_action_id, lua_commands, lua_queue,
                 application_events, lua_up, in_flight, poll>>

LuaReturn(ok) ==
  /\ lua_up
  /\ lua # NoInvocation
  /\ lua' = NoInvocation
  /\ results' = Append(results, [run |-> lua.run, cause |-> lua.cause, ok |-> ok])
  /\ UNCHANGED <<scenario, next_run_id, next_action_id, lua_commands, lua_queue,
                 application_events, lua_up, in_flight, poll>>

\* The worker thread ends; what it executed and what it was sent is lost.
LuaStops ==
  /\ lua_up
  /\ lua_up' = FALSE
  /\ lua' = NoInvocation
  /\ lua_queue' = <<>>
  /\ UNCHANGED <<scenario, next_run_id, next_action_id, lua_commands, results,
                 application_events, in_flight, poll>>

-----------------------------------------------------------------------------
(***************************************************************************)
(* The runtime thread.  An action's result is recorded while it handles    *)
(* worker events or executes commands, never within the scenario's poll.   *)
(***************************************************************************)
ActionSettles(ok) ==
  /\ In("idle") \/ In("commands")
  /\ \E d \in in_flight :
       /\ in_flight' = in_flight \ {d}
       /\ application_events' = Append(application_events, [action |-> d.action, ok |-> ok])
  /\ UNCHANGED <<scenario, next_run_id, next_action_id, lua_commands, lua_queue,
                 results, lua, lua_up, poll>>

DrainCommands ==
  /\ In("idle")
  /\ Enter("commands", lua_commands)
  /\ lua_commands' = <<>>
  /\ UNCHANGED <<scenario, next_run_id, next_action_id, lua_queue, results,
                 application_events, lua, lua_up, in_flight>>

\* The service moves to state s; cleanup that starts with it is sent to Lua.
Become(s) ==
  /\ scenario' = s
  /\ lua_queue' = IF s.cleanup /\ ~scenario.cleanup
                  THEN Append(lua_queue, [run |-> s.run, cause |-> "cleanup"])
                  ELSE lua_queue

\* A callback of the scenario is invoked; one that cannot be sent fails it.
Invoke(s, cause) ==
  IF lua_up
  THEN /\ scenario' = [s EXCEPT !.callback = TRUE]
       /\ lua_queue' = Append(lua_queue, [run |-> s.run, cause |-> cause])
  ELSE Become(RequestFinalization(s, "failed", TRUE))

\* A stage that is not defined, or whose graph is not complete, cannot start.
StartStage ==
  \/ /\ Open(scenario) /\ ~scenario.started /\ ~IsBusy(scenario)
     /\ Invoke([scenario EXCEPT !.started = TRUE, !.activation = TRUE], "stage")
  \/ UNCHANGED <<scenario, lua_queue>>

\* Registration and cancellation are executed in every state, the others only
\* while the run is open; a delay out of range is refused.
ScenarioCommand(kind) ==
  \/ /\ kind = "register"
     /\ scenario' = NewScenario(next_run_id)
     /\ next_run_id' = next_run_id + 1
     /\ UNCHANGED lua_queue
  \/ kind = "cancel" /\ Become(CancelRun(scenario)) /\ UNCHANGED next_run_id
  \/ kind = "start" /\ StartStage /\ UNCHANGED next_run_id
  \/ /\ kind \in Wait \cup {"on_stop", "on_error", "complete", "stop"}
     /\ UNCHANGED next_run_id
     /\ CASE kind \in Wait /\ Open(scenario) ->
               \/ Become([scenario EXCEPT !.waits = @ \cup {kind}])
               \/ UNCHANGED <<scenario, lua_queue>>
          [] kind = "on_stop" /\ Open(scenario) -> Become([scenario EXCEPT !.on_stop = TRUE])
          [] kind = "on_error" /\ Open(scenario) -> Become([scenario EXCEPT !.on_error = TRUE])
          [] kind \in {"complete", "stop"} /\ Open(scenario) ->
               Become(RequestFinalization(scenario,
                        IF kind = "stop" THEN "stopped" ELSE "completed", FALSE))
          [] OTHER -> UNCHANGED <<scenario, lua_queue>>

\* An action is recorded, tracked by its run and handed to its handler.
DispatchAction(command) ==
  /\ command.kind = "action"
  /\ next_action_id' = next_action_id + 1
  /\ scenario' = [scenario EXCEPT !.pending = @ \cup {next_action_id}]
  /\ in_flight' = in_flight \cup {[action |-> next_action_id, run |-> command.run,
                                   cause |-> command.cause]}
  /\ UNCHANGED <<next_run_id, lua_queue>>

ExecuteCommand ==
  /\ In("commands") /\ Next1
  /\ IF Head1.run # 0 /\ ~AcceptsSteps(scenario, Head1.run)
     THEN UNCHANGED <<scenario, next_run_id, next_action_id, lua_queue, in_flight>>
     ELSE \/ DispatchAction(Head1)
          \/ ScenarioCommand(Head1.kind) /\ UNCHANGED <<next_action_id, in_flight>>
  /\ UNCHANGED <<lua_commands, results, application_events, lua, lua_up>>

DrainResults ==
  /\ In("commands") /\ poll.todo = <<>>
  /\ Enter("results", results)
  /\ results' = <<>>
  /\ UNCHANGED <<scenario, next_run_id, next_action_id, lua_commands, lua_queue,
                 application_events, lua, lua_up, in_flight>>

HandleResult ==
  /\ In("results") /\ Next1
  /\ CASE ~AcceptsSteps(scenario, Head1.run) -> UNCHANGED <<scenario, lua_queue>>
       [] AcceptsSteps(scenario, Head1.run) /\ Head1.ok ->
            \E s \in CallbackReturned(scenario) : Become(s)
       [] AcceptsSteps(scenario, Head1.run) /\ ~Head1.ok -> Become(CallbackFailed(scenario))
  /\ UNCHANGED <<next_run_id, next_action_id, lua_commands, results,
                 application_events, lua, lua_up, in_flight>>

\* Mutant: a timer fires beside a callback or an action in progress.
ReadyWhileBusy(wait) == wait \in scenario.waits /\ Open(scenario)

\* Timers are looked at before the events are.
Ready(wait) == wait \in scenario.waits /\ Open(scenario) /\ ~IsBusy(scenario)

DrainEvents ==
  /\ In("results") /\ poll.todo = <<>>
  /\ \E fired \in {"none"} \cup (IF Ready("timer") THEN {"timer"} ELSE {}) :
       /\ poll' = [phase |-> "events", todo |-> application_events, fired |-> fired,
                   eligible |-> Open(scenario) /\ ~IsBusy(scenario)]
       /\ scenario' = [scenario EXCEPT !.waits = @ \ {fired}]
  /\ application_events' = <<>>
  /\ UNCHANGED <<next_run_id, next_action_id, lua_commands, lua_queue, results, lua,
                 lua_up, in_flight>>

\* A measurement between two action events satisfies a standalone condition.
MeasurementArrives ==
  /\ In("events")
  /\ poll.fired = "none" /\ ~IsBusy(scenario)
  /\ "condition" \in scenario.waits
  /\ poll' = [poll EXCEPT !.fired = "condition"]
  /\ scenario' = [scenario EXCEPT !.waits = @ \ {"condition"}]
  /\ UNCHANGED <<next_run_id, next_action_id, channelVars, lua, lua_up, in_flight>>

HandleEvent ==
  /\ In("events") /\ Next1
  /\ IF Head1.ok THEN \E s \in ActionApplied(scenario, Head1.action) : Become(s)
     ELSE Become(ActionFailed(scenario, Head1.action))
  /\ UNCHANGED <<next_run_id, next_action_id, lua_commands, results,
                 application_events, lua, lua_up, in_flight>>

\* What fires if nothing has: a condition that held long enough, an
\* alternative of a race, a transition of the current stage; then the one
\* callback of this poll is invoked.
FinishPoll ==
  /\ In("events") /\ poll.todo = <<>>
  /\ poll' = IdlePoll
  /\ \E fired \in {poll.fired} \cup
                  (IF poll.fired = "none" /\ poll.eligible /\ ~IsBusy(scenario)
                   THEN scenario.waits \ {"timer"} ELSE {}) :
       LET left == [scenario EXCEPT !.waits = @ \ {fired}]
       IN  CASE fired = "none" -> UNCHANGED <<scenario, lua_queue>>
             [] fired = "transition" -> Invoke([left EXCEPT !.activation = TRUE], "stage")
             [] OTHER -> IF scenario.status = "running" THEN Invoke(left, "trigger")
                         ELSE UNCHANGED <<scenario, lua_queue>>
  /\ UNCHANGED <<next_run_id, next_action_id, lua_commands, results,
                 application_events, lua, lua_up, in_flight>>

-----------------------------------------------------------------------------
\* A callback that runs returns in the end; whether it sends commands first is
\* its own affair.
LuaStep == LuaBegin \/ \E ok \in BOOLEAN : LuaReturn(ok)

RuntimeStep ==
  \/ DrainCommands \/ ExecuteCommand
  \/ DrainResults \/ HandleResult
  \/ DrainEvents \/ HandleEvent \/ FinishPoll

Next ==
  \/ \E kind \in Kinds : LuaSend(kind)
  \/ LuaStep
  \/ LuaStops
  \/ \E ok \in BOOLEAN : ActionSettles(ok)
  \/ RuntimeStep
  \/ MeasurementArrives

\* Both threads run, a callback returns in the end and every action settles.
Fairness ==
  /\ WF_vars(LuaStep)
  /\ WF_vars(RuntimeStep)
  /\ SF_vars(\E ok \in BOOLEAN : ActionSettles(ok))

Spec == Init /\ [][Next]_vars
FairSpec == Spec /\ Fairness

-----------------------------------------------------------------------------
(***************************************************************************)
(* Properties.                                                             *)
(***************************************************************************)
\* Every variable stays in the set of values its definition names.
TypeOK ==
  /\ scenario \in ScenarioState
  /\ next_run_id \in Nat \ {0} /\ next_action_id \in Nat \ {0}
  /\ lua_commands \in Seq(LuaCommand)
  /\ lua_queue \in Seq(Invocation)
  /\ lua \in Invocation
  /\ lua_up \in BOOLEAN
  /\ results \in Seq(CallbackResult)
  /\ application_events \in Seq(ActionEvent)
  /\ in_flight \subseteq Dispatched
  /\ poll \in Poll

Of(run, messages) == {i \in DOMAIN messages : messages[i].run = run}

\* The callbacks of a run that Lua has still to execute or that the runtime
\* has still to hear of.
Outstanding(run) ==
  Cardinality(Of(run, lua_queue)) + Cardinality(Of(run, results))
    + (IF lua.run = run THEN 1 ELSE 0)
    + (IF In("results") THEN Cardinality(Of(run, poll.todo)) ELSE 0)

\* Callbacks are serialized per run: at most one is on its way, the service
\* knows of it for as long as the run is alive, and a running scenario never
\* waits for a callback that is not.
CallbacksSerialized ==
  /\ \A run \in 1..MaxRuns : Outstanding(run) <= 1
  /\ scenario.status = "running" =>
       /\ Outstanding(scenario.run) = 1 => scenario.callback
       /\ scenario.callback /\ lua_up => Outstanding(scenario.run) = 1

\* A run waits only for actions of its own: a replaced run's late commands and
\* results leave the one that replaced it alone, and each action waited for is
\* either being executed or has its event on the way.
PendingOfThisRun ==
  \A action \in scenario.pending :
    \/ \E d \in in_flight : d.action = action /\ d.run = scenario.run
    \/ action \in {application_events[i].action : i \in DOMAIN application_events}
    \/ In("events") /\ action \in {poll.todo[i].action : i \in DOMAIN poll.todo}

\* What makes a run busy is an exact account of what is underway for it,
\* whatever order steps, results and events of it and of its predecessors come
\* in (is_busy).
BusyIsExact == CallbacksSerialized /\ PendingOfThisRun

\* A trigger that a poll has fired is still good when the poll invokes its
\* callback: nothing handled in between made the run busy or asked for its end.
FiredIsStillGood ==
  poll.fired # "none" => Open(scenario) /\ ~IsBusy(scenario)

\* Arms the transitions of a stage, starts cleanup, or ends as was asked.
Advances ==
  /\ scenario'.run = scenario.run
  /\ \/ "transition" \in scenario'.waits \ scenario.waits
     \/ scenario'.cleanup /\ ~scenario.cleanup /\ scenario'.finalization # "failed"
     \/ scenario'.status \in {"completed", "stopped"} \ {scenario.status}

\* A run advances only when every action it tracks has its result.
SettledBeforeAdvance ==
  [][Advances => {d.action : d \in in_flight} \cap scenario.pending = {}]_vars

\* The service keeps its promise (ScenarioLifecycle).
LifecyclePhase ==
  CASE scenario.status = "absent" -> "absent"
    [] Open(scenario) -> "running"
    [] scenario.finalization # "none" /\ ~scenario.cleanup -> "finalizing"
    [] scenario.finalization # "none" /\ scenario.cleanup -> "cleaning"
    [] OTHER -> "finished"

LifecycleOutcome ==
  CASE scenario.status \in {"absent", "running"} -> scenario.finalization
    [] OTHER -> scenario.status

Lifecycle == INSTANCE ScenarioLifecycle
  WITH runs <- next_run_id - 1, phase <- LifecyclePhase, outcome <- LifecycleOutcome

\* The run ends as it was asked to, as failed or as cancelled; it cleans up at
\* most once and its end is final.
KeepsLifecycle == Lifecycle!LifecycleSpec

\* No run waits for a callback or an action forever, the Lua worker being alive.
BusyRunsSettle == IsBusy(scenario) ~> ~IsBusy(scenario) \/ ~lua_up

\* docs/scenarios.md:95: "Stage transitions become active after the enter
\* callback's tracked actions are Applied."
OfEnterCallback(m) == m.run = scenario.run /\ m.cause = "stage"

EnterActionsBeforeTransitions ==
  "transition" \in scenario.waits =>
    /\ ~\E d \in in_flight : OfEnterCallback(d)
    /\ ~\E i \in DOMAIN lua_commands :
          lua_commands[i].kind = "action" /\ OfEnterCallback(lua_commands[i])

\* docs/scenarios.md:115: "Graceful completion waits for tracked actions and
\* invokes on_stop if registered; final status is completed."
FinalizationEnds == scenario.finalization # "none" ~> scenario.finalization = "none" \/ ~lua_up
=============================================================================
