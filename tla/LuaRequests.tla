----------------------------- MODULE LuaRequests ----------------------------
(* The calls of a script to the application.  A call is checked on the Lua   *)
(* thread, sent to the runtime as a command and, where it has an answer,     *)
(* waited for at most ten seconds; the runtime executes what it receives in  *)
(* order, drops what a run of a scenario sent that is over, and hands        *)
(* instrument requests to the workers of the connections.                    *)
EXTENDS LuaOptions, TLC

CONSTANTS
  Calls,             \* what the scripts may call: a sequence of
                     \* [on, as, op, key, value, updates]: a method of app or of
                     \* the handle in a variable, the variable its handle is
                     \* kept in, its first text and its second argument
  Described,         \* the instruments a connection describes, by connection
                     \* and id: their parameters
  Series,            \* the series of the store
  Stored, Kept,      \* the loops and the handles earlier executions have left
  MaxRequests,       \* Bound: commands sent
  MaxRuns            \* Bound: runs of the scenario

VARIABLE lua
(* series     the names in the store                                         *)
(* loops      the registry                                                    *)
(* held       the handles the scripts hold, by variable                       *)
(* queue      the commands the runtime has not seen                           *)
(* underway   the instrument requests at the workers                          *)
(* script     the execution of the Lua thread: its status, the run it is a    *)
(*            callback of (0 for none), the call and step it waits in, the    *)
(*            request it waits for and the reply that has come                *)
(* latest     the latest run, and open, whether it is not over                *)
(* sent       for the properties: of every request its run, what became of it *)
(*            and what the script was told                                    *)

NoReply == << >>
Idle == [status |-> "running", run |-> 0, call |-> 0, step |-> 0, request |-> 0,
         reply |-> NoReply]

Init ==
  lua = [series |-> Series, loops |-> Stored, held |-> Kept, queue |-> << >>,
         underway |-> {}, script |-> Idle, latest |-> 0, open |-> FALSE, sent |-> << >>]

-----------------------------------------------------------------------------
(* What Lua checks. *)

\* app.start and its like have no arguments, app.log and its like one text.
PlainCalls == {"start", "stop", "clear", "start_emu", "stop_emu", "retry_all"}
IsNil(v) == v.type = "nil"
IsText(v) == v.type = "string"
NamesColor(v) == IsNil(v) \/ (IsText(v) /\ v.value \in Colors)
NamesPane(v) == IsText(v) /\ v.value \in PaneKeys
IsSerialCall(v) ==
  IsOptions(v) /\ OnlyHas(OptionsOf(v), {"connection"}) /\ NamesConnection(OptionsOf(v))

AppAccepts(c) ==
  CASE c.op \in PlainCalls \cup {"log", "delete", "retry"} -> TRUE
    [] c.op = "rename" -> IsText(c.value)
    [] c.op = "set_color" -> NamesColor(c.value)
    [] c.op = "set_series_pane" -> NamesPane(c.value)
    [] c.op = "add_serial" -> IsSerialSeries(c.value)
    [] c.op = "send_serial" -> IsSerialCall(c.value)
    [] c.op = "filter" -> c.value.type = "table" /\ IsFilter(c.value.value)
    [] c.op = "set_filter" -> c.value.type = "table" /\ IsFilterUpdate(c.value.value)
    [] c.op = "metakon" -> IsOptions(c.value) /\ IsMetakon(OptionsOf(c.value))
    [] c.op = "virtual_instrument" ->
         IsOptions(c.value) /\ IsVirtualInstrument(OptionsOf(c.value))
    [] OTHER -> FALSE

MetakonAccepts(h, c) ==
  /\ c.key \in Device!Registers
  /\ CASE c.op = "add" -> IsSeries(c.value)
       [] c.op = "read" -> TRUE
       [] c.op = "write" -> MetakonValueFits(c.key, c.value, h.scale)
       [] c.op \in LoopKinds ->
            /\ c.value.type = "table"
            /\ IsLoopOf(c.op, MetakonTarget(h, c.key), c.value.value)
       [] OTHER -> FALSE

VirtualAccepts(h, c) ==
  /\ c.key \in DOMAIN h.parameters
  /\ CASE c.op = "add" -> IsSeries(c.value) /\ IsSeriesParameter(h, c.key)
       [] c.op = "read" -> IsReadable(h, c.key)
       [] c.op = "write" -> VirtualValueFits(h, c.key, c.value)
       [] c.op \in LoopKinds ->
            /\ c.value.type = "table"
            /\ IsLoopOf(c.op, VirtualTarget(h, c.key), c.value.value)
       [] OTHER -> FALSE

\* The reference a call gives a loop.
FixedReference(v) == FixedSource(v.value)
RampReference(v) ==
  RampSource(v.value["start"].value, v.value["target"].value, v.value["rate"].value)

Queries == {"parameters", "reference_parameters", "diagnostics", "read",
            "read_reference", "state", "reference_kind"}

Changes == {"write", "configure", "write_reference", "configure_reference", "pause",
            "remove", "resume", "reset_integral", "reset"}

LoopAccepts(c) ==
  CASE c.op = "add" ->
         c.key \in UNION {Diagnostics(kind) : kind \in LoopKinds}
         /\ IsDiagnosticSeries(c.value)
    [] c.op = "set_fixed_reference" ->
         c.value.type \in Reals /\ FixedSourceError(FixedReference(c.value)) = "none"
    [] c.op = "set_ramp_reference" -> c.value.type = "table" /\ IsRamp(c.value.value)
    [] c.op = "set_input" -> IsText(c.value)
    [] OTHER -> c.op \in Queries \cup Changes

Accepts(c) ==
  IF c.on = "app" THEN AppAccepts(c)
  ELSE /\ c.on \in DOMAIN lua.held
       /\ LET h == lua.held[c.on]
          IN CASE h.on = "metakon" -> MetakonAccepts(h, c)
               [] h.on = "virtual" -> VirtualAccepts(h, c)
               [] h.on = "loop" -> LoopAccepts(c)

\* Whom a call asks: the application, or what its handle stands for.
Asked(c) == IF c.on = "app" THEN [on |-> "app"] ELSE lua.held[c.on]
OnLoop(c) == Asked(c).on = "loop"

\* What a call on a loop asks for before it sends its command.
Discovery(c) ==
  CASE ~OnLoop(c) -> "none"
    [] OnLoop(c) /\ c.op \in {"write", "configure"} -> "parameters"
    [] OnLoop(c) /\ c.op \in {"write_reference", "configure_reference"} ->
         "reference_parameters"
    [] OnLoop(c) /\ c.op = "add" -> "diagnostics"
    [] OTHER -> "none"

\* And what it has to find: the keys it may write, and values of their type.
FindsParameters(c, found) ==
  \A i \in DOMAIN c.updates :
    c.updates[i].key \in found /\ ParameterFits(c.updates[i].value)
FindsReferenceParameters(c, found) ==
  \A i \in DOMAIN c.updates :
    c.updates[i].key \in found /\ ReferenceParameterFits(c.updates[i].value)
Finds(c, found) ==
  CASE Discovery(c) = "parameters" -> FindsParameters(c, found)
    [] Discovery(c) = "reference_parameters" -> FindsReferenceParameters(c, found)
    [] Discovery(c) = "diagnostics" -> c.key \in found

\* The commands with an answer.
Waits(c, step) ==
  \/ OnLoop(c) /\ ~(c.op = "add" /\ step = 2)
  \/ ~OnLoop(c) /\ c.op \in {"virtual_instrument", "read", "write"}

-----------------------------------------------------------------------------
(* The Lua thread. *)

\* Between two calls one execution may end and another begin: a callback of a
\* scenario, even of a run that is over by now, or anything else.
Begin(run) ==
  /\ lua.script.status = "running"
  /\ run # lua.script.run
  /\ lua' = [lua EXCEPT !.script.run = run]

(* Mutant: the context is taken by the first command of a call. *)
TagTaken(script, step) == IF step = 1 THEN script.run ELSE 0

(* send_application_command: every command of a callback carries its run. *)
Tag(script, step) == script.run

\* The loop that a call to pid, on_off or furnace defines.
Defined(c) ==
  LET h == lua.held[c.on]
      target == IF h.on = "virtual" THEN VirtualTarget(h, c.key)
                ELSE MetakonTarget(h, c.key)
  IN DefinitionOf(c.op, target, c.value.value)

Command(c, step) ==
  LET base == [id |-> Len(lua.sent) + 1, run |-> Tag(lua.script, step), to |-> Asked(c),
               op |-> IF step = 1 /\ Discovery(c) # "none" THEN Discovery(c) ELSE c.op,
               key |-> c.key, value |-> c.value, updates |-> c.updates]
  IN IF c.op \in LoopKinds THEN [base EXCEPT !.value = Defined(c)] ELSE base

Running == [Idle EXCEPT !.run = lua.script.run]
Holding(held, c, handle) == c.as :> handle @@ held

\* A command of the call is sent, and waited for if it has an answer.  The
\* handle of a loop is there before the loop is.
Sending(after, i, step) ==
  LET c == Calls[i]
      command == Command(c, step)
      waits == Waits(c, step)
  IN [after EXCEPT
       !.queue = Append(@, command),
       !.sent = Append(@, [run |-> lua.script.run, fate |-> "queued",
                           told |-> IF waits THEN "waiting" ELSE "sent"]),
       !.held = IF c.op \in LoopKinds
                THEN Holding(@, c, [on |-> "loop", name |-> Defined(c).name]) ELSE @,
       !.script = IF waits
                  THEN [Running EXCEPT !.status = "waiting", !.call = i, !.step = step,
                                       !.request = command.id]
                  ELSE Running]

\* app.metakon asks nobody.
CreateMetakon(i) ==
  /\ lua.script.status = "running"
  /\ Calls[i].on = "app" /\ Calls[i].op = "metakon"
  /\ Accepts(Calls[i])
  /\ lua' = [lua EXCEPT
       !.held = Holding(@, Calls[i], MetakonHandle(OptionsOf(Calls[i].value)))]

Call(i) ==
  /\ lua.script.status = "running"
  /\ Len(lua.sent) < MaxRequests
  /\ Calls[i].op # "metakon"
  /\ Accepts(Calls[i])
  /\ lua' = Sending(lua, i, 1)

Told(told) == [lua EXCEPT !.sent[lua.script.request].told = told]
Resumes(after) == [after EXCEPT !.script = Running]

Replied == lua.script.status = "waiting" /\ lua.script.reply # NoReply
Reply == lua.script.reply[1]

\* What an answer has found: keys, or the instruments of a connection.
NothingFound == [keys |-> {}, instruments |-> << >>]
FoundKeys(keys) == [NothingFound EXCEPT !.keys = keys]
Waiting == Calls[lua.script.call]
Discovered == Discovery(Waiting) # "none" /\ lua.script.step = 1 /\ Reply.told = "ok"

\* The instrument a script has asked for is looked up in what was described.
Instrument(found) ==
  LET options == OptionsOf(Waiting.value)
      id == GivenNumber(options, "id", 1)
  IN IF id \in DOMAIN found THEN <<VirtualHandle(options, found[id])>> ELSE << >>

\* An answer ends a call, one with an error by an error.
TakeAnswer ==
  /\ Replied
  /\ ~Discovered
  /\ LET found == IF Reply.told = "ok" /\ Waiting.op = "virtual_instrument"
                   THEN Instrument(Reply.found.instruments) ELSE << >>
     IN lua' = [Resumes(Told(Reply.told)) EXCEPT
          !.held = IF found # << >> THEN Holding(@, Waiting, found[1]) ELSE @]

\* What a call has discovered decides whether its command is sent.
TakeDiscovery ==
  /\ Replied
  /\ Discovered
  /\ IF Finds(Waiting, Reply.found.keys)
     THEN /\ Len(lua.sent) < MaxRequests
          /\ lua' = Sending(Told("ok"), lua.script.call, 2)
     ELSE lua' = Resumes(Told("ok"))

\* recv_timeout: an answer that is there is taken first.
TimeOut ==
  /\ lua.script.status = "waiting"
  /\ lua.script.reply = NoReply
  /\ lua' = Resumes(Told("timeout"))

-----------------------------------------------------------------------------
(* The runtime. *)

(* Mutant: the requests share one channel. *)
ListensOnShared(request) == lua.script.status = "waiting" /\ lua.script.reply = NoReply

(* Every request has a channel of its own, which is gone when the script no  *)
(* longer waits for it.                                                      *)
ListensTo(request) == lua.script.status = "waiting" /\ lua.script.request = request

\* What became of a request, and the reply for who still listens.
Settled(after, request, fate, told, found) ==
  [after EXCEPT
    !.sent[request].fate = fate,
    !.script.reply = IF ListensTo(request) THEN <<[told |-> told, found |-> found]>> ELSE @]

Answered(after, request, error, found) ==
  IF error = "none" THEN Settled(after, request, "executed", "ok", found)
  ELSE Settled(after, request, "failed", "failed", NothingFound)

AcceptsStep(run) == run = lua.latest /\ lua.open

\* A dropped command drops its channel.
Dropped(after, m) == Settled(after, m.id, "dropped", "disconnected", NothingFound)

Drop ==
  /\ lua.queue # << >>
  /\ LET m == Head(lua.queue)
     IN /\ m.run # 0
        /\ ~AcceptsStep(m.run)
        /\ lua' = Dropped([lua EXCEPT !.queue = Tail(@)], m)

Oldest == Head(lua.queue)
Accepted ==
  /\ lua.queue # << >>
  /\ Oldest.run = 0 \/ AcceptsStep(Oldest.run)
Dequeued == [lua EXCEPT !.queue = Tail(@)]

Numbers(updates) ==
  [i \in DOMAIN updates |->
    [key |-> updates[i].key, value |-> Number(updates[i].value.value)]]

\* The setpoint is read-only while a reference owns it.
WritableKeys(loop) ==
  IF loop.reference = << >> THEN Keys(loop.controller.kind)
  ELSE Keys(loop.controller.kind) \ {"setpoint"}
ReferenceKeys(loop) == UNION {SupportedKeys(loop.reference[i].source.kind) :
                                i \in DOMAIN loop.reference}

\* A query: its error and what it found.
Found(keys) == [error |-> "none", found |-> FoundKeys(keys)]
ParameterAnswer(loop, m) ==
  CASE m.op = "parameters" -> Found(WritableKeys(loop))
    [] m.op = "diagnostics" -> Found(Diagnostics(loop.controller.kind))
    [] m.op = "read" -> [Found({}) EXCEPT !.error = Read(loop.controller, m.key).error]

ReferenceAnswer(loop, m) ==
  CASE m.op = "reference_kind" -> Found({})
    [] m.op = "reference_parameters" -> Found(ReferenceKeys(loop))
    [] m.op = "read_reference" ->
         [Found({}) EXCEPT !.error = IF m.key \in ReferenceKeys(loop) THEN "none"
                                     ELSE "Reference"]

Answer(loop, m) ==
  CASE m.op \in {"parameters", "diagnostics", "read"} -> ParameterAnswer(loop, m)
    [] m.op \in {"reference_kind", "reference_parameters", "read_reference"} ->
         ReferenceAnswer(loop, m)
    [] m.op = "state" -> Found({})

Outcome(error, loop) == [error |-> error, loop |-> loop]

ConfigurationOutcome(loop, updates) ==
  Outcome(ConfigurationError(loop, updates), ConfiguredLoop(loop, updates))

ReferenceOutcome(loop, updates) ==
  IF loop.reference = << >> THEN Outcome("NotConfigured", loop)
  ELSE LET result == ConfigureReference(loop.reference[1], updates)
       IN Outcome(result.error, [loop EXCEPT !.reference = <<result.reference>>])

InputOutcome(loop, v) ==
  IF v.value \in lua.series THEN Outcome("none", WithInput(loop, v.value))
  ELSE Outcome("SeriesNotFound", loop)

\* The safe output of a pause may fail; the loop is paused all the same.  An
\* output may refuse to become automatic, and then the loop does not resume.
PauseOutcomes(loop) ==
  {Outcome(error, [loop EXCEPT !.running = FALSE]) : error \in {"none", "Output"}}
ResumeOutcomes(loop) == {Outcome("none", Resumed(loop)), Outcome("Output", loop)}

IntegralOutcome(loop) ==
  IF loop.controller.kind = "on_off" THEN Outcome("Unsupported", loop)
  ELSE Outcome("none", [loop EXCEPT !.controller = ResetIntegral(@).controller])

Outcomes(loop, m) ==
  CASE m.op \in {"write", "configure"} -> {ConfigurationOutcome(loop, Numbers(m.updates))}
    [] m.op \in {"write_reference", "configure_reference"} ->
         {ReferenceOutcome(loop, Numbers(m.updates))}
    [] m.op = "set_fixed_reference" ->
         {Outcome("none", WithReference(loop, FixedReference(m.value)))}
    [] m.op = "set_ramp_reference" ->
         {Outcome("none", WithReference(loop, RampReference(m.value)))}
    [] m.op = "set_input" -> {InputOutcome(loop, m.value)}
    [] m.op = "pause" -> PauseOutcomes(loop)
    [] m.op = "resume" -> ResumeOutcomes(loop)
    [] m.op = "reset_integral" -> {IntegralOutcome(loop)}
    [] m.op = "reset" -> {Outcome("none", ResetOf(loop))}

Without(loops, names) == [name \in DOMAIN loops \ names |-> loops[name]]
WithLoop(after, name, loop) == [after EXCEPT !.loops = name :> loop @@ @]

\* A command about a loop that is there.
QueryLoop(m, loop) ==
  LET answer == Answer(loop, m)
  IN lua' = Answered(Dequeued, m.id, answer.error, answer.found)

ChangeLoop(m, loop) ==
  \E outcome \in Outcomes(loop, m) :
    lua' = Answered(WithLoop(Dequeued, m.to.name, outcome.loop), m.id, outcome.error,
                    NothingFound)

(* remove_controller_safely: a loop whose safe output fails stays, paused.   *)
RemoveLoop(m, loop) ==
  \/ lua' = Answered([Dequeued EXCEPT !.loops = Without(@, {m.to.name})], m.id, "none",
                     NothingFound)
  \/ lua' = Answered(WithLoop(Dequeued, m.to.name, [loop EXCEPT !.running = FALSE]),
                     m.id, "Output", NothingFound)

\* The series of a diagnostic may be refused, which only the log tells.
AddDiagnostic(m) ==
  \E error \in {"none", "Series"} : lua' = Answered(Dequeued, m.id, error, NothingFound)

ExecuteOnLoop ==
  /\ Accepted
  /\ Oldest.to.on = "loop"
  /\ IF Oldest.to.name \notin DOMAIN lua.loops
     THEN lua' = Answered(Dequeued, Oldest.id, "NotFound", NothingFound)
     ELSE LET loop == lua.loops[Oldest.to.name]
          IN CASE Oldest.op \in Queries -> QueryLoop(Oldest, loop)
               [] Oldest.op = "remove" -> RemoveLoop(Oldest, loop)
               [] Oldest.op = "add" -> AddDiagnostic(Oldest)
               [] OTHER -> ChangeLoop(Oldest, loop)

(* add_controller: the input has to be there and the name to be one word.    *)
CanDefine(d) == d.input \in lua.series /\ d.name \notin Spaced

(* install_control_loop: the name and the output have to be free, and the    *)
(* output of the controller to fit its target; what fails is rolled back.    *)
CanInstall(d) ==
  /\ d.name \notin DOMAIN lua.loops
  /\ \A other \in DOMAIN lua.loops : lua.loops[other].target.address # d.target.address
  /\ RangeFits(OutputRange(d.kind, d.settings), d.target)

InstallLoop ==
  /\ Accepted
  /\ Oldest.op \in LoopKinds
  /\ LET d == Oldest.value
     IN lua' = IF CanDefine(d) /\ CanInstall(d)
               THEN Answered(WithLoop(Dequeued, d.name, NewLoop(d)), Oldest.id, "none",
                             NothingFound)
               ELSE Answered(Dequeued, Oldest.id, "Install", NothingFound)

ForInstrument(m) ==
  \/ m.to.on = "app" /\ m.op = "virtual_instrument"
  \/ m.to.on \in {"metakon", "virtual"} /\ m.op \in {"read", "write"}

\* Instrument requests are answered by a worker, or refused at once: a
\* connection may have none, and the output may have an owner.
Dispatch ==
  /\ Accepted
  /\ ForInstrument(Oldest)
  /\ \/ lua' = [Dequeued EXCEPT !.underway = @ \cup {Oldest},
                                !.sent[Oldest.id].fate = "underway"]
     \/ lua' = Answered(Dequeued, Oldest.id, "Request", NothingFound)

Instruments(m) ==
  IF m.op = "virtual_instrument"
  THEN [NothingFound EXCEPT !.instruments = Described[ConnectionOf(OptionsOf(m.value))]]
  ELSE NothingFound
WorkerAnswers(m) ==
  \E error \in {"none", "Device"} :
    lua' = Answered([lua EXCEPT !.underway = @ \ {m}], m.id, error, Instruments(m))

\* A worker that stops drops the requests it has not looked at.
WorkerDrops(m) ==
  lua' = Dropped([lua EXCEPT !.underway = @ \ {m}], m)

\* The other commands are the business of other modules.
ExecuteElsewhere ==
  /\ Accepted
  /\ Oldest.to.on # "loop"
  /\ ~ForInstrument(Oldest)
  /\ Oldest.op \notin LoopKinds
  /\ lua' = Answered(Dequeued, Oldest.id, "none", NothingFound)

-----------------------------------------------------------------------------
(* Runs start and end, and series go, with the loops that read them.         *)

OpenRun ==
  /\ lua.latest < MaxRuns
  /\ lua' = [lua EXCEPT !.latest = @ + 1, !.open = TRUE]

CloseRun == lua.open /\ lua' = [lua EXCEPT !.open = FALSE]

LoseSeries(series) ==
  lua' = [lua EXCEPT
    !.series = @ \ {series},
    !.loops = Without(@, {name \in DOMAIN @ : @[name].input = series})]

Next ==
  \/ \E run \in 0..lua.latest : Begin(run)
  \/ \E i \in DOMAIN Calls : CreateMetakon(i) \/ Call(i)
  \/ TakeAnswer
  \/ TakeDiscovery
  \/ TimeOut
  \/ Drop
  \/ ExecuteOnLoop
  \/ InstallLoop
  \/ Dispatch
  \/ \E m \in lua.underway : WorkerAnswers(m) \/ WorkerDrops(m)
  \/ ExecuteElsewhere
  \/ OpenRun
  \/ CloseRun
  \/ \E series \in lua.series : LoseSeries(series)

-----------------------------------------------------------------------------
(* Properties. *)

(* What a script is told is what became of that very request: a success was  *)
(* executed, an error was returned for it, and a request without an answer   *)
(* was dropped unexecuted.  An answer that comes after the ten seconds is    *)
(* never taken for that of a later request.                                  *)
Means == [ok |-> "executed", failed |-> "failed", disconnected |-> "dropped"]
OutcomesAreTruthful ==
  \A i \in DOMAIN lua.sent :
    LET request == lua.sent[i]
    IN request.told \in DOMAIN Means => request.fate = Means[request.told]

(* A command of a callback is executed only while the run the callback       *)
(* belongs to is not over, whatever the callback does after the run ended.   *)
StaleRunsTouchNothing ==
  \A i \in DOMAIN lua.sent :
    LET run == lua.sent[i].run
    IN (lua.sent[i].fate = "queued" /\ lua'.sent[i].fate \notin {"queued", "dropped"})
         => (run = 0 \/ (run = lua.latest /\ lua.open))
=============================================================================
