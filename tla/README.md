# A verification development for com_port_reader

com_port_reader is a desktop application that polls instruments over serial
ports, filters the measurements, runs control loops on them, writes the
controllers' outputs back to actuators and executes experiment scenarios
written in Lua. It is a program of many threads: what is hard in it is not any
single function but what one thread may do between two steps of another. This
directory models those threads in TLA+, checks small instances with TLC and
proves all but two of the safety properties that hold, for every instance, with
TLAPS.

Paths below are relative to the repository; `runtime.rs` without a directory is
`src/output_control/service/runtime.rs`.

## 1. Inventory

| Component | State it keeps | Operations | Talks to |
| --- | --- | --- | --- |
| Runtime (GUI) thread, `application_runtime.rs` | the services below, pending actions, `retired` | `poll`: worker events, processing results, Lua commands, scenarios; `execute` a user command; reload; shutdown | everything, by blocking calls and channels |
| Output arbiter, `output_control.rs` | per output: controller, instance, mode, takeover generation, last ids acknowledged, safe value | register, unregister, request/roll back automatic, authorize, acknowledge, complete a takeover, release | owned by the output service |
| Output service, `runtime.rs` | `pending_writes`, next completion id | automatic, safe and manual writes; worker completions | workers (bounded queue), their completions (channel), its clients (call and reply) |
| Process-control dispatcher | none | one control event at a time: write and wait for the result | processing events (unbounded), output service |
| Signal processing thread | filter graph, controller registry, diagnostics | samples; add, pause, resume, remove, configure | workers (samples), runtime (call and reply) |
| Connection worker, one per connection | acquisition state, poll schedules, a command put aside | poll, Start, Stop, instrument and serial commands, Shutdown | source, series store, recorder, output service |
| Acquisition actions, `command_dispatcher.rs` | per action: connections expected and done | Start, Stop, count acknowledgements, roll back | workers' events |
| Scenario service, `scenario.rs` | per id: run, waits, stage, tracked actions, finalization | commands of scripts and callbacks, `poll` | Lua worker (callbacks, results), recorder's events |
| Lua worker | Lua state, current callback | console lines, callbacks, requests with a reply | runtime's command channel |
| Series store | series, samples, polling state | add, rename, delete, append, suspend | shared under a lock |
| Process recorder, hub, log, `process_recorder.rs`, `app_log.rs` | subscribers, sink, last error; log entries, file | record, subscribe, shut down | everyone; writer thread |
| Controllers, references, actuators, `process_control` | numeric state of one loop | update, reset, configure, pause, resume | the processing thread that owns them |
| Scenario conditions, `scenario/condition.rs` | per node: match, since when, recent samples | sample, tick | scenario service |
| Device emulator, virtual instruments | model, server thread, session, memory endpoints | start, stop, poll, exchange | a worker's source, runtime |
| Serial source, Metakon | port, identified channels | read, write, text, close | the worker that owns it, devices |
| Lua bindings, `lua_api` | handles | calls of scripts, waits for answers | runtime's command channel |
| Application definition, profiles | active and selected profile, the file that remembers | parse, validate, launch, load, reload | runtime |
| Scripts, control panels, console | controls with draft, value and pending edit; the pending command | register, edit, invoke, settle | Lua worker |

What makes each correct:

- *Output path.* A person's override stays; no write of a removed controller
  reaches a device; an output is given up only at its safe value; a takeover is
  confirmed by a write of that takeover and by nothing else; the arbiter and the
  registry agree; every blocking call returns.
- *Scenarios.* A run advances only on its own callbacks and actions, and not
  before they have settled; it ends as it was asked to, cleans up once, and
  stays ended; old runs are inert; finalization ends.
- *Acquisition.* An aggregate action is answered once, after every worker; a
  rollback stops only what its own Start started; Stop is a barrier.
- *Worker.* A poll cannot starve Stop; one failing series does not stop the
  others; suspension needs consecutive failures.
- *Signal graph.* Acyclic; dependents are reset and removed together; nothing is
  fed by a signal that does not exist.
- *Runtime lifecycle.* No Lua command runs after retirement; outputs are made
  safe while transports still live; reload keeps the old runtime on failure.
- *Recorder.* Events reach subscribers whatever the database does; the database
  and the log file are prefixes of the history, without a hole.
- *Control.* An output that is computed can be written; no integral, derivative
  or ramp spans a pause; retuning does not jump.
- *Conditions.* A race is won by the first alternative whose declaration is met,
  at the first poll at which it is.
- *Instruments.* An answer is the answer to its request, a value read was held by
  the device asked, a request that failed before it was sent was not executed.
- *Requests of scripts.* What a script is told is what became of its request;
  a run that is over touches nothing.
- *Profiles.* One user per port; the profile remembered is one that ran.
- *Panels.* What is shown is what scripts registered; every edit is settled.

`PROJECT.json` lists under `hazards` what in this code is hard to reach with a
test, at its line, with the property that would notice it.

## 2. Modules

### The output path

| Module | Models |
| --- | --- |
| `OutputArbiter` | `output_control.rs`: operators from the table of outputs to the next table, one per method |
| `OutputService` | `runtime.rs`: the service's state, dispatching of writes, worker queue, completions |
| `OutputControl` | the four threads around it, one action per atomic call; the properties |
| `OutputOwnership` | what the service promises about one output (abstract) |
| `OutputControl_proofs` | the inductive invariants in named parts, the theorems and their lemmas |

Correspondence. `outputs` is `OutputArbiter.outputs`; `pending_writes` and
`next_completion_id` are the service context's; `queue` is one worker's command
channel (all outputs of the model are on one connection, the case with the most
interference); `completions` the completion channel; `events` the channel of
control events; `loops` the registry of the processing thread; `device` is who
wrote the value the actuator holds. Data that no property tells apart (values,
requests, ports, messages) is left out; a value is its *origin*: automatic, safe
or manual. The runtime thread executes one command at a time, but a command such
as removal is four blocking calls to two other threads; `runtime.pc` is the next
call, so all other threads interleave between any two. A blocking call that the
other thread answers in one step of its loop is one action.

Failures modelled: a write refused at dispatch (no worker, no port, full queue,
unknown parameter), a transaction that fails with the value taken or not, an
installation refused by the registry, a takeover requested and taken back, the
processing thread gone.

### Scenarios

| Module | Models |
| --- | --- |
| `ScenarioRun` | `ScenarioState` and the service's functions on it, as operators |
| `Scenario` | the runtime's poll, the Lua worker and the four channels between them; the properties |
| `ScenarioLifecycle` | what the service promises about one id (abstract) |
| `Scenario_proofs` | the inductive invariant, the theorems and their lemmas |
| `MCScenario` | the sets of commands of the instances |

Correspondence. `scenario` is the entry of one id; ids share nothing but the Lua
worker's queue. `waits` is which kinds of one-shot waits are registered; which
callback they name, delays and conditions are data, and "ready" is a free choice
of the poll, in the order and under the guards of the code. A poll is the
sequence the code runs: drain and execute commands, drain and handle results,
look at timers, drain and handle events, look at conditions and races, invoke
the selected callback. Each drain takes what is in its channel at that moment
and the Lua worker runs in between, which is what the first two findings are about. The stage
graph is data: `start` may find it incomplete, and a stage may have transitions
that cannot be armed (`ActivatePendingStage` then removes the scenario, as the
code does). Commands come from callbacks, labelled with their run, or from the
console and scripts, not labelled. A command that waits for a reply is an action
that settles before its callback goes on, so it needs no action of its own here
(`LuaRequests` has the waits and their timeouts). The channel of callbacks to the
Lua worker holds 32 entries in the code and is not bounded here (it is in
`ControlPanels`).

### Connection worker

| Module | Models |
| --- | --- |
| `PollSchedule` | the table of schedules and the functions on it, as operators |
| `ConnectionWorker` | the worker's loop, its clients and the series store; the properties |
| `RequestQueue` | what a worker promises to those who send it requests (abstract) |
| `ConnectionWorker_proofs` | the inductive invariant by concern, the theorems and their lemmas |
| `MCConnectionWorker` | the intervals of the instances |

Correspondence. `phase` is the place in the loop of `Worker::spawn`; two steps
are apart where another thread can look in between: the sampling, the append,
the judgement of each series (`suspend_polling` takes the store's lock once per
series), the close of the source, the store to the `running` flag, the answer.
`hand` is the command received and not answered, or the one put aside in
`pending_command`. `polling` is the series store, which series exist included;
`schedules`, `due` are the worker's. The phase is `receive` when the worker is
about to wait and `loop` at the top.

Time is counted in ticks, relative to now: `schedules[s].left` is `next_poll -
now`, because the code only compares deadlines with the present. It passes
while the worker waits for a command, samples or performs an access; the
instructions between take none. In particular a command put aside is executed
in the round after the poll: in the code it could be put aside again if another
deadline passed within those instructions.

An access stands for a read, a write, a discovery and a serial text; the last,
on a stopped worker, opens a port of its own instead of the source, which is
closed again in the same way. Whether the access resumes its series covers
success and failure. `StartFails` is allowed by the trait `AcquisitionSource`,
though the sources the program deploys never fail to start. Clearing all series
is several removals. Intervals are constants: a change of a sampling interval
gives the series a fresh deadline in the code and is not modelled. What is
recorded and handed to the processing thread is not either.

### Acquisition actions and the life of a runtime

| Module | Models |
| --- | --- |
| `AcquisitionActions` | Start and Stop over all connections: the handler, the workers, the dispatcher that counts acknowledgements and rolls back |
| `RuntimeLifecycle` | extends it with one runtime's life: user and Lua commands, pausing for shutdown, stop barrier, build of the replacement, retirement, destruction |
| `RuntimeLifecycle_proofs` | the inductive invariant, the theorems and their lemmas |

Correspondence. `queue[c]` is the channel of the worker of connection `c`,
`events` the channel of all workers to the runtime, `pending` the dispatcher's
table of actions; a worker is `ConnectionWorker` reduced to what Start and Stop
see of it. The runtime handles one event or command per step, except that a
Start reads the workers' flags one by one; `phase` is where
`rebuild_from_paths` or `drop` stands. The ten seconds of the barrier are a
step that may be taken whenever the barrier has not been answered.

### Signals

| Module | Models |
| --- | --- |
| `SignalGraph` | `graph.rs` and the state a filter keeps, as operators from one graph to the next |
| `Signals` | series store, graph, registry and diagnostics under the runtime's commands, the workers' samples and the end of the processing thread |
| `Signals_proofs` | the inductive invariant, what the recursive functions of the graph compute, the theorems |

A node is the filter of one output, so a graph is a function from outputs to
nodes. What a filter computes is arithmetic; what it *has seen* is kept instead:
the stamps of the samples in its window, a stamp counting the changes of meaning
along the way from the raw series. The runtime's multi-call commands (delete a
series, its filters, the loops on them and their diagnostics) have one step per
call, and samples are processed in between.

### Components that keep their state to themselves

These share no state with the modules above beyond a call or a channel. Each is
one specification with one record variable; `Components` has an instance of
each, chosen at the start, so one run checks them without multiplying states
and one specification has the theorems about all of them.

| Module | Models |
| --- | --- |
| `Components` | the loops, recorder, emulator, serial line, profiles, panels and requests, of which one runs; what is assumed of their constants |
| `Components_proofs` | the inductive invariant of each, the theorems and their lemmas |
| `MCComponents` | values for the instances; `ScenarioConditions` and `ScenarioScripts` beside the others |
| `Controllers` | `pid.rs`, `on_off.rs`, `furnace.rs` and `controller.rs`: updates, configuration, reset, reads, in small integers |
| `References` | `reference.rs`, `reference_runtime.rs`: fixed and ramp references |
| `OutputTargets` | `output_target.rs`, `output_conversion.rs`: ranges, scales, conversion and rounding of an output |
| `ControlLoop` | one loop as operators: configuration with its preview, references, pause, reset, update by a sample |
| `ControlLoops` | the registry as a specification: loops added, removed, paused and configured under samples with any timestamps |
| `ControlLoops_proofs` | what each operator of the loops returns, the inductive invariant and the theorems |
| `ScenarioTables` | tables of `lua_api/scenarios.rs`: conditions, triggers, races, stages; what a leaf of a condition says of a value |
| `ScenarioConditions` | one race under samples, ticks and polls, with a log of everything that happened |
| `ScenarioScripts` | handles of one scenario, the commands they send and the definitions the service keeps |
| `Recorder` | records, hub, log, log file, writer thread and database |
| `VirtualCatalog` | a virtual instrument's catalog and how its server answers |
| `Emulator` | service, server thread, client and the pair of endpoints |
| `Metakon` | registers and frames of a 5X3 channel |
| `SerialSource` | port, channels, exchanges and retries, devices that answer late, damaged or never |
| `SerialSource_proofs` | the inductive invariant over a line with any number of frames, the theorem |
| `LuaTables` | Lua tables as the program reads them |
| `ApplicationDefinition` | profile tables and the definition they stand for |
| `Profiles` | launch, Settings window, the file that remembers; crashes |
| `ScriptPanels` | what `app.register_script` accepts |
| `ControlPanels` | console, panels, queues between user interface and Lua worker, reload |
| `LuaOptions` | what the bindings accept before they send anything: option tables, keys and values |
| `LuaRequests` | calls of methods and of the handles scripts keep, their commands, answers, timeouts and stale runs |

Correspondence and abstraction:

- *Numbers.* Values, times and settings are small integers. A quotient of the
  algorithms is rounded down, that of an output conversion to the nearest, as the
  code does there; the properties say nothing that depends on the former. A magnitude above
  `Huge` stands for a value that is not finite, `NotFinite` for NaN. Lua's
  numbers are whole and numeric strings are not coerced.
- *Tables.* A Lua table is a function from the keys it has to typed values, so
  a missing key, a key of another type and an unknown key are all different.
- *Time.* In `ScenarioConditions` the clock advances from poll to poll by any of
  `Delays`; a sample may carry an earlier time. `Due` is the reference
  definition: it judges a declaration from the whole log of samples and polls,
  and knows none of the state the code keeps.
- *Recorder.* A record is published, logged and sent in three steps, between
  which other recording threads take theirs. The writer takes one record at a
  time; it may fail at any, also at the first, and then discards the rest.
- *Exchanges.* Requests and answers of the memory transport carry no id in the
  code; the model adds ids as ghosts, to say whose answer was taken. The line of
  `SerialSource` delivers in order, answers from any moment on, damages frames
  and loses them. A device stores what a write says and answers with it.
- *Crashes.* `Profiles` may stop between any two steps, also between truncation
  and write of the state file. Files are edited by others at any time.
- *Panels.* `shown` is the user interface's model, `scripts` what Lua has registered;
  commands, invocations and results are in the queues the code has, the first of
  which has `Capacity` places (32 in the code). The interface takes one event
  per step. A frame takes all that are in the channel before it draws, so a
  frame is several steps with no action of the user between them; the model
  allows one there too, which is a frame that began before the event was sent.
- *Requests.* `sent` is every command in order with what became of it (`fate`)
  and what the script was told (`told`). The runtime executes in order; an
  instrument request is answered by a worker, earlier or later than ten seconds.

## 3. What the runs check

Each run's properties and mutants are in `PROJECT.json`; a mutant is a plausible
bug in the code that the property detects under the same configuration. The
mutated forms stand beside the definitions they mutate, marked `Mutant:`.

| Run | States | Shows |
| --- | --- | --- |
| `output_small` | 0.3 M | one output and one name, every command, two writes queued, two instances of the controller, one takeover: safety, the refinement of `OutputOwnership`, every command returns, an earned takeover is confirmed |
| `scenario_stages` | 0.4 M | one run with stages, two actions, completion and stop from callbacks and console; `ScenarioLifecycle`; no run stays busy forever |
| `scenario_runs` | 4.0 M | two runs of one id, cancellation, all waits, both handlers |
| `worker` | 0.5 M | two series with different intervals, two commands and a retry, additions and removals against polls of any length and outcome; `RequestQueue`; every command is answered |
| `lifecycle` | 5.7 M | three overlapping starts and stops over two connections, a source that may fail, a reload or an exit at any moment, a Lua command still queued |
| `signals` | 3.1 M | series, filters, loops and diagnostics added, replaced and deleted under samples, failing pauses and a processing thread that dies |
| `components` | 1.6 M | the components of `MCComponents`, one at a time |
| `scenario_enter` | violation | a stage is armed before its enter callback's action was even executed |
| `scenario_complete` | violation | a run asked to complete never finalizes |
| `signals_fed` | violation | what a deleted loop's diagnostics fed is left behind |
| `conditions_held` | violation | a hold survives a contradicting sample that arrives while the scenario is busy |
| `panels_reload` | violation | after a failed setup a pending console command blocks every reload |

Properties worth explaining:

- `ManualHolds`: an automatic write may be in the worker's queue while its
  output is manual, because it was accepted before the override; then an override
  follows it there. The exception `processing_up` is real: when the processing
  thread has died, taking back a resume can leave an automatic write last.
- `AutomaticWritesHaveOwner`: holds only because releasing waits for the safe
  write, which is behind everything else of that output in the FIFO queue.
- `SafeBeforeRelease`: at every point of a removal where ownership is still to
  be given up, the device holds the safe value and nothing of that output is queued.
- `CompletionsAreMatched`: the comparison of completion ids in
  `acknowledge_write` never drops a result of the current instance as stale, and
  no pending entry is left whose completion has passed.
- `BusyIsExact`: a run is busy exactly while an invocation, a result or an action
  of this very run is on its way, whatever old runs have left in the channels.
- `FiredIsStillGood`, `SettledBeforeAdvance`: what the module comment of
  `scenario.rs` promises, in spite of any order of results and registrations.
- `SuspensionNeedsThreeFailures`: `streak` counts failed polls of a series since
  a success or a retry, from the polls themselves; the code counts in schedules,
  which come and go with suspension, deletion and restarts.
- `BacklogIsBounded`: the deadline is advanced before the lateness is judged, so
  two consecutive slow polls are needed to see how late a series can get.
- `StoppedIsClosed`: the comment in `worker.rs` says the flag is published only
  after transport cleanup; there are three ways to stop, one outside of any command.
- `ServesRequests`: polls in between, a command put aside and an acquisition that
  fails between two commands never reorder, lose or answer a request twice, and
  the flag rises only in a Start and falls only in a Stop, in a Shutdown or
  between requests.
- `CommandsAreAnswered` assumes that the worker is infinitely often about to
  receive. If every poll takes longer than the interval it serves, a series is
  due at every round and no command is ever received; the property says that this
  is the only way to starve one.
- `AppliedActionsHold`: once the latest action is reported applied, the
  connections are in the state it asked for, unless a poll has failed or an earlier
  failed Start was rolled back after it was accepted: the rollback's Stop carries
  no action and stops what the later Start has started. `EveryActionIsAnswered`: one result per
  action, never two, and none is missing when all queues are empty.
- `OneProfileOwnsThePorts`: from the moment the replacement is being built no
  worker of the old runtime runs and nothing but Stop is queued for one.
- `NothingSpansAReplacement`: no filter's window and no loop's baseline mixes
  samples from before and after a change of what its input means.
- `OutputsAreWritable`: the preview of a configuration, the conversion and its
  rounding agree for every target that has a range.
- `LoopsMoveSmoothly`: a sample never integrates past a saturated bound, and a
  ramp that gets a new target or rate goes on from where it is.
- `AnswersTheirRequests`: a value comes from the answer to this very request, a
  write answered with a value was executed, and one refused as stopped was not;
  a session that is published belongs to the server that is running.
- `AnswersAreGenuine`: a value comes from an identified channel that holds it.
  The ghost `late` excepts a write whose answer is a stale one (see below).
- `PanelsFollowScripts`: for every script the interface shows exactly the
  panels Lua has registered, or the last event on its way about it tells them,
  and no panel is shown twice.
- `EditsAreSettled`: a control is pending only while its invocation or result
  is on its way, and a draft that differs from the value is being edited or
  pending.
- `OutcomesAreTruthful`: a late answer is never taken for that of a later
  request; "failed" says nothing of a partial effect (a failed pause or removal
  may have paused the loop).

### Findings

1. `scenario_enter`. `ApplicationRuntime::poll` drains the Lua commands
   (`application_runtime.rs:421`) before the scenario service drains the callback
   results (line 427), and the two travel in separate channels. A callback that
   sends its action and returns between the two is finished in this poll, with
   its action still in the channel. `docs/scenarios.md:95` says transitions wait
   for the enter callback's actions.
2. `scenario_complete`. The late action is then tracked with no waiting callback.
   If completion is requested while it is pending, finalization is left to the end
   of a callback that ended before; the action's result advances nothing and the
   run hangs with `on_stop` never invoked. `docs/scenarios.md:115` says graceful
   completion waits for tracked actions and invokes `on_stop`.

   Draining the results before the commands (or both from one channel) removes
   both.
3. `signals_fed`. Deleting a series removes the loops on it and the outputs of
   their diagnostics (`service/runtime.rs:378`), but filters and loops fed by such
   a diagnostic stay, without an input. `docs/lua-api.md:62` says `app.delete`
   removes dependent processing and controller state.
4. `conditions_held`. A sample that arrives while the scenario is busy is offered
   to no condition (`scenario.rs:1340`), so a condition that has to hold
   continuously (`docs/scenarios.md:52`) fires although a sample contradicted it.
5. `panels_reload`. A console command submitted while a setup runs that then
   fails is pending forever (`lua_console_model.rs:198`, `:234`), and `App` refuses
   every reload while one is pending, where `docs/troubleshooting.md:17` says
   "Correct and reload."

### Observations

Behaviour met while modelling that the modules contain and no run singles out:

- *Worker.* `docs/architecture.md:52` says schedules advance from completion time;
  `advance_series_schedules` (`worker.rs:524`) advances from the previous deadline
  and from completion only when a second interval was missed too, so after a poll
  between one and two intervals late a series is due at once.
- *Emulator.* A response longer than `MAX_PAYLOAD_LENGTH` (a long catalog or a long
  error text) fails to encode and ends the server's thread
  (`device_emulator_handle.rs:219`), where `docs/virtual-instruments.md:88` says a
  model-level error keeps a usable session.
- *Serial source.* The input is cleared before each exchange; an answer that
  arrives after the clear of a later exchange with the same address and register
  is accepted as its answer (`late` in `SerialSource`).
- *Panels.* Registering a script again while an invocation is underway resets
  `pending`, and a second edit is committed by the first one's success; a value set
  from another execution overwrites a queued edit's draft, whose success then
  commits the value set; a worker that fails its initialization leaves queued
  edits pending; a value out of range set by a script succeeds in Lua and is
  rejected, with a log entry, in the user interface.
- *Settings.* A successful reload marks the selected profile as validated even if
  another one is selected. A crash between truncation and write of
  `state/active-profile.txt` loses the remembered choice.
- *Scenario handles.* Two handles of one id act on the run whoever started it. A
  handle whose `start` the service refused can never start again.

### Bounds

`output_small`: `QueueCapacity`, `MaxWrites` = 2: an automatic write and an
override behind it, and the queue's own limit. `MaxInstances` = 2: a controller
and its successor. `MaxTransitions` = 1: before, during and after a takeover.
`MaxEvents` = 1: one stale event beside the one being dispatched.

`scenario_*`: `MaxRuns` = 2: a run and its successor. `MaxActions`: one action per
callback suffices for the races, two for a callback that waits for several.
`MaxCommands`: commands waiting in the channel beside those being executed.

`worker`: `MaxPoll` = 2 with intervals 1 and 2 has polls shorter than, equal to and
longer than an interval, up to twice as long; two commands are one and another
behind it; `Capacity` = 1 fills the channel, so senders block (32 in the code).

`lifecycle`: `MaxActions` = 3 is a failing Start, its rollback and a Start and a
Stop around them; `MaxFailures` = 1 is an acquisition that ends by itself;
`MaxCommands` = 1 is the Lua command that is queued when the runtime retires.

`signals`: `MaxSignal` = 3 is a raw series, a filter of it and a filter or
diagnostic of that; `MaxRevisions` = 1 distinguishes before and after a change of
meaning; `MaxSamples` = 1 is a sample queued before a request.

`components`: `MaxTime` = 3 and `MaxLoops` = 1 (loops share nothing but an address
check); `MaxPolls` = 3 with a hold of one is begun, broken and begun again;
`MaxHandles` = 2, `MaxCalls` = 4: two handles that define, redefine, start and act;
`MaxLogEntries` = 2, `MaxActions` = `MaxRecords` = 1: a log that drops an entry and
two recording threads; `MaxStarts` = 2, `MaxRequests` = 3: a session and its
successor, a request before, across and after; `MaxPayload` = 200: one text fits and
one does not; `Attempts` = 3 as in the code, `MaxCalls` = `MaxUnderway` = 2: a late
answer of one exchange in the next; `MaxEdits` = 1, `MaxLaunches` = 2, `MaxLoads` = 1:
a file that changes between validation and load, a restart; `Capacity` = 1,
`MaxCalls` = `MaxEdits` = 2, `MaxReloads` = 1: a queue that is full, an edit over another;
`MaxRequests` = `MaxRuns` = 2: a request that times out and one after it, of this
run and of one that is over. `MaxWindow` bounds a filter's window. Where two
components have a bound of the same name, `Components` names them apart
(`MaxExchanges`, `MaxSerialCalls`, `MaxFileEdits`, `MaxPanelCalls`, `MaxPanelEdits`).
The theorems need none of these bounds.

### Fairness

`output_small`: weak fairness of the runtime thread within a command, of the
worker, the dispatcher and the output service; each is a loop that blocks only
on its channel. The user, the samples and the death of the processing thread
are not fair. A device transaction returns because transports have timeouts.
`scenario_stages`, `scenario_complete`: weak fairness of the poll, which the GUI
calls repeatedly, and of the Lua worker (a callback that is running returns;
Lua execution is limited by `lua_execution.rs`, and sending further commands is
not fair); strong fairness of an action's settling, because its result is
recorded only in some phases of the poll. That every action settles is an
assumption: it is what the command handlers and workers owe the scenario service,
and what `EveryActionIsAnswered` says of acquisition actions.
`worker`: weak fairness of the worker's thread; a poll and an access end because
transports have timeouts. Clients are not fair: a retry may never send its
refresh, a deadline then notices it. The worker waits forever where the code
does, stopped with an empty channel, and ends after Shutdown, so deadlock is
not checked there; nor where every instance ends by its bounds (`lifecycle`,
`signals`, `components`).

## 4. What is proved

TLC shows the properties on small instances; the theorems below hold for every
value of the constants. Each table is one module; a theorem without an arrow in
"Says" is `Spec => []P` of the property P named, under the hypothesis on the inputs
where the text above the table names one. Every module begins with its
inductive invariant, in parts named for what they say, which TLC checked on the
instances before it was proved; then lemmas about the operators of the model,
a lemma per action (`...Keeps`) and the theorems.

### Output path: `OutputControl_proofs`

For any sets of outputs and controllers and any bounds, from `BoundsAssumption`
and the assumptions of `OutputService` and `OutputArbiter` (bounds are naturals,
the null values are not members).

| Theorem | Says |
| --- | --- |
| `TypeCorrect` | `TypeOK` |
| `ManualOverrideHolds` | `ManualHolds` |
| `WritesKeepTheirOwner` | `AutomaticWritesHaveOwner` |
| `ReleaseIsSafe` | `SafeBeforeRelease` |
| `OwnersAreLoops` | `OwnershipMatchesLoops` |
| `CompletionsMatch` | `CompletionsAreMatched` |
| `ImplementsOwnership` | `Spec => KeepsOwnership`: every step of the four threads is one of `OutputOwnership` or leaves each output as it is |

None of these is inductive. Between two calls of a removal the queue and the
table are anybody's, so the invariant has to say what the runtime thread may
rely on at each of its calls. `IInv` has two halves:

- `Registry`: instances are handed out once; an entry being installed is fresh
  (no event, loop or queued write carries its instance); a name owns one output;
  loops own their outputs and owners have their loops, except at the calls that
  are about to change one of them.
- `Writes`: at most one safe write of the runtime is on its way and it is the
  last write of its output until answered; names paused so far in a removal stay
  settled (manual, safe on the device, nothing queued); with `ManualHolds` and
  `AutomaticWritesHaveOwner` themselves.

`CompletionsMatch` has an invariant of its own, `CInv`, about ids: they travel
in the order they were given (`IdsInOrder`), each belongs to one pending write
(`IdsArePending`), what an output has acknowledged is older than anything on its
way to it (`RecordsAreOld`), and no write is ahead of its output's takeover
generation (`GenerationsAreOld`). An id that a closed channel loses is skipped and
never used again.

### Scenarios: `Scenario_proofs`

For any commands, with and without transitions, and any bounds.

| Theorem | Says |
| --- | --- |
| `TypeCorrect` | `TypeOK` |
| `BusyAccountIsExact` | `BusyIsExact` |
| `FiredTriggersStayGood` | `FiredIsStillGood` |
| `RunsAdvanceSettled` | `Spec => SettledBeforeAdvance`, a property of steps |
| `ImplementsLifecycle` | `Spec => KeepsLifecycle`: a run starts, drains, ends and is followed by the next only as `ScenarioLifecycle` allows |

`IInv` says what the service's operators rely on (`Sound`: only an open run waits,
only a live one is busy or ending), that a run has at most one invocation, callback
or result on its way, wherever in five places it is, and none before it starts
(`CallbackInv`, by counting the messages of a run), and that an action is executed
once and settles once, so what a run waits for is on its way (`ActionInv`).

### Connection worker: `ConnectionWorker_proofs`

For any set of series and any intervals, durations and bounds, from
`PollScheduleAssumption` and `ConnectionWorkerAssumption`.

| Theorem | Says |
| --- | --- |
| `TypeCorrect` | `TypeOK` |
| `SuspensionIsEarned` | `SuspensionNeedsThreeFailures` |
| `DeadlinesAreKept` | `BacklogIsBounded` |
| `StoppedConnectionsAreClosed` | `StoppedIsClosed` |
| `ImplementsRequestQueue` | `Spec => ServesRequests` |

`IInv` says, by concern: which phases go with which state and command
(`PhaseInv`); where the flag may lag behind the state (`FlagInv`) and the source
behind both (`SourceInv`); that what is polled is scheduled and a stopped worker
schedules nothing (`DueInv`); that a schedule never counts more failures than
there were, and that a suspended series has none left (`FailureInv`); and how
late a deadline can be in each phase (`DeadlineInv`: nothing is late when the
worker receives, so a poll starts at most one interval or one poll late). There
is a lemma per concern and in it a step per action, on lemmas that say what the
operators of `PollSchedule` return. The refinement maps each action to one of
`RequestQueue` or to a step that clients do not see.

### Acquisition and the life of a runtime: `RuntimeLifecycle_proofs`

For any finite set of connections, any controllers and commands and any bounds.

| Theorem | Says |
| --- | --- |
| `TypeCorrect` | `TypeOK` |
| `EveryActionGetsOneAnswer` | `EveryActionIsAnswered` |
| `AppliedHolds` | `AppliedActionsHold` |
| `PortsHaveOneOwner` | `OneProfileOwnsThePorts` |
| `RetiredStayPaused` | `RetiredControllersStayPaused` |

The invariant follows an acknowledgement from a worker's channel over the events to
the table of pending actions: `OneAnswer` says it is in exactly one of the three,
which with `CommandsInOrder` and `EventsAreAnswers` gives that an action is counted
once per connection. `StoppedByLatest` and `StartedByLatest` say what a worker that
has executed the latest command is, and so what "applied" means while earlier
commands and rollbacks are still queued. `BarrierIsLatest` and `ReplacementIsBarred`
carry this over the phases of a retirement: between the barrier and the return to
polling nothing is accepted, so nothing but Stop can be queued.

### Signals: `Signals_proofs`

For any bounds and any names of loops.

| Theorem | Says |
| --- | --- |
| `TypeCorrect` | `TypeOK` |
| `NothingEverSpansAReplacement` | `NothingSpansAReplacement` |
| `StoreAlwaysMatchesGraph` | `StoreMatchesGraph` |
| `OnlySafeLoopsAreEverRemoved` | `Spec => OnlySafeLoopsAreRemoved`, a property of steps |

Identities are never used again, so a filter's output is newer than its input
(`Ordered`): the graph is acyclic whatever is deleted and added, which no number of
signals checked by TLC can show. Between the calls of one command the store and the
processing thread differ in known ways: by the series being added and those whose
filters are gone already (`StoreFollowsGraph`), by the loops that are paused one
after another (`DoomedAreSafe`). A history or baseline is of the present stamp or
empty (`HistoriesAreCurrent`, `BaselinesAreCurrent`). For this the proof needs what
the walks along the graph compute: that everything downstream of a signal is reached
in at most as many steps as there are signals, and that a stamp is its filter's
revision plus its input's stamp.

### Control loops: `ControlLoops_proofs`

For any definitions, settings, references, targets, timestamps, measurements and
bounds that satisfy `InputsAreValid` (typed; and a target that holds integers has a
range that fits its type, as the registers of `metakon_5x3.rs` and the parameters of
`virtual_instrument.rs:374` have). The hypothesis is evaluated for the instance of
the run (`LoopInputsAreValid` in `Components`).

| Theorem | Says |
| --- | --- |
| `TypeCorrect` | every loop is well formed |
| `OutputsCanBeWritten` | `OutputsAreWritable` |
| `NothingEverSpansAPause` | `NothingSpansAPause` |
| `LoopsAlwaysMoveSmoothly` | `Spec => LoopsMoveSmoothly`, a property of steps |

The invariant is that each loop is well formed, that its settings were accepted by
the validation of its kind and its output range fits its target (`IsValid`), and that
no time base is older than its last pause (`IsFresh`). Most of the proof says what
each operator returns: that a configuration is taken as a whole or not at all, that
an update of each of the three controllers stays within the range the preview of the
configuration computed, and that rounding to the steps of a register does not leave
that range.

### Serial source: `SerialSource_proofs`

For any ports, channels, wiring, requests, attempts and bounds that satisfy
`InputsAreValid` (registers hold integers, requests are for registers and channels
that exist), evaluated for the run as `LineInputsAreValid`.

| Theorem | Says |
| --- | --- |
| `AnswersStayGenuine` | `AnswersAreGenuine` |

The invariant follows each value from the device over the line (`HeldInv`) and each
identification from its undamaged frame (`IdentifiedInv`). `CurrentInv` is the
argument for writes: the request of the present exchange is the last on the line, so
its answer is on its way only when no request is left, and unless an answer to an
earlier one has come since, what is received is that answer. From the confirmation
of a write to the read that follows, nothing else is written (`WriteInv`); only the
setpoint can be written, and the process moves only measurements.

### Components: `Components_proofs`

For any constants of the components, from four assumptions that TLC evaluates for
the run: `LoopInputsAreValid` and `LineInputsAreValid` (above), `LogKeepsEntries`
(the log keeps an entry at least; `MAX_LOG_ENTRIES` does) and `PanelTablesAreArrays`
(an array of panels that `validate_array` accepts has its items in order).

| Theorem | Says |
| --- | --- |
| `OutputsCanAlwaysBeWritten` | `OutputsAreWritable` |
| `NoLoopEverSpansAPause` | `NothingSpansAPause` |
| `LoopsMoveWithoutBump` | `Spec => LoopsMoveSmoothly`, a property of steps |
| `AnswersOfTheLineAreGenuine` | `AnswersAreGenuine` |
| `EmulatorAnswersItsRequests` | `AnswersTheirRequests` |
| `ProfilesInvariant` | the inductive invariant of the profiles |
| `OnlyRunProfilesAreRemembered` | `RemembersOnlyWhatRan` |
| `NoPortHasTwoUsers` | `PortsHaveOneUser` |
| `PanelsInvariant` | the inductive invariant of the panels |
| `InterfaceFollowsScripts` | `PanelsFollowScripts` |
| `NoControlStaysLocked` | `EditsAreSettled` |
| `LogAlwaysTellsTheHistory` | `LogTellsTheHistory` |
| `HistoryNeverHasHoles` | `HistoryHasNoHoles` |
| `ScriptsAreToldTheTruth` | `OutcomesAreTruthful` |
| `EndedRunsTouchNothing` | `Spec => StaleRunsTouchNothing`, a property of steps |

- *Loops, serial line.* Carried over from their own modules: where the component
  runs, `Spec` is the `Spec` of its module.
- *Emulator* (`EmulatorInv`). `RuntimeInv`: a session is of the latest server, and
  without a handle no server runs but one that is starting or stopping. `TokenInv`
  is the argument for answers without ids: the pair of endpoints holds at most one
  request or answer, none once a session was drained, and while a request is
  waited for, that of the request. `AnswerInv` carries it to what is returned.
- *Profiles* (`ProfilesInv`). A path that is saved, or about to be, is that of a
  profile that has run (`HasRun`); the definition that runs and the one being
  tried were validated (`UsesPortsOnce`). The lemmas say what validation gives:
  that a definition it accepts has one user per port and a primary connection.
- *Panels* (`PanelsInv`). What is shown together with the events on their way
  amounts to what Lua has registered (`ShowsOrTells`, per script): a call that
  changes the registration sends an event that tells it, an event that is taken
  makes the interface show what it tells, and all other steps touch neither.
  `PendingIsAwaited` follows a pending edit through the queue, the worker and the
  events; it needs that an edit leaves ids alone and that an event is applied to
  every control at its place. Controls are `SoundControl`: no other draft than one
  that is edited or pending. That a removal keeps the other panels in order rests
  on an enumeration of the kept places, whose existence is proved.
- *Recorder* (`RecorderInv`, `DatabaseInv`). Threads record in three steps;
  `ThreadInv`, `HubInv` and `TimelineInv` say where the request of every open action
  is, so that a subscriber has it and the log knows it before the action may be
  settled; `FileInv` that the file is a prefix of what was pushed. `WriterInv` says
  that the queue of the writer is the end of what was sent and the tables are what
  the records before it amount to (`Follows`, `TablesAre`), an update of an action's
  row in place included; `FlagsInv` that the writer stops at the first failure and
  it is reported.
- *Requests* (`RequestsInv`). What is queued, at a worker, or replied carries the id
  of its own request, whose `fate` says so; the script waits for a request it was
  not told of. The step property compares the fates before and after: only the
  command of an open and latest run leaves the queue other than dropped.

### Induction over data

The provers cannot instantiate the library's induction theorems. Where a proof needs
one, it takes the least counterexample instead: `LeastElement`, a lemma of the proof
modules that use it, proves from the well-foundedness of `<` that a non-empty set of
naturals, finite or not, has a least element. So is proved that a worker's wait ends
at the first deadline, that the first of several refused parameters is one of them,
that a finite set of places can be enumerated in order, and what the recursive
functions of `SignalGraph` compute, their existence included.

### Only model-checked

- All liveness, which is out of the prover's reach: `CommandsReturn`,
  `ConfirmsTakeovers`, `BusyRunsSettle`, `CommandsAreAnswered`.
- `WonAsDeclared` and `ScenariosCanAdvance`: `ScenarioTables` describes
  conditions, which are trees, by recursive operators, and the prover loses its
  arithmetic in a module that reaches one. They are stated in `MCComponents`, which
  adds the two components to those of `Components`.

Every other invariant and property of steps that a passing run checks is stated
by a theorem.

## 5. What is left

To prove: nothing but the items above. To model: a change of a sampling interval,
the combined source's rollback, the construction of a runtime service by service.

## 6. Not modelled

- Views that only show data (plot, its downsampling, help, lists of series) and
  the drawing of all others: they read shared state and send commands, which the
  modules take from their environment.
- Byte layouts and number formats of frames and messages, the settings of a serial
  port, the SQLite schema, dates and names of files, texts: a frame, message or
  record is modelled by what it says.
- Floating-point arithmetic: filters' outputs and the rounding of controllers and
  conversions. The decisions taken on the numbers are modelled over integers.
- The serial transport of the stand-alone emulator, the rollback of a combined
  source, the change of a sampling interval in a running worker, the construction
  of a runtime and the failures of spawning its threads.
- Entry points, and the installation of the Lua libraries.

`PROJECT.json` names for each component what of it is left out.
