---------------------------- MODULE ControlLoops ----------------------------
(* The computation of the controller registry: process_control/registry.rs  *)
(* and control_loop.rs over the algorithms of Controllers, the references   *)
(* of References and the actuators of OutputTargets.  The thread that calls *)
(* it and the signal graph that feeds it are in Signals.                    *)
EXTENDS ControlLoop, FiniteSets

CONSTANTS
  Definitions,       \* The loop definitions that may be added.
  Configurations,    \* The parameter updates a loop may be configured with.
  Retunings,         \* The updates a reference may be configured with.
  Sources,           \* The reference sources that may be installed.
  InputSignals,
  Measurements,      \* The values a sample may have.
  MaxTime,           \* Bound: samples have timestamps up to MaxTime.
  MaxLoops           \* Bound: loops installed at once.  They share nothing but the
                     \* addresses Add compares.

VARIABLE control     \* loops, the events of the last batch, and for the properties:
                     \* clock, the latest timestamp offered, and pausedAt, for every
                     \* loop the latest one offered while it was paused.

LoopNames == {d.name : d \in Definitions}

(* What those who call the registry have seen to: settings, ranges, sources *)
(* and updates of type "number" are numbers, and a target with a range has  *)
(* one whose values its type can hold: the scaled raw values of a register, *)
(* or the i64 bounds its descriptor requires of an integer parameter.       *)
IsSource(s) ==
  \/ s \in [kind : {"fixed"}, value : Int]
  \/ s \in [kind : {"ramp"}, start : Int, target : Int, rate : Int]

AreUpdates(updates) ==
  /\ DOMAIN updates = 1..Len(updates)
  /\ \A i \in DOMAIN updates :
       updates[i].value.type = "number" => updates[i].value.value \in Int

IsTarget(t) ==
  /\ t.scale \in Int
  /\ t.range = << >> \/ t.range = <<t.range[1]>>
  /\ \A i \in DOMAIN t.range : t.range[i].minimum \in Int /\ t.range[i].maximum \in Int

HoldsItsRange(t) ==
  \A i \in DOMAIN t.range : t.type # "number" \/ t.scale # 1 =>
    t.range[i].minimum >= -(IntegerMax * t.scale) /\ t.range[i].maximum <= IntegerMax * t.scale

IsDefinition(d) ==
  /\ d.kind \in {"pid", "on_off", "furnace"}
  /\ d.settings \in [Keys(d.kind) -> Int]
  /\ IsTarget(d.target) /\ HoldsItsRange(d.target)
  /\ d.reference = << >> \/ (d.reference = <<d.reference[1]>> /\ IsSource(d.reference[1]))

InputsAreValid ==
  /\ Huge \in Nat /\ IntegerMax \in Nat /\ MaxTime \in Nat
  /\ Measurements \subseteq Int
  /\ \A d \in Definitions : IsDefinition(d)
  /\ \A updates \in Configurations \cup Retunings : AreUpdates(updates)
  /\ \A source \in Sources : IsSource(source)

Init == control = [loops |-> << >>, events |-> << >>, clock |-> 0,
                   pausedAt |-> [name \in LoopNames |-> 0]]

Installed == DOMAIN control.loops

(* Every operation but a sample leaves no event behind. *)
SetLoop(name, loop) ==
  control' = [control EXCEPT !.loops[name] = loop, !.events = << >>]
Keep == control' = [control EXCEPT !.events = << >>]

-----------------------------------------------------------------------------
(* Installation. *)

(* ControllerRegistry::add, of a definition whose parts were validated. *)
MayAdd(d) ==
  /\ d.name \notin Installed
  /\ RangeFits(OutputRange(d.kind, d.settings), d.target)
  /\ \A name \in Installed : control.loops[name].target.address # d.target.address

Add(d) ==
  /\ Cardinality(Installed) < MaxLoops
  /\ SettingsError(d.kind, d.settings) = "none"
  /\ TargetError(d.target) = "none"
  /\ \A i \in DOMAIN d.reference : SourceError(d.reference[i]) = "none"
  /\ MayAdd(d)
  /\ control' = [control EXCEPT
       !.loops = [name \in Installed \cup {d.name} |->
                    IF name = d.name THEN NewLoop(d) ELSE @[name]],
       !.events = << >>,
       !.pausedAt[d.name] = 0]

Remove(name) ==
  control' = [control EXCEPT
    !.loops = [other \in Installed \ {name} |-> @[other]], !.events = << >>]

-----------------------------------------------------------------------------
(* Parameters. *)

ConfigureLoop(name, updates) ==
  SetLoop(name, ConfiguredLoop(control.loops[name], updates))

ConfigureReferenceOf(name, updates) ==
  LET loop == control.loops[name]
      result == ConfigureReference(loop.reference[1], updates)
  IN IF loop.reference = << >> THEN Keep
     ELSE SetLoop(name, [loop EXCEPT !.reference = <<result.reference>>])

SetReference(name, source) == SetLoop(name, WithReference(control.loops[name], source))

-----------------------------------------------------------------------------
(* State. *)

SetInput(name, input) == SetLoop(name, WithInput(control.loops[name], input))

Pause(name) == SetLoop(name, [control.loops[name] EXCEPT !.running = FALSE])

Resume(name) == SetLoop(name, Resumed(control.loops[name]))

ResetIntegralOf(name) ==
  SetLoop(name, [control.loops[name] EXCEPT !.controller = ResetIntegral(@).controller])

ResetLoop(name) == SetLoop(name, ResetOf(control.loops[name]))

-----------------------------------------------------------------------------
(* One sample. *)

(* ControllerRegistry::process: every running loop on the signal. *)
Sample(input, at, m) ==
  LET fed == {name \in Installed :
                control.loops[name].input = input /\ control.loops[name].running}
  IN \E results \in [fed -> UNION {LoopUpdates(control.loops[name], at, m) : name \in fed}] :
       /\ \A name \in fed : results[name] \in LoopUpdates(control.loops[name], at, m)
       /\ control' = [loops |-> [name \in Installed |->
                         IF name \in fed THEN results[name].loop ELSE control.loops[name]],
                      events |-> [name \in fed |-> Event(results[name])],
                      clock |-> IF Finite(at) THEN at ELSE control.clock,
                      pausedAt |-> [name \in LoopNames |->
                         IF name \in Installed /\ ~control.loops[name].running /\ Finite(at)
                         THEN at ELSE control.pausedAt[name]]]

(* Timestamps come from the clock of the polls: they do not go back, but    *)
(* the same may come twice, and a corrupt one is not finite.                *)
Timestamps == {t \in control.clock..MaxTime : t > 0} \cup {Huge + 1}

Next ==
  \/ \E d \in Definitions : Add(d)
  \/ \E name \in Installed :
       \/ Remove(name)
       \/ Pause(name)
       \/ Resume(name)
       \/ ResetIntegralOf(name)
       \/ ResetLoop(name)
       \/ \E updates \in Configurations : ConfigureLoop(name, updates)
       \/ \E updates \in Retunings : ConfigureReferenceOf(name, updates)
       \/ \E source \in Sources : SetReference(name, source)
       \/ \E input \in InputSignals : SetInput(name, input)
  \/ \E input \in InputSignals, at \in Timestamps, m \in Measurements : Sample(input, at, m)

Spec == Init /\ [][Next]_control

-----------------------------------------------------------------------------
(* Properties. *)

(* A computed output can always be written: its range was checked against   *)
(* the target when the loop was added and at every configuration since,     *)
(* and rounding to the register's step stays in the range.  Only a target   *)
(* without a range can be given a value it has no integer for.              *)
OutputsAreWritable ==
  \A name \in DOMAIN control.events :
    control.events[name].error = "Output" => control.loops[name].target.range = << >>

(* No time base of a running loop is older than a moment it was paused at:  *)
(* neither an integral, nor a derivative, nor a ramp spans a pause.         *)
NothingSpansAPause ==
  \A name \in Installed :
    LET loop == control.loops[name]
    IN loop.running =>
         /\ \A i \in DOMAIN loop.controller.previous :
              loop.controller.previous[i].at >= control.pausedAt[name]
         /\ \A i \in DOMAIN loop.reference :
              \A j \in DOMAIN loop.reference[i].previous :
                loop.reference[i].previous[j] >= control.pausedAt[name]

(* A sample never integrates past a saturated bound: when the integral has  *)
(* grown the output fits below the maximum, when it has shrunk above the    *)
(* minimum.                                                                 *)
IntegratesWithinBounds ==
  \A name \in DOMAIN control'.events :
    LET before == control.loops[name].controller
        after == control'.loops[name].controller
        output == control'.events[name].output
    IN (control'.events[name].error = "none" /\ before.kind # "on_off") =>
         ((after.integral > before.integral
             => output.unconstrained <= after.settings["output_max"])
          /\ (after.integral < before.integral
             => output.unconstrained >= after.settings["output_min"]))

(* A ramp given a new target or rate, but no new start, goes on from where  *)
(* it is: the setpoint a reader sees does not jump.                         *)
RetunesWithoutBump ==
  \A name \in Installed, updates \in Retunings :
    (ConfigureReferenceOf(name, updates) /\ control.loops[name].reference # << >>
       /\ control.loops[name].reference[1].source.kind = "ramp"
       /\ "start" \notin UpdatedKeys(updates))
    => ReadSetpoint(control'.loops[name]) = ReadSetpoint(control.loops[name])
LoopsMoveSmoothly == [][IntegratesWithinBounds /\ RetunesWithoutBump]_control
=============================================================================
