---------------------------- MODULE ControlLoop -----------------------------
(* One control loop, process_control/control_loop.rs: an algorithm of       *)
(* Controllers, the reference that may drive its setpoint (a sequence of at *)
(* most one) and the actuator its output goes to.                           *)
EXTENDS References, OutputTargets

NewLoop(d) ==
  [input |-> d.input, target |-> d.target, running |-> TRUE,
   controller |-> NewController(d.kind, d.settings),
   reference |-> IF d.reference = << >> THEN << >> ELSE <<NewReference(d.reference[1])>>]

-----------------------------------------------------------------------------
(* Parameters. *)

(* A setpoint the reference owns is not configured directly. *)
ManagedByReference(loop, updates) ==
  loop.reference # << >> /\ "setpoint" \in UpdatedKeys(updates)

(* ControllerRegistry::configure: the output range of the candidate has to  *)
(* fit the target before the live controller is configured.                 *)
ConfigurationError(loop, updates) ==
  LET preview == OutputRangeAfter(loop.controller, updates)
  IN IF ManagedByReference(loop, updates) THEN "ManagedByReference"
     ELSE IF preview.error # "none" THEN preview.error
     ELSE IF ~RangeFits(preview.range, loop.target) THEN "OutputRangeOutsideTargetRange"
     ELSE "none"

(* Mutant: the proposed range is not previewed. *)
ConfigureUnpreviewed(loop, updates) ==
  LET result == Configure(loop.controller, updates)
  IN IF ManagedByReference(loop, updates) THEN loop
     ELSE [loop EXCEPT !.controller = result.controller]

ConfiguredLoop(loop, updates) ==
  IF ConfigurationError(loop, updates) # "none" THEN loop
  ELSE [loop EXCEPT !.controller = Configure(@, updates).controller]

(* What read_parameter answers for the setpoint. *)
ReadSetpoint(loop) ==
  IF loop.reference # << >> THEN CurrentValue(loop.reference[1])
  ELSE Read(loop.controller, "setpoint").value

-----------------------------------------------------------------------------
(* Changes of state. *)

(* Mutant: the reference keeps its time base over the pause. *)
ResumedController(loop) ==
  [loop EXCEPT !.running = TRUE, !.controller = Resynchronized(@)]

(* ControlLoop::resume: a fresh time base for the controller and the        *)
(* reference; the integral and the progress of the ramp stay.               *)
Resumed(loop) ==
  IF loop.running THEN loop
  ELSE [loop EXCEPT
    !.running = TRUE,
    !.controller = Resynchronized(@),
    !.reference = [i \in DOMAIN @ |-> ResynchronizedReference(@[i])]]

(* ControlLoop::set_input and ::set_reference: the history of measurements  *)
(* starts afresh.                                                           *)
WithInput(loop, input) ==
  IF loop.input = input THEN loop
  ELSE [loop EXCEPT !.input = input, !.controller = Resynchronized(@)]
WithReference(loop, source) ==
  [loop EXCEPT !.reference = <<NewReference(source)>>, !.controller = Resynchronized(@)]

ResetOf(loop) ==
  [loop EXCEPT !.controller = Reset(@),
               !.reference = [i \in DOMAIN @ |-> RestartedReference(@[i])]]

-----------------------------------------------------------------------------
(* One sample. *)

(* ControlLoop::update: the possible results.  The reference advances       *)
(* first, and what it has reached becomes the setpoint; a sample the        *)
(* controller then rejects has still moved the ramp.                        *)
LoopUpdates(loop, at, m) ==
  LET reference == UpdateReference(loop.reference[1], at)
      setpoint == Configure(loop.controller,
        <<[key |-> "setpoint", value |-> Number(CurrentValue(reference.reference))]>>)
      referred == [loop EXCEPT !.reference = <<reference.reference>>,
                               !.controller = setpoint.controller]
      computed(base) == {[error |-> result.error, output |-> result.output,
                          loop |-> [base EXCEPT !.controller = result.controller]] :
                            result \in Updates(base.controller, at, m)}
      failed(error, after) == {[error |-> error, output |-> NoOutput, loop |-> after]}
  IN IF loop.reference = << >> THEN computed(loop)
     ELSE IF reference.error # "none" THEN failed("Reference", loop)
     ELSE IF setpoint.error # "none" THEN failed("ReferenceApplication", referred)
     ELSE computed(referred)

(* The event of a result: the write the output is converted to, or the      *)
(* failure.                                                                 *)
Event(result) ==
  LET request == WriteRequest(result.loop.target, result.output.value)
  IN IF result.error # "none" THEN [error |-> result.error, output |-> NoOutput, raw |-> 0]
     ELSE IF request.error # "none"
       THEN [error |-> "Output", output |-> result.output, raw |-> 0]
     ELSE [error |-> "none", output |-> result.output, raw |-> request.raw]
=============================================================================
