--------------------------- MODULE OutputTargets ----------------------------
(* Actuators: process_control/output_target.rs and output_conversion.rs.    *)
(*                                                                          *)
(* A target is a parameter with its address, its access and type, its range *)
(* (a sequence of at most one, in engineering units), the scale of a        *)
(* Metakon register (1 for a virtual parameter) and its safe value, if any. *)
EXTENDS Controllers

CONSTANT IntegerMax         \* The largest i64: magnitudes beyond it do not fit.

Target(address, access, type, range, scale) ==
  [address |-> address, access |-> access, type |-> type, range |-> range,
   scale |-> scale, safe |-> << >>]

(* ControlOutputTarget::metakon_5x3 and ::virtual_instrument. *)
TargetError(t) ==
  IF t.access = "read_only" THEN "ReadOnlyParameter"
  ELSE IF t.type = "boolean" THEN "NonNumericParameter"
  ELSE IF ~Finite(t.scale) \/ t.scale <= 0 THEN "InvalidScale"
  ELSE "none"

InRange(x, range) ==
  \A i \in DOMAIN range : range[i].minimum <= x /\ x <= range[i].maximum

(* f64::round of value / scale: to the nearest integer, halves away from 0. *)
RoundedQuotient(value, scale) ==
  IF value >= 0 THEN (2 * value + scale) \div (2 * scale)
  ELSE -((2 * (-value) + scale) \div (2 * scale))

(* ControlOutputTarget::write_request: the typed value that is sent. *)
WriteRequest(t, value) ==
  LET raw == RoundedQuotient(value, t.scale)
  IN IF ~Finite(value) THEN [error |-> "NonFiniteValue", raw |-> 0]
     ELSE IF ~InRange(value, t.range) THEN [error |-> "ValueOutOfRange", raw |-> 0]
     ELSE IF t.type = "number" /\ t.scale = 1 THEN [error |-> "none", raw |-> value]
     ELSE IF raw \notin -IntegerMax..IntegerMax
       THEN [error |-> "IntegerOutOfRange", raw |-> 0]
     ELSE [error |-> "none", raw |-> raw]

(* ControlOutputTarget::with_safe_value. *)
WithSafeValue(t, value) ==
  LET request == WriteRequest(t, value)
  IN [error |-> request.error,
      target |-> IF request.error = "none" THEN [t EXCEPT !.safe = <<value>>] ELSE t]

(* validate_output_range: every value of the range is one of the target's. *)
RangeFits(range, t) ==
  InRange(range.minimum, t.range) /\ InRange(range.maximum, t.range)
=============================================================================
