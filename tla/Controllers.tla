---------------------------- MODULE Controllers -----------------------------
(* The control algorithms of src/process_control: pid.rs, on_off.rs,        *)
(* furnace.rs and the closed dispatch over them in controller.rs.           *)
(*                                                                          *)
(* A controller is a record: its kind, its settings (a function of the      *)
(* parameter keys), and the dynamic state of every kind, of which a kind    *)
(* uses its own part: the integral term, the previous sample (a sequence of *)
(* at most one), the filtered measurement rate and the on/off state.        *)
(*                                                                          *)
(* Numbers are small integers.  Huge is the largest finite magnitude: a     *)
(* value beyond it stands for NaN or an infinity, so an overflow is a sum   *)
(* or product that leaves -Huge..Huge.                                      *)
EXTENDS Integers, Sequences

CONSTANT Huge

Finite(x) == x \in -Huge..Huge
Clamp(x, low, high) == IF x < low THEN low ELSE IF x > high THEN high ELSE x
Larger(x, y) == IF x > y THEN x ELSE y
Smaller(x, y) == IF x > y THEN y ELSE x

(* A typed value, as a configuration or a write carries it. *)
Number(x) == [type |-> "number", value |-> x]

-----------------------------------------------------------------------------
(* Parameters and configuration. *)

PidKeys == {"setpoint", "kp", "ki", "kd", "output_min", "output_max"}
OnOffKeys == {"setpoint", "hysteresis", "output_off", "output_on"}
FurnaceKeys == {"setpoint", "kp", "ki", "output_min", "output_max", "ambient",
                "max_power", "heater_lag", "linear_loss", "radiation_loss"}

Keys(kind) == CASE kind = "pid" -> PidKeys
                [] kind = "on_off" -> OnOffKeys
                [] kind = "furnace" -> FurnaceKeys

(* The error for a key the kind lacks tells a foreign key from an unknown. *)
UnknownParameter(key) ==
  IF key \in PidKeys \cup OnOffKeys \cup FurnaceKeys
  THEN "UnsupportedParameter" ELSE "UnknownParameter"

(* What is wrong with the i-th of the updates, a sequence of keys and typed *)
(* values; "none" when it is accepted.                                      *)
UpdateError(kind, updates, i) ==
  IF updates[i].key \notin Keys(kind) THEN UnknownParameter(updates[i].key)
  ELSE IF \E j \in 1..i - 1 : updates[j].key = updates[i].key
    THEN "DuplicateParameter"
  ELSE IF updates[i].value.type # "number" THEN "TypeMismatch"
  ELSE "none"

(* PidGains::new, PidOutputLimits::new and validate_setpoint. *)
PidError(s) ==
  IF \E key \in {"kp", "ki", "kd"} : ~Finite(s[key]) \/ s[key] < 0 THEN "Gains"
  ELSE IF ~Finite(s["output_min"]) \/ ~Finite(s["output_max"])
          \/ s["output_min"] >= s["output_max"] THEN "OutputLimits"
  ELSE IF ~Finite(s["setpoint"]) THEN "NonFiniteSetpoint"
  ELSE "none"

OnOffError(s) ==
  IF ~Finite(s["setpoint"]) THEN "NonFiniteSetpoint"
  ELSE IF ~Finite(s["hysteresis"]) \/ s["hysteresis"] < 0 THEN "Hysteresis"
  ELSE IF ~Finite(s["output_off"]) \/ ~Finite(s["output_on"]) THEN "NonFiniteOutput"
  ELSE IF ~Finite(s["setpoint"] - s["hysteresis"])
          \/ ~Finite(s["setpoint"] + s["hysteresis"]) THEN "NonFiniteThreshold"
  ELSE "none"

(* Temperatures start at absolute zero, which is 0 here. *)
FurnaceError(s) ==
  IF \E key \in {"kp", "ki"} : ~Finite(s[key]) \/ s[key] < 0 THEN "Gains"
  ELSE IF ~Finite(s["ambient"]) \/ s["ambient"] < 0 THEN "InvalidAmbientTemperature"
  ELSE IF ~Finite(s["max_power"]) \/ s["max_power"] <= 0 THEN "InvalidMaximumPower"
  ELSE IF \E key \in {"heater_lag", "linear_loss", "radiation_loss"} :
            ~Finite(s[key]) \/ s[key] < 0 THEN "InvalidModel"
  ELSE IF ~Finite(s["output_min"]) \/ ~Finite(s["output_max"])
          \/ s["output_min"] >= s["output_max"] THEN "OutputLimits"
  ELSE IF ~Finite(s["setpoint"]) \/ s["setpoint"] < 0 THEN "InvalidSetpoint"
  ELSE "none"

SettingsError(kind, s) == CASE kind = "pid" -> PidError(s)
                            [] kind = "on_off" -> OnOffError(s)
                            [] kind = "furnace" -> FurnaceError(s)

(* The settings with every update applied. *)
Updated(settings, updates) ==
  [key \in DOMAIN settings |->
    IF \E i \in DOMAIN updates : updates[i].key = key
    THEN updates[CHOOSE i \in DOMAIN updates : updates[i].key = key].value.value
    ELSE settings[key]]

(* Controller::configure: the updates are resolved, in their order, and the *)
(* whole candidate is validated before anything changes.  The dynamic state *)
(* is kept.                                                                 *)
Configure(c, updates) ==
  LET bad == {i \in DOMAIN updates : UpdateError(c.kind, updates, i) # "none"}
      first == CHOOSE i \in bad : \A j \in bad : i <= j
      candidate == Updated(c.settings, updates)
      error == IF bad # {} THEN UpdateError(c.kind, updates, first)
               ELSE SettingsError(c.kind, candidate)
  IN [error |-> error,
      controller |-> IF error = "none" THEN [c EXCEPT !.settings = candidate] ELSE c]

(* Controller::read: the setting of a key the kind has. *)
Read(c, key) ==
  IF key \in Keys(c.kind) THEN [error |-> "none", value |-> c.settings[key]]
  ELSE [error |-> UnknownParameter(key), value |-> 0]

(* The range of the values a controller puts out. *)
OutputRange(kind, s) ==
  IF kind = "on_off"
  THEN [minimum |-> Smaller(s["output_off"], s["output_on"]),
        maximum |-> Larger(s["output_off"], s["output_on"])]
  ELSE [minimum |-> s["output_min"], maximum |-> s["output_max"]]

(* output_range_after_configuration: the range a fresh controller with the  *)
(* updated settings would have.                                             *)
OutputRangeAfter(c, updates) ==
  LET preview == Configure(c, updates)
  IN [error |-> preview.error,
      range |-> OutputRange(c.kind, preview.controller.settings)]

NewController(kind, settings) ==
  [kind |-> kind, settings |-> settings, integral |-> 0, previous |-> << >>,
   rate |-> 0, active |-> FALSE]

-----------------------------------------------------------------------------
(* One sample.  A result carries the controller after the sample, which is  *)
(* the one before it when the sample is rejected, and the output's terms.   *)

NoOutput == [value |-> 0, unconstrained |-> 0, integral |-> 0, saturated |-> FALSE]
Rejected(c, error) == [error |-> error, controller |-> c, output |-> NoOutput]

(* Conditional integration: the integral does not grow past the bound at    *)
(* which the output saturates, and may always unwind.                       *)
Integrated(integral, change, base, low, high) ==
  LET current == base + integral
      proposed == current + change
  IN CASE proposed > high /\ change > 0 ->
            (IF current < high THEN integral + high - current ELSE integral)
       [] proposed < low /\ change < 0 ->
            (IF current > low THEN integral + low - current ELSE integral)
       [] OTHER -> integral + change

(* The result of a PI or PID sample whose terms other than the integral add *)
(* up to base.                                                              *)
Constrained(c, base, change, sample) ==
  LET low == c.settings["output_min"]
      high == c.settings["output_max"]
      integral == Integrated(c.integral, change, base, low, high)
      unconstrained == base + integral
      value == Clamp(unconstrained, low, high)
  IN IF ~Finite(integral) \/ ~Finite(unconstrained) THEN Rejected(c, "NonFiniteOutput")
     ELSE [error |-> "none",
           controller |-> [c EXCEPT !.integral = integral, !.previous = <<sample>>],
           output |-> [value |-> value, unconstrained |-> unconstrained,
                       integral |-> integral,
                       saturated |-> integral # c.integral + change
                                     \/ value # unconstrained]]

Elapsed(c, at) == IF c.previous = << >> THEN 0 ELSE at - c.previous[1].at
OutOfOrder(c, at) == c.previous # << >> /\ at <= c.previous[1].at

(* The slope since the previous sample.  Measurements are multiples of the  *)
(* longest interval, so the division is exact.                              *)
RawRate(c, at, m) ==
  IF c.previous = << >> THEN 0 ELSE (m - c.previous[1].measurement) \div Elapsed(c, at)

PidUpdate(c, at, m) ==
  LET error == c.settings["setpoint"] - m
      proportional == c.settings["kp"] * error
      change == c.settings["ki"] * error * Elapsed(c, at)
      derivative == -(c.settings["kd"] * RawRate(c, at, m))
      base == proportional + derivative
  IN IF ~Finite(at) THEN Rejected(c, "NonFiniteTimestamp")
     ELSE IF ~Finite(m) THEN Rejected(c, "NonFiniteMeasurement")
     ELSE IF ~Finite(error) THEN Rejected(c, "NonFiniteOutput")
     ELSE IF OutOfOrder(c, at) THEN Rejected(c, "NonIncreasingTimestamp")
     ELSE IF \E x \in {proportional, change, c.integral + change, derivative,
                       base + c.integral, base + c.integral + change} : ~Finite(x)
       THEN Rejected(c, "NonFiniteOutput")
     ELSE Constrained(c, base, change, [at |-> at, measurement |-> m])

(* The heat the furnace loses at a temperature, in percent of its power:    *)
(* both losses grow with the excess over the ambient temperature, and a     *)
(* gain counts as none.  The fourth powers of radiation are squares here.   *)
FeedForward(s, temperature) ==
  Larger(s["linear_loss"] * (temperature - s["ambient"])
         + s["radiation_loss"] * (temperature * temperature - s["ambient"] * s["ambient"]),
         0) \div s["max_power"]

(* The filtered rate is the raw one without a lag.  With a lag it moves     *)
(* from its old value toward the raw one, by a fraction that exp decides:   *)
(* half the way or, when the exponential has vanished, all of it.           *)
FilteredRates(c, at, m) ==
  LET raw == RawRate(c, at, m)
  IN IF c.previous = << >> \/ OutOfOrder(c, at) THEN {c.rate}
     ELSE IF c.settings["heater_lag"] = 0 THEN {raw}
     ELSE {(c.rate + raw) \div 2, raw}

FurnaceUpdate(c, at, m, rate) ==
  LET predicted == m + c.settings["heater_lag"] * rate
      error == c.settings["setpoint"] - predicted
      proportional == c.settings["kp"] * error
      forward == FeedForward(c.settings, c.settings["setpoint"])
      change == c.settings["ki"] * error * Elapsed(c, at)
      base == forward + proportional
  IN IF ~Finite(at) THEN Rejected(c, "NonFiniteTimestamp")
     ELSE IF ~Finite(m) THEN Rejected(c, "NonFiniteMeasurement")
     ELSE IF OutOfOrder(c, at) THEN Rejected(c, "NonIncreasingTimestamp")
     ELSE IF \E x \in {predicted, rate, error, forward, proportional,
                       c.integral + change, base + c.integral + change} : ~Finite(x)
       THEN Rejected(c, "NonFiniteOutput")
     ELSE LET result == Constrained(c, base, change, [at |-> at, measurement |-> m])
          IN IF result.error = "none"
             THEN [result EXCEPT !.controller.rate = rate]
             ELSE result

(* The band between the two thresholds, and its edges, keep the state. *)
OnOffUpdate(c, at, m) ==
  LET s == c.settings
      active == IF m < s["setpoint"] - s["hysteresis"] THEN TRUE
                ELSE IF m > s["setpoint"] + s["hysteresis"] THEN FALSE
                ELSE c.active
      value == IF active THEN s["output_on"] ELSE s["output_off"]
  IN IF ~Finite(at) THEN Rejected(c, "NonFiniteTimestamp")
     ELSE IF ~Finite(m) THEN Rejected(c, "NonFiniteMeasurement")
     ELSE [error |-> "none", controller |-> [c EXCEPT !.active = active],
           output |-> [NoOutput EXCEPT !.value = value, !.unconstrained = value]]

(* The possible results of a sample. *)
Updates(c, at, m) ==
  CASE c.kind = "pid" -> {PidUpdate(c, at, m)}
    [] c.kind = "on_off" -> {OnOffUpdate(c, at, m)}
    [] c.kind = "furnace" ->
         {FurnaceUpdate(c, at, m, rate) :
            rate \in IF Finite(at) /\ Finite(m) THEN FilteredRates(c, at, m) ELSE {c.rate}}

-----------------------------------------------------------------------------
(* Operations on the dynamic state. *)

ResetIntegral(c) ==
  IF c.kind = "on_off" THEN [error |-> "Unsupported", controller |-> c]
  ELSE [error |-> "none", controller |-> [c EXCEPT !.integral = 0]]

(* A new time base: no derivative, integral step or filtered rate across    *)
(* the gap.                                                                 *)
Resynchronized(c) ==
  IF c.kind = "on_off" THEN c ELSE [c EXCEPT !.previous = << >>, !.rate = 0]

Reset(c) ==
  IF c.kind = "on_off" THEN [c EXCEPT !.active = FALSE]
  ELSE [Resynchronized(c) EXCEPT !.integral = 0]

(* The diagnostics a kind offers. *)
Diagnostics(kind) ==
  {"setpoint", "output"} \cup
  CASE kind = "pid" -> {"proportional", "integral", "derivative", "unconstrained_output"}
    [] kind = "on_off" -> {}
    [] kind = "furnace" ->
         {"proportional", "integral", "unconstrained_output", "feed_forward",
          "predicted_measurement", "measurement_rate"}
=============================================================================
