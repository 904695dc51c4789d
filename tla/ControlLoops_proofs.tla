------------------------ MODULE ControlLoops_proofs ------------------------
(***************************************************************************)
(* Proofs about ControlLoops, for any definitions, configurations, samples *)
(* and bounds that satisfy InputsAreValid: every loop stays well formed    *)
(* and valid, so that what it computes can be written; its time base is    *)
(* never older than its last pause; and it integrates and retunes without  *)
(* a bump.                                                                 *)
(*                                                                         *)
(* Most of the work is about the operators of Controllers, References and  *)
(* ControlLoop: what each returns for a controller, a reference or a loop  *)
(* that is well formed.                                                    *)
(***************************************************************************)
EXTENDS ControlLoops, FunctionTheorems, WellFoundedInduction, TLAPS

-----------------------------------------------------------------------------
(***************************************************************************)
(* The least number principle, which stands in for induction where a proof *)
(* is about recursive data or a position that a search finds: of the       *)
(* numbers for which something fails, take the least.                      *)
(***************************************************************************)
\* The library theorem on minimal elements, for the naturals.
LEMMA WellFoundedMinimum ==
  ASSUME NEW T, T \subseteq Nat, T # {}, NEW R, IsWellFoundedOn(R, Nat)
  PROVE  \E x \in T : \A y \in T : ~ (<<y, x>> \in R)
BY WFMin, Zenon

\* Every non-empty set of naturals, finite or not, has a least element.
LEMMA LeastElement ==
  ASSUME NEW T, T \subseteq Nat, T # {}
  PROVE  \E x \in T : \A y \in T : x <= y
<1>1. PICK R : /\ IsWellFoundedOn(R, Nat)
               /\ \A y, x \in Nat : y < x => <<y, x>> \in R
  <2>1. \A y, x \in Nat : y < x => <<y, x>> \in OpToRel(<, Nat)
    <3> SUFFICES ASSUME NEW y \in Nat, NEW x \in Nat, y < x
                 PROVE  <<y, x>> \in OpToRel(<, Nat)
      OBVIOUS
    <3>1. <<y, x>> \in Nat \X Nat /\ <<y, x>>[1] < <<y, x>>[2]
      OBVIOUS
    <3> QED
      BY <3>1, Zenon DEF OpToRel
  <2>2. IsWellFoundedOn(OpToRel(<, Nat), Nat)
    BY NatLessThanWellFounded, Zenon
  <2> WITNESS OpToRel(<, Nat)
  <2> QED
    BY <2>1, <2>2, Zenon
<1>2. PICK x \in T : \A y \in T : ~ (<<y, x>> \in R)
  <2>1. IsWellFoundedOn(R, Nat)
    BY <1>1
  <2> QED
    BY <2>1, WellFoundedMinimum, Zenon
<1>3. ASSUME NEW y \in T PROVE ~ (y < x)
  BY <1>1, <1>2, Zenon
<1>4. \A y \in T : x <= y
  BY <1>3
<1> QED
  BY <1>4

-----------------------------------------------------------------------------
(***************************************************************************)
(* What is well formed.                                                    *)
(***************************************************************************)
IsSample(p) == p = << >> \/ (p = <<p[1]>> /\ p[1].at \in Int /\ p[1].measurement \in Int)

IsController(c) ==
  /\ c = [kind |-> c.kind, settings |-> c.settings, integral |-> c.integral,
          previous |-> c.previous, rate |-> c.rate, active |-> c.active]
  /\ c.kind \in {"pid", "on_off", "furnace"}
  /\ c.settings \in [Keys(c.kind) -> Int]
  /\ c.integral \in Int /\ c.rate \in Int /\ c.active \in BOOLEAN
  /\ IsSample(c.previous)

IsReference(r) ==
  /\ r = [source |-> r.source, elapsed |-> r.elapsed, previous |-> r.previous]
  /\ IsSource(r.source) /\ r.elapsed \in Int
  /\ r.previous = << >> \/ (r.previous = <<r.previous[1]>> /\ r.previous[1] \in Int)

IsLoop(l) ==
  /\ l = [input |-> l.input, target |-> l.target, running |-> l.running,
          controller |-> l.controller, reference |-> l.reference]
  /\ IsController(l.controller)
  /\ l.reference = << >> \/ (l.reference = <<l.reference[1]>> /\ IsReference(l.reference[1]))
  /\ IsTarget(l.target) /\ HoldsItsRange(l.target)
  /\ l.running \in BOOLEAN

\* A controller whose settings were accepted, and a loop whose controller is
\* such and whose outputs all fit its target.
IsAccepted(c) ==
  /\ SettingsError(c.kind, c.settings) = "none"
  /\ c.kind = "on_off" => c.previous = << >>

IsValid(l) ==
  /\ IsAccepted(l.controller)
  /\ TargetError(l.target) = "none"
  /\ RangeFits(OutputRange(l.controller.kind, l.controller.settings), l.target)

\* No time base is older than a moment.
SinceSample(p, since) == p # << >> => p[1].at >= since
SinceReference(q, since) == q # << >> /\ q[1].previous # << >> => q[1].previous[1] >= since
IsFresh(l, since) ==
  l.running => SinceSample(l.controller.previous, since) /\ SinceReference(l.reference, since)

LoopsAreWellFormed == \A name \in Installed : IsLoop(control.loops[name])
LoopsAreValid == \A name \in Installed : IsValid(control.loops[name])
LoopsAreFresh ==
  \A name \in Installed : IsFresh(control.loops[name], control.pausedAt[name])

TypeOK ==
  /\ control = [loops |-> control.loops, events |-> control.events,
                clock |-> control.clock, pausedAt |-> control.pausedAt]
  /\ control.clock \in Nat
  /\ control.pausedAt \in [LoopNames -> Int]
  /\ Installed \subseteq LoopNames
  /\ control.loops = [name \in Installed |-> control.loops[name]]
  /\ LoopsAreWellFormed

\* The inductive invariant.
IInv ==
  /\ TypeOK
  /\ LoopsAreValid
  /\ LoopsAreFresh
  /\ \A name \in LoopNames : control.pausedAt[name] <= control.clock
  /\ OutputsAreWritable

-----------------------------------------------------------------------------
(***************************************************************************)
(* Configuration.                                                          *)
(***************************************************************************)
\* The first of the refused updates is one of them.
LEMMA FirstIsRefused ==
  ASSUME NEW bad, bad \subseteq Nat, bad # {}
  PROVE  (CHOOSE i \in bad : \A j \in bad : i <= j) \in bad
BY LeastElement

\* Settings with numbers for numbers are settings.
LEMMA UpdatedFacts ==
  ASSUME NEW keys, NEW settings \in [keys -> Int], NEW updates, AreUpdates(updates),
         \A i \in DOMAIN updates : updates[i].value.type = "number"
  PROVE  /\ Updated(settings, updates) \in [keys -> Int]
         /\ \A key \in keys \ UpdatedKeys(updates) :
              Updated(settings, updates)[key] = settings[key]
<1>1. ASSUME NEW key \in keys, \E i \in DOMAIN updates : updates[i].key = key
      PROVE  updates[CHOOSE i \in DOMAIN updates : updates[i].key = key].value.value \in Int
  BY <1>1 DEF AreUpdates
<1> QED BY <1>1 DEF Updated, UpdatedKeys

\* A configuration is taken as a whole, accepted by the validation of its
\* kind, or not at all; the dynamic state stays.
LEMMA ConfigureFacts ==
  ASSUME NEW c, IsController(c), NEW updates, AreUpdates(updates),
         NEW r, r = Configure(c, updates)
  PROVE  /\ IsController(r.controller)
         /\ r.controller.kind = c.kind
         /\ r.controller.integral = c.integral
         /\ r.controller.previous = c.previous
         /\ r.error # "none" => r.controller = c
         /\ r.error = "none" =>
              /\ SettingsError(c.kind, r.controller.settings) = "none"
              /\ \A key \in Keys(c.kind) \ UpdatedKeys(updates) :
                   r.controller.settings[key] = c.settings[key]
<1> DEFINE bad == {i \in DOMAIN updates : UpdateError(c.kind, updates, i) # "none"}
           first == CHOOSE i \in bad : \A j \in bad : i <= j
           candidate == Updated(c.settings, updates)
           error == IF bad # {} THEN UpdateError(c.kind, updates, first)
                    ELSE SettingsError(c.kind, candidate)
<1>1. r = [error |-> error,
           controller |-> IF error = "none" THEN [c EXCEPT !.settings = candidate] ELSE c]
  BY DEF Configure
<1>2. bad # {} => error # "none"
  <2>1. bad \subseteq Nat BY DEF AreUpdates
  <2>2. \A i \in bad : UpdateError(c.kind, updates, i) # "none" OBVIOUS
  <2> HIDE DEF bad
  <2>3. bad # {} => first \in bad BY <2>1, FirstIsRefused
  <2> QED BY <2>2, <2>3
<1>3. ASSUME error = "none"
      PROVE  /\ candidate \in [Keys(c.kind) -> Int]
             /\ \A key \in Keys(c.kind) \ UpdatedKeys(updates) :
                  candidate[key] = c.settings[key]
             /\ SettingsError(c.kind, candidate) = "none"
  <2>1. bad = {} BY <1>2, <1>3
  <2>2. \A i \in DOMAIN updates : updates[i].value.type = "number"
    BY <2>1 DEF UpdateError, UnknownParameter
  <2>3. c.settings \in [Keys(c.kind) -> Int] BY DEF IsController
  <2>4. SettingsError(c.kind, candidate) = "none" BY <2>1, <1>3
  <2> HIDE DEF bad
  <2> QED BY <2>2, <2>3, <2>4, UpdatedFacts
<1> HIDE DEF error, candidate
<1>4. CASE error # "none"
  BY <1>1, <1>4
<1>5. CASE error = "none"
  <2>1. r.error = "none" /\ r.controller = [c EXCEPT !.settings = candidate]
    BY <1>1, <1>5
  <2>2. r.controller = [kind |-> c.kind, settings |-> candidate, integral |-> c.integral,
                        previous |-> c.previous, rate |-> c.rate, active |-> c.active]
    BY <2>1 DEF IsController
  <2> QED BY <1>3, <1>5, <2>1, <2>2 DEF IsController
<1> QED BY <1>4, <1>5

\* Accepted settings bound the outputs by numbers.
LEMMA OutputRangeFacts ==
  ASSUME NEW c, IsController(c), SettingsError(c.kind, c.settings) = "none"
  PROVE  LET range == OutputRange(c.kind, c.settings)
         IN  /\ range.minimum \in Int /\ range.maximum \in Int
             /\ Finite(range.minimum) /\ Finite(range.maximum)
             /\ range.minimum <= range.maximum
<1> USE DEF IsController, SettingsError, OutputRange, Keys
<1>1. CASE c.kind = "pid" BY <1>1 DEF PidError, PidKeys, Finite
<1>2. CASE c.kind = "on_off" BY <1>2 DEF OnOffError, OnOffKeys, Smaller, Larger, Finite
<1>3. CASE c.kind = "furnace" BY <1>3 DEF FurnaceError, FurnaceKeys, Finite
<1> QED BY <1>1, <1>2, <1>3

-----------------------------------------------------------------------------
(***************************************************************************)
(* One sample of a controller.                                             *)
(***************************************************************************)
\* What holds of a result of a sample: the settings stay, a computed output is
\* in the range, the integral never grows past it, and the time base is the
\* old one or the sample's.
IsOutcome(c, at, r) ==
  /\ IsController(r.controller)
  /\ r.controller.kind = c.kind
  /\ r.controller.settings = c.settings
  /\ r.error # "Output"
  /\ \/ r.controller.previous = c.previous
     \/ c.kind # "on_off" /\ Finite(at) /\ r.controller.previous # << >>
          /\ r.controller.previous[1].at = at
  /\ r.error = "none" =>
       LET range == OutputRange(c.kind, c.settings)
       IN /\ r.output.value \in Int
          /\ range.minimum <= r.output.value /\ r.output.value <= range.maximum
  /\ (r.error = "none" /\ c.kind # "on_off") =>
       /\ r.controller.integral > c.integral
            => r.output.unconstrained <= c.settings["output_max"]
       /\ r.controller.integral < c.integral
            => r.output.unconstrained >= c.settings["output_min"]

LEMMA RejectedFacts ==
  ASSUME NEW c, IsController(c), NEW at, NEW r, NEW error, error \notin {"none", "Output"},
         r = Rejected(c, error)
  PROVE  IsOutcome(c, at, r)
BY DEF IsOutcome, Rejected

\* Conditional integration keeps the output within the bounds that were not
\* already passed.
LEMMA IntegratedFacts ==
  ASSUME NEW integral \in Int, NEW change \in Int, NEW base \in Int,
         NEW low \in Int, NEW high \in Int, low <= high,
         NEW new, new = Integrated(integral, change, base, low, high)
  PROVE  /\ new \in Int
         /\ new > integral => base + new <= high
         /\ new < integral => base + new >= low
<1> DEFINE current == base + integral
           proposed == current + change
<1>1. CASE proposed > high /\ change > 0 BY <1>1 DEF Integrated
<1>2. CASE proposed < low /\ change < 0 /\ ~(proposed > high /\ change > 0)
  BY <1>2 DEF Integrated
<1>3. CASE ~(proposed > high /\ change > 0) /\ ~(proposed < low /\ change < 0)
  BY <1>3 DEF Integrated
<1> QED BY <1>1, <1>2, <1>3

LEMMA ConstrainedFacts ==
  ASSUME NEW c, IsController(c), c.kind # "on_off",
         SettingsError(c.kind, c.settings) = "none",
         NEW base \in Int, NEW change \in Int, NEW at \in Int, Finite(at), NEW m \in Int,
         NEW r, r = Constrained(c, base, change, [at |-> at, measurement |-> m])
  PROVE  IsOutcome(c, at, r) /\ r.error \in {"none", "NonFiniteOutput"}
<1> DEFINE low == c.settings["output_min"]
           high == c.settings["output_max"]
           integral == Integrated(c.integral, change, base, low, high)
           unconstrained == base + integral
           value == Clamp(unconstrained, low, high)
<1>1. low \in Int /\ high \in Int /\ low <= high
       /\ OutputRange(c.kind, c.settings) = [minimum |-> low, maximum |-> high]
  <2>1. OutputRange(c.kind, c.settings) = [minimum |-> low, maximum |-> high]
    BY DEF OutputRange
  <2> QED BY <2>1, OutputRangeFacts
<1>2. c.integral \in Int BY DEF IsController
<1> HIDE DEF low, high
<1>3. /\ integral \in Int
      /\ integral > c.integral => base + integral <= high
      /\ integral < c.integral => base + integral >= low
  BY <1>1, <1>2, IntegratedFacts
<1> HIDE DEF integral
<1>4. value \in Int /\ low <= value /\ value <= high
  BY <1>1, <1>3 DEF Clamp
<1> HIDE DEF value
<1>5. CASE ~Finite(integral) \/ ~Finite(unconstrained)
  <2>1. r = Rejected(c, "NonFiniteOutput") BY <1>5 DEF Constrained, integral, low, high
  <2> QED BY <2>1, RejectedFacts DEF Rejected
<1>6. CASE Finite(integral) /\ Finite(unconstrained)
  <2> DEFINE sample == [at |-> at, measurement |-> m]
             saturated == integral # c.integral + change \/ value # unconstrained
  <2>1. /\ r.error = "none"
        /\ r.controller = [c EXCEPT !.integral = integral, !.previous = <<sample>>]
        /\ r.output.value = value /\ r.output.unconstrained = unconstrained
    BY <1>6 DEF Constrained, integral, low, high, value
  <2>2. r.controller = [kind |-> c.kind, settings |-> c.settings, integral |-> integral,
                        previous |-> <<sample>>, rate |-> c.rate, active |-> c.active]
    BY <2>1 DEF IsController
  <2>3. IsController(r.controller)
    BY <2>2, <1>3 DEF IsController, IsSample
  <2>4. r.controller.previous # << >> /\ r.controller.previous[1].at = at
    BY <2>2
  <2> QED BY <1>1, <1>3, <1>4, <2>1, <2>2, <2>3, <2>4 DEF IsOutcome, low, high
<1> QED BY <1>5, <1>6

\* A slope is a number when the sample is in order.
LEMMA RateFacts ==
  ASSUME NEW c, IsController(c), NEW at \in Int, NEW m \in Int
  PROVE  /\ Elapsed(c, at) \in Int
         /\ ~OutOfOrder(c, at) => RawRate(c, at, m) \in Int
<1>1. CASE c.previous = << >> BY <1>1 DEF Elapsed, RawRate
<1>2. CASE c.previous # << >>
  BY <1>2 DEF Elapsed, RawRate, OutOfOrder, IsController, IsSample
<1> QED BY <1>1, <1>2

LEMMA PidOutcome ==
  ASSUME NEW c, IsController(c), c.kind = "pid", IsAccepted(c),
         NEW at \in Int, NEW m \in Int,
         NEW r, r = PidUpdate(c, at, m)
  PROVE  IsOutcome(c, at, r)
<1> DEFINE error == c.settings["setpoint"] - m
           proportional == c.settings["kp"] * error
           change == c.settings["ki"] * error * Elapsed(c, at)
           derivative == -(c.settings["kd"] * RawRate(c, at, m))
           base == proportional + derivative
           sample == [at |-> at, measurement |-> m]
<1>1. \/ r = Rejected(c, "NonFiniteTimestamp")
      \/ r = Rejected(c, "NonFiniteMeasurement")
      \/ r = Rejected(c, "NonFiniteOutput")
      \/ r = Rejected(c, "NonIncreasingTimestamp")
      \/ Finite(at) /\ ~OutOfOrder(c, at) /\ r = Constrained(c, base, change, sample)
  BY DEF PidUpdate
<1>2. ASSUME ~OutOfOrder(c, at) PROVE base \in Int /\ change \in Int
  <2>1. Elapsed(c, at) \in Int /\ RawRate(c, at, m) \in Int BY <1>2, RateFacts
  <2>2. /\ c.settings["setpoint"] \in Int /\ c.settings["kp"] \in Int
        /\ c.settings["ki"] \in Int /\ c.settings["kd"] \in Int
    BY DEF IsController, Keys, PidKeys
  <2> QED BY <2>1, <2>2
<1> HIDE DEF base, change
<1>3. CASE Finite(at) /\ ~OutOfOrder(c, at) /\ r = Constrained(c, base, change, sample)
  BY <1>2, <1>3, ConstrainedFacts DEF IsAccepted
<1>4. IsOutcome(c, at, r) BY <1>1, <1>3, RejectedFacts
<1> QED BY <1>4

LEMMA FurnaceOutcome ==
  ASSUME NEW c, IsController(c), c.kind = "furnace", IsAccepted(c),
         NEW at \in Int, NEW m \in Int,
         NEW rate \in IF Finite(at) /\ Finite(m) THEN FilteredRates(c, at, m) ELSE {c.rate},
         NEW r, r = FurnaceUpdate(c, at, m, rate)
  PROVE  IsOutcome(c, at, r)
<1> DEFINE predicted == m + c.settings["heater_lag"] * rate
           error == c.settings["setpoint"] - predicted
           proportional == c.settings["kp"] * error
           forward == FeedForward(c.settings, c.settings["setpoint"])
           change == c.settings["ki"] * error * Elapsed(c, at)
           base == forward + proportional
           sample == [at |-> at, measurement |-> m]
           result == Constrained(c, base, change, sample)
<1>1. \/ r = Rejected(c, "NonFiniteTimestamp")
      \/ r = Rejected(c, "NonFiniteMeasurement")
      \/ r = Rejected(c, "NonFiniteOutput")
      \/ r = Rejected(c, "NonIncreasingTimestamp")
      \/ /\ Finite(at) /\ ~OutOfOrder(c, at)
         /\ r = IF result.error = "none"
                THEN [result EXCEPT !.controller.rate = rate] ELSE result
  BY DEF FurnaceUpdate
<1>2. rate \in Int
  <2>1. c.rate \in Int BY DEF IsController
  <2>2. CASE OutOfOrder(c, at) \/ c.previous = << >> \/ ~(Finite(at) /\ Finite(m))
    BY <2>1, <2>2 DEF FilteredRates
  <2>3. CASE ~OutOfOrder(c, at)
    <3>1. RawRate(c, at, m) \in Int BY <2>3, RateFacts
    <3> QED BY <2>1, <3>1 DEF FilteredRates
  <2> QED BY <2>2, <2>3
<1>3. base \in Int /\ change \in Int
  <2>1. Elapsed(c, at) \in Int BY RateFacts
  <2>2. c.settings \in [FurnaceKeys -> Int] /\ FurnaceError(c.settings) = "none"
    BY DEF IsAccepted, IsController, Keys, SettingsError
  <2>3. c.settings["max_power"] \in Int /\ c.settings["max_power"] > 0
    BY <2>2 DEF FurnaceKeys, FurnaceError
  <2>4. \A key \in FurnaceKeys : c.settings[key] \in Int BY <2>2
  <2>5. forward \in Int
    <3> DEFINE s == c.settings
               loss == s["linear_loss"] * (s["setpoint"] - s["ambient"])
                       + s["radiation_loss"] * (s["setpoint"] * s["setpoint"]
                                                - s["ambient"] * s["ambient"])
    <3>1. loss \in Int BY <2>4 DEF FurnaceKeys
    <3>2. forward = Larger(loss, 0) \div s["max_power"] BY DEF FeedForward
    <3> HIDE DEF loss
    <3>3. Larger(loss, 0) \in Int BY <3>1 DEF Larger
    <3> QED BY <2>3, <3>2, <3>3
  <2> QED BY <1>2, <2>1, <2>4, <2>5 DEF FurnaceKeys
<1> HIDE DEF base, change
<1>4. CASE /\ Finite(at) /\ ~OutOfOrder(c, at)
           /\ r = IF result.error = "none"
                  THEN [result EXCEPT !.controller.rate = rate] ELSE result
  <2>1. IsOutcome(c, at, result) BY <1>3, <1>4, ConstrainedFacts DEF IsAccepted
  <2>2. result.error = "none" =>
          result = [error |-> result.error, controller |-> result.controller,
                    output |-> result.output]
    BY DEF Constrained, Rejected
  <2> HIDE DEF result
  <2>3. CASE result.error # "none" BY <1>4, <2>1, <2>3
  <2>4. CASE result.error = "none"
    <3> DEFINE x == result.controller
    <3>1. r = [result EXCEPT !.controller.rate = rate] BY <1>4, <2>4
    <3>2. /\ r.error = result.error /\ r.output = result.output
          /\ r.controller = [x EXCEPT !.rate = rate]
      BY <3>1, <2>2, <2>4
    <3>3. IsController(x) BY <2>1 DEF IsOutcome
    <3>4. r.controller = [kind |-> x.kind, settings |-> x.settings,
                          integral |-> x.integral, previous |-> x.previous,
                          rate |-> rate, active |-> x.active]
      BY <3>2, <3>3 DEF IsController
    <3>5. IsController(r.controller) BY <1>2, <3>3, <3>4 DEF IsController
    <3> QED BY <2>1, <3>2, <3>4, <3>5 DEF IsOutcome
  <2> QED BY <2>3, <2>4
<1>5. IsOutcome(c, at, r) BY <1>1, <1>4, RejectedFacts
<1> QED BY <1>5

LEMMA OnOffOutcome ==
  ASSUME NEW c, IsController(c), c.kind = "on_off", IsAccepted(c),
         NEW at \in Int, NEW m \in Int,
         NEW r, r = OnOffUpdate(c, at, m)
  PROVE  IsOutcome(c, at, r)
<1> DEFINE s == c.settings
           active == IF m < s["setpoint"] - s["hysteresis"] THEN TRUE
                     ELSE IF m > s["setpoint"] + s["hysteresis"] THEN FALSE
                     ELSE c.active
           value == IF active THEN s["output_on"] ELSE s["output_off"]
<1>1. \/ r = Rejected(c, "NonFiniteTimestamp")
      \/ r = Rejected(c, "NonFiniteMeasurement")
      \/ r = [error |-> "none", controller |-> [c EXCEPT !.active = active],
              output |-> [NoOutput EXCEPT !.value = value, !.unconstrained = value]]
  BY DEF OnOffUpdate
<1>2. active \in BOOLEAN BY DEF IsController
<1> HIDE DEF active
<1>3. /\ value \in Int
      /\ OutputRange(c.kind, s).minimum <= value /\ value <= OutputRange(c.kind, s).maximum
  <2>1. s["output_on"] \in Int /\ s["output_off"] \in Int
    BY DEF IsController, Keys, OnOffKeys
  <2> QED BY <2>1 DEF OutputRange, Smaller, Larger
<1> HIDE DEF value
<1>4. CASE r = [error |-> "none", controller |-> [c EXCEPT !.active = active],
                output |-> [NoOutput EXCEPT !.value = value, !.unconstrained = value]]
  <2>1. r.output.value = value /\ r.error = "none"
    <3>1. r.output = [NoOutput EXCEPT !.value = value, !.unconstrained = value] BY <1>4
    <3>2. "value" \in DOMAIN NoOutput BY DEF NoOutput
    <3>3. r.output.value = value BY <3>1, <3>2
    <3>4. r.error = "none" BY <1>4
    <3> QED BY <3>3, <3>4
  <2>2. r.controller = [c EXCEPT !.active = active] BY <1>4
  <2>3. r.controller = [kind |-> c.kind, settings |-> s, integral |-> c.integral,
                        previous |-> c.previous, rate |-> c.rate, active |-> active]
    BY <2>2 DEF IsController
  <2>4. IsController(r.controller) BY <1>2, <2>3 DEF IsController
  <2> QED BY <1>3, <2>1, <2>3, <2>4 DEF IsOutcome
<1>5. IsOutcome(c, at, r) BY <1>1, <1>4, RejectedFacts
<1> QED BY <1>5

\* Whatever the kind of a controller, a sample has an outcome.
LEMMA UpdatesFacts ==
  ASSUME NEW c, IsController(c), IsAccepted(c), NEW at \in Int, NEW m \in Int,
         NEW r \in Updates(c, at, m)
  PROVE  IsOutcome(c, at, r)
<1>1. CASE c.kind = "pid" BY <1>1, PidOutcome DEF Updates
<1>2. CASE c.kind = "on_off" BY <1>2, OnOffOutcome DEF Updates
<1>3. CASE c.kind = "furnace" BY <1>3, FurnaceOutcome DEF Updates
<1> QED BY <1>1, <1>2, <1>3 DEF IsController

-----------------------------------------------------------------------------
(***************************************************************************)
(* References.                                                             *)
(***************************************************************************)
LEMMA CurrentValueFacts ==
  ASSUME NEW r, IsReference(r)
  PROVE  CurrentValue(r) \in Int
BY DEF IsReference, IsSource, CurrentValue, ValueAt, RampValue

LEMMA NewReferenceFacts ==
  ASSUME NEW source, IsSource(source), NEW r, r = NewReference(source)
  PROVE  IsReference(r) /\ r.previous = << >> /\ r.source = source
BY DEF IsReference, NewReference

\* A source is reconfigured as a whole or not at all.
LEMMA ConfigureSourceFacts ==
  ASSUME NEW s, IsSource(s), NEW updates, AreUpdates(updates),
         NEW r, r = ConfigureSource(s, updates)
  PROVE  IsSource(r.source) /\ r.source.kind = s.kind
<1> DEFINE bad == {i \in DOMAIN updates : SourceUpdateError(s, updates, i) # "none"}
           first == CHOOSE i \in bad : \A j \in bad : i <= j
           fields == [key \in SupportedKeys(s.kind) |-> s[key]]
           new == Updated(fields, updates)
           candidate == IF s.kind = "fixed" THEN FixedSource(new["value"])
                        ELSE RampSource(new["start"], new["target"], new["rate"])
           error == IF bad # {} THEN SourceUpdateError(s, updates, first)
                    ELSE SourceError(candidate)
<1>1. r = [error |-> error, source |-> IF error = "none" THEN candidate ELSE s]
  BY DEF ConfigureSource
<1>2. bad # {} => error # "none"
  <2>1. bad \subseteq Nat BY DEF AreUpdates
  <2>2. \A i \in bad : SourceUpdateError(s, updates, i) # "none" OBVIOUS
  <2> HIDE DEF bad
  <2>3. bad # {} => first \in bad BY <2>1, FirstIsRefused
  <2> QED BY <2>2, <2>3
<1>3. ASSUME bad = {} PROVE IsSource(candidate) /\ candidate.kind = s.kind
  <2>1. \A i \in DOMAIN updates : updates[i].value.type = "number"
    BY <1>3 DEF SourceUpdateError
  <2>2. fields \in [SupportedKeys(s.kind) -> Int] BY DEF IsSource, SupportedKeys
  <2> HIDE DEF fields
  <2>3. new \in [SupportedKeys(s.kind) -> Int] BY <2>1, <2>2, UpdatedFacts
  <2> HIDE DEF new
  <2>4. CASE s.kind = "fixed"
    BY <2>3, <2>4 DEF SupportedKeys, FixedSource, IsSource
  <2>5. CASE s.kind = "ramp"
    BY <2>3, <2>5 DEF SupportedKeys, RampSource, IsSource
  <2> QED BY <2>4, <2>5 DEF IsSource
<1> HIDE DEF candidate, bad, error
<1> QED BY <1>1, <1>2, <1>3

\* A ramp begins at its start.
LEMMA RampBegins ==
  ASSUME NEW start \in Int, NEW target \in Int, NEW rate \in Int
  PROVE  RampValue(RampSource(start, target, rate), 0) = start
<1> DEFINE s == RampSource(start, target, rate)
<1>1. s.start = start /\ s.target = target /\ s.rate = rate BY DEF RampSource
<1> HIDE DEF s
<1>2. 0 * s.rate = 0 /\ s.rate * 0 = 0 BY <1>1
<1>3. Distance(s.start, s.target) \in Nat
      /\ (Distance(s.start, s.target) = 0 => start = target)
  BY <1>1 DEF Distance, Larger, Smaller
<1>4. RampValue(s, 0) = start BY <1>1, <1>2, <1>3 DEF RampValue
<1> QED BY <1>4 DEF s

\* A reference keeps its kind of time base over a configuration: a ramp starts
\* afresh, at the value it has reached unless a start is given.
LEMMA ConfigureReferenceFacts ==
  ASSUME NEW q, IsReference(q), NEW updates, AreUpdates(updates),
         NEW r, r = ConfigureReference(q, updates)
  PROVE  /\ IsReference(r.reference)
         /\ r.reference.previous \in {q.previous, << >>}
         /\ (q.source.kind = "ramp" /\ "start" \notin UpdatedKeys(updates))
              => CurrentValue(r.reference) = CurrentValue(q)
<1> DEFINE candidate == ConfigureSource(q.source, updates)
           onward == RampSource(CurrentValue(q), candidate.source.target,
                                candidate.source.rate)
           source == IF "start" \in UpdatedKeys(updates) THEN candidate.source ELSE onward
           error == IF candidate.error # "none" THEN candidate.error ELSE SourceError(source)
<1>1. r = IF updates = << >> THEN [error |-> "none", reference |-> q]
          ELSE IF q.source.kind = "fixed"
            THEN [error |-> candidate.error,
                  reference |-> [q EXCEPT !.source = candidate.source]]
          ELSE [error |-> error,
                reference |-> IF error = "none" THEN NewReference(source) ELSE q]
  BY DEF ConfigureReference
<1>2. IsSource(candidate.source) /\ candidate.source.kind = q.source.kind
  BY ConfigureSourceFacts DEF IsReference
<1> HIDE DEF candidate
<1>3. CASE updates = << >> BY <1>1, <1>3
<1>4. CASE updates # << >> /\ q.source.kind = "fixed"
  <2>1. r.reference = [source |-> candidate.source, elapsed |-> q.elapsed,
                       previous |-> q.previous]
    BY <1>1, <1>4 DEF IsReference
  <2> QED BY <1>2, <1>4, <2>1 DEF IsReference
<1>5. CASE updates # << >> /\ q.source.kind # "fixed"
  <2>1. q.source.kind = "ramp" BY <1>5 DEF IsReference, IsSource
  <2>2. CurrentValue(q) \in Int BY CurrentValueFacts
  <2>3. candidate.source.target \in Int /\ candidate.source.rate \in Int
    BY <1>2, <2>1 DEF IsSource
  <2>4. IsSource(onward) BY <2>2, <2>3 DEF IsSource, RampSource
  <2>5. IsSource(source) BY <1>2, <2>4
  <2>6. RampValue(onward, 0) = CurrentValue(q)
    BY <2>2, <2>3, RampBegins
  <2>7. CurrentValue(NewReference(onward)) = CurrentValue(q)
    BY <2>6 DEF CurrentValue, NewReference, ValueAt, RampSource
  <2>8. IsReference(NewReference(source)) /\ NewReference(source).previous = << >>
    BY <2>5, NewReferenceFacts
  <2>9. CASE error = "none" BY <1>1, <1>5, <2>7, <2>8, <2>9
  <2>10. CASE error # "none" BY <1>1, <1>5, <2>10
  <2> QED BY <2>9, <2>10
<1> QED BY <1>3, <1>4, <1>5

\* A sample moves the time base of a reference to it, or nothing.
LEMMA UpdateReferenceFacts ==
  ASSUME NEW q, IsReference(q), NEW at \in Int, NEW r, r = UpdateReference(q, at)
  PROVE  /\ IsReference(r.reference)
         /\ r.error # "none" => r.reference = q
         /\ r.error = "none" => Finite(at) /\ r.reference.previous = <<at>>
<1> DEFINE change == IF q.previous = << >> THEN 0 ELSE at - q.previous[1]
           elapsed == q.elapsed + change
<1>1. elapsed \in Int BY DEF IsReference
<1>2. \/ r.error # "none" /\ r.reference = q
      \/ /\ Finite(at) /\ r.error = "none"
         /\ r.reference = [q EXCEPT !.elapsed = elapsed, !.previous = <<at>>]
  BY DEF UpdateReference
<1> HIDE DEF elapsed
<1>3. CASE r.error # "none" /\ r.reference = q BY <1>3
<1>4. CASE /\ Finite(at) /\ r.error = "none"
           /\ r.reference = [q EXCEPT !.elapsed = elapsed, !.previous = <<at>>]
  <2>1. r.reference = [source |-> q.source, elapsed |-> elapsed, previous |-> <<at>>]
    BY <1>4 DEF IsReference
  <2> QED BY <1>1, <1>4, <2>1 DEF IsReference
<1> QED BY <1>2, <1>3, <1>4

-----------------------------------------------------------------------------
(***************************************************************************)
(* Outputs.                                                                *)
(***************************************************************************)
\* Rounding to the nearest step stays within bounds that are whole steps.
LEMMA QuotientFacts ==
  ASSUME NEW value \in Int, NEW scale \in Int, scale > 0, NEW bound \in Nat,
         -(bound * scale) <= value, value <= bound * scale
  PROVE  RoundedQuotient(value, scale) \in -bound..bound
<1>1. ASSUME NEW x \in Nat, x <= bound * scale
      PROVE  (2 * x + scale) \div (2 * scale) \in 0..bound
  <2> DEFINE a == 2 * x + scale
             b == 2 * scale
             q == a \div b
  <2>1. a \in Nat /\ b \in Nat /\ b > 0 /\ q \in Int BY <1>1
  <2>2. b * q <= a /\ a < b * (q + 1) BY <2>1
  <2>3. a < b * (bound + 1)
    <3>1. b * (bound + 1) = 2 * (bound * scale) + 2 * scale BY <1>1
    <3> QED BY <1>1, <3>1
  <2> HIDE DEF a, b, q
  <2>4. q >= 0
    <3>1. ASSUME q + 1 <= 0 PROVE b * (q + 1) <= 0 BY <2>1, <3>1
    <3> QED BY <2>1, <2>2, <3>1
  <2>5. q <= bound
    <3>1. ASSUME q >= bound + 1 PROVE b * q >= b * (bound + 1) BY <2>1, <3>1
    <3> QED BY <2>1, <2>2, <2>3, <3>1
  <2>6. q \in 0..bound BY <2>1, <2>4, <2>5
  <2> QED BY <2>6 DEF q, a, b
<1>2. CASE value >= 0 BY <1>1, <1>2 DEF RoundedQuotient
<1>3. CASE value < 0
  <2>1. -value \in Nat /\ -value <= bound * scale BY <1>3
  <2>2. (2 * (-value) + scale) \div (2 * scale) \in 0..bound BY <1>1, <2>1
  <2> DEFINE q == (2 * (-value) + scale) \div (2 * scale)
  <2>3. RoundedQuotient(value, scale) = -q BY <1>3 DEF RoundedQuotient
  <2> HIDE DEF q
  <2>4. q \in 0..bound BY <2>2 DEF q
  <2> QED BY <2>3, <2>4
<1> QED BY <1>2, <1>3

\* A finite value of a range that fits the target can be written, if the
\* target has a range.
LEMMA WritableFacts ==
  ASSUME InputsAreValid, NEW t, IsTarget(t), HoldsItsRange(t), TargetError(t) = "none",
         t.range # << >>, NEW range, RangeFits(range, t),
         range.minimum \in Int, range.maximum \in Int,
         Finite(range.minimum), Finite(range.maximum),
         NEW value \in Int, range.minimum <= value, value <= range.maximum
  PROVE  WriteRequest(t, value).error = "none"
<1>1. Finite(value) BY DEF Finite, InputsAreValid
<1>2. PICK i \in DOMAIN t.range : TRUE
  <2>1. 1 \in DOMAIN t.range BY DEF IsTarget
  <2> QED BY <2>1
<1>3. \A j \in DOMAIN t.range : t.range[j].minimum <= value /\ value <= t.range[j].maximum
  <2> SUFFICES ASSUME NEW j \in DOMAIN t.range
               PROVE  t.range[j].minimum <= value /\ value <= t.range[j].maximum
    OBVIOUS
  <2>1. t.range[j].minimum \in Int /\ t.range[j].maximum \in Int BY DEF IsTarget
  <2>2. t.range[j].minimum <= range.minimum /\ range.maximum <= t.range[j].maximum
    BY DEF RangeFits, InRange
  <2> QED BY <2>1, <2>2
<1>4. InRange(value, t.range) BY <1>3 DEF InRange
<1>5. CASE t.type = "number" /\ t.scale = 1 BY <1>1, <1>4, <1>5 DEF WriteRequest
<1>6. CASE ~(t.type = "number" /\ t.scale = 1)
  <2>1. t.scale \in Int /\ t.scale > 0 BY DEF TargetError, IsTarget
  <2>2. t.range[i].minimum \in Int /\ t.range[i].maximum \in Int BY DEF IsTarget
  <2>3. t.range[i].minimum >= -(IntegerMax * t.scale)
         /\ t.range[i].maximum <= IntegerMax * t.scale
    BY <1>6 DEF HoldsItsRange
  <2>4. IntegerMax \in Nat BY DEF InputsAreValid
  <2>5. IntegerMax * t.scale \in Int BY <2>1, <2>4
  <2> DEFINE width == IntegerMax * t.scale
  <2>6. -width <= value /\ value <= width
    <3>1. /\ t.range[i].minimum <= value /\ value <= t.range[i].maximum BY <1>3
    <3> HIDE DEF width
    <3>2. width \in Int /\ t.range[i].minimum >= -width /\ t.range[i].maximum <= width
      BY <2>3, <2>5 DEF width
    <3> QED BY <2>2, <3>1, <3>2
  <2>7. RoundedQuotient(value, t.scale) \in -IntegerMax..IntegerMax
    BY <2>1, <2>4, <2>6, QuotientFacts
  <2> QED BY <1>1, <1>4, <1>6, <2>7 DEF WriteRequest
<1> QED BY <1>5, <1>6

-----------------------------------------------------------------------------
(***************************************************************************)
(* Operations on a loop.                                                   *)
(***************************************************************************)
\* What every operation preserves, for a loop last paused at a moment.
IsSound(l, since) == IsLoop(l) /\ IsValid(l) /\ IsFresh(l, since)

\* A loop with another controller that is as good as the old one.
LEMMA WithControllerFacts ==
  ASSUME NEW l, NEW since, IsSound(l, since), NEW c, IsController(c), IsAccepted(c),
         RangeFits(OutputRange(c.kind, c.settings), l.target),
         l.running => SinceSample(c.previous, since),
         NEW r, r = [l EXCEPT !.controller = c]
  PROVE  IsSound(r, since) /\ r.target = l.target /\ r.controller = c
                           /\ r.reference = l.reference /\ r.running = l.running
<1>1. r = [input |-> l.input, target |-> l.target, running |-> l.running,
           controller |-> c, reference |-> l.reference]
  BY DEF IsSound, IsLoop
<1> QED BY <1>1 DEF IsSound, IsLoop, IsValid, IsFresh

\* A loop with another reference that is as good as the old one.
LEMMA WithReferenceFacts ==
  ASSUME NEW l, NEW since, IsSound(l, since), NEW q, IsReference(q),
         l.running => SinceReference(<<q>>, since),
         NEW r, r = [l EXCEPT !.reference = <<q>>]
  PROVE  IsSound(r, since) /\ r.target = l.target /\ r.controller = l.controller
                           /\ r.running = l.running
<1>1. r = [input |-> l.input, target |-> l.target, running |-> l.running,
           controller |-> l.controller, reference |-> <<q>>]
  BY DEF IsSound, IsLoop
<1> QED BY <1>1 DEF IsSound, IsLoop, IsValid, IsFresh

LEMMA NewLoopFacts ==
  ASSUME InputsAreValid, NEW d \in Definitions,
         SettingsError(d.kind, d.settings) = "none", TargetError(d.target) = "none",
         RangeFits(OutputRange(d.kind, d.settings), d.target), NEW since
  PROVE  IsSound(NewLoop(d), since)
<1> DEFINE l == NewLoop(d)
<1>1. IsDefinition(d) BY DEF InputsAreValid
<1>2. /\ l.target = d.target /\ l.running = TRUE
      /\ l.controller = NewController(d.kind, d.settings)
      /\ l.reference = IF d.reference = << >> THEN << >> ELSE <<NewReference(d.reference[1])>>
      /\ l = [input |-> l.input, target |-> l.target, running |-> l.running,
              controller |-> l.controller, reference |-> l.reference]
  BY DEF NewLoop
<1> HIDE DEF l
<1>3. /\ IsController(l.controller) /\ IsAccepted(l.controller)
      /\ l.controller.previous = << >> /\ l.controller.kind = d.kind
      /\ l.controller.settings = d.settings
  BY <1>1, <1>2 DEF NewController, IsController, IsSample, IsAccepted, IsDefinition
<1>4. \/ l.reference = << >>
      \/ /\ l.reference = <<l.reference[1]>> /\ IsReference(l.reference[1])
         /\ l.reference[1].previous = << >>
  <2>1. CASE d.reference = << >> BY <1>2, <2>1
  <2>2. CASE d.reference # << >>
    <3>1. IsSource(d.reference[1]) BY <1>1, <2>2 DEF IsDefinition
    <3>2. l.reference = <<NewReference(d.reference[1])>> BY <1>2, <2>2
    <3> QED BY <3>1, <3>2, NewReferenceFacts
  <2> QED BY <2>1, <2>2
<1>5. IsLoop(l) BY <1>1, <1>2, <1>3, <1>4 DEF IsLoop, IsDefinition
<1>6. IsValid(l) BY <1>2, <1>3 DEF IsValid
<1>7. IsFresh(l, since) BY <1>3, <1>4 DEF IsFresh, SinceSample, SinceReference
<1> QED BY <1>5, <1>6, <1>7 DEF IsSound, l

\* A configuration that is accepted leaves a range that fits.
LEMMA ConfiguredLoopFacts ==
  ASSUME NEW l, NEW since, IsSound(l, since), NEW updates, AreUpdates(updates)
  PROVE  IsSound(ConfiguredLoop(l, updates), since)
<1> DEFINE preview == Configure(l.controller, updates)
           c == preview.controller
<1>1. CASE ConfigurationError(l, updates) # "none" BY <1>1 DEF ConfiguredLoop
<1>2. CASE ConfigurationError(l, updates) = "none"
  <2>1. ConfiguredLoop(l, updates) = [l EXCEPT !.controller = c]
    BY <1>2 DEF ConfiguredLoop
  <2>2. /\ preview.error = "none"
        /\ RangeFits(OutputRange(l.controller.kind, c.settings), l.target)
    BY <1>2 DEF ConfigurationError, OutputRangeAfter
  <2>3. /\ IsController(c) /\ c.kind = l.controller.kind
        /\ c.previous = l.controller.previous
        /\ SettingsError(l.controller.kind, c.settings) = "none"
    BY <2>2, ConfigureFacts DEF IsSound, IsLoop
  <2> HIDE DEF preview
  <2>4. IsAccepted(c) BY <2>3 DEF IsSound, IsValid, IsAccepted
  <2>5. l.running => SinceSample(c.previous, since) BY <2>3 DEF IsSound, IsFresh
  <2> QED BY <2>1, <2>2, <2>3, <2>4, <2>5, WithControllerFacts
<1> QED BY <1>1, <1>2

\* The operations on a controller's dynamic state.
LEMMA ResynchronizedFacts ==
  ASSUME NEW c, IsController(c), IsAccepted(c), NEW r, r = Resynchronized(c)
  PROVE  /\ IsController(r) /\ IsAccepted(r) /\ r.previous = << >>
         /\ r.kind = c.kind /\ r.settings = c.settings
<1>1. CASE c.kind = "on_off" BY <1>1 DEF Resynchronized, IsAccepted
<1>2. CASE c.kind # "on_off"
  <2>1. r = [kind |-> c.kind, settings |-> c.settings, integral |-> c.integral,
             previous |-> << >>, rate |-> 0, active |-> c.active]
    BY <1>2 DEF Resynchronized, IsController
  <2> QED BY <1>2, <2>1 DEF IsController, IsSample, IsAccepted
<1> QED BY <1>1, <1>2

LEMMA ResetFacts ==
  ASSUME NEW c, IsController(c), IsAccepted(c), NEW r, r = Reset(c)
  PROVE  /\ IsController(r) /\ IsAccepted(r) /\ r.previous = << >>
         /\ r.kind = c.kind /\ r.settings = c.settings
<1>1. CASE c.kind = "on_off"
  <2>1. r = [kind |-> c.kind, settings |-> c.settings, integral |-> c.integral,
             previous |-> c.previous, rate |-> c.rate, active |-> FALSE]
    BY <1>1 DEF Reset, IsController
  <2> QED BY <1>1, <2>1 DEF IsController, IsAccepted
<1>2. CASE c.kind # "on_off"
  <2> DEFINE s == Resynchronized(c)
  <2>1. /\ IsController(s) /\ IsAccepted(s) /\ s.previous = << >>
        /\ s.kind = c.kind /\ s.settings = c.settings
    BY ResynchronizedFacts
  <2>2. r = [s EXCEPT !.integral = 0] BY <1>2 DEF Reset
  <2> HIDE DEF s
  <2>3. r = [kind |-> s.kind, settings |-> s.settings, integral |-> 0,
             previous |-> s.previous, rate |-> s.rate, active |-> s.active]
    BY <2>1, <2>2 DEF IsController
  <2> QED BY <2>1, <2>3 DEF IsController, IsAccepted
<1> QED BY <1>1, <1>2

LEMMA ResetIntegralFacts ==
  ASSUME NEW c, IsController(c), IsAccepted(c), NEW r, r = ResetIntegral(c).controller
  PROVE  /\ IsController(r) /\ IsAccepted(r) /\ r.previous = c.previous
         /\ r.kind = c.kind /\ r.settings = c.settings
<1>1. CASE c.kind = "on_off" BY <1>1 DEF ResetIntegral
<1>2. CASE c.kind # "on_off"
  <2>1. r = [kind |-> c.kind, settings |-> c.settings, integral |-> 0,
             previous |-> c.previous, rate |-> c.rate, active |-> c.active]
    BY <1>2 DEF ResetIntegral, IsController
  <2> QED BY <1>2, <2>1 DEF IsController, IsAccepted
<1> QED BY <1>1, <1>2

\* A reference with an operation applied to it, if there is one.
LEMMA MappedReference ==
  ASSUME NEW q, NEW f, q = << >> \/ q = <<q[1]>>,
         NEW r, r = [i \in DOMAIN q |-> f[i]]
  PROVE  IF q = << >> THEN r = << >> ELSE r = <<f[1]>>
<1>1. CASE q = << >> BY <1>1
<1>2. CASE q # << >>
  <2>1. DOMAIN q = 1..1 BY <1>2
  <2> QED BY <1>2, <2>1
<1> QED BY <1>1, <1>2

\* A loop that is resumed has no time base at all.
LEMMA ResumedFacts ==
  ASSUME NEW l, NEW since, IsSound(l, since)
  PROVE  IsSound(Resumed(l), since)
<1> DEFINE c == Resynchronized(l.controller)
           q == [i \in DOMAIN l.reference |-> ResynchronizedReference(l.reference[i])]
           r == Resumed(l)
<1>1. CASE l.running BY <1>1 DEF Resumed
<1>2. CASE ~l.running
  <2>1. r = [l EXCEPT !.running = TRUE, !.controller = c, !.reference = q]
    BY <1>2 DEF Resumed
  <2>2. IsLoop(l) /\ IsValid(l) BY DEF IsSound
  <2>3. /\ IsController(c) /\ IsAccepted(c) /\ c.previous = << >>
        /\ c.kind = l.controller.kind /\ c.settings = l.controller.settings
    BY <2>2, ResynchronizedFacts DEF IsLoop, IsValid
  <2>4. q = << >> \/ (q = <<q[1]>> /\ IsReference(q[1]) /\ q[1].previous = << >>)
    <3>1. CASE l.reference = << >> BY <3>1
    <3>2. CASE l.reference # << >>
      <4> DEFINE x == l.reference[1]
      <4>1. l.reference = <<x>> /\ IsReference(x) BY <2>2, <3>2 DEF IsLoop
      <4>2. q = <<ResynchronizedReference(x)>> BY <4>1
      <4>3. ResynchronizedReference(x)
              = [source |-> x.source, elapsed |-> x.elapsed, previous |-> << >>]
        BY <4>1 DEF ResynchronizedReference, IsReference
      <4>4. IsReference(ResynchronizedReference(x)) BY <4>1, <4>3 DEF IsReference
      <4> QED BY <4>2, <4>3, <4>4
    <3> QED BY <3>1, <3>2
  <2> HIDE DEF c, q
  <2>5. r = [input |-> l.input, target |-> l.target, running |-> TRUE,
             controller |-> c, reference |-> q]
    BY <2>1, <2>2 DEF IsLoop
  <2> HIDE DEF r
  <2>6. IsLoop(r) /\ IsValid(r) BY <2>2, <2>3, <2>4, <2>5 DEF IsLoop, IsValid
  <2>7. IsFresh(r, since)
    BY <2>3, <2>4, <2>5 DEF IsFresh, SinceSample, SinceReference
  <2>8. IsSound(r, since) BY <2>6, <2>7 DEF IsSound
  <2> QED BY <2>8 DEF r
<1> QED BY <1>1, <1>2

LEMMA WithInputFacts ==
  ASSUME NEW l, NEW since, IsSound(l, since), NEW input
  PROVE  IsSound(WithInput(l, input), since)
<1> DEFINE c == Resynchronized(l.controller)
           r == WithInput(l, input)
<1>1. CASE l.input = input BY <1>1 DEF WithInput
<1>2. CASE l.input # input
  <2>1. r = [l EXCEPT !.input = input, !.controller = c] BY <1>2 DEF WithInput
  <2>2. IsLoop(l) /\ IsValid(l) /\ IsFresh(l, since) BY DEF IsSound
  <2>3. /\ IsController(c) /\ IsAccepted(c) /\ c.previous = << >>
        /\ c.kind = l.controller.kind /\ c.settings = l.controller.settings
    BY <2>2, ResynchronizedFacts DEF IsLoop, IsValid
  <2> HIDE DEF c
  <2>4. r = [input |-> input, target |-> l.target, running |-> l.running,
             controller |-> c, reference |-> l.reference]
    BY <2>1, <2>2 DEF IsLoop
  <2> HIDE DEF r
  <2>5. IsSound(r, since)
    BY <2>2, <2>3, <2>4 DEF IsSound, IsLoop, IsValid, IsFresh, SinceSample
  <2> QED BY <2>5 DEF r
<1> QED BY <1>1, <1>2

LEMMA WithSourceFacts ==
  ASSUME NEW l, NEW since, IsSound(l, since), NEW source, IsSource(source)
  PROVE  IsSound(WithReference(l, source), since)
<1> DEFINE c == Resynchronized(l.controller)
           q == NewReference(source)
           r == WithReference(l, source)
<1>1. r = [l EXCEPT !.reference = <<q>>, !.controller = c] BY DEF WithReference
<1>2. IsLoop(l) /\ IsValid(l) /\ IsFresh(l, since) BY DEF IsSound
<1>3. /\ IsController(c) /\ IsAccepted(c) /\ c.previous = << >>
      /\ c.kind = l.controller.kind /\ c.settings = l.controller.settings
  BY <1>2, ResynchronizedFacts DEF IsLoop, IsValid
<1>4. IsReference(q) /\ q.previous = << >> BY NewReferenceFacts
<1> HIDE DEF c, q
<1>5. r = [input |-> l.input, target |-> l.target, running |-> l.running,
           controller |-> c, reference |-> <<q>>]
  BY <1>1, <1>2 DEF IsLoop
<1> HIDE DEF r
<1>6. IsLoop(r) /\ IsValid(r) BY <1>2, <1>3, <1>4, <1>5 DEF IsLoop, IsValid
<1>7. IsFresh(r, since) BY <1>3, <1>4, <1>5 DEF IsFresh, SinceSample, SinceReference
<1>8. IsSound(r, since) BY <1>6, <1>7 DEF IsSound
<1> QED BY <1>8 DEF r

LEMMA ResetOfFacts ==
  ASSUME NEW l, NEW since, IsSound(l, since)
  PROVE  IsSound(ResetOf(l), since)
<1> DEFINE c == Reset(l.controller)
           q == [i \in DOMAIN l.reference |-> RestartedReference(l.reference[i])]
           r == ResetOf(l)
<1>1. r = [l EXCEPT !.controller = c, !.reference = q] BY DEF ResetOf
<1>2. IsLoop(l) /\ IsValid(l) /\ IsFresh(l, since) BY DEF IsSound
<1>3. /\ IsController(c) /\ IsAccepted(c) /\ c.previous = << >>
      /\ c.kind = l.controller.kind /\ c.settings = l.controller.settings
  BY <1>2, ResetFacts DEF IsLoop, IsValid
<1>4. q = << >> \/ (q = <<q[1]>> /\ IsReference(q[1]) /\ q[1].previous = << >>)
  <2>1. CASE l.reference = << >> BY <2>1
  <2>2. CASE l.reference # << >>
    <3> DEFINE x == l.reference[1]
    <3>1. l.reference = <<x>> /\ IsReference(x) BY <1>2, <2>2 DEF IsLoop
    <3>2. q = <<RestartedReference(x)>> BY <3>1
    <3>3. /\ IsReference(RestartedReference(x))
          /\ RestartedReference(x).previous = << >>
      BY <3>1, NewReferenceFacts DEF RestartedReference, IsReference
    <3> QED BY <3>2, <3>3
  <2> QED BY <2>1, <2>2
<1> HIDE DEF c, q
<1>5. r = [input |-> l.input, target |-> l.target, running |-> l.running,
           controller |-> c, reference |-> q]
  BY <1>1, <1>2 DEF IsLoop
<1> HIDE DEF r
<1>6. IsLoop(r) /\ IsValid(r) BY <1>2, <1>3, <1>4, <1>5 DEF IsLoop, IsValid
<1>7. IsFresh(r, since) BY <1>3, <1>4, <1>5 DEF IsFresh, SinceSample, SinceReference
<1>8. IsSound(r, since) BY <1>6, <1>7 DEF IsSound
<1> QED BY <1>8 DEF r

-----------------------------------------------------------------------------
(***************************************************************************)
(* One sample of a loop.                                                   *)
(***************************************************************************)
\* What holds of the result of a sample: the loop stays sound, its output can
\* be written, and the integral went no further than the range allows.
IsResult(l, since, x) ==
  /\ IsSound(x.loop, since) /\ x.loop.running = l.running
  /\ x.error = "none" /\ x.loop.target.range # << >>
       => WriteRequest(x.loop.target, x.output.value).error = "none"
  /\ x.error # "Output"
  /\ (x.error = "none" /\ l.controller.kind # "on_off") =>
       LET before == l.controller
           after == x.loop.controller
       IN /\ after.integral > before.integral
               => x.output.unconstrained <= after.settings["output_max"]
          /\ after.integral < before.integral
               => x.output.unconstrained >= after.settings["output_min"]

\* A sample of a loop whose controller has the sound loop's integral.
LEMMA ComputedFacts ==
  ASSUME InputsAreValid, NEW l, NEW since \in Int, NEW base, IsSound(base, since),
         base.controller.kind = l.controller.kind, base.running = l.running,
         base.controller.integral = l.controller.integral,
         NEW at \in Int, Finite(at) => at >= since, NEW m \in Int,
         NEW result \in Updates(base.controller, at, m),
         NEW x, x = [error |-> result.error, output |-> result.output,
                     loop |-> [base EXCEPT !.controller = result.controller]]
  PROVE  IsResult(l, since, x)
<1> DEFINE b == base.controller
           c == result.controller
<1>1. IsLoop(base) /\ IsValid(base) /\ IsFresh(base, since) BY DEF IsSound
<1>2. IsController(b) /\ IsAccepted(b) BY <1>1 DEF IsLoop, IsValid
<1>3. IsOutcome(b, at, result) BY <1>2, UpdatesFacts
<1>4. IsController(c) /\ c.kind = b.kind /\ c.settings = b.settings
  BY <1>3 DEF IsOutcome
<1>5. IsAccepted(c) BY <1>2, <1>3, <1>4 DEF IsOutcome, IsAccepted
<1>6. base.running => SinceSample(c.previous, since)
  BY <1>1, <1>3 DEF IsOutcome, IsFresh, SinceSample
<1>7. RangeFits(OutputRange(c.kind, c.settings), base.target)
  BY <1>1, <1>4 DEF IsValid
<1>8. /\ IsSound(x.loop, since) /\ x.loop.target = base.target /\ x.loop.controller = c
      /\ x.loop.running = base.running
  <2>1. x.loop = [base EXCEPT !.controller = c] OBVIOUS
  <2> HIDE DEF c
  <2> QED BY <1>4, <1>5, <1>6, <1>7, <2>1, WithControllerFacts
<1>9. x.error = result.error /\ x.output = result.output /\ x.error # "Output"
  BY <1>3 DEF IsOutcome
<1>10. ASSUME x.error = "none", base.target.range # << >>
       PROVE  WriteRequest(base.target, x.output.value).error = "none"
  <2> DEFINE range == OutputRange(b.kind, b.settings)
  <2>1. /\ range.minimum \in Int /\ range.maximum \in Int
        /\ Finite(range.minimum) /\ Finite(range.maximum)
    BY <1>2, OutputRangeFacts DEF IsAccepted
  <2>2. /\ x.output.value \in Int
        /\ range.minimum <= x.output.value /\ x.output.value <= range.maximum
    BY <1>3, <1>9, <1>10 DEF IsOutcome
  <2>3. /\ IsTarget(base.target) /\ HoldsItsRange(base.target)
        /\ TargetError(base.target) = "none" /\ RangeFits(range, base.target)
    BY <1>1 DEF IsLoop, IsValid
  <2> HIDE DEF range
  <2> QED BY <1>10, <2>1, <2>2, <2>3, WritableFacts
<1>11. (x.error = "none" /\ l.controller.kind # "on_off") =>
         /\ c.integral > l.controller.integral
              => x.output.unconstrained <= c.settings["output_max"]
         /\ c.integral < l.controller.integral
              => x.output.unconstrained >= c.settings["output_min"]
  BY <1>3, <1>4, <1>9 DEF IsOutcome
<1> HIDE DEF c, b
<1> QED BY <1>8, <1>9, <1>10, <1>11 DEF IsResult

\* The reference gives the controller its setpoint: no bound changes.
LEMMA ReferredFacts ==
  ASSUME NEW c, IsController(c), IsAccepted(c), NEW v \in Int,
         NEW r, r = Configure(c, <<[key |-> "setpoint", value |-> Number(v)]>>)
  PROVE  /\ IsController(r.controller) /\ IsAccepted(r.controller)
         /\ r.controller.kind = c.kind /\ r.controller.integral = c.integral
         /\ r.controller.previous = c.previous
         /\ OutputRange(c.kind, r.controller.settings) = OutputRange(c.kind, c.settings)
<1> DEFINE updates == <<[key |-> "setpoint", value |-> Number(v)]>>
<1>1. DOMAIN updates = {1} /\ Len(updates) = 1 /\ updates[1].key = "setpoint"
       /\ updates[1].value = Number(v)
  OBVIOUS
<1>2. AreUpdates(updates) /\ UpdatedKeys(updates) = {"setpoint"}
  BY <1>1 DEF AreUpdates, Number, UpdatedKeys
<1> HIDE DEF updates
<1>3. /\ IsController(r.controller)
      /\ r.controller.kind = c.kind /\ r.controller.integral = c.integral
      /\ r.controller.previous = c.previous
      /\ r.error # "none" => r.controller = c
      /\ r.error = "none" =>
           /\ SettingsError(c.kind, r.controller.settings) = "none"
           /\ \A key \in Keys(c.kind) \ {"setpoint"} :
                r.controller.settings[key] = c.settings[key]
  BY <1>2, ConfigureFacts DEF updates
<1>4. IsAccepted(r.controller) BY <1>3 DEF IsAccepted
<1>5. CASE r.error # "none" BY <1>3, <1>4, <1>5
<1>6. CASE r.error = "none"
  <2>1. OutputRange(c.kind, r.controller.settings) = OutputRange(c.kind, c.settings)
    BY <1>3, <1>6
    DEF OutputRange, Keys, PidKeys, OnOffKeys, FurnaceKeys, IsController
  <2> QED BY <1>3, <1>4, <2>1
<1> QED BY <1>5, <1>6

\* Whatever a sample of a running loop results in, the loop stays sound and
\* the output is one that can be written.
LEMMA LoopUpdatesFacts ==
  ASSUME InputsAreValid, NEW l, NEW since \in Int, IsSound(l, since),
         NEW at \in Int, Finite(at) => at >= since, NEW m \in Int,
         NEW x \in LoopUpdates(l, at, m)
  PROVE  IsResult(l, since, x)
<1> DEFINE reference == UpdateReference(l.reference[1], at)
           value == CurrentValue(reference.reference)
           setpoint == Configure(l.controller,
                         <<[key |-> "setpoint", value |-> Number(value)]>>)
           referred == [l EXCEPT !.reference = <<reference.reference>>,
                                 !.controller = setpoint.controller]
           computed(base) == {[error |-> result.error, output |-> result.output,
                               loop |-> [base EXCEPT !.controller = result.controller]] :
                                 result \in Updates(base.controller, at, m)}
           failed(error, after) == {[error |-> error, output |-> NoOutput, loop |-> after]}
<1>1. \/ l.reference = << >> /\ x \in computed(l)
      \/ /\ l.reference # << >>
         /\ \/ x \in failed("Reference", l)
            \/ reference.error = "none" /\ x \in failed("ReferenceApplication", referred)
            \/ reference.error = "none" /\ x \in computed(referred)
  BY DEF LoopUpdates
<1>2. IsLoop(l) /\ IsValid(l) /\ IsFresh(l, since) BY DEF IsSound
<1>3. ASSUME NEW base, IsSound(base, since), x \in computed(base),
             base.controller.kind = l.controller.kind, base.running = l.running,
             base.controller.integral = l.controller.integral
      PROVE  IsResult(l, since, x)
  <2>1. PICK result \in Updates(base.controller, at, m) :
          x = [error |-> result.error, output |-> result.output,
               loop |-> [base EXCEPT !.controller = result.controller]]
    BY <1>3
  <2> QED BY <1>3, <2>1, ComputedFacts
<1>4. ASSUME NEW error, error \notin {"none", "Output"}, NEW after,
             IsSound(after, since), after.running = l.running, x \in failed(error, after)
      PROVE  IsResult(l, since, x)
  BY <1>4 DEF IsResult
<1>5. ASSUME l.reference # << >>, reference.error = "none"
      PROVE  /\ IsSound(referred, since) /\ referred.running = l.running
             /\ referred.controller.kind = l.controller.kind
             /\ referred.controller.integral = l.controller.integral
  <2> DEFINE q == reference.reference
             c == setpoint.controller
  <2>1. IsReference(l.reference[1]) BY <1>2, <1>5 DEF IsLoop
  <2>2. IsReference(q) /\ Finite(at) /\ q.previous = <<at>>
    <3>1. reference = UpdateReference(l.reference[1], at) OBVIOUS
    <3> HIDE DEF reference
    <3> QED BY SMTT(30), <1>5, <2>1, <3>1, UpdateReferenceFacts
  <2>3. value \in Int BY <2>2, CurrentValueFacts
  <2>4. IsController(l.controller) /\ IsAccepted(l.controller)
    BY <1>2 DEF IsLoop, IsValid
  <2> HIDE DEF value
  <2>5. /\ IsController(c) /\ IsAccepted(c)
        /\ c.kind = l.controller.kind /\ c.integral = l.controller.integral
        /\ c.previous = l.controller.previous
        /\ OutputRange(l.controller.kind, c.settings)
             = OutputRange(l.controller.kind, l.controller.settings)
    BY <2>3, <2>4, ReferredFacts
  <2> DEFINE r == referred
  <2>6. r = [l EXCEPT !.reference = <<q>>, !.controller = c] OBVIOUS
  <2> HIDE DEF q, c, referred
  <2>7. r = [input |-> l.input, target |-> l.target, running |-> l.running,
             controller |-> c, reference |-> <<q>>]
    BY <1>2, <2>6 DEF IsLoop
  <2>8. IsLoop(r) /\ IsValid(r) BY <1>2, <2>2, <2>5, <2>7 DEF IsLoop, IsValid
  <2>9. IsFresh(r, since)
    BY <1>2, <2>2, <2>5, <2>7 DEF IsFresh, SinceSample, SinceReference
  <2> QED BY <2>5, <2>7, <2>8, <2>9 DEF IsSound
<1> HIDE DEF referred, computed, failed, reference
<1>6. CASE l.reference = << >> /\ x \in computed(l) BY <1>3, <1>6
<1>7. CASE x \in failed("Reference", l) BY <1>4, <1>7
<1>8. CASE l.reference # << >> /\ reference.error = "none"
           /\ x \in failed("ReferenceApplication", referred)
  BY <1>4, <1>5, <1>8
<1>9. CASE l.reference # << >> /\ reference.error = "none" /\ x \in computed(referred)
  BY <1>3, <1>5, <1>9
<1> QED BY <1>1, <1>6, <1>7, <1>8, <1>9

LEMMA EventFacts ==
  ASSUME NEW l, NEW since, NEW x, IsResult(l, since, x)
  PROVE  /\ Event(x).error = "Output" => x.loop.target.range = << >>
         /\ Event(x).error = "none" => x.error = "none" /\ Event(x).output = x.output
BY DEF IsResult, Event

-----------------------------------------------------------------------------
(***************************************************************************)
(* The registry.                                                           *)
(***************************************************************************)
LEMMA InitKeeps == ASSUME InputsAreValid PROVE Init => IInv
<1> SUFFICES ASSUME Init PROVE IInv OBVIOUS
<1>1. /\ control.loops = << >> /\ control.events = << >> /\ control.clock = 0
      /\ control.pausedAt = [name \in LoopNames |-> 0]
      /\ control = [loops |-> control.loops, events |-> control.events,
                    clock |-> control.clock, pausedAt |-> control.pausedAt]
  BY DEF Init
<1>2. Installed = {} BY <1>1 DEF Installed
<1>3. control.loops = [name \in Installed |-> control.loops[name]] BY <1>1, <1>2
<1>4. TypeOK BY <1>1, <1>2, <1>3 DEF TypeOK, LoopsAreWellFormed
<1>5. OutputsAreWritable BY <1>1 DEF OutputsAreWritable
<1> QED BY <1>1, <1>2, <1>4, <1>5 DEF IInv, LoopsAreValid, LoopsAreFresh

\* An operation on one loop, which leaves it sound.
LEMMA SetLoopKeeps ==
  ASSUME IInv, NEW name \in Installed, NEW loop, IsSound(loop, control.pausedAt[name]),
         SetLoop(name, loop)
  PROVE  IInv'
<1>1. /\ control'.loops = [control.loops EXCEPT ![name] = loop]
      /\ control'.events = << >> /\ control'.clock = control.clock
      /\ control'.pausedAt = control.pausedAt
      /\ control' = [loops |-> control'.loops, events |-> control'.events,
                     clock |-> control'.clock, pausedAt |-> control'.pausedAt]
  BY DEF SetLoop, IInv, TypeOK
<1>2. Installed' = Installed
  BY <1>1 DEF Installed
<1>3. /\ control'.loops[name] = loop
      /\ \A other \in Installed : other # name => control'.loops[other] = control.loops[other]
      /\ control'.loops = [other \in Installed' |-> control'.loops[other]]
  BY <1>1, <1>2 DEF IInv, TypeOK, Installed
<1>4. TypeOK'
  BY <1>1, <1>2, <1>3 DEF IInv, TypeOK, LoopsAreWellFormed, IsSound, LoopNames
<1>5. LoopsAreValid' BY <1>2, <1>3 DEF IInv, LoopsAreValid, IsSound
<1>6. LoopsAreFresh' BY <1>1, <1>2, <1>3 DEF IInv, LoopsAreFresh, IsSound
<1>7. OutputsAreWritable' BY <1>1 DEF OutputsAreWritable
<1> QED BY <1>1, <1>4, <1>5, <1>6, <1>7 DEF IInv, LoopNames

LEMMA KeepKeeps ==
  ASSUME IInv, Keep
  PROVE  IInv'
<1>1. /\ control'.loops = control.loops
      /\ control'.events = << >> /\ control'.clock = control.clock
      /\ control'.pausedAt = control.pausedAt
      /\ control' = [loops |-> control'.loops, events |-> control'.events,
                     clock |-> control'.clock, pausedAt |-> control'.pausedAt]
  BY DEF Keep, IInv, TypeOK
<1>2. Installed' = Installed BY <1>1 DEF Installed
<1>3. TypeOK' BY <1>1, <1>2 DEF IInv, TypeOK, LoopsAreWellFormed, LoopNames
<1>4. LoopsAreValid' /\ LoopsAreFresh'
  BY <1>1, <1>2 DEF IInv, LoopsAreValid, LoopsAreFresh
<1>5. OutputsAreWritable' BY <1>1 DEF OutputsAreWritable
<1> QED BY <1>1, <1>3, <1>4, <1>5 DEF IInv, LoopNames

LEMMA AddKeeps ==
  ASSUME InputsAreValid, IInv, NEW d \in Definitions, Add(d)
  PROVE  IInv'
<1> DEFINE loops == [name \in Installed \cup {d.name} |->
                       IF name = d.name THEN NewLoop(d) ELSE control.loops[name]]
<1>1. d.name \in LoopNames BY DEF LoopNames
<1>2. /\ control'.loops = loops
      /\ control'.events = << >> /\ control'.clock = control.clock
      /\ control'.pausedAt = [control.pausedAt EXCEPT ![d.name] = 0]
      /\ control' = [loops |-> control'.loops, events |-> control'.events,
                     clock |-> control'.clock, pausedAt |-> control'.pausedAt]
  <2> DEFINE c == control
  <2>1. control' = [control EXCEPT !.loops = loops, !.events = << >>, !.pausedAt[d.name] = 0]
    BY DEF Add
  <2> HIDE DEF loops
  <2> QED BY <2>1 DEF IInv, TypeOK
<1> HIDE DEF loops
<1>3. Installed' = Installed \cup {d.name} /\ loops = [name \in Installed' |-> loops[name]]
       /\ loops[d.name] = NewLoop(d)
       /\ \A name \in Installed : name # d.name => loops[name] = control.loops[name]
  BY <1>2 DEF Installed, loops
<1>4. control'.pausedAt \in [LoopNames -> Int] /\ control'.pausedAt[d.name] = 0
       /\ \A name \in LoopNames : name # d.name => control'.pausedAt[name] = control.pausedAt[name]
  BY <1>1, <1>2 DEF IInv, TypeOK
<1>5. IsSound(NewLoop(d), 0)
  <2>1. /\ SettingsError(d.kind, d.settings) = "none" /\ TargetError(d.target) = "none"
        /\ RangeFits(OutputRange(d.kind, d.settings), d.target)
    BY DEF Add, MayAdd
  <2> QED BY <2>1, NewLoopFacts
<1>6. TypeOK'
  <2>1. LoopsAreWellFormed' BY <1>2, <1>3, <1>5 DEF IInv, TypeOK, LoopsAreWellFormed, IsSound
  <2> QED BY <1>1, <1>2, <1>3, <1>4, <2>1 DEF IInv, TypeOK, LoopNames
<1>7. LoopsAreValid' BY <1>2, <1>3, <1>5 DEF IInv, LoopsAreValid, IsSound
<1>8. LoopsAreFresh'
  BY <1>2, <1>3, <1>4, <1>5 DEF IInv, TypeOK, LoopsAreFresh, IsSound
<1>9. OutputsAreWritable' BY <1>2 DEF OutputsAreWritable
<1>10. \A name \in LoopNames : control'.pausedAt[name] <= control'.clock
  BY <1>2, <1>4 DEF IInv, TypeOK
<1> QED BY <1>6, <1>7, <1>8, <1>9, <1>10 DEF IInv, LoopNames

LEMMA RemoveKeeps ==
  ASSUME IInv, NEW name \in Installed, Remove(name)
  PROVE  IInv'
<1> DEFINE loops == [other \in Installed \ {name} |-> control.loops[other]]
<1>1. /\ control'.loops = loops
      /\ control'.events = << >> /\ control'.clock = control.clock
      /\ control'.pausedAt = control.pausedAt
      /\ control' = [loops |-> control'.loops, events |-> control'.events,
                     clock |-> control'.clock, pausedAt |-> control'.pausedAt]
  <2>1. control' = [control EXCEPT !.loops = loops, !.events = << >>] BY DEF Remove
  <2> HIDE DEF loops
  <2> QED BY <2>1 DEF IInv, TypeOK
<1>2. Installed' = Installed \ {name} BY <1>1 DEF Installed
<1>3. TypeOK' BY <1>1, <1>2 DEF IInv, TypeOK, LoopsAreWellFormed, LoopNames
<1>4. LoopsAreValid' /\ LoopsAreFresh'
  BY <1>1, <1>2 DEF IInv, LoopsAreValid, LoopsAreFresh
<1>5. OutputsAreWritable' BY <1>1 DEF OutputsAreWritable
<1> QED BY <1>1, <1>3, <1>4, <1>5 DEF IInv, LoopNames

\* A sample updates the running loops on its signal; the others keep their
\* state, and the paused ones remember that it came.
LEMMA SampleKeeps ==
  ASSUME InputsAreValid, IInv, NEW input \in InputSignals, NEW at \in Timestamps,
         NEW m \in Measurements, Sample(input, at, m)
  PROVE  IInv' /\ IntegratesWithinBounds
<1> DEFINE fed == {name \in Installed :
                     control.loops[name].input = input /\ control.loops[name].running}
<1>1. PICK results \in [fed -> UNION {LoopUpdates(control.loops[name], at, m) : name \in fed}] :
        /\ \A name \in fed : results[name] \in LoopUpdates(control.loops[name], at, m)
        /\ control' = [loops |-> [name \in Installed |->
                          IF name \in fed THEN results[name].loop ELSE control.loops[name]],
                       events |-> [name \in fed |-> Event(results[name])],
                       clock |-> IF Finite(at) THEN at ELSE control.clock,
                       pausedAt |-> [name \in LoopNames |->
                          IF name \in Installed /\ ~control.loops[name].running /\ Finite(at)
                          THEN at ELSE control.pausedAt[name]]]
  BY DEF Sample
<1>2. fed \subseteq Installed /\ \A name \in fed : control.loops[name].running OBVIOUS
<1> HIDE DEF fed
<1>3. /\ control'.loops = [name \in Installed |->
            IF name \in fed THEN results[name].loop ELSE control.loops[name]]
      /\ control'.events = [name \in fed |-> Event(results[name])]
      /\ control'.clock = IF Finite(at) THEN at ELSE control.clock
      /\ control'.pausedAt = [name \in LoopNames |->
            IF name \in Installed /\ ~control.loops[name].running /\ Finite(at)
            THEN at ELSE control.pausedAt[name]]
      /\ control' = [loops |-> control'.loops, events |-> control'.events,
                     clock |-> control'.clock, pausedAt |-> control'.pausedAt]
  BY <1>1
<1>4. at \in Int /\ m \in Int /\ (Finite(at) => at >= control.clock) /\ control.clock \in Nat
  BY DEF Timestamps, InputsAreValid, Finite, IInv, TypeOK
<1>5. Installed \subseteq LoopNames /\ control.pausedAt \in [LoopNames -> Int]
       /\ \A name \in LoopNames : control.pausedAt[name] <= control.clock
  BY DEF IInv, TypeOK
<1>6. ASSUME NEW name \in fed
      PROVE  IsResult(control.loops[name], control.pausedAt[name], results[name])
  <2>1. name \in Installed BY <1>2
  <2>2. IsSound(control.loops[name], control.pausedAt[name])
    BY <2>1 DEF IInv, TypeOK, LoopsAreWellFormed, LoopsAreValid, LoopsAreFresh, IsSound
  <2>3. control.pausedAt[name] \in Int /\ (Finite(at) => at >= control.pausedAt[name])
    BY <1>4, <1>5, <2>1
  <2>4. results[name] \in LoopUpdates(control.loops[name], at, m) BY <1>1
  <2> QED BY <1>4, <2>2, <2>3, <2>4, LoopUpdatesFacts
<1>7. Installed' = Installed BY <1>3 DEF Installed
<1>8. /\ \A name \in fed : control'.loops[name] = results[name].loop
                           /\ control'.pausedAt[name] = control.pausedAt[name]
      /\ \A name \in Installed \ fed : control'.loops[name] = control.loops[name]
      /\ control'.loops = [name \in Installed' |-> control'.loops[name]]
  BY <1>2, <1>3, <1>5, <1>7
<1>9. TypeOK'
  <2>1. \A name \in Installed : IsLoop(control'.loops[name])
    BY <1>6, <1>8 DEF IsResult, IsSound, IInv, TypeOK, LoopsAreWellFormed
  <2>2. control'.clock \in Nat BY <1>3, <1>4
  <2>3. control'.pausedAt \in [LoopNames -> Int] BY <1>3, <1>4, <1>5
  <2> QED BY <1>3, <1>5, <1>7, <1>8, <2>1, <2>2, <2>3
          DEF TypeOK, LoopsAreWellFormed, LoopNames
<1>10. LoopsAreValid'
  BY <1>6, <1>7, <1>8 DEF IsResult, IsSound, IInv, LoopsAreValid
<1>11. LoopsAreFresh'
  <2> SUFFICES ASSUME NEW name \in Installed
               PROVE  IsFresh(control'.loops[name], control'.pausedAt[name])
    BY <1>7 DEF LoopsAreFresh
  <2>1. CASE name \in fed BY <1>6, <1>8, <2>1 DEF IsResult, IsSound
  <2>2. CASE name \notin fed /\ control.loops[name].running
    <3>1. control'.pausedAt[name] = control.pausedAt[name] BY <1>3, <1>5, <2>2
    <3> QED BY <1>8, <2>2, <3>1 DEF IInv, LoopsAreFresh
  <2>3. CASE name \notin fed /\ ~control.loops[name].running
    BY <1>8, <2>3 DEF IsFresh
  <2> QED BY <2>1, <2>2, <2>3
<1>12. \A name \in LoopNames : control'.pausedAt[name] <= control'.clock
  BY <1>3, <1>4, <1>5
<1>13. \A name \in fed : control'.events[name] = Event(results[name])
        /\ DOMAIN control'.events = fed
  BY <1>3
<1>14. OutputsAreWritable'
  <2> SUFFICES ASSUME NEW name \in fed, control'.events[name].error = "Output"
               PROVE  control'.loops[name].target.range = << >>
    BY <1>3 DEF OutputsAreWritable
  <2> QED BY <1>6, <1>8, <1>13, EventFacts
<1>15. IntegratesWithinBounds
  <2> SUFFICES ASSUME NEW name \in fed, control'.events[name].error = "none",
                      control.loops[name].controller.kind # "on_off"
               PROVE  LET before == control.loops[name].controller
                          after == control'.loops[name].controller
                          output == control'.events[name].output
                      IN  /\ after.integral > before.integral
                               => output.unconstrained <= after.settings["output_max"]
                          /\ after.integral < before.integral
                               => output.unconstrained >= after.settings["output_min"]
    BY <1>3 DEF IntegratesWithinBounds
  <2>1. results[name].error = "none" /\ control'.events[name].output = results[name].output
    BY <1>6, <1>13, EventFacts
  <2> QED BY <1>6, <1>8, <2>1 DEF IsResult
<1> QED BY <1>9, <1>10, <1>11, <1>12, <1>14, <1>15 DEF IInv, LoopNames

\* A loop of the registry is sound.
LEMMA InstalledAreSound ==
  ASSUME IInv, NEW name \in Installed
  PROVE  IsSound(control.loops[name], control.pausedAt[name])
BY DEF IInv, TypeOK, LoopsAreWellFormed, LoopsAreValid, LoopsAreFresh, IsSound

LEMMA ConfigureReferenceKeeps ==
  ASSUME InputsAreValid, IInv, NEW name \in Installed, NEW updates \in Retunings,
         ConfigureReferenceOf(name, updates)
  PROVE  IInv'
<1> DEFINE loop == control.loops[name]
           since == control.pausedAt[name]
           result == ConfigureReference(loop.reference[1], updates)
<1>1. CASE loop.reference = << >> BY <1>1, KeepKeeps DEF ConfigureReferenceOf
<1>2. CASE loop.reference # << >>
  <2>1. SetLoop(name, [loop EXCEPT !.reference = <<result.reference>>])
    BY <1>2 DEF ConfigureReferenceOf
  <2>2. IsSound(loop, since) BY InstalledAreSound
  <2>3. IsReference(loop.reference[1]) BY <1>2, <2>2 DEF IsSound, IsLoop
  <2>4. AreUpdates(updates) BY DEF InputsAreValid
  <2>5. /\ IsReference(result.reference)
        /\ result.reference.previous \in {loop.reference[1].previous, << >>}
    BY <2>3, <2>4, ConfigureReferenceFacts
  <2> DEFINE q == result.reference
  <2>6. loop.running => SinceReference(<<q>>, since)
    BY <1>2, <2>2, <2>5 DEF IsSound, IsFresh, SinceReference
  <2> HIDE DEF q, loop, since
  <2> DEFINE r == [loop EXCEPT !.reference = <<q>>]
  <2>7. IsSound(r, since) BY <2>2, <2>5, <2>6, WithReferenceFacts DEF q
  <2>8. SetLoop(name, r) BY <2>1 DEF q
  <2> HIDE DEF r
  <2> QED BY <2>7, <2>8, SetLoopKeeps DEF since
<1> QED BY <1>1, <1>2

LEMMA PauseKeeps ==
  ASSUME IInv, NEW name \in Installed, Pause(name)
  PROVE  IInv'
<1> DEFINE loop == control.loops[name]
           running == FALSE
           r == [loop EXCEPT !.running = running]
<1>1. SetLoop(name, r) BY DEF Pause
<1>2. IsSound(loop, control.pausedAt[name]) BY InstalledAreSound
<1> HIDE DEF loop, running
<1>3. r = [input |-> loop.input, target |-> loop.target, running |-> running,
           controller |-> loop.controller, reference |-> loop.reference]
  BY <1>2 DEF IsSound, IsLoop
<1> HIDE DEF r
<1>4. IsSound(r, control.pausedAt[name])
  BY <1>2, <1>3 DEF IsSound, IsLoop, IsValid, IsFresh, running
<1> QED BY <1>1, <1>4, SetLoopKeeps

LEMMA ResetIntegralKeeps ==
  ASSUME IInv, NEW name \in Installed, ResetIntegralOf(name)
  PROVE  IInv'
<1> DEFINE loop == control.loops[name]
           since == control.pausedAt[name]
           c == ResetIntegral(loop.controller).controller
           r == [loop EXCEPT !.controller = c]
<1>1. SetLoop(name, r) BY DEF ResetIntegralOf
<1>2. IsSound(loop, since) BY InstalledAreSound
<1> HIDE DEF loop, since
<1>3. IsController(loop.controller) /\ IsAccepted(loop.controller)
  BY <1>2 DEF IsSound, IsLoop, IsValid
<1>4. /\ IsController(c) /\ IsAccepted(c) /\ c.previous = loop.controller.previous
      /\ c.kind = loop.controller.kind /\ c.settings = loop.controller.settings
  BY <1>3, ResetIntegralFacts
<1> HIDE DEF c
<1>5. /\ RangeFits(OutputRange(c.kind, c.settings), loop.target)
      /\ loop.running => SinceSample(c.previous, since)
  BY <1>2, <1>4 DEF IsSound, IsValid, IsFresh
<1>6. IsSound(r, since) BY <1>2, <1>4, <1>5, WithControllerFacts
<1> HIDE DEF r
<1> QED BY <1>1, <1>6, SetLoopKeeps DEF since

\* Every step keeps the invariant.
LEMMA StepKeeps == ASSUME InputsAreValid PROVE IInv /\ [Next]_control => IInv'
<1> SUFFICES ASSUME IInv, [Next]_control PROVE IInv' OBVIOUS
<1>1. ASSUME NEW d \in Definitions, Add(d) PROVE IInv' BY <1>1, AddKeeps
<1>2. ASSUME NEW input \in InputSignals, NEW at \in Timestamps, NEW m \in Measurements,
             Sample(input, at, m)
      PROVE  IInv'
  BY <1>2, SampleKeeps
<1>3. CASE UNCHANGED control
  BY <1>3 DEF IInv, TypeOK, LoopsAreWellFormed, LoopsAreValid, LoopsAreFresh,
              OutputsAreWritable, Installed, LoopNames
<1>4. ASSUME NEW name \in Installed
      PROVE  /\ Remove(name) => IInv'
             /\ Pause(name) => IInv'
             /\ Resume(name) => IInv'
             /\ ResetIntegralOf(name) => IInv'
             /\ ResetLoop(name) => IInv'
             /\ \A updates \in Configurations : ConfigureLoop(name, updates) => IInv'
             /\ \A updates \in Retunings : ConfigureReferenceOf(name, updates) => IInv'
             /\ \A source \in Sources : SetReference(name, source) => IInv'
             /\ \A input \in InputSignals : SetInput(name, input) => IInv'
  <2> DEFINE loop == control.loops[name]
             since == control.pausedAt[name]
  <2>1. IsSound(loop, since) BY InstalledAreSound
  <2>2. Remove(name) => IInv' BY RemoveKeeps
  <2>3. Pause(name) => IInv' BY PauseKeeps
  <2>4. Resume(name) => IInv'
    <3>1. IsSound(Resumed(loop), since) BY <2>1, ResumedFacts
    <3> QED BY <3>1, SetLoopKeeps DEF Resume
  <2>5. ResetIntegralOf(name) => IInv' BY ResetIntegralKeeps
  <2>6. ResetLoop(name) => IInv'
    <3>1. IsSound(ResetOf(loop), since) BY <2>1, ResetOfFacts
    <3> QED BY <3>1, SetLoopKeeps DEF ResetLoop
  <2>7. ASSUME NEW updates \in Configurations, ConfigureLoop(name, updates) PROVE IInv'
    <3>1. AreUpdates(updates) BY DEF InputsAreValid
    <3>2. IsSound(ConfiguredLoop(loop, updates), since) BY <2>1, <3>1, ConfiguredLoopFacts
    <3> QED BY <2>7, <3>2, SetLoopKeeps DEF ConfigureLoop
  <2>8. ASSUME NEW updates \in Retunings, ConfigureReferenceOf(name, updates) PROVE IInv'
    BY <2>8, ConfigureReferenceKeeps
  <2>9. ASSUME NEW source \in Sources, SetReference(name, source) PROVE IInv'
    <3>1. IsSource(source) BY DEF InputsAreValid
    <3>2. IsSound(WithReference(loop, source), since) BY <2>1, <3>1, WithSourceFacts
    <3> QED BY <2>9, <3>2, SetLoopKeeps DEF SetReference
  <2>10. ASSUME NEW input \in InputSignals, SetInput(name, input) PROVE IInv'
    <3>1. IsSound(WithInput(loop, input), since) BY <2>1, WithInputFacts
    <3> QED BY <2>10, <3>1, SetLoopKeeps DEF SetInput
  <2> QED BY <2>2, <2>3, <2>4, <2>5, <2>6, <2>7, <2>8, <2>9, <2>10
<1> QED BY <1>1, <1>2, <1>3, <1>4 DEF Next

-----------------------------------------------------------------------------
(***************************************************************************)
(* The theorems.                                                           *)
(***************************************************************************)
LEMMA Invariance == ASSUME InputsAreValid PROVE Spec => []IInv
<1>1. Init => IInv BY InitKeeps
<1>2. IInv /\ [Next]_control => IInv' BY StepKeeps
<1> QED BY <1>1, <1>2, PTL DEF Spec

\* Every loop that is ever installed is well formed, whatever it was configured
\* with and however often.
THEOREM TypeCorrect == ASSUME InputsAreValid PROVE Spec => []TypeOK
<1>1. IInv => TypeOK BY DEF IInv
<1> QED BY <1>1, Invariance, PTL

\* Whatever a loop computes for a target that has a range is accepted by the
\* conversion to a write (RegistryEntry::process): for all settings, scales and
\* types, the preview of each configuration has compared the very range the
\* update clamps to, and rounding to whole steps stays within it.
THEOREM OutputsCanBeWritten == ASSUME InputsAreValid PROVE Spec => []OutputsAreWritable
<1>1. IInv => OutputsAreWritable BY DEF IInv
<1> QED BY <1>1, Invariance, PTL

\* No integral, derivative or ramp ever spans a pause, whatever is configured,
\* exchanged or reset while the loop is paused (ControlLoop::resume).
THEOREM NothingEverSpansAPause == ASSUME InputsAreValid PROVE Spec => []NothingSpansAPause
<1>1. IInv => NothingSpansAPause
  <2> SUFFICES ASSUME IInv, NEW name \in Installed, control.loops[name].running
               PROVE  LET loop == control.loops[name]
                      IN /\ \A i \in DOMAIN loop.controller.previous :
                              loop.controller.previous[i].at >= control.pausedAt[name]
                         /\ \A i \in DOMAIN loop.reference :
                              \A j \in DOMAIN loop.reference[i].previous :
                                loop.reference[i].previous[j] >= control.pausedAt[name]
    BY DEF NothingSpansAPause
  <2> DEFINE loop == control.loops[name]
             since == control.pausedAt[name]
  <2>1. IsSound(loop, since) BY InstalledAreSound
  <2>2. IsLoop(loop) /\ IsFresh(loop, since) BY <2>1 DEF IsSound
  <2>3. \A i \in DOMAIN loop.controller.previous : loop.controller.previous[i].at >= since
    <3>1. loop.controller.previous = << >>
           \/ loop.controller.previous = <<loop.controller.previous[1]>>
      BY <2>2 DEF IsLoop, IsController, IsSample
    <3>2. SinceSample(loop.controller.previous, since) BY <2>2 DEF IsFresh
    <3> HIDE DEF loop, since
    <3> QED BY <3>1, <3>2 DEF SinceSample
  <2>4. \A i \in DOMAIN loop.reference : \A j \in DOMAIN loop.reference[i].previous :
          loop.reference[i].previous[j] >= since
    <3>1. loop.reference = << >> \/ loop.reference = <<loop.reference[1]>>
      BY <2>2 DEF IsLoop
    <3>2. loop.reference # << >> => IsReference(loop.reference[1]) BY <2>2 DEF IsLoop
    <3>3. SinceReference(loop.reference, since) BY <2>2 DEF IsFresh
    <3> HIDE DEF loop, since
    <3> QED BY <3>1, <3>2, <3>3 DEF SinceReference, IsReference
  <2> QED BY <2>3, <2>4
<1> QED BY <1>1, Invariance, PTL

\* A sample never integrates past a saturated bound.
LEMMA StepsIntegrateWithinBounds ==
  ASSUME InputsAreValid
  PROVE  IInv /\ [Next]_control => [IntegratesWithinBounds]_control
<1> SUFFICES ASSUME IInv, Next PROVE IntegratesWithinBounds OBVIOUS
<1>1. CASE control'.events = << >> BY <1>1 DEF IntegratesWithinBounds
<1>2. ASSUME NEW input \in InputSignals, NEW at \in Timestamps, NEW m \in Measurements,
             Sample(input, at, m)
      PROVE  IntegratesWithinBounds
  BY <1>2, SampleKeeps
<1>3. ASSUME NEW name, NEW loop, SetLoop(name, loop) PROVE control'.events = << >>
  BY <1>3 DEF SetLoop, IInv, TypeOK
<1>4. ASSUME NEW d \in Definitions, Add(d) PROVE control'.events = << >>
  <2> DEFINE loops == [name \in Installed \cup {d.name} |->
                         IF name = d.name THEN NewLoop(d) ELSE control.loops[name]]
  <2>1. control' = [control EXCEPT !.loops = loops, !.events = << >>, !.pausedAt[d.name] = 0]
    BY <1>4 DEF Add
  <2> HIDE DEF loops
  <2> QED BY <2>1 DEF IInv, TypeOK
<1>5. ASSUME NEW name \in Installed, Remove(name) PROVE control'.events = << >>
  <2> DEFINE loops == [other \in Installed \ {name} |-> control.loops[other]]
  <2>1. control' = [control EXCEPT !.loops = loops, !.events = << >>] BY <1>5 DEF Remove
  <2> HIDE DEF loops
  <2> QED BY <2>1 DEF IInv, TypeOK
<1>6. Keep => control'.events = << >> BY DEF Keep, IInv, TypeOK
<1>7. CASE \E name \in Installed :
       \/ Remove(name)
       \/ Pause(name)
       \/ Resume(name)
       \/ ResetIntegralOf(name)
       \/ ResetLoop(name)
       \/ \E updates \in Configurations : ConfigureLoop(name, updates)
       \/ \E updates \in Retunings : ConfigureReferenceOf(name, updates)
       \/ \E source \in Sources : SetReference(name, source)
       \/ \E input \in InputSignals : SetInput(name, input)
  BY <1>1, <1>3, <1>5, <1>6, <1>7
  DEF Pause, Resume, ResetIntegralOf, ResetLoop, ConfigureLoop, ConfigureReferenceOf,
      SetReference, SetInput
<1> QED BY <1>1, <1>2, <1>4, <1>7 DEF Next

\* A ramp goes on from where it is.
LEMMA RetuningsAreSmooth ==
  ASSUME InputsAreValid, IInv
  PROVE  RetunesWithoutBump
<1> SUFFICES ASSUME NEW name \in Installed, NEW updates \in Retunings,
                    ConfigureReferenceOf(name, updates),
                    control.loops[name].reference # << >>,
                    control.loops[name].reference[1].source.kind = "ramp",
                    "start" \notin UpdatedKeys(updates)
             PROVE  ReadSetpoint(control'.loops[name]) = ReadSetpoint(control.loops[name])
  BY DEF RetunesWithoutBump
<1> DEFINE loop == control.loops[name]
           result == ConfigureReference(loop.reference[1], updates)
           q == result.reference
           r == [loop EXCEPT !.reference = <<q>>]
<1>1. SetLoop(name, r) BY DEF ConfigureReferenceOf
<1>2. IsLoop(loop) BY InstalledAreSound DEF IsSound
<1>3. IsReference(loop.reference[1]) BY <1>2 DEF IsLoop
<1>4. AreUpdates(updates) BY DEF InputsAreValid
<1>5. CurrentValue(q) = CurrentValue(loop.reference[1])
  BY <1>3, <1>4, ConfigureReferenceFacts
<1> HIDE DEF q
<1>6. r.reference = <<q>> BY <1>2 DEF IsLoop
<1> HIDE DEF r
<1>7. control'.loops[name] = r
  BY <1>1 DEF SetLoop, IInv, TypeOK
<1>8. ReadSetpoint(r) = CurrentValue(q) BY <1>6 DEF ReadSetpoint
<1>9. ReadSetpoint(loop) = CurrentValue(loop.reference[1]) BY DEF ReadSetpoint
<1> QED BY <1>5, <1>7, <1>8, <1>9

\* A sample never integrates past a saturated bound, and a ramp given a new
\* target or rate goes on from the value it has reached: for all gains, bounds,
\* timestamps and configurations (PidController::update,
\* ReferenceRuntime::configure).
THEOREM LoopsAlwaysMoveSmoothly == ASSUME InputsAreValid PROVE Spec => LoopsMoveSmoothly
<1> DEFINE Smooth == IntegratesWithinBounds /\ RetunesWithoutBump
<1>1. IInv /\ [Next]_control => [Smooth]_control
  BY StepsIntegrateWithinBounds, RetuningsAreSmooth
<1>2. LoopsMoveSmoothly <=> [][Smooth]_control BY DEF LoopsMoveSmoothly
<1> HIDE DEF Smooth
<1> QED BY <1>1, <1>2, Invariance, PTL DEF Spec
=============================================================================
