----------------------------- MODULE References -----------------------------
(* Setpoint references: the sources of process_control/reference.rs and the *)
(* runtime of reference_runtime.rs, which advances a ramp by the timestamps *)
(* of the measurements.  A reference is a record of its source, the seconds *)
(* the ramp has run and the timestamp it last ran at (a sequence of at most *)
(* one).                                                                    *)
EXTENDS Controllers

FixedSource(value) == [kind |-> "fixed", value |-> value]
RampSource(start, target, rate) ==
  [kind |-> "ramp", start |-> start, target |-> target, rate |-> rate]

Distance(x, y) == Larger(x, y) - Smaller(x, y)

FixedSourceError(s) == IF Finite(s.value) THEN "none" ELSE "NonFiniteFixedValue"

RampSourceError(s) ==
  IF ~Finite(s.start) THEN "NonFiniteRampStart"
  ELSE IF ~Finite(s.target) THEN "NonFiniteRampTarget"
  ELSE IF ~Finite(s.rate) THEN "NonFiniteRampRate"
  ELSE IF s.rate <= 0 THEN "NonPositiveRampRate"
  ELSE IF ~Finite(s.target - s.start) THEN "NonFiniteRampSpan"
  ELSE "none"

SourceError(s) == IF s.kind = "fixed" THEN FixedSourceError(s) ELSE RampSourceError(s)

(* RampReference::value_at_elapsed: the ramp runs at its rate from start    *)
(* toward target and stays there.                                           *)
RampValue(s, elapsed) ==
  IF elapsed * s.rate >= Distance(s.start, s.target) THEN s.target
  ELSE IF s.target > s.start THEN s.start + s.rate * elapsed
  ELSE s.start - s.rate * elapsed

ValueAt(s, elapsed) == IF s.kind = "fixed" THEN s.value ELSE RampValue(s, elapsed)

SourceKeys == {"value", "start", "target", "rate"}
SupportedKeys(kind) == IF kind = "fixed" THEN {"value"} ELSE {"start", "target", "rate"}

SourceUpdateError(s, updates, i) ==
  IF updates[i].key \notin SourceKeys THEN "UnknownParameter"
  ELSE IF updates[i].key \notin SupportedKeys(s.kind) THEN "UnsupportedParameter"
  ELSE IF \E j \in 1..i - 1 : updates[j].key = updates[i].key
    THEN "DuplicateParameter"
  ELSE IF updates[i].value.type # "number" THEN "TypeMismatch"
  ELSE "none"

UpdatedKeys(updates) == {updates[i].key : i \in DOMAIN updates}

(* ReferenceSource::configure: every update is resolved before the          *)
(* candidate, validated as a whole, replaces the source.                    *)
ConfigureSource(s, updates) ==
  LET bad == {i \in DOMAIN updates : SourceUpdateError(s, updates, i) # "none"}
      first == CHOOSE i \in bad : \A j \in bad : i <= j
      fields == [key \in SupportedKeys(s.kind) |-> s[key]]
      new == Updated(fields, updates)
      candidate == IF s.kind = "fixed" THEN FixedSource(new["value"])
                   ELSE RampSource(new["start"], new["target"], new["rate"])
      error == IF bad # {} THEN SourceUpdateError(s, updates, first)
               ELSE SourceError(candidate)
  IN [error |-> error, source |-> IF error = "none" THEN candidate ELSE s]

-----------------------------------------------------------------------------
(* The runtime. *)

NewReference(s) == [source |-> s, elapsed |-> 0, previous |-> << >>]

CurrentValue(r) == ValueAt(r.source, r.elapsed)

(* Mutant: a new target or rate is taken from the old start. *)
ConfigureReferenceInPlace(r, updates) ==
  LET candidate == ConfigureSource(r.source, updates)
  IN [error |-> candidate.error,
      reference |-> IF candidate.error # "none" THEN r ELSE NewReference(candidate.source)]

(* ReferenceRuntime::configure: a ramp whose start is not given goes on     *)
(* from the value it has reached.                                           *)
ConfigureReference(r, updates) ==
  LET candidate == ConfigureSource(r.source, updates)
      onward == RampSource(CurrentValue(r), candidate.source.target, candidate.source.rate)
      source == IF "start" \in UpdatedKeys(updates) THEN candidate.source ELSE onward
      error == IF candidate.error # "none" THEN candidate.error ELSE SourceError(source)
  IN IF updates = << >> THEN [error |-> "none", reference |-> r]
     ELSE IF r.source.kind = "fixed"
       THEN [error |-> candidate.error, reference |-> [r EXCEPT !.source = candidate.source]]
     ELSE [error |-> error,
           reference |-> IF error = "none" THEN NewReference(source) ELSE r]

(* ReferenceRuntime::update: the time since the previous timestamp counts;  *)
(* a first timestamp only sets the base.                                    *)
UpdateReference(r, at) ==
  LET change == IF r.previous = << >> THEN 0 ELSE at - r.previous[1]
      elapsed == r.elapsed + change
  IN IF ~Finite(at) THEN [error |-> "NonFiniteTimestamp", reference |-> r]
     ELSE IF r.previous # << >> /\ at <= r.previous[1]
       THEN [error |-> "NonIncreasingTimestamp", reference |-> r]
     ELSE IF ~Finite(change) \/ ~Finite(elapsed)
       THEN [error |-> "NonFiniteElapsedTime", reference |-> r]
     ELSE [error |-> "none",
           reference |-> [r EXCEPT !.elapsed = elapsed, !.previous = <<at>>]]

ResynchronizedReference(r) == [r EXCEPT !.previous = << >>]

RestartedReference(r) == NewReference(r.source)
=============================================================================
