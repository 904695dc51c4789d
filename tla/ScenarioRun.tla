---------------------------- MODULE ScenarioRun ----------------------------
(***************************************************************************)
(* The state of one scenario and what the scenario service does to it, as  *)
(* operators from a state to the next one.  Callbacks, stages, conditions  *)
(* and reasons are data: what is kept is which waits are registered, which *)
(* callback or actions the run is waiting for, and how it is to end.       *)
(***************************************************************************)
EXTENDS Naturals, FiniteSets

CONSTANT
  Transitioning  \* TRUE: stages may declare transitions

ASSUME TransitioningAssumption == Transitioning \in BOOLEAN

VARIABLE lua_up \* the Lua worker thread is alive, so callbacks can be sent

\* Standalone timers, conditions and races, and the race of the current
\* stage's transitions; at most one of each is modelled.
Wait == {"timer", "condition", "race", "transition"}
Status == {"absent", "running", "completed", "stopped", "cancelled", "failed"}
Outcome == {"completed", "stopped", "failed"}

\* activation: the stage whose enter callback runs still has to arm its
\* transitions; callback: a callback is in flight; waiting: it has returned
\* and its actions have not; finalization: the intended final status.
ScenarioState ==
  [run : Nat, status : Status, waits : SUBSET Wait, started : BOOLEAN,
   activation : BOOLEAN, callback : BOOLEAN, pending : SUBSET Nat,
   waiting : BOOLEAN, on_stop : BOOLEAN, on_error : BOOLEAN,
   finalization : Outcome \cup {"none"}, cleanup : BOOLEAN]

NewScenario(run) ==
  [run |-> run, status |-> "running", waits |-> {}, started |-> FALSE,
   activation |-> FALSE, callback |-> FALSE, pending |-> {}, waiting |-> FALSE,
   on_stop |-> FALSE, on_error |-> FALSE, finalization |-> "none",
   cleanup |-> FALSE]

NoScenario == [NewScenario(0) EXCEPT !.status = "absent"]

IsBusy(s) == s.callback \/ s.pending # {}

\* Mutant: a step of a cancelled or replaced run is accepted.
AcceptsStepsOfAnyRun(s, run) == s.status = "running"

AcceptsSteps(s, run) == s.run = run /\ s.status = "running"

\* What every command but a registration and a cancellation requires.
Open(s) == s.status = "running" /\ s.finalization = "none"

ClearWaits(s) == [s EXCEPT !.waits = {}, !.activation = FALSE]

Finalize(s, status) ==
  [s EXCEPT !.status = status, !.finalization = "none", !.callback = FALSE,
            !.cleanup = FALSE, !.pending = {}, !.waiting = FALSE]

CleanupFailed(s) == Finalize(s, "failed")

Handler(s) == IF s.finalization = "failed" THEN s.on_error ELSE s.on_stop

\* Cleanup starts once the callback and its tracked actions have settled; a
\* handler that cannot be sent to Lua has failed.
AdvanceFinalization(s) ==
  CASE IsBusy(s) \/ s.cleanup \/ s.finalization = "none" -> s
    [] ~(IsBusy(s) \/ s.cleanup \/ s.finalization = "none") /\ ~Handler(s) ->
         Finalize(s, s.finalization)
    [] OTHER -> IF lua_up THEN [s EXCEPT !.cleanup = TRUE, !.callback = TRUE]
                ELSE CleanupFailed(s)

\* A second request is ignored, unless it is a failure.
RequestFinalization(s, status, discard) ==
  IF s.status # "running" \/ (s.finalization # "none" /\ status # "failed")
  THEN s
  ELSE AdvanceFinalization(
         [ClearWaits(s) EXCEPT !.finalization = status, !.cleanup = FALSE,
                               !.pending = IF discard THEN {} ELSE @,
                               !.waiting = ~discard /\ @])

\* The stage just entered arms its transitions, if it has any; a deadline
\* out of range takes the whole scenario away.
ActivatePendingStage(s) ==
  IF ~s.activation THEN {s}
  ELSE LET entered == [s EXCEPT !.activation = FALSE]
       IN  {entered} \cup (IF Transitioning
                           THEN {[entered EXCEPT !.waits = @ \cup {"transition"}], NoScenario}
                           ELSE {})

\* A callback and its actions are done: the states that may follow.
FinishCallback(s) ==
  CASE s.finalization = "none" -> ActivatePendingStage(s)
    [] s.finalization # "none" /\ s.cleanup -> {Finalize(s, s.finalization)}
    [] OTHER -> {AdvanceFinalization(s)}

\* Mutant: a callback that has returned is finished, whatever its actions do.
CallbackReturnedEarly(s) == FinishCallback([s EXCEPT !.callback = FALSE])

CallbackReturned(s) ==
  IF s.pending = {} THEN FinishCallback([s EXCEPT !.callback = FALSE])
  ELSE {[s EXCEPT !.callback = FALSE, !.waiting = TRUE]}

\* Mutant: an error of the cleanup handler asks for cleanup again.
CallbackFailedRetried(s) ==
  LET returned == [s EXCEPT !.callback = FALSE]
  IN  IF s.finalization = "failed" /\ ~s.cleanup
      THEN AdvanceFinalization(returned)
      ELSE RequestFinalization(returned, "failed", TRUE)

CallbackFailed(s) ==
  LET returned == [s EXCEPT !.callback = FALSE]
  IN  CASE s.cleanup -> CleanupFailed(s)
        [] ~s.cleanup /\ s.finalization = "failed" -> AdvanceFinalization(returned)
        [] OTHER -> RequestFinalization(returned, "failed", TRUE)

ActionApplied(s, action) ==
  LET remaining == [s EXCEPT !.pending = @ \ {action}]
  IN  IF action \in s.pending /\ remaining.pending = {} /\ ~s.callback /\ s.waiting
      THEN FinishCallback([remaining EXCEPT !.waiting = FALSE])
      ELSE {remaining}

ActionFailed(s, action) ==
  CASE action \notin s.pending -> s
    [] action \in s.pending /\ s.cleanup -> CleanupFailed(s)
    [] OTHER -> RequestFinalization(s, "failed", TRUE)

\* cancel(): everything the run waits for is discarded and no handler runs.
CancelRun(s) ==
  IF s.status # "running" THEN s
  ELSE Finalize(ClearWaits(s), "cancelled")
=============================================================================
