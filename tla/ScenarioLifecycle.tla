-------------------------- MODULE ScenarioLifecycle --------------------------
(***************************************************************************)
(* What the scenario service promises about one scenario id, whatever its  *)
(* callbacks, its actions and the Lua worker do:                           *)
(*                                                                         *)
(*   - a run that is asked to end with an outcome ends with that outcome,  *)
(*     with a failure or by cancellation, and with nothing else;           *)
(*   - its cleanup handler starts at most once, and nothing but the end of *)
(*     the run follows it;                                                 *)
(*   - a finished run stays as it finished; only a new run follows.        *)
(***************************************************************************)
EXTENDS Naturals

VARIABLES
  runs,    \* the number of runs registered
  phase,   \* where the latest of them is
  outcome  \* how it is to end, or has ended

lifecycleVars == <<runs, phase, outcome>>

Requested == {"completed", "stopped", "failed"}

LifecycleInit ==
  /\ runs = 1
  /\ phase = "running"
  /\ outcome = "none"

\* The id is registered again; what the previous run was doing is cancelled.
NewRun ==
  /\ runs' = runs + 1
  /\ phase' = "running"
  /\ outcome' = "none"

\* The end is requested.  Where there is nothing to wait for cleanup starts
\* at once, and where there is no cleanup the run finishes.
RequestEnd ==
  /\ \/ phase = "running" /\ outcome' \in Requested
     \/ phase = "finalizing" /\ outcome' = "failed"
  /\ phase' \in {"finalizing", "cleaning", "finished"}
  /\ UNCHANGED runs

\* The callback or the actions that were waited for have settled.
CleanUp ==
  /\ phase = "finalizing"
  /\ \/ phase' \in {"cleaning", "finished"} /\ UNCHANGED outcome
     \/ phase' = "finished" /\ outcome' = "failed"
  /\ UNCHANGED runs

Finish ==
  /\ phase = "cleaning"
  /\ phase' = "finished"
  /\ outcome' \in {outcome, "failed"}
  /\ UNCHANGED runs

Cancel ==
  /\ phase \in {"running", "finalizing", "cleaning"}
  /\ phase' = "finished"
  /\ outcome' = "cancelled"
  /\ UNCHANGED runs

\* A stage whose deadline is out of range takes its scenario away.
Remove ==
  /\ phase = "running"
  /\ phase' = "absent"
  /\ outcome' = "none"
  /\ UNCHANGED runs

LifecycleNext == NewRun \/ RequestEnd \/ CleanUp \/ Finish \/ Cancel \/ Remove

LifecycleSpec == LifecycleInit /\ [][LifecycleNext]_lifecycleVars
=============================================================================
