---------------------------- MODULE OutputArbiter ----------------------------
(***************************************************************************)
(* The ownership table of the output service (output_control.rs).          *)
(*                                                                         *)
(* Every connected parameter a controller may write has one entry.  The    *)
(* arbiter has no thread of its own: its methods are operators from a      *)
(* table to a table, applied by the service's thread (OutputService).      *)
(* Names are looked up by scanning the table, as the code scans its        *)
(* HashMap: OwnedBy(outs, c) is the set the scan may answer from.          *)
(***************************************************************************)
EXTENDS Naturals

CONSTANTS
  Targets,      \* connected parameter addresses an output may have
  Controllers,  \* controller names
  NoController  \* the name in an entry nobody owns

ASSUME ControllersAssumption == NoController \notin Controllers

(***************************************************************************)
(* OutputMode, plus "unregistered" for a target that has no entry.         *)
(***************************************************************************)
OutputMode == {"unregistered", "manual", "pending", "automatic"}

(***************************************************************************)
(* OutputState.  instance is the controller instance id (0: none);         *)
(* transition is the takeover generation; safe tells whether a safe        *)
(* request was configured; last_applied and last_failure keep the          *)
(* completion id of the last acknowledged success and failure (0: none).   *)
(***************************************************************************)
OutputState ==
  [mode : OutputMode, controller : Controllers \cup {NoController},
   instance : Nat, transition : Nat, safe : BOOLEAN,
   last_applied : Nat, last_failure : Nat]

NotRegistered ==
  [mode |-> "unregistered", controller |-> NoController, instance |-> 0,
   transition |-> 0, safe |-> FALSE, last_applied |-> 0, last_failure |-> 0]

Contains(outs, t) == outs[t].mode # "unregistered"

OwnedBy(outs, c) == {t \in Targets : Contains(outs, t) /\ outs[t].controller = c}

-----------------------------------------------------------------------------
(***************************************************************************)
(* The state-changing methods, for a target that has an entry.             *)
(***************************************************************************)
RegisterController(outs, t, c, i, safe) ==
  [outs EXCEPT ![t] = [mode |-> "automatic", controller |-> c, instance |-> i,
                       transition |-> 0, safe |-> safe,
                       last_applied |-> 0, last_failure |-> 0]]

UnregisterController(outs, t) == [outs EXCEPT ![t] = NotRegistered]

SetMode(outs, t, mode) == [outs EXCEPT ![t].mode = mode]

SetManual(outs, t) == SetMode(outs, t, "manual")

NextGeneration(outs, t) == [outs EXCEPT ![t].transition = @ + 1]

\* Only manual mode starts a new takeover generation; otherwise a no-op.
RequestAutomatic(outs, t) ==
  IF outs[t].mode = "manual"
  THEN SetMode(NextGeneration(outs, t), t, "pending")
  ELSE outs

RollbackAutomaticRequest(outs, t) ==
  IF outs[t].mode = "pending"
  THEN SetMode(outs, t, "manual")
  ELSE outs

\* Only the takeover the write belongs to may be confirmed by its completion.
MayCompleteTransition(outs, t, i, transition) ==
  /\ Contains(outs, t)
  /\ outs[t].instance = i
  /\ outs[t].mode = "pending"
  /\ outs[t].transition = transition

CompleteAutomaticTransition(outs, t, i, transition) ==
  IF MayCompleteTransition(outs, t, i, transition)
  THEN SetMode(outs, t, "automatic")
  ELSE outs

\* A completion older than the one recorded, or of another instance, is stale.
AcceptsSuccess(outs, t, i, id) ==
  Contains(outs, t) /\ outs[t].instance = i /\ id > outs[t].last_applied

AcceptsFailure(outs, t, i, id) ==
  Contains(outs, t) /\ outs[t].instance = i /\ id > outs[t].last_failure

AcknowledgeWrite(outs, t, i, id) ==
  IF AcceptsSuccess(outs, t, i, id)
  THEN [outs EXCEPT ![t].last_applied = id]
  ELSE outs

AcknowledgeWriteFailure(outs, t, i, id) ==
  IF AcceptsFailure(outs, t, i, id)
  THEN [outs EXCEPT ![t].last_failure = id]
  ELSE outs

-----------------------------------------------------------------------------
(***************************************************************************)
(* The decisions.  A controller is authorized by name, then by instance,   *)
(* then by mode; a safe write needs only an entry.                         *)
(***************************************************************************)
\* Mutant: the instance is not compared, so an event of a removed controller
\* passes for one of its successor of the same name.
AuthorizedByName(outs, t, c, i) ==
  /\ Contains(outs, t)
  /\ outs[t].controller = c
  /\ outs[t].mode \in {"automatic", "pending"}

Authorized(outs, t, c, i) ==
  /\ Contains(outs, t)
  /\ outs[t].controller = c
  /\ outs[t].instance = i
  /\ outs[t].mode \in {"automatic", "pending"}

\* The generation a write dispatched now may confirm (0: none).
AutomaticTransition(outs, t) ==
  IF outs[t].mode = "pending" THEN outs[t].transition ELSE 0

MayRelease(outs, t) == outs[t].mode = "manual"
==============================================================================
