---------------------------- MODULE OutputService ----------------------------
(***************************************************************************)
(* The output service's thread (output_control/service): it serializes     *)
(* ownership decisions, hands writes to the connection worker's command    *)
(* channel and correlates the worker's completions with them.              *)
(*                                                                         *)
(* Every caller of OutputHandle sends one command and blocks for its       *)
(* reply, so a command is one atomic step taken by the service while its   *)
(* caller waits; the interleaving of callers is the order of those steps.  *)
(* The actions below constrain the service's variables only; the module    *)
(* that composes them (OutputControl) says who calls and what is unchanged.*)
(***************************************************************************)
EXTENDS OutputArbiter, Sequences

CONSTANTS
  QueueCapacity, \* capacity of the worker's command channel (32 in the code)
  MaxWrites      \* bound of the model: completion ids that may be allocated

ASSUME ServiceAssumption == QueueCapacity \in Nat \ {0} /\ MaxWrites \in Nat

VARIABLES
  outputs,            \* the arbiter's table
  pending_writes,     \* tracked writes whose completion was not handled yet
  next_completion_id, \* next id to allocate
  completions,        \* completion channel from the worker (unbounded)
  queue               \* write commands in the worker's channel

serviceVars == <<outputs, pending_writes, next_completion_id, completions, queue>>

\* What a request writes, as far as the properties tell values apart.
Origin == {"automatic", "manual", "safe"}
\* Who blocks for the write's result: nobody the model follows for a manual one.
Client == {"dispatcher", "runtime", "none"}

PendingWrite == [id : Nat, target : Targets, instance : Nat, transition : Nat]
Completion   == [id : Nat, ok : BOOLEAN]
\* id = 0 is a write the service does not track (its target has no owner).
WriteCommand ==
  [id : Nat, target : Targets, origin : Origin, instance : Nat, client : Client]

ServiceInit ==
  /\ outputs = [t \in Targets |-> NotRegistered]
  /\ pending_writes = {}
  /\ next_completion_id = 1
  /\ completions = <<>>
  /\ queue = <<>>

-----------------------------------------------------------------------------
(***************************************************************************)
(* dispatch_tracked_write_to_sender, by its three outcomes.                *)
(***************************************************************************)
\* Mutant: the id is not advanced, so two writes share one.
DispatchTrackedSameId(t, i, transition, origin, client) ==
  /\ next_completion_id <= MaxWrites
  /\ Len(queue) < QueueCapacity
  /\ queue' = Append(queue, [id |-> next_completion_id, target |-> t,
                             origin |-> origin, instance |-> i, client |-> client])
  /\ pending_writes' = pending_writes \cup
       {[id |-> next_completion_id, target |-> t, instance |-> i,
         transition |-> transition]}
  /\ UNCHANGED next_completion_id

\* The write enters the worker's channel and is remembered under a fresh id.
DispatchTracked(t, i, transition, origin, client) ==
  /\ next_completion_id <= MaxWrites
  /\ Len(queue) < QueueCapacity
  /\ queue' = Append(queue, [id |-> next_completion_id, target |-> t,
                             origin |-> origin, instance |-> i, client |-> client])
  /\ pending_writes' = pending_writes \cup
       {[id |-> next_completion_id, target |-> t, instance |-> i,
         transition |-> transition]}
  /\ next_completion_id' = next_completion_id + 1

\* No worker for the connection, or no COM port selected: nothing happens.
DispatchUnroutable == UNCHANGED <<queue, pending_writes, next_completion_id>>

\* The worker's channel is closed: the id was allocated and is lost.
DispatchRefused ==
  /\ next_completion_id <= MaxWrites
  /\ next_completion_id' = next_completion_id + 1
  /\ UNCHANGED <<queue, pending_writes>>

DispatchFails == DispatchUnroutable \/ DispatchRefused

\* A write to a parameter nobody owns is not tracked (dispatch_write_to_sender).
DispatchUntracked(t) ==
  /\ Len(queue) < QueueCapacity
  /\ queue' = Append(queue, [id |-> 0, target |-> t, origin |-> "manual",
                             instance |-> 0, client |-> "none"])
  /\ UNCHANGED <<pending_writes, next_completion_id>>

-----------------------------------------------------------------------------
(***************************************************************************)
(* The commands that dispatch a write.  Ownership moves to manual only     *)
(* after the write is in the worker's channel.                             *)
(***************************************************************************)
ApplyAutomatic(e) ==
  /\ Authorized(outputs, e.target, e.controller, e.instance)
  /\ DispatchTracked(e.target, e.instance, AutomaticTransition(outputs, e.target),
                     "automatic", "dispatcher")
  /\ UNCHANGED <<outputs, completions>>

ApplyAutomaticFails(e) ==
  /\ \/ /\ ~Authorized(outputs, e.target, e.controller, e.instance)
        /\ DispatchUnroutable
     \/ /\ Authorized(outputs, e.target, e.controller, e.instance)
        /\ DispatchFails
  /\ UNCHANGED <<outputs, completions>>

ApplySafe(t) ==
  /\ outputs[t].safe
  /\ DispatchTracked(t, outputs[t].instance, 0, "safe", "runtime")
  /\ outputs' = SetManual(outputs, t)
  /\ UNCHANGED completions

ApplySafeFails(c) ==
  /\ \/ /\ \A t \in OwnedBy(outputs, c) : ~outputs[t].safe
        /\ DispatchUnroutable
     \/ /\ \E t \in OwnedBy(outputs, c) : outputs[t].safe
        /\ DispatchFails
  /\ UNCHANGED <<outputs, completions>>

WriteInstrument(t) ==
  /\ \/ /\ Contains(outputs, t)
        /\ DispatchTracked(t, outputs[t].instance, 0, "manual", "none")
        /\ outputs' = SetManual(outputs, t)
     \/ /\ ~Contains(outputs, t)
        /\ DispatchUntracked(t)
        /\ UNCHANGED outputs
  /\ UNCHANGED completions

\* Mutant: ownership becomes manual before the write is known to be queued.
WriteInstrumentFailsManual(t) ==
  /\ Contains(outputs, t)
  /\ DispatchRefused
  /\ outputs' = SetManual(outputs, t)
  /\ UNCHANGED completions

\* Without an entry no id is allocated, so a failure then leaves no trace.
WriteInstrumentFails(t) ==
  /\ Contains(outputs, t)
  /\ DispatchRefused
  /\ UNCHANGED <<outputs, completions>>

-----------------------------------------------------------------------------
(***************************************************************************)
(* The worker's completion of the oldest finished tracked write.  An id    *)
(* that is not pending is ignored.  A success is acknowledged first; the   *)
(* takeover is confirmed only by a write that was dispatched during it.    *)
(***************************************************************************)
\* Mutant: a failed write confirms the takeover too.
CompletedOutputsAnyway(p, ok) ==
  LET acked == IF ok
               THEN AcknowledgeWrite(outputs, p.target, p.instance, p.id)
               ELSE AcknowledgeWriteFailure(outputs, p.target, p.instance, p.id)
  IN  IF p.transition # 0
      THEN CompleteAutomaticTransition(acked, p.target, p.instance, p.transition)
      ELSE acked

\* Mutant: staleness is judged after the id was recorded, so always stale.
CompletedOutputsLate(p, ok) ==
  IF ~ok
  THEN AcknowledgeWriteFailure(outputs, p.target, p.instance, p.id)
  ELSE LET acked == AcknowledgeWrite(outputs, p.target, p.instance, p.id)
       IN  IF /\ AcceptsSuccess(acked, p.target, p.instance, p.id)
              /\ p.transition # 0
           THEN CompleteAutomaticTransition(acked, p.target, p.instance, p.transition)
           ELSE acked

CompletedOutputs(p, ok) ==
  IF ~ok
  THEN AcknowledgeWriteFailure(outputs, p.target, p.instance, p.id)
  ELSE LET acked == AcknowledgeWrite(outputs, p.target, p.instance, p.id)
       IN  IF /\ AcceptsSuccess(outputs, p.target, p.instance, p.id)
              /\ p.transition # 0
           THEN CompleteAutomaticTransition(acked, p.target, p.instance, p.transition)
           ELSE acked

HandleWriteCompletion ==
  /\ completions # <<>>
  /\ completions' = Tail(completions)
  /\ LET c       == Head(completions)
         pending == {p \in pending_writes : p.id = c.id}
     IN  IF pending = {}
         THEN UNCHANGED <<pending_writes, outputs>>
         ELSE \E p \in pending :
                /\ pending_writes' = pending_writes \ {p}
                /\ outputs' = CompletedOutputs(p, c.ok)
  /\ UNCHANGED <<next_completion_id, queue>>
==============================================================================
