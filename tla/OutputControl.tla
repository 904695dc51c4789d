---------------------------- MODULE OutputControl ----------------------------
(***************************************************************************)
(* The output path end to end.  Four threads meet at the output service:   *)
(*                                                                         *)
(*   - the processing thread runs the control loops and posts control      *)
(*     events to an unbounded channel;                                     *)
(*   - the process-control dispatcher takes one event at a time, asks for  *)
(*     an automatic write and blocks until the worker answers it;          *)
(*   - the runtime (GUI) thread executes the user's commands one at a      *)
(*     time: add, pause, resume and remove a controller, write a parameter *)
(*     by hand, delete series, pause everything for shutdown or reload;    *)
(*   - the connection worker executes write commands in FIFO order.        *)
(*                                                                         *)
(* A command of the runtime thread is several blocking calls; between two  *)
(* of them every other thread may run.  runtime.pc is the next call.       *)
(***************************************************************************)
EXTENDS OutputService

CONSTANTS
  NoTarget,       \* the target of a name that has no loop
  MaxEvents,      \* bound of the model: control events waiting
  MaxInstances,   \* bound of the model: controller instances ever created
  MaxTransitions  \* bound of the model: takeover generations of an entry

ASSUME BoundsAssumption ==
  /\ NoTarget \notin Targets
  /\ MaxEvents \in Nat /\ MaxInstances \in Nat /\ MaxTransitions \in Nat

VARIABLES
  loops,         \* the processing thread's registry, by controller name
  processing_up, \* the processing thread is alive
  next_instance, \* next controller instance id
  events,        \* control events the dispatcher has not taken
  dispatcher,    \* "idle", or "waiting" for the worker's answer
  runtime,       \* the runtime thread: the command it is in and its next call
  device,        \* who wrote the value the actuator holds
  replies        \* the answer of the worker each blocking client has received

controlVars == <<loops, processing_up, next_instance, events, dispatcher,
                 runtime, device, replies>>
vars == <<serviceVars, controlVars>>

-----------------------------------------------------------------------------
(***************************************************************************)
(* State of the processing and runtime threads.                            *)
(***************************************************************************)
LoopState == {"absent", "running", "paused"}
NoLoop == [state |-> "absent", target |-> NoTarget, instance |-> 0]
Loop == [state : LoopState \ {"absent"}, target : Targets, instance : Nat] \cup {NoLoop}
ControlEvent == [controller : Controllers, target : Targets, instance : Nat]

Command == {"none", "add", "pause", "resume", "remove", "delete", "shutdown"}
Call == {"idle", "install", "uninstall", "apply_safe", "pause_loop", "await_safe",
         "release", "remove_loop", "remove_group", "release_group",
         "resume_loop", "rollback_resume"}

\* controller: the name the call is about; target and instance: those of a
\* definition being added; ticket: the completion id of the safe write whose
\* answer is awaited (0: none was dispatched); paused: processing.pause
\* succeeded; rest: names still to pause or release; group: all names affected.
Runtime ==
  [command : Command, pc : Call, controller : Controllers \cup {NoController},
   target : Targets \cup {NoTarget}, instance : Nat, ticket : Nat, paused : BOOLEAN,
   rest : SUBSET Controllers, group : SUBSET Controllers]

Installed == {c \in Controllers : loops[c].state # "absent"}

\* The runtime thread with a command's first call to make.
Begun(command, pc, c) ==
  [command |-> command, pc |-> pc, controller |-> c, target |-> NoTarget,
   instance |-> 0, ticket |-> 0, paused |-> FALSE, rest |-> {}, group |-> {}]

IdleRuntime == Begun("none", "idle", NoController)

Init ==
  /\ ServiceInit
  /\ loops = [c \in Controllers |-> NoLoop]
  /\ processing_up = TRUE
  /\ next_instance = 1
  /\ events = <<>>
  /\ dispatcher = "idle"
  /\ runtime = IdleRuntime
  /\ device = [t \in Targets |-> "unknown"]
  /\ replies = [client \in {"dispatcher", "runtime"} |-> "none"]

Idle == runtime.pc = "idle"
Return == runtime' = IdleRuntime
Goto(pc) == runtime' = [runtime EXCEPT !.pc = pc]

-----------------------------------------------------------------------------
(***************************************************************************)
(* The processing thread.                                                  *)
(***************************************************************************)
\* A sample reaches a running loop, which computes an output.
ProcessSample(c) ==
  /\ processing_up
  /\ loops[c].state = "running"
  /\ Len(events) < MaxEvents
  /\ events' = Append(events, [controller |-> c, target |-> loops[c].target,
                               instance |-> loops[c].instance])
  /\ UNCHANGED <<serviceVars, loops, processing_up, next_instance, dispatcher,
                 runtime, device, replies>>

\* The thread ends (a panic): every later call to it returns Disconnected,
\* while the events it had posted stay in their channel.
ProcessingStops ==
  /\ processing_up
  /\ processing_up' = FALSE
  /\ UNCHANGED <<serviceVars, loops, next_instance, events, dispatcher, runtime,
                 device, replies>>

(***************************************************************************)
(* The dispatcher.  It blocks on each write, so events queue up behind a   *)
(* slow device; nothing removes an event when its controller is paused.    *)
(***************************************************************************)
DispatchEvent ==
  /\ dispatcher = "idle"
  /\ events # <<>>
  /\ events' = Tail(events)
  /\ \/ ApplyAutomatic(Head(events)) /\ dispatcher' = "waiting"
     \/ ApplyAutomaticFails(Head(events)) /\ UNCHANGED dispatcher
  /\ UNCHANGED <<loops, processing_up, next_instance, runtime, device, replies>>

RecordOutput ==
  /\ dispatcher = "waiting"
  /\ replies["dispatcher"] # "none"
  /\ dispatcher' = "idle"
  /\ replies' = [replies EXCEPT !["dispatcher"] = "none"]
  /\ UNCHANGED <<serviceVars, loops, processing_up, next_instance, events,
                 runtime, device>>

(***************************************************************************)
(* The worker.  It reports the result to the service, if the write is      *)
(* tracked, and to the waiting client.  After a failed transaction the     *)
(* actuator may or may not have taken the value.                           *)
(***************************************************************************)
\* Mutant: only a success is answered to the waiting client.
ExecuteWriteUnanswered(ok) ==
  /\ queue # <<>>
  /\ queue' = Tail(queue)
  /\ LET w == Head(queue)
     IN  /\ \/ device' = [device EXCEPT ![w.target] = w.origin]
            \/ ~ok /\ UNCHANGED device
         /\ completions' = IF w.id = 0 THEN completions
                           ELSE Append(completions, [id |-> w.id, ok |-> ok])
         /\ replies' = IF w.client = "none" \/ ~ok THEN replies
                       ELSE [replies EXCEPT ![w.client] = "ok"]
  /\ UNCHANGED <<outputs, pending_writes, next_completion_id, loops, processing_up,
                 next_instance, events, dispatcher, runtime>>

ExecuteWrite(ok) ==
  /\ queue # <<>>
  /\ queue' = Tail(queue)
  /\ LET w == Head(queue)
     IN  /\ \/ device' = [device EXCEPT ![w.target] = w.origin]
            \/ ~ok /\ UNCHANGED device
         /\ completions' = IF w.id = 0 THEN completions
                           ELSE Append(completions, [id |-> w.id, ok |-> ok])
         /\ replies' = IF w.client = "none" THEN replies
                       ELSE [replies EXCEPT ![w.client] = IF ok THEN "ok" ELSE "failed"]
  /\ UNCHANGED <<outputs, pending_writes, next_completion_id, loops, processing_up,
                 next_instance, events, dispatcher, runtime>>

-----------------------------------------------------------------------------
(***************************************************************************)
(* Adding a controller: ownership is registered first, then the loop is    *)
(* installed; if installing fails the registration is rolled back.         *)
(***************************************************************************)
AddController(c, t, safe) ==
  /\ Idle
  /\ next_instance <= MaxInstances
  /\ next_instance' = next_instance + 1
  /\ IF Contains(outputs, t)
     THEN UNCHANGED <<outputs, runtime>>
     ELSE /\ outputs' = RegisterController(outputs, t, c, next_instance, safe)
          /\ runtime' = [Begun("add", "install", c) EXCEPT
                           !.target = t, !.instance = next_instance]
  /\ UNCHANGED <<pending_writes, next_completion_id, completions, queue, loops,
                 processing_up, events, dispatcher, device, replies>>

RegistryAccepts(c, t) ==
  /\ processing_up
  /\ c \notin Installed
  /\ \A d \in Installed : loops[d].target # t

\* The registry may also refuse because the controller's output range does
\* not fit the actuator, whatever the names and targets are.
InstallLoop ==
  /\ runtime.pc = "install"
  /\ \/ /\ RegistryAccepts(runtime.controller, runtime.target)
        /\ loops' = [loops EXCEPT ![runtime.controller] =
                       [state |-> "running", target |-> runtime.target,
                        instance |-> runtime.instance]]
        /\ Return
     \/ /\ Goto("uninstall")
        /\ UNCHANGED loops
  /\ UNCHANGED <<serviceVars, processing_up, next_instance, events, dispatcher,
                 device, replies>>

\* Mutant: a failed installation keeps its registration.
RollbackRegistrationSkipped ==
  /\ runtime.pc = "uninstall"
  /\ Return
  /\ UNCHANGED <<serviceVars, loops, processing_up, next_instance, events,
                 dispatcher, device, replies>>

RollbackRegistration ==
  /\ runtime.pc = "uninstall"
  /\ outputs' = IF runtime.target \in OwnedBy(outputs, runtime.controller)
                THEN UnregisterController(outputs, runtime.target)
                ELSE outputs
  /\ Return
  /\ UNCHANGED <<pending_writes, next_completion_id, completions, queue, loops,
                 processing_up, next_instance, events, dispatcher, device, replies>>

(***************************************************************************)
(* pause_controller_safely: request the safe write, pause the loop even if *)
(* that failed, then wait for the write if it was dispatched.  Pause,      *)
(* remove, delete (of a series, or of all of them) and shutdown start here.*)
(***************************************************************************)
StartPausing(command, c, rest, group) ==
  runtime' = [Begun(command, "apply_safe", c) EXCEPT !.rest = rest, !.group = group]

BeginPause(command, c) ==
  /\ Idle
  /\ command \in {"pause", "remove"}
  /\ StartPausing(command, c, {}, {})
  /\ UNCHANGED <<serviceVars, loops, processing_up, next_instance, events,
                 dispatcher, device, replies>>

\* The processing thread names the controllers; without it the command fails.
BeginGroup(command, group) ==
  /\ Idle
  /\ processing_up
  /\ \/ command = "delete"
     \/ command = "shutdown" /\ group = Installed
  /\ \E c \in group : StartPausing(command, c, group \ {c}, group)
  /\ UNCHANGED <<serviceVars, loops, processing_up, next_instance, events,
                 dispatcher, device, replies>>

RequestSafe ==
  /\ runtime.pc = "apply_safe"
  /\ \/ /\ \E t \in OwnedBy(outputs, runtime.controller) : ApplySafe(t)
        /\ runtime' = [runtime EXCEPT !.pc = "pause_loop", !.ticket = next_completion_id]
     \/ /\ ApplySafeFails(runtime.controller)
        /\ runtime' = [runtime EXCEPT !.pc = "pause_loop", !.ticket = 0]
  /\ UNCHANGED <<loops, processing_up, next_instance, events, dispatcher, device,
                 replies>>

\* Mutant: the result is not looked at.
AfterPauseUnchecked(ok) ==
  \/ runtime.command = "pause" /\ Return
  \/ runtime.command = "remove" /\ Goto("release")
  \/ /\ runtime.command \in {"delete", "shutdown"}
     /\ \E c \in runtime.rest :
          StartPausing(runtime.command, c, runtime.rest \ {c}, runtime.group)
  \/ /\ runtime.command = "delete" /\ runtime.rest = {}
     /\ Goto("remove_group")
  \/ runtime.command = "shutdown" /\ runtime.rest = {} /\ Return

\* What the command does with the pause's result.
AfterPause(ok) ==
  LET proceeds == ok \/ runtime.command = "shutdown"
  IN  \/ (runtime.command = "pause" \/ ~proceeds) /\ Return
      \/ runtime.command = "remove" /\ proceeds /\ Goto("release")
      \/ /\ runtime.command \in {"delete", "shutdown"} /\ proceeds
         /\ \E c \in runtime.rest :
              StartPausing(runtime.command, c, runtime.rest \ {c}, runtime.group)
      \/ /\ runtime.command = "delete" /\ proceeds /\ runtime.rest = {}
         /\ Goto("remove_group")
      \/ runtime.command = "shutdown" /\ runtime.rest = {} /\ Return

CanPause(c) == processing_up /\ c \in Installed

PauseLoop ==
  /\ runtime.pc = "pause_loop"
  /\ loops' = IF CanPause(runtime.controller)
              THEN [loops EXCEPT ![runtime.controller] = [@ EXCEPT !.state = "paused"]]
              ELSE loops
  /\ \/ /\ runtime.ticket # 0
        /\ runtime' = [runtime EXCEPT !.pc = "await_safe",
                         !.paused = CanPause(runtime.controller)]
     \/ runtime.ticket = 0 /\ AfterPause(FALSE)
  /\ UNCHANGED <<serviceVars, processing_up, next_instance, events, dispatcher,
                 device, replies>>

AwaitSafe ==
  /\ runtime.pc = "await_safe"
  /\ replies["runtime"] # "none"
  /\ replies' = [replies EXCEPT !["runtime"] = "none"]
  /\ AfterPause(replies["runtime"] = "ok" /\ runtime.paused)
  /\ UNCHANGED <<serviceVars, loops, processing_up, next_instance, events,
                 dispatcher, device>>

(***************************************************************************)
(* Removal after a confirmed safe pause.  One controller is released and   *)
(* then leaves the registry; the controllers of deleted series leave the   *)
(* registry together and are released one by one, failures only logged.    *)
(***************************************************************************)
MayReleaseName(c) == \E t \in OwnedBy(outputs, c) : MayRelease(outputs, t)

Release(c) ==
  \E t \in OwnedBy(outputs, c) :
    MayRelease(outputs, t) /\ outputs' = UnregisterController(outputs, t)

ReleaseController ==
  /\ runtime.pc = "release"
  /\ IF MayReleaseName(runtime.controller)
     THEN Release(runtime.controller) /\ Goto("remove_loop")
     ELSE UNCHANGED outputs /\ Return
  /\ UNCHANGED <<pending_writes, next_completion_id, completions, queue, loops,
                 processing_up, next_instance, events, dispatcher, device, replies>>

RemoveFromRegistry(names) ==
  loops' = IF processing_up
           THEN [c \in Controllers |-> IF c \in names THEN NoLoop ELSE loops[c]]
           ELSE loops

RemoveLoop ==
  /\ runtime.pc = "remove_loop"
  /\ RemoveFromRegistry({runtime.controller})
  /\ Return
  /\ UNCHANGED <<serviceVars, processing_up, next_instance, events, dispatcher,
                 device, replies>>

RemoveGroup ==
  /\ runtime.pc = "remove_group"
  /\ RemoveFromRegistry(runtime.group)
  /\ IF processing_up
     THEN runtime' = [runtime EXCEPT !.pc = "release_group", !.rest = runtime.group]
     ELSE Return
  /\ UNCHANGED <<serviceVars, processing_up, next_instance, events, dispatcher,
                 device, replies>>

ReleaseGroup ==
  /\ runtime.pc = "release_group"
  /\ \E c \in runtime.rest :
       /\ IF MayReleaseName(c) THEN Release(c) ELSE UNCHANGED outputs
       /\ IF runtime.rest = {c} THEN Return
          ELSE runtime' = [runtime EXCEPT !.rest = @ \ {c}]
  /\ UNCHANGED <<pending_writes, next_completion_id, completions, queue, loops,
                 processing_up, next_instance, events, dispatcher, device, replies>>

(***************************************************************************)
(* resume_controller_safely: ask for automatic ownership, then resume the  *)
(* loop; if the processing thread refuses, take the request back.          *)
(***************************************************************************)
BeginResume(c) ==
  /\ Idle
  /\ \E t \in OwnedBy(outputs, c) :
       /\ outputs[t].transition < MaxTransitions
       /\ outputs' = RequestAutomatic(outputs, t)
  /\ runtime' = Begun("resume", "resume_loop", c)
  /\ UNCHANGED <<pending_writes, next_completion_id, completions, queue, loops,
                 processing_up, next_instance, events, dispatcher, device, replies>>

ResumeLoop ==
  /\ runtime.pc = "resume_loop"
  /\ IF CanPause(runtime.controller)
     THEN /\ loops' = [loops EXCEPT ![runtime.controller] = [@ EXCEPT !.state = "running"]]
          /\ Return
     ELSE UNCHANGED loops /\ Goto("rollback_resume")
  /\ UNCHANGED <<serviceVars, processing_up, next_instance, events, dispatcher,
                 device, replies>>

RollbackResume ==
  /\ runtime.pc = "rollback_resume"
  /\ \E t \in OwnedBy(outputs, runtime.controller) :
       outputs' = RollbackAutomaticRequest(outputs, t)
  /\ Return
  /\ UNCHANGED <<pending_writes, next_completion_id, completions, queue, loops,
                 processing_up, next_instance, events, dispatcher, device, replies>>

\* A write by hand; nobody in the model waits for its result.
ManualWrite(t) ==
  /\ Idle
  /\ WriteInstrument(t) \/ WriteInstrumentFails(t)
  /\ UNCHANGED controlVars

Complete == HandleWriteCompletion /\ UNCHANGED controlVars

-----------------------------------------------------------------------------
UserCommand ==
  \/ \E c \in Controllers, t \in Targets, safe \in BOOLEAN : AddController(c, t, safe)
  \/ \E c \in Controllers : BeginPause("pause", c) \/ BeginPause("remove", c)
  \/ \E group \in SUBSET Installed :
       BeginGroup("delete", group) \/ BeginGroup("shutdown", group)
  \/ \E c \in Controllers : BeginResume(c)
  \/ \E t \in Targets : ManualWrite(t)

RuntimeStep ==
  \/ InstallLoop \/ RollbackRegistration
  \/ RequestSafe \/ PauseLoop \/ AwaitSafe
  \/ ReleaseController \/ RemoveLoop \/ RemoveGroup \/ ReleaseGroup
  \/ ResumeLoop \/ RollbackResume

WorkerStep == \E ok \in BOOLEAN : ExecuteWrite(ok)
DispatcherStep == DispatchEvent \/ RecordOutput

Next ==
  \/ UserCommand
  \/ RuntimeStep
  \/ WorkerStep
  \/ DispatcherStep
  \/ Complete
  \/ ProcessingStops
  \/ \E c \in Controllers : ProcessSample(c)

\* The four threads run whenever they can; the user and the samples need not.
Fairness ==
  /\ WF_vars(RuntimeStep)
  /\ WF_vars(WorkerStep)
  /\ WF_vars(DispatcherStep)
  /\ WF_vars(Complete)

Spec == Init /\ [][Next]_vars
FairSpec == Spec /\ Fairness

-----------------------------------------------------------------------------
(***************************************************************************)
(* Properties.                                                             *)
(***************************************************************************)
RuntimeTypeOK ==
  /\ runtime \in Runtime
  /\ ~Idle => runtime.controller \in Controllers
  /\ runtime.pc \in {"install", "uninstall"} => runtime.target \in Targets

\* Every variable stays in the set of values its definition names.
TypeOK ==
  /\ outputs \in [Targets -> OutputState]
  /\ pending_writes \subseteq PendingWrite
  /\ next_completion_id \in Nat \ {0}
  /\ completions \in Seq(Completion)
  /\ queue \in Seq(WriteCommand)
  /\ loops \in [Controllers -> Loop]
  /\ processing_up \in BOOLEAN
  /\ next_instance \in Nat \ {0}
  /\ events \in Seq(ControlEvent)
  /\ dispatcher \in {"idle", "waiting"}
  /\ RuntimeTypeOK
  /\ device \in [Targets -> Origin \cup {"unknown"}]
  /\ replies \in [{"dispatcher", "runtime"} -> {"none", "ok", "failed"}]

QueuedFor(t) == {i \in DOMAIN queue : queue[i].target = t}

\* While an output is manual, an automatic write still in the worker's channel
\* is followed there by an override of the same output: whatever was accepted
\* before the override, the device ends with the override's value.  The one
\* exception is a resume taken back because the processing thread is gone.
ManualHolds ==
  processing_up =>
    \A t \in Targets : outputs[t].mode = "manual" =>
      \A i \in QueuedFor(t) : queue[i].origin = "automatic" =>
        \E j \in QueuedFor(t) : i < j /\ queue[j].origin # "automatic"

\* No automatic write of a removed controller is left on the way to the device,
\* even if another controller owns the output by now.
AutomaticWritesHaveOwner ==
  \A i \in DOMAIN queue : queue[i].origin = "automatic" =>
    /\ Contains(outputs, queue[i].target)
    /\ outputs[queue[i].target].instance = queue[i].instance

\* The names whose ownership a removal gives up next.
Releasing ==
  CASE runtime.pc = "release" -> {runtime.controller}
    [] runtime.pc \in {"remove_group", "release_group"} -> runtime.group
    [] OTHER -> {}

\* Ownership is given up only with the safe value on the device and no other
\* write of that output on its way.
SafeBeforeRelease ==
  \A c \in Releasing : \A t \in OwnedBy(outputs, c) :
    outputs[t].mode = "manual" /\ device[t] = "safe" /\ QueuedFor(t) = {}

\* Between commands the arbiter's table and the processing registry agree:
\* the same names own the same outputs under the same instances.
OwnershipMatchesLoops ==
  Idle /\ processing_up =>
    /\ \A c \in Installed :
         /\ outputs[loops[c].target].controller = c
         /\ outputs[loops[c].target].instance = loops[c].instance
    /\ \A t \in Targets : Contains(outputs, t) =>
         outputs[t].controller \in Installed /\ loops[outputs[t].controller].target = t

\* Every tracked write meets its completion, and in order: a write is forgotten
\* exactly when its completion is handled, and the ids in flight increase towards
\* the tail, so no acknowledgement of the current instance is taken for stale.
CompletionsAreMatched ==
  /\ {p.id : p \in pending_writes} =
       ({queue[i].id : i \in DOMAIN queue} \ {0})
         \cup {completions[i].id : i \in DOMAIN completions}
  /\ \A i, j \in DOMAIN completions : i < j => completions[i].id < completions[j].id
  /\ \A p \in pending_writes : outputs[p.target].instance = p.instance =>
       p.id > outputs[p.target].last_applied /\ p.id > outputs[p.target].last_failure

\* The output service keeps its promise (OutputOwnership): a takeover is earned
\* when the success of a write dispatched during it is on its way back.
Earned(t) ==
  /\ outputs[t].mode = "pending"
  /\ \E i \in DOMAIN completions : \E p \in pending_writes :
       /\ completions[i].ok /\ completions[i].id = p.id
       /\ MayCompleteTransition(outputs, p.target, p.instance, p.transition)
       /\ p.target = t

Ownership == INSTANCE OutputOwnership
  WITH owner <- [t \in Targets |-> outputs[t].mode],
       earned <- [t \in Targets |-> Earned(t)]

\* Automatic ownership is reached only by installation or by a confirmed write.
KeepsOwnership == Ownership!OwnershipSpec

\* And, the threads being fair, an earned takeover does not stay pending.
ConfirmsTakeovers == Ownership!OwnershipFairSpec

\* Every command of the runtime thread returns: no wait for a safe write, for
\* the output service or for the processing thread lasts forever.
CommandsReturn == runtime.pc # "idle" ~> runtime.pc = "idle"
=============================================================================
