------------------------ MODULE OutputControl_proofs ------------------------
(***************************************************************************)
(* Proofs about OutputControl for every set of outputs and controllers and *)
(* every value of the bounds: the safety of manual overrides and releases, *)
(* the correlation of tracked writes with their completions, and that      *)
(* OutputControl implements OutputOwnership.                               *)
(***************************************************************************)
EXTENDS OutputControl, TLAPS

-----------------------------------------------------------------------------
(***************************************************************************)
(* The inductive invariant.  Each conjunct says what one of the threads    *)
(* may rely on while the runtime thread stands between two of its blocking *)
(* calls.                                                                  *)
(***************************************************************************)
Up == processing_up
At(calls) == runtime.pc \in calls

\* A definition is registered but not yet installed, or about to be undone.
Installing == At({"install", "uninstall"})
\* The answer to a dispatched safe write is awaited, or not yet looked at.
Waiting == At({"pause_loop", "await_safe"}) /\ runtime.ticket # 0

AutomaticFor(t) == {i \in QueuedFor(t) : queue[i].origin = "automatic"}

\* Instance ids are handed out once: whatever carries one got it earlier.
InstancesAreOld ==
  /\ \A i \in DOMAIN events : events[i].instance < next_instance
  /\ \A c \in Installed : loops[c].instance < next_instance
  /\ Installing => runtime.instance < next_instance

\* The entry being installed is exactly the runtime's, and neither the
\* processing thread nor the worker has anything of that instance.
EntryIsFresh ==
  Installing =>
    /\ outputs[runtime.target].mode = "automatic"
    /\ outputs[runtime.target].controller = runtime.controller
    /\ outputs[runtime.target].instance = runtime.instance
    /\ AutomaticFor(runtime.target) = {}
    /\ \A i \in DOMAIN events : events[i].instance # runtime.instance
    /\ \A c \in Installed :
         /\ loops[c].instance # runtime.instance
         /\ Up => loops[c].target # runtime.target

\* A name owns at most one output, not counting the entry being installed: a
\* lookup by name has one answer whenever one is made.
NamesAreUnique ==
  \A t, u \in Targets :
    /\ Contains(outputs, t) /\ Contains(outputs, u)
    /\ outputs[t].controller = outputs[u].controller
    /\ Installing => runtime.target \notin {t, u}
    => t = u

\* An entry names a controller.
EntriesHaveOwners ==
  \A t \in Targets : Contains(outputs, t) => outputs[t].controller \in Controllers

\* A loop owns its output, until a removal has released it.
LoopsAreOwners ==
  Up => \A c \in Installed :
    \/ At({"remove_loop"}) /\ c = runtime.controller
    \/ /\ loops[c].target \in Targets
       /\ loops[c].target \in OwnedBy(outputs, c)
       /\ outputs[loops[c].target].instance = loops[c].instance

\* An owner has its loop, except while it is installed or removed.
OwnersHaveLoops ==
  Up => \A t \in Targets : Contains(outputs, t) =>
    \/ Installing /\ t = runtime.target
    \/ At({"release_group"}) /\ outputs[t].controller \in runtime.rest
    \/ /\ outputs[t].controller \in Installed
       /\ loops[outputs[t].controller].target = t

\* What a resume and a removal know about the name they work on.
CallsAreSound ==
  /\ At({"resume_loop"}) /\ Up => runtime.controller \in Installed
  /\ At({"rollback_resume"}) => ~Up
  /\ At({"remove_loop"}) => OwnedBy(outputs, runtime.controller) = {}
  /\ At({"release_group"}) /\ Up => runtime.rest \cap Installed = {}

\* The runtime has at most one safe write on its way, and the answer to it
\* arrives once.
OneSafeWrite ==
  /\ replies["runtime"] # "none" => Waiting
  /\ \A i \in DOMAIN queue : queue[i].client = "runtime" =>
       /\ Waiting
       /\ replies["runtime"] = "none"
       /\ queue[i].origin = "safe"
       /\ \A j \in DOMAIN queue : queue[j].client = "runtime" => i = j

\* A dispatched safe write is the last write of its output until it is
\* answered, and the output is quiet afterwards.
SafeWriteIsLast ==
  Waiting =>
    \A t \in OwnedBy(outputs, runtime.controller) :
      /\ outputs[t].mode = "manual"
      /\ replies["runtime"] = "none" =>
           \E i \in QueuedFor(t) :
             queue[i].client = "runtime" /\ \A j \in QueuedFor(t) : j <= i
      /\ replies["runtime"] # "none" => QueuedFor(t) = {}
      /\ replies["runtime"] = "ok" => device[t] = "safe"

Settled(c) ==
  \A t \in OwnedBy(outputs, c) :
    outputs[t].mode = "manual" /\ device[t] = "safe" /\ QueuedFor(t) = {}

\* The names a removal has paused successfully so far.
Settling ==
  CASE At({"release"}) -> {runtime.controller}
    [] At({"remove_group", "release_group"}) -> runtime.group
    [] At({"apply_safe", "pause_loop", "await_safe"}) /\ runtime.command = "delete" ->
         runtime.group \ (runtime.rest \cup {runtime.controller})
    [] OTHER -> {}

SettledStays ==
  /\ \A c \in Settling : Settled(c)
  /\ At({"release_group"}) => runtime.rest \subseteq runtime.group

\* The table and the processing registry.
Registry ==
  /\ InstancesAreOld /\ EntryIsFresh
  /\ NamesAreUnique /\ EntriesHaveOwners
  /\ LoopsAreOwners /\ OwnersHaveLoops /\ CallsAreSound

\* The table and the writes on their way.
Writes ==
  /\ OneSafeWrite /\ SafeWriteIsLast /\ SettledStays
  /\ ManualHolds /\ AutomaticWritesHaveOwner

IInv == TypeOK /\ Registry /\ Writes

USE DEF Idle, Goto, Return, Up, At

-----------------------------------------------------------------------------
(***************************************************************************)
(* What the arbiter's operations return.                                   *)
(***************************************************************************)
Table == [Targets -> OutputState]

LEMMA SetModeFacts ==
  ASSUME NEW outs \in Table, NEW t \in Targets, NEW m \in OutputMode
  PROVE  LET new == SetMode(outs, t, m)
         IN  /\ new \in Table
             /\ new[t].mode = m
             /\ new[t].controller = outs[t].controller
             /\ new[t].instance = outs[t].instance
             /\ new[t].transition = outs[t].transition
             /\ \A u \in Targets \ {t} : new[u] = outs[u]
BY DEF Table, OutputState, SetMode

LEMMA NextGenerationFacts ==
  ASSUME NEW outs \in Table, NEW t \in Targets
  PROVE  LET new == NextGeneration(outs, t)
         IN  /\ new \in Table
             /\ new[t].mode = outs[t].mode
             /\ new[t].controller = outs[t].controller
             /\ new[t].instance = outs[t].instance
             /\ \A u \in Targets \ {t} : new[u] = outs[u]
BY DEF Table, OutputState, NextGeneration

\* Asking for automatic ownership, or taking the request back, leaves the
\* owner alone and never turns an output manual that was not pending.
LEMMA RequestFacts ==
  ASSUME NEW outs \in Table, NEW t \in Targets
  PROVE  /\ LET new == RequestAutomatic(outs, t)
            IN  /\ new \in Table
                /\ new[t].mode = IF outs[t].mode = "manual" THEN "pending" ELSE outs[t].mode
                /\ new[t].controller = outs[t].controller
                /\ new[t].instance = outs[t].instance
                /\ \A u \in Targets \ {t} : new[u] = outs[u]
         /\ LET new == RollbackAutomaticRequest(outs, t)
            IN  /\ new \in Table
                /\ new[t].mode = IF outs[t].mode = "pending" THEN "manual" ELSE outs[t].mode
                /\ new[t].controller = outs[t].controller
                /\ new[t].instance = outs[t].instance
                /\ \A u \in Targets \ {t} : new[u] = outs[u]
<1>1. {"pending", "manual"} \subseteq OutputMode
  BY DEF OutputMode
<1>2. CASE outs[t].mode = "manual"
  <2> DEFINE mid == NextGeneration(outs, t)
  <2>1. mid \in Table
    BY NextGenerationFacts
  <2> QED
    BY <1>1, <1>2, <2>1, NextGenerationFacts, SetModeFacts
       DEF RequestAutomatic, RollbackAutomaticRequest
<1>3. CASE outs[t].mode # "manual"
  BY <1>1, <1>3, SetModeFacts DEF RequestAutomatic, RollbackAutomaticRequest
<1> QED
  BY <1>2, <1>3

LEMMA RegisterFacts ==
  ASSUME NEW outs \in Table, NEW t \in Targets, NEW c \in Controllers,
         NEW i \in Nat, NEW safe \in BOOLEAN
  PROVE  LET new == RegisterController(outs, t, c, i, safe)
         IN  /\ new \in Table
             /\ new[t].mode = "automatic" /\ new[t].controller = c /\ new[t].instance = i
             /\ \A u \in Targets \ {t} : new[u] = outs[u]
BY DEF Table, OutputState, OutputMode, RegisterController

LEMMA UnregisterFacts ==
  ASSUME NEW outs \in Table, NEW t \in Targets
  PROVE  LET new == UnregisterController(outs, t)
         IN  /\ new \in Table
             /\ new[t].mode = "unregistered"
             /\ \A u \in Targets \ {t} : new[u] = outs[u]
BY DEF Table, OutputState, OutputMode, NotRegistered, UnregisterController

LEMMA AcknowledgeFacts ==
  ASSUME NEW outs \in Table, NEW t \in Targets, NEW i \in Nat, NEW id \in Nat
  PROVE  \A new \in {AcknowledgeWrite(outs, t, i, id), AcknowledgeWriteFailure(outs, t, i, id)} :
           /\ new \in Table
           /\ new[t].mode = outs[t].mode
           /\ new[t].controller = outs[t].controller
           /\ new[t].instance = outs[t].instance
           /\ \A u \in Targets \ {t} : new[u] = outs[u]
<1>1. \A new \in {AcknowledgeWrite(outs, t, i, id)} :
           /\ new \in Table
           /\ new[t].mode = outs[t].mode
           /\ new[t].controller = outs[t].controller
           /\ new[t].instance = outs[t].instance
           /\ \A u \in Targets \ {t} : new[u] = outs[u]
  BY DEF Table, OutputState, AcknowledgeWrite
<1>2. \A new \in {AcknowledgeWriteFailure(outs, t, i, id)} :
           /\ new \in Table
           /\ new[t].mode = outs[t].mode
           /\ new[t].controller = outs[t].controller
           /\ new[t].instance = outs[t].instance
           /\ \A u \in Targets \ {t} : new[u] = outs[u]
  BY DEF Table, OutputState, AcknowledgeWriteFailure
<1> QED
  BY <1>1, <1>2

\* Handling a completion changes the mode of its own output at most, and then
\* from pending to automatic.
LEMMA CompletionFacts ==
  ASSUME outputs \in Table, NEW p \in PendingWrite, NEW ok \in BOOLEAN
  PROVE  LET new == CompletedOutputs(p, ok)
         IN  /\ new \in Table
             /\ \A u \in Targets :
                  /\ new[u].controller = outputs[u].controller
                  /\ new[u].instance = outputs[u].instance
                  /\ \/ new[u].mode = outputs[u].mode
                     \/ outputs[u].mode = "pending" /\ new[u].mode = "automatic"
<1> DEFINE acked == AcknowledgeWrite(outputs, p.target, p.instance, p.id)
           failed == AcknowledgeWriteFailure(outputs, p.target, p.instance, p.id)
<1>1. p.target \in Targets /\ p.instance \in Nat /\ p.id \in Nat /\ p.transition \in Nat
  BY DEF PendingWrite
<1>2. \A new \in {acked, failed} :
        /\ new \in Table
        /\ new[p.target].mode = outputs[p.target].mode
        /\ new[p.target].controller = outputs[p.target].controller
        /\ new[p.target].instance = outputs[p.target].instance
        /\ \A u \in Targets \ {p.target} : new[u] = outputs[u]
  BY ZenonT(30), <1>1, AcknowledgeFacts
<1>3. \/ CompletedOutputs(p, ok) \in {acked, failed}
      \/ /\ CompletedOutputs(p, ok) = SetMode(acked, p.target, "automatic")
         /\ acked[p.target].mode = "pending"
  BY DEF CompletedOutputs, CompleteAutomaticTransition, MayCompleteTransition
<1> HIDE DEF acked, failed
<1>4. "automatic" \in OutputMode
  BY DEF OutputMode
<1>5. CASE CompletedOutputs(p, ok) \in {acked, failed}
  BY <1>1, <1>2, <1>5
<1>6. CASE /\ CompletedOutputs(p, ok) = SetMode(acked, p.target, "automatic")
           /\ acked[p.target].mode = "pending"
  BY <1>1, <1>2, <1>4, <1>6, SetModeFacts
<1> QED
  BY <1>3, <1>5, <1>6

-----------------------------------------------------------------------------
(***************************************************************************)
(* Type correctness.                                                       *)
(***************************************************************************)
\* The completion channel and the worker's channel grow at the end.
LEMMA DispatchType ==
  ASSUME TypeOK, NEW t \in Targets, NEW i \in Nat, NEW transition \in Nat,
         NEW origin \in Origin, NEW client \in Client,
         DispatchTracked(t, i, transition, origin, client)
  PROVE  /\ queue' \in Seq(WriteCommand)
         /\ pending_writes' \subseteq PendingWrite
         /\ next_completion_id' \in Nat \ {0}
BY DEF TypeOK, DispatchTracked, WriteCommand, PendingWrite

LEMMA DispatchFailsType ==
  ASSUME TypeOK, DispatchFails
  PROVE  /\ UNCHANGED <<queue, pending_writes>>
         /\ next_completion_id' \in Nat \ {0}
BY DEF TypeOK, DispatchFails, DispatchUnroutable, DispatchRefused

\* Where a call leads, the runtime's record stays a record of its type.
LEMMA RuntimeTypes ==
  /\ Return => RuntimeTypeOK'
  /\ \A pc \in Call \ {"install"} :
       RuntimeTypeOK /\ ~Idle /\ Goto(pc)
         /\ (pc = "uninstall" => runtime.pc = "install") => RuntimeTypeOK'
  /\ \A command \in Command, c \in Controllers :
       \A rest, group \in SUBSET Controllers :
         StartPausing(command, c, rest, group) => RuntimeTypeOK'
<1>1. IdleRuntime \in Runtime /\ IdleRuntime.pc = "idle"
  BY DEF IdleRuntime, Begun, Runtime, Command, Call
<1>2. ASSUME NEW pc \in Call \ {"install"}, RuntimeTypeOK, ~Idle, Goto(pc),
             pc = "uninstall" => runtime.pc = "install"
      PROVE  RuntimeTypeOK'
  BY <1>2 DEF RuntimeTypeOK, Runtime
<1>3. ASSUME NEW command \in Command, NEW c \in Controllers,
             NEW rest \in SUBSET Controllers, NEW group \in SUBSET Controllers,
             StartPausing(command, c, rest, group)
      PROVE  RuntimeTypeOK'
  BY <1>3 DEF StartPausing, Begun, RuntimeTypeOK, Runtime, Call
<1> QED
  BY <1>1, <1>2, <1>3 DEF RuntimeTypeOK

\* The next call of a command, however its pause ended.
LEMMA AfterPauseType ==
  ASSUME RuntimeTypeOK, ~Idle, NEW ok \in BOOLEAN, AfterPause(ok)
  PROVE  RuntimeTypeOK'
<1>1. ASSUME NEW c \in runtime.rest,
             StartPausing(runtime.command, c, runtime.rest \ {c}, runtime.group)
      PROVE  RuntimeTypeOK'
  <2>1. c \in Controllers /\ runtime.command \in Command
    BY DEF RuntimeTypeOK, Runtime
  <2>2. runtime.rest \ {c} \in SUBSET Controllers /\ runtime.group \in SUBSET Controllers
    BY DEF RuntimeTypeOK, Runtime
  <2> QED
    BY <1>1, <2>1, <2>2, RuntimeTypes
<1>2. ASSUME NEW pc \in {"release", "remove_group"}, Goto(pc)
      PROVE  RuntimeTypeOK'
  BY <1>2, RuntimeTypes DEF Call
<1> QED
  BY <1>1, <1>2, RuntimeTypes DEF AfterPause

\* The variables of the service and of the environment.
RestTypeOK ==
  /\ outputs \in Table
  /\ pending_writes \subseteq PendingWrite
  /\ next_completion_id \in Nat \ {0}
  /\ completions \in Seq(Completion)
  /\ queue \in Seq(WriteCommand)
  /\ loops \in [Controllers -> Loop]
  /\ processing_up \in BOOLEAN
  /\ next_instance \in Nat \ {0}
  /\ events \in Seq(ControlEvent)
  /\ dispatcher \in {"idle", "waiting"}
  /\ device \in [Targets -> Origin \cup {"unknown"}]
  /\ replies \in [{"dispatcher", "runtime"} -> {"none", "ok", "failed"}]

LEMMA TypeParts == TypeOK <=> RestTypeOK /\ RuntimeTypeOK
BY DEF TypeOK, RestTypeOK, Table

LEMMA RuntimeTypeInductive ==
  ASSUME TypeOK, [Next]_vars
  PROVE  RuntimeTypeOK'
<1>0. RuntimeTypeOK
  BY DEF TypeOK
<1>1. ASSUME NEW c \in Controllers, NEW t \in Targets, NEW safe \in BOOLEAN,
             AddController(c, t, safe)
      PROVE  RuntimeTypeOK'
  <2>1. next_instance \in Nat
    BY DEF TypeOK
  <2>2. CASE UNCHANGED runtime
    BY <1>0, <2>2 DEF RuntimeTypeOK
  <2>3. CASE runtime' = [Begun("add", "install", c) EXCEPT
                           !.target = t, !.instance = next_instance]
    BY <2>1, <2>3 DEF Begun, RuntimeTypeOK, Runtime, Command, Call
  <2> QED
    BY <1>1, <2>2, <2>3 DEF AddController
<1>2. ASSUME NEW c \in Controllers, NEW command \in {"pause", "remove"},
             BeginPause(command, c)
      PROVE  RuntimeTypeOK'
  BY <1>2, RuntimeTypes DEF BeginPause, Command
<1>3. ASSUME NEW group \in SUBSET Installed, NEW command \in {"delete", "shutdown"},
             BeginGroup(command, group)
      PROVE  RuntimeTypeOK'
  BY <1>3, RuntimeTypes DEF BeginGroup, Command, Installed
<1>4. ASSUME NEW c \in Controllers, BeginResume(c)
      PROVE  RuntimeTypeOK'
  BY <1>4 DEF BeginResume, Begun, RuntimeTypeOK, Runtime, Command, Call
<1>5. CASE InstallLoop
  BY <1>0, <1>5, RuntimeTypes DEF InstallLoop, Call
<1>6. CASE RollbackRegistration \/ RemoveLoop \/ RollbackResume
  BY <1>6, RuntimeTypes DEF RollbackRegistration, RemoveLoop, RollbackResume
<1>7. CASE RequestSafe
  <2>1. PICK ticket \in Nat :
          runtime' = [runtime EXCEPT !.pc = "pause_loop", !.ticket = ticket]
    BY <1>7 DEF RequestSafe, TypeOK
  <2> QED
    BY <1>0, <1>7, <2>1 DEF RequestSafe, RuntimeTypeOK, Runtime, Call
<1>8. CASE PauseLoop
  <2>1. CASE runtime' = [runtime EXCEPT !.pc = "await_safe",
                           !.paused = CanPause(runtime.controller)]
    <3>1. CanPause(runtime.controller) \in BOOLEAN
      BY DEF CanPause, TypeOK
    <3> QED
      BY <1>0, <1>8, <2>1, <3>1 DEF PauseLoop, RuntimeTypeOK, Runtime, Call
  <2> QED
    BY <1>0, <1>8, <2>1, AfterPauseType DEF PauseLoop
<1>9. CASE AwaitSafe
  <2>1. (replies["runtime"] = "ok" /\ runtime.paused) \in BOOLEAN
    OBVIOUS
  <2> QED
    BY <1>0, <1>9, <2>1, AfterPauseType DEF AwaitSafe
<1>10. CASE ReleaseController
  BY <1>0, <1>10, RuntimeTypes DEF ReleaseController, Call
<1>11. CASE RemoveGroup
  BY ZenonT(30), <1>0, <1>11, RuntimeTypes DEF RemoveGroup, RuntimeTypeOK, Runtime, Call
<1>12. CASE ReleaseGroup
  <2>1. PICK c \in runtime.rest :
          Return \/ runtime' = [runtime EXCEPT !.rest = @ \ {c}]
    BY <1>12 DEF ReleaseGroup
  <2> QED
    BY <1>0, <1>12, <2>1, RuntimeTypes DEF ReleaseGroup, RuntimeTypeOK, Runtime
<1>13. CASE ResumeLoop
  BY <1>0, <1>13, RuntimeTypes DEF ResumeLoop, Call
<1>14. CASE UNCHANGED runtime
  BY <1>0, <1>14 DEF RuntimeTypeOK
<1> QED
  BY <1>1, <1>2, <1>3, <1>4, <1>5, <1>6, <1>7, <1>8, <1>9, <1>10, <1>11, <1>12,
     <1>13, <1>14
     DEF Next, UserCommand, RuntimeStep, WorkerStep, DispatcherStep, ManualWrite,
         ExecuteWrite, DispatchEvent, RecordOutput, Complete, ProcessingStops,
         ProcessSample, vars, controlVars

LEMMA RestTypeInductive ==
  ASSUME TypeOK, [Next]_vars
  PROVE  RestTypeOK'
<1> USE DEF RestTypeOK
<1>0. RestTypeOK /\ RuntimeTypeOK
  BY TypeParts
<1>modes. "manual" \in OutputMode /\ "automatic" \in OutputMode
  BY DEF OutputMode
<1>owned. \A c : OwnedBy(outputs, c) \subseteq Targets
  BY DEF OwnedBy
<1>loops. \A c, s : loops[c].state # "absent" /\ c \in Controllers /\ s \in {"running", "paused"} =>
            /\ [loops EXCEPT ![c] = [@ EXCEPT !.state = s]] \in [Controllers -> Loop]
            /\ loops[c].target \in Targets /\ loops[c].instance \in Nat
  BY SMTT(30), <1>0 DEF Loop, LoopState, NoLoop
<1>1. ASSUME NEW c \in Controllers, NEW t \in Targets, NEW safe \in BOOLEAN,
             AddController(c, t, safe)
      PROVE  RestTypeOK'
  BY <1>0, <1>1, RegisterFacts DEF AddController
<1>2. ASSUME NEW c \in Controllers, BeginResume(c)
      PROVE  RestTypeOK'
  BY <1>0, <1>2, <1>owned, RequestFacts DEF BeginResume
<1>3. ASSUME NEW t \in Targets, ManualWrite(t)
      PROVE  RestTypeOK'
  <2>1. outputs[t].instance \in Nat
    BY <1>0 DEF OutputState, Table
  <2>2. CASE /\ DispatchTracked(t, outputs[t].instance, 0, "manual", "none")
             /\ outputs' = SetManual(outputs, t)
    <3>1. outputs' \in Table
      BY <1>0, <1>modes, <2>2, SetModeFacts DEF SetManual
    <3>2. "manual" \in Origin /\ "none" \in Client
      BY DEF Origin, Client
    <3>3. /\ queue' \in Seq(WriteCommand)
          /\ pending_writes' \subseteq PendingWrite
          /\ next_completion_id' \in Nat \ {0}
      BY <2>1, <2>2, <3>2, DispatchType
    <3>4. UNCHANGED completions
      BY <1>3 DEF ManualWrite, WriteInstrument, WriteInstrumentFails
    <3> QED
      BY <1>0, <1>3, <3>1, <3>3, <3>4 DEF ManualWrite, controlVars
  <2>3. CASE DispatchUntracked(t) /\ UNCHANGED outputs
    <3>1. [id |-> 0, target |-> t, origin |-> "manual", instance |-> 0,
           client |-> "none"] \in WriteCommand
      BY DEF WriteCommand, Origin, Client
    <3>2. UNCHANGED completions
      BY <1>3 DEF ManualWrite, WriteInstrument, WriteInstrumentFails
    <3> QED
      BY <1>0, <1>3, <2>3, <3>1, <3>2 DEF DispatchUntracked, ManualWrite, controlVars
  <2>4. CASE WriteInstrumentFails(t)
    BY <1>0, <1>3, <2>4 DEF WriteInstrumentFails, DispatchRefused, ManualWrite, controlVars
  <2> QED
    BY <1>3, <2>2, <2>3, <2>4 DEF ManualWrite, WriteInstrument
<1>4. CASE InstallLoop
  <2>1. CASE UNCHANGED loops
    BY <1>0, <1>4, <2>1 DEF InstallLoop, serviceVars
  <2>2. CASE loops' = [loops EXCEPT ![runtime.controller] =
                         [state |-> "running", target |-> runtime.target,
                          instance |-> runtime.instance]]
    <3>1. [state |-> "running", target |-> runtime.target,
           instance |-> runtime.instance] \in Loop
      BY <1>0, <1>4 DEF InstallLoop, RuntimeTypeOK, Loop, LoopState, Runtime
    <3> QED
      BY <1>0, <1>4, <2>2, <3>1 DEF InstallLoop, serviceVars
  <2> QED
    BY <1>4, <2>1, <2>2 DEF InstallLoop
<1>5. CASE RollbackRegistration
  BY <1>0, <1>5, <1>owned, UnregisterFacts DEF RollbackRegistration
<1>6. CASE RequestSafe
  <2>1. CASE ApplySafeFails(runtime.controller)
    BY <1>0, <1>6, <2>1, DispatchFailsType
       DEF RequestSafe, ApplySafeFails, DispatchUnroutable
  <2>2. ASSUME NEW t \in OwnedBy(outputs, runtime.controller), ApplySafe(t)
        PROVE  RestTypeOK'
    <3>1. t \in Targets /\ outputs[t].instance \in Nat
      BY <1>0, <1>owned DEF OutputState, Table
    <3>2. "safe" \in Origin /\ "runtime" \in Client
      BY DEF Origin, Client
    <3>3. outputs' \in Table
      BY <1>0, <1>modes, <2>2, <3>1, SetModeFacts DEF ApplySafe, SetManual
    <3>4. /\ queue' \in Seq(WriteCommand)
          /\ pending_writes' \subseteq PendingWrite
          /\ next_completion_id' \in Nat \ {0}
      BY <2>2, <3>1, <3>2, DispatchType DEF ApplySafe
    <3> QED
      BY <1>0, <1>6, <2>2, <3>3, <3>4 DEF RequestSafe, ApplySafe
  <2> QED
    BY <1>6, <2>1, <2>2 DEF RequestSafe
<1>7. CASE PauseLoop
  BY <1>0, <1>7, <1>loops DEF PauseLoop, CanPause, Installed, serviceVars
<1>8. CASE AwaitSafe
  BY <1>0, <1>8 DEF AwaitSafe, serviceVars
<1>9. CASE ReleaseController
  BY <1>0, <1>9, <1>owned, UnregisterFacts DEF ReleaseController, Release
<1>10. CASE RemoveLoop \/ RemoveGroup
  <2>1. NoLoop \in Loop
    BY DEF Loop
  <2> QED
    BY <1>0, <1>10, <2>1 DEF RemoveLoop, RemoveGroup, RemoveFromRegistry, serviceVars
<1>11. CASE ReleaseGroup
  BY <1>0, <1>11, <1>owned, UnregisterFacts DEF ReleaseGroup, Release
<1>12. CASE ResumeLoop
  <2>1. loops' \in [Controllers -> Loop]
    <3>1. CASE CanPause(runtime.controller)
      <4> DEFINE c == runtime.controller
      <4>1. c \in Controllers /\ loops[c].state # "absent"
        BY <3>1 DEF CanPause, Installed
      <4>2. [loops EXCEPT ![c] = [@ EXCEPT !.state = "running"]] \in [Controllers -> Loop]
        BY <1>loops, <4>1
      <4> QED
        BY <1>12, <3>1, <4>2 DEF ResumeLoop
    <3>2. CASE ~CanPause(runtime.controller)
      BY <1>0, <1>12, <3>2 DEF ResumeLoop
    <3> QED
      BY <3>1, <3>2
  <2> QED
    BY <1>0, <1>12, <2>1 DEF ResumeLoop, serviceVars
<1>13. CASE RollbackResume
  BY <1>0, <1>13, <1>owned, RequestFacts DEF RollbackResume
<1>14. ASSUME NEW ok \in BOOLEAN, ExecuteWrite(ok)
       PROVE  RestTypeOK'
  <2>1. Head(queue) \in WriteCommand /\ queue' \in Seq(WriteCommand)
    BY <1>0, <1>14 DEF ExecuteWrite
  <2>2. device' \in [Targets -> Origin \cup {"unknown"}]
    BY <1>0, <1>14, <2>1 DEF ExecuteWrite, WriteCommand
  <2>3. completions' \in Seq(Completion)
    <3>1. [id |-> Head(queue).id, ok |-> ok] \in Completion
      BY <2>1 DEF WriteCommand, Completion
    <3> QED
      BY <1>0, <1>14, <3>1 DEF ExecuteWrite
  <2>4. replies' \in [{"dispatcher", "runtime"} -> {"none", "ok", "failed"}]
    BY <1>0, <1>14, <2>1 DEF ExecuteWrite, WriteCommand, Client
  <2> QED
    BY <1>0, <1>14, <2>1, <2>2, <2>3, <2>4 DEF ExecuteWrite
<1>15. CASE DispatchEvent
  <2>1. Head(events) \in ControlEvent /\ events' \in Seq(ControlEvent)
    BY <1>0, <1>15 DEF DispatchEvent
  <2>2. CASE ApplyAutomatic(Head(events)) /\ dispatcher' = "waiting"
    <3> DEFINE e == Head(events)
    <3>1. /\ e.target \in Targets /\ e.instance \in Nat
          /\ AutomaticTransition(outputs, e.target) \in Nat
      BY <1>0, <2>1 DEF ControlEvent, AutomaticTransition, OutputState, Table
    <3>2. "automatic" \in Origin /\ "dispatcher" \in Client
      BY DEF Origin, Client
    <3> HIDE DEF e
    <3>3. /\ queue' \in Seq(WriteCommand)
          /\ pending_writes' \subseteq PendingWrite
          /\ next_completion_id' \in Nat \ {0}
          /\ UNCHANGED <<outputs, completions>>
      BY <2>2, <3>1, <3>2, DispatchType DEF ApplyAutomatic, e
    <3> QED
      BY <1>0, <1>15, <2>1, <2>2, <3>3 DEF DispatchEvent
  <2>3. CASE ApplyAutomaticFails(Head(events)) /\ UNCHANGED dispatcher
    BY <1>0, <1>15, <2>1, <2>3, DispatchFailsType
       DEF DispatchEvent, ApplyAutomaticFails, DispatchUnroutable
  <2> QED
    BY <1>15, <2>2, <2>3 DEF DispatchEvent
<1>16. CASE RecordOutput
  BY <1>0, <1>16 DEF RecordOutput, serviceVars
<1>17. CASE Complete
  <2>1. Head(completions) \in Completion /\ completions' \in Seq(Completion)
    BY <1>0, <1>17 DEF Complete, HandleWriteCompletion
  <2>2. \A p \in pending_writes : CompletedOutputs(p, Head(completions).ok) \in Table
    BY <1>0, <2>1, CompletionFacts DEF Completion
  <2> QED
    BY <1>0, <1>17, <2>1, <2>2 DEF Complete, HandleWriteCompletion, controlVars
<1>18. CASE ProcessingStops
  BY <1>0, <1>18 DEF ProcessingStops, serviceVars
<1>19. ASSUME NEW c \in Controllers, ProcessSample(c)
       PROVE  RestTypeOK'
  <2>1. [controller |-> c, target |-> loops[c].target, instance |-> loops[c].instance]
          \in ControlEvent
    BY <1>0, <1>19, <1>loops DEF ProcessSample, ControlEvent
  <2> QED
    BY <1>0, <1>19, <2>1 DEF ProcessSample, serviceVars
<1>20. CASE UNCHANGED <<serviceVars, loops, processing_up, next_instance, events,
                        dispatcher, device, replies>>
  BY <1>0, <1>20 DEF serviceVars
<1> QED
  BY <1>1, <1>2, <1>3, <1>4, <1>5, <1>6, <1>7, <1>8, <1>9, <1>10, <1>11, <1>12,
     <1>13, <1>14, <1>15, <1>16, <1>17, <1>18, <1>19, <1>20
     DEF Next, UserCommand, RuntimeStep, WorkerStep, DispatcherStep, BeginPause,
         BeginGroup, vars, controlVars

LEMMA TypeInductive ==
  ASSUME TypeOK, [Next]_vars
  PROVE  TypeOK'
<1>1. RestTypeOK' /\ RuntimeTypeOK'
  BY RestTypeInductive, RuntimeTypeInductive
<1> QED
  BY <1>1 DEF TypeOK, RestTypeOK, Table

LEMMA TypeInitial ==
  ASSUME Init
  PROVE  TypeOK
BY DEF Init, ServiceInit, TypeOK, RuntimeTypeOK, IdleRuntime, Begun, Runtime,
       Command, Call, NotRegistered, OutputState, OutputMode, NoLoop, Loop, LoopState,
       PendingWrite, Completion, WriteCommand, ControlEvent, Origin

\* Type correctness of the whole output path.
THEOREM TypeCorrect == Spec => []TypeOK
BY TypeInitial, TypeInductive, PTL DEF Spec

-----------------------------------------------------------------------------
(***************************************************************************)
(* What a step that moves no ownership and no loop preserves.              *)
(***************************************************************************)
SameOwners ==
  \A t \in Targets :
    /\ Contains(outputs', t) <=> Contains(outputs, t)
    /\ outputs'[t].controller = outputs[t].controller
    /\ outputs'[t].instance = outputs[t].instance

SameLoops ==
  \A c \in Controllers :
    /\ loops'[c].state = "absent" <=> loops[c].state = "absent"
    /\ loops'[c].target = loops[c].target
    /\ loops'[c].instance = loops[c].instance

\* No definition is being installed, removed or resumed.
Quiet == ~At({"install", "uninstall", "remove_loop", "release_group", "resume_loop",
              "rollback_resume"})

LEMMA SameOwnersFacts ==
  ASSUME SameOwners
  PROVE  \A c : OwnedBy(outputs', c) = OwnedBy(outputs, c)
BY DEF SameOwners, OwnedBy

LEMMA SameLoopsFacts ==
  ASSUME SameLoops
  PROVE  Installed' = Installed
BY DEF SameLoops, Installed

LEMMA SequenceElements ==
  ASSUME NEW S, NEW s \in Seq(S)
  PROVE  /\ Len(s) \in Nat /\ DOMAIN s = 1 .. Len(s)
         /\ \A i \in DOMAIN s : s[i] \in S
OBVIOUS

LEMMA RegistryKept ==
  ASSUME Registry, SameOwners, SameLoops, processing_up' => processing_up,
         UNCHANGED next_instance,
         \A i \in DOMAIN events' : events'[i].instance < next_instance,
         \/ Quiet /\ Quiet'
         \/ /\ UNCHANGED runtime
            /\ Installing =>
                 /\ outputs'[runtime.target].mode = outputs[runtime.target].mode
                 /\ runtime.target \in Targets
                 /\ AutomaticFor(runtime.target)' = {}
                 /\ \A i \in DOMAIN events' : events'[i].instance # runtime.instance
  PROVE  Registry'
<1> USE DEF Registry
<1>1. /\ Installed' = Installed
      /\ \A c : OwnedBy(outputs', c) = OwnedBy(outputs, c)
      /\ Installed \subseteq Controllers
  BY SameOwnersFacts, SameLoopsFacts DEF Installed
<1>2. CASE Quiet /\ Quiet'
  <2> USE DEF Quiet, Installing
  <2>1. InstancesAreOld'
    BY <1>1, <1>2 DEF InstancesAreOld, SameLoops
  <2>2. EntryIsFresh'
    BY <1>2 DEF EntryIsFresh
  <2>3. NamesAreUnique'
    BY <1>2 DEF NamesAreUnique, SameOwners
  <2>4. EntriesHaveOwners'
    BY DEF EntriesHaveOwners, SameOwners
  <2>5. LoopsAreOwners'
    BY <1>1, <1>2 DEF LoopsAreOwners, SameOwners, SameLoops
  <2>6. OwnersHaveLoops'
    BY <1>1, <1>2 DEF OwnersHaveLoops, SameOwners, SameLoops
  <2>7. CallsAreSound'
    BY <1>2 DEF CallsAreSound
  <2> QED
    BY <2>1, <2>2, <2>3, <2>4, <2>5, <2>6, <2>7
<1>3. CASE /\ UNCHANGED runtime
           /\ Installing =>
                /\ outputs'[runtime.target].mode = outputs[runtime.target].mode
                /\ runtime.target \in Targets
                /\ AutomaticFor(runtime.target)' = {}
                /\ \A i \in DOMAIN events' : events'[i].instance # runtime.instance
  <2> USE DEF Installing
  <2>1. InstancesAreOld'
    BY <1>1, <1>3 DEF InstancesAreOld, SameLoops
  <2>2. EntryIsFresh'
    BY <1>1, <1>3 DEF EntryIsFresh, SameOwners, SameLoops
  <2>3. NamesAreUnique'
    BY <1>3 DEF NamesAreUnique, SameOwners
  <2>4. EntriesHaveOwners'
    BY DEF EntriesHaveOwners, SameOwners
  <2>5. LoopsAreOwners'
    BY <1>1, <1>3 DEF LoopsAreOwners, SameOwners, SameLoops
  <2>6. OwnersHaveLoops'
    BY <1>1, <1>3 DEF OwnersHaveLoops, SameOwners, SameLoops
  <2>7. CallsAreSound'
    BY <1>1, <1>3 DEF CallsAreSound
  <2> QED
    BY <2>1, <2>2, <2>3, <2>4, <2>5, <2>6, <2>7
<1> QED
  BY <1>2, <1>3

\* The writes and their answers are untouched, and no output turns manual.
LEMMA WritesKept ==
  ASSUME Writes, queue \in Seq(WriteCommand), UNCHANGED <<queue, device>>, SameOwners,
         replies'["runtime"] = replies["runtime"],
         processing_up' => processing_up,
         processing_up' =>
           \A t \in Targets : outputs'[t].mode = "manual" => outputs[t].mode = "manual",
         \/ \A t \in Targets : outputs[t].mode = "manual" => outputs'[t].mode = "manual"
         \/ ~Waiting /\ Settling' = {},
         Waiting' <=> Waiting,
         Waiting => runtime'.controller = runtime.controller,
         Settling' \subseteq Settling,
         runtime'.pc = "release_group" => runtime'.rest \subseteq runtime'.group
  PROVE  Writes'
<1> USE DEF Writes
<1>1. \A c : OwnedBy(outputs', c) = OwnedBy(outputs, c) /\ OwnedBy(outputs, c) \subseteq Targets
  BY SameOwnersFacts DEF OwnedBy
<1>2. OneSafeWrite'
  BY DEF OneSafeWrite
<1>3. SafeWriteIsLast'
  BY <1>1 DEF SafeWriteIsLast, QueuedFor
<1>4. SettledStays'
  BY <1>1 DEF SettledStays, Settled, QueuedFor
<1>5. ManualHolds'
  BY DEF ManualHolds, QueuedFor
<1>6. AutomaticWritesHaveOwner'
  <2>1. \A i \in DOMAIN queue : queue[i].target \in Targets
    <3>1. \A i \in DOMAIN queue : queue[i] \in WriteCommand
      BY SequenceElements
    <3> QED
      BY <3>1 DEF WriteCommand
  <2>2. queue' = queue
    OBVIOUS
  <2>3. ASSUME NEW i \in DOMAIN queue, queue[i].origin = "automatic"
        PROVE  /\ Contains(outputs', queue[i].target)
               /\ outputs'[queue[i].target].instance = queue[i].instance
    BY <2>1, <2>3 DEF AutomaticWritesHaveOwner, SameOwners
  <2> QED
    BY <2>2, <2>3 DEF AutomaticWritesHaveOwner, Contains
<1> QED
  BY <1>2, <1>3, <1>4, <1>5, <1>6

-----------------------------------------------------------------------------
(***************************************************************************)
(* Steps that only move the runtime, the events or the loops.              *)
(***************************************************************************)
\* A pause that starts, and one whose safe write was not dispatched.
LEMMA BeginsPausing ==
  ASSUME IInv, Quiet, ~Waiting, NEW command, NEW c, NEW rest, NEW group,
         StartPausing(command, c, rest, group),
         UNCHANGED <<outputs, queue, device, processing_up, next_instance, events>>,
         replies'["runtime"] = replies["runtime"], SameLoops,
         command = "delete" => group \ (rest \cup {c}) \subseteq Settling
  PROVE  Registry' /\ Writes'
<1>1. /\ runtime'.pc = "apply_safe" /\ runtime'.command = command
      /\ runtime'.controller = c /\ runtime'.rest = rest /\ runtime'.group = group
  BY DEF StartPausing, Begun
<1>2. SameOwners
  BY DEF SameOwners
<1>3. Registry'
  <2>1. \A i \in DOMAIN events' : events'[i].instance < next_instance
    BY DEF IInv, Registry, InstancesAreOld
  <2> QED
    BY <1>1, <1>2, <2>1, RegistryKept DEF IInv, Quiet
<1>4. Writes'
  <2>1. ~Waiting' /\ Settling' \subseteq Settling
    BY <1>1 DEF Waiting, Settling
  <2> QED
    BY <1>1, <1>2, <2>1, WritesKept DEF IInv, TypeOK
<1> QED
  BY <1>3, <1>4

LEMMA BeginPauseKeeps ==
  ASSUME IInv, NEW command \in {"pause", "remove"}, NEW c \in Controllers,
         BeginPause(command, c)
  PROVE  Registry' /\ Writes'
<1>1. Quiet /\ ~Waiting /\ SameLoops
  BY DEF BeginPause, Quiet, Waiting, SameLoops
<1> QED
  BY <1>1, BeginsPausing DEF BeginPause, serviceVars

LEMMA BeginGroupKeeps ==
  ASSUME IInv, NEW command \in {"delete", "shutdown"}, NEW group \in SUBSET Installed,
         BeginGroup(command, group)
  PROVE  Registry' /\ Writes'
<1>1. Quiet /\ ~Waiting /\ SameLoops
  BY DEF BeginGroup, Quiet, Waiting, SameLoops
<1>2. PICK c \in group : StartPausing(command, c, group \ {c}, group)
  BY DEF BeginGroup
<1>3. group \ ((group \ {c}) \cup {c}) = {}
  OBVIOUS
<1> QED
  BY <1>1, <1>2, <1>3, BeginsPausing DEF BeginGroup, serviceVars

\* Where a command goes after its pause; ok means that the pause succeeded and
\* its output is settled.
LEMMA AfterPauseKeeps ==
  ASSUME IInv, NEW ok \in BOOLEAN, AfterPause(ok),
         Quiet, ~At({"release", "remove_group"}),
         UNCHANGED <<outputs, queue, device, processing_up, next_instance, events>>,
         SameLoops, replies'["runtime"] = "none",
         \A i \in DOMAIN queue : queue[i].client # "runtime",
         At({"apply_safe", "pause_loop", "await_safe"}),
         ok => Settled(runtime.controller)
  PROVE  Registry' /\ Writes'
<1> USE DEF IInv
<1>1. SameOwners
  BY DEF SameOwners
<1>2. \A i \in DOMAIN events' : events'[i].instance < next_instance
  BY DEF Registry, InstancesAreOld
<1>3. /\ runtime'.pc \in {"idle", "release", "apply_safe", "remove_group"}
      /\ \A n \in Settling' : n \in Settling \/ (ok /\ n = runtime.controller)
  <2>1. CASE Return
    BY <2>1 DEF IdleRuntime, Begun, Settling
  <2>2. CASE runtime.command = "remove" /\ ok /\ Goto("release")
    BY <2>2 DEF Settling, TypeOK, RuntimeTypeOK, Runtime
  <2>3. ASSUME NEW c \in runtime.rest,
               StartPausing(runtime.command, c, runtime.rest \ {c}, runtime.group),
               runtime.command = "delete" => ok
        PROVE  <1>3!1 /\ <1>3!2
    <3>1. /\ runtime'.pc = "apply_safe" /\ runtime'.command = runtime.command
          /\ runtime'.controller = c /\ runtime'.rest = runtime.rest \ {c}
          /\ runtime'.group = runtime.group
      BY <2>3 DEF StartPausing, Begun
    <3> QED
      BY <2>3, <3>1 DEF Settling
  <2>4. CASE runtime.command = "delete" /\ ok /\ runtime.rest = {} /\ Goto("remove_group")
    <3>1. runtime'.pc = "remove_group" /\ runtime'.group = runtime.group
      BY <2>4 DEF TypeOK, RuntimeTypeOK, Runtime
    <3> QED
      BY <2>4, <3>1 DEF Settling
  <2> QED
    BY <2>1, <2>2, <2>3, <2>4 DEF AfterPause
<1>4. Registry'
  BY <1>1, <1>2, <1>3, RegistryKept DEF Quiet
<1>5. Writes'
  <2> USE DEF Writes
  <2>1. ~Waiting'
    BY <1>3 DEF Waiting
  <2>2. \A c : Settled(c)' <=> Settled(c)
    BY DEF Settled, OwnedBy, QueuedFor
  <2>3. SettledStays'
    BY <1>3, <2>2 DEF SettledStays
  <2>4. OneSafeWrite'
    BY <2>1 DEF OneSafeWrite
  <2>5. SafeWriteIsLast'
    BY <2>1 DEF SafeWriteIsLast
  <2>6. ManualHolds' /\ AutomaticWritesHaveOwner'
    BY DEF ManualHolds, AutomaticWritesHaveOwner, QueuedFor
  <2> QED
    BY <2>3, <2>4, <2>5, <2>6
<1> QED
  BY <1>4, <1>5

LEMMA PauseLoopKeeps ==
  ASSUME IInv, PauseLoop
  PROVE  Registry' /\ Writes'
<1> USE DEF IInv
<1>1. SameLoops /\ runtime.pc = "pause_loop"
  <2>1. CASE loops' = loops
    BY <2>1 DEF SameLoops, PauseLoop
  <2>2. CASE /\ CanPause(runtime.controller)
             /\ loops' = [loops EXCEPT ![runtime.controller] = [@ EXCEPT !.state = "paused"]]
    BY <2>2 DEF SameLoops, PauseLoop, CanPause, Installed, TypeOK, Loop, NoLoop, LoopState
  <2> QED
    BY <2>1, <2>2 DEF PauseLoop
<1>2. CASE runtime.ticket = 0
  <2>1. AfterPause(FALSE)
    BY <1>2 DEF PauseLoop
  <2>2. ~Waiting
    BY <1>2 DEF Waiting
  <2>3. /\ replies["runtime"] = "none"
        /\ \A i \in DOMAIN queue : queue[i].client # "runtime"
    BY <2>2 DEF Writes, OneSafeWrite
  <2> QED
    BY <1>1, <2>1, <2>3, AfterPauseKeeps DEF PauseLoop, serviceVars, Quiet
<1>3. CASE /\ runtime.ticket # 0
           /\ runtime' = [runtime EXCEPT !.pc = "await_safe",
                            !.paused = CanPause(runtime.controller)]
  <2>1. /\ runtime'.pc = "await_safe" /\ runtime'.ticket = runtime.ticket
        /\ runtime'.command = runtime.command /\ runtime'.rest = runtime.rest
        /\ runtime'.controller = runtime.controller /\ runtime'.group = runtime.group
    BY <1>3 DEF TypeOK, RuntimeTypeOK, Runtime
  <2>2. SameOwners /\ UNCHANGED <<outputs, queue, device, events, next_instance, replies, processing_up>>
    BY DEF SameOwners, PauseLoop, serviceVars
  <2>3. Registry'
    <3>1. \A i \in DOMAIN events' : events'[i].instance < next_instance
      BY <2>2 DEF Registry, InstancesAreOld
    <3>2. Quiet /\ Quiet'
      BY <1>1, <2>1 DEF Quiet
    <3> QED
      BY <1>1, <2>2, <3>1, <3>2, RegistryKept
  <2>4. Writes'
    <3>1. (Waiting' <=> Waiting) /\ Settling' \subseteq Settling
      BY <1>1, <1>3, <2>1 DEF Waiting, Settling
    <3> QED
      BY <2>1, <2>2, <3>1, WritesKept DEF TypeOK
  <2> QED
    BY <2>3, <2>4
<1> QED
  BY <1>2, <1>3 DEF PauseLoop

LEMMA AwaitSafeKeeps ==
  ASSUME IInv, AwaitSafe
  PROVE  Registry' /\ Writes'
<1> USE DEF IInv
<1> DEFINE ok == replies["runtime"] = "ok" /\ runtime.paused
<1>1. /\ runtime.pc = "await_safe" /\ Quiet /\ SameLoops
      /\ replies["runtime"] # "none" /\ Waiting
      /\ replies'["runtime"] = "none"
  BY DEF AwaitSafe, Quiet, SameLoops, TypeOK, Writes, OneSafeWrite
<1>2. \A i \in DOMAIN queue : queue[i].client # "runtime"
  BY <1>1 DEF Writes, OneSafeWrite
<1>3. ok => Settled(runtime.controller)
  BY <1>1 DEF Writes, SafeWriteIsLast, Settled
<1>4. ok \in BOOLEAN /\ AfterPause(ok)
  BY DEF AwaitSafe
<1> HIDE DEF ok
<1> QED
  BY <1>1, <1>2, <1>3, <1>4, AfterPauseKeeps DEF AwaitSafe, serviceVars

-----------------------------------------------------------------------------
(***************************************************************************)
(* Steps of the runtime that change the table or the registry.             *)
(***************************************************************************)
LEMMA AddControllerKeeps ==
  ASSUME IInv, NEW c \in Controllers, NEW t \in Targets, NEW safe \in BOOLEAN,
         AddController(c, t, safe)
  PROVE  Registry' /\ Writes'
<1> USE DEF IInv
<1>1. /\ next_instance \in Nat /\ next_instance' = next_instance + 1
      /\ outputs \in Table /\ queue \in Seq(WriteCommand)
      /\ events \in Seq(ControlEvent) /\ loops \in [Controllers -> Loop]
  BY DEF AddController, TypeOK, Table
<1>2. /\ Quiet /\ ~Waiting /\ SameLoops /\ Settling = {}
      /\ UNCHANGED <<queue, device, processing_up, events, replies, loops>>
  BY DEF AddController, Quiet, Waiting, SameLoops, Settling
<1>3. /\ \A i \in DOMAIN events : events[i].instance \in Nat /\ events[i].instance < next_instance
      /\ \A d \in Installed : /\ loops[d].instance \in Nat
                              /\ loops[d].instance < next_instance
  <2>1. \A i \in DOMAIN events : events[i] \in ControlEvent
    BY <1>1, SequenceElements
  <2> QED
    BY <1>1, <2>1 DEF Registry, InstancesAreOld, ControlEvent, Installed, Loop, NoLoop
<1>4. CASE Contains(outputs, t)
  <2>1. UNCHANGED <<outputs, runtime>>
    BY <1>4 DEF AddController
  <2>2. SameOwners
    BY <2>1 DEF SameOwners
  <2>3. Registry'
    <3> USE DEF Registry
    <3>1. InstancesAreOld'
      BY <1>1, <1>2, <1>3, <2>1 DEF InstancesAreOld, Installed, Installing, Quiet
    <3>2. EntryIsFresh'
      BY <1>2, <2>1 DEF EntryIsFresh, Installing, Quiet
    <3>3. /\ NamesAreUnique' /\ EntriesHaveOwners' /\ LoopsAreOwners'
          /\ OwnersHaveLoops' /\ CallsAreSound'
      BY <1>2, <2>1 DEF NamesAreUnique, EntriesHaveOwners, LoopsAreOwners,
         OwnersHaveLoops, CallsAreSound, OwnedBy, Installed, Installing, Contains
    <3> QED
      BY <3>1, <3>2, <3>3
  <2>4. Writes'
    BY <1>1, <1>2, <2>1, <2>2, WritesKept
       DEF Waiting, Settling, Writes, SettledStays
  <2> QED
    BY <2>3, <2>4
<1>5. CASE ~Contains(outputs, t)
  <2>1. /\ outputs' = RegisterController(outputs, t, c, next_instance, safe)
        /\ runtime' = [Begun("add", "install", c) EXCEPT !.target = t, !.instance = next_instance]
    BY <1>5 DEF AddController
  <2>2. /\ outputs'[t].mode = "automatic" /\ outputs'[t].controller = c
        /\ outputs'[t].instance = next_instance
        /\ \A u \in Targets \ {t} : outputs'[u] = outputs[u]
    BY <1>1, <2>1, RegisterFacts
  <2>3. /\ runtime'.pc = "install" /\ runtime'.controller = c
        /\ runtime'.target = t /\ runtime'.instance = next_instance
    BY <2>1 DEF Begun
  <2>4. Installing' /\ Installed' = Installed
    BY <1>2, <2>3 DEF Installing, Installed
  <2>5. outputs[t].mode = "unregistered"
    BY <1>5 DEF Contains
  <2>6. \A i \in DOMAIN queue : queue[i].target = t => queue[i].origin # "automatic"
    BY <1>5 DEF Writes, AutomaticWritesHaveOwner
  <2>7. InstancesAreOld'
    BY <1>1, <1>2, <1>3, <2>3, <2>4 DEF InstancesAreOld
  <2>8. EntryIsFresh'
    <3>1. AutomaticFor(runtime.target)' = {}
      BY <1>2, <2>3, <2>6 DEF AutomaticFor, QueuedFor
    <3>2. processing_up => \A d \in Installed : loops[d].target # t
      BY <1>2, <1>5 DEF Registry, LoopsAreOwners, Quiet, OwnedBy
    <3>3. \A i \in DOMAIN events : events[i].instance # next_instance
      BY <1>1, <1>3
    <3>4. \A d \in Installed : loops[d].instance # next_instance
      BY <1>1, <1>3
    <3> QED
      BY <1>2, <2>2, <2>3, <2>4, <3>1, <3>2, <3>3, <3>4 DEF EntryIsFresh
  <2>9. NamesAreUnique' /\ EntriesHaveOwners'
    BY <1>2, <2>2, <2>3, <2>4 DEF Registry, NamesAreUnique, EntriesHaveOwners,
       Quiet, Installing, Contains
  <2>10. LoopsAreOwners'
    BY <1>2, <2>2, <2>3, <2>4, <2>5 DEF Registry, LoopsAreOwners, Quiet, OwnedBy, Contains
  <2>11. OwnersHaveLoops'
    BY <1>2, <2>2, <2>3, <2>4 DEF Registry, OwnersHaveLoops, Quiet, Installing, Contains
  <2>12. CallsAreSound'
    BY <2>3 DEF CallsAreSound
  <2>13. ~Waiting' /\ Settling' = {} /\ replies["runtime"] = "none"
         /\ \A i \in DOMAIN queue : queue[i].client # "runtime"
    BY <1>2, <2>3 DEF Waiting, Settling, Writes, OneSafeWrite
  <2>14. OneSafeWrite' /\ SafeWriteIsLast' /\ SettledStays'
    BY <1>2, <2>3, <2>13 DEF OneSafeWrite, SafeWriteIsLast, SettledStays
  <2>15. ManualHolds'
    BY <1>2, <2>2 DEF Writes, ManualHolds, QueuedFor
  <2>16. AutomaticWritesHaveOwner'
    <3>1. \A i \in DOMAIN queue : queue[i] \in WriteCommand
      BY <1>1, SequenceElements
    <3>2. ASSUME NEW i \in DOMAIN queue, queue[i].origin = "automatic"
          PROVE  /\ Contains(outputs', queue[i].target)
                 /\ outputs'[queue[i].target].instance = queue[i].instance
      <4>1. queue[i].target \in Targets \ {t}
        BY <2>6, <3>1, <3>2 DEF WriteCommand
      <4> QED
        BY <2>2, <3>2, <4>1 DEF Writes, AutomaticWritesHaveOwner, Contains
    <3> QED
      BY <1>2, <3>2 DEF AutomaticWritesHaveOwner, Contains
  <2> QED
    BY <2>7, <2>8, <2>9, <2>10, <2>11, <2>12, <2>14, <2>15, <2>16 DEF Registry, Writes
<1> QED
  BY <1>4, <1>5

LEMMA InstallLoopKeeps ==
  ASSUME IInv, InstallLoop
  PROVE  Registry' /\ Writes'
<1> USE DEF IInv
<1> DEFINE c == runtime.controller
           t == runtime.target
<1>1. /\ runtime.pc = "install" /\ Installing /\ ~Waiting /\ Settling = {}
      /\ c \in Controllers /\ t \in Targets /\ runtime.instance \in Nat
      /\ loops \in [Controllers -> Loop] /\ queue \in Seq(WriteCommand)
      /\ UNCHANGED <<outputs, queue, device, processing_up, events, replies, next_instance>>
      /\ outputs[t].mode = "automatic" /\ outputs[t].controller = c
      /\ outputs[t].instance = runtime.instance
  BY DEF InstallLoop, Installing, Waiting, Settling, TypeOK, RuntimeTypeOK, serviceVars,
     Registry, EntryIsFresh, Runtime
<1>2. SameOwners
  BY <1>1 DEF SameOwners
<1>3. CASE Goto("uninstall") /\ UNCHANGED loops
  <2>1. /\ runtime'.pc = "uninstall" /\ runtime'.controller = c /\ runtime'.target = t
        /\ runtime'.instance = runtime.instance /\ runtime'.command = runtime.command
    BY <1>3 DEF TypeOK, RuntimeTypeOK, Runtime
  <2>2. Installing' /\ Installed' = Installed /\ ~Waiting' /\ Settling' = {}
    BY <1>3, <2>1 DEF Installing, Installed, Waiting, Settling
  <2>3. Registry'
    <3> USE DEF Registry
    <3>1. InstancesAreOld'
      BY <1>1, <1>3, <2>1, <2>2 DEF InstancesAreOld
    <3>2. EntryIsFresh'
      BY <1>1, <1>3, <2>1, <2>2 DEF EntryIsFresh, AutomaticFor, QueuedFor
    <3>3. NamesAreUnique' /\ EntriesHaveOwners'
      BY <1>1, <2>1, <2>2 DEF NamesAreUnique, EntriesHaveOwners, Contains
    <3>4. LoopsAreOwners' /\ OwnersHaveLoops'
      BY <1>1, <1>3, <2>1, <2>2 DEF LoopsAreOwners, OwnersHaveLoops, OwnedBy, Contains
    <3>5. CallsAreSound'
      BY <2>1 DEF CallsAreSound
    <3> QED
      BY <3>1, <3>2, <3>3, <3>4, <3>5
  <2>4. Writes'
    BY <1>1, <1>2, <2>1, <2>2, WritesKept
  <2> QED
    BY <2>3, <2>4
<1>4. CASE /\ RegistryAccepts(c, t) /\ Return
           /\ loops' = [loops EXCEPT ![c] = [state |-> "running", target |-> t,
                                             instance |-> runtime.instance]]
  <2>1. /\ processing_up /\ c \notin Installed
        /\ \A d \in Installed : loops[d].target # t
    BY <1>4 DEF RegistryAccepts
  <2>2. /\ Installed' = Installed \cup {c}
        /\ loops'[c].target = t /\ loops'[c].instance = runtime.instance
        /\ \A d \in Installed : loops'[d] = loops[d]
    BY <1>1, <1>4, <2>1 DEF Installed
  <2>3. runtime'.pc = "idle"
    BY <1>4 DEF IdleRuntime, Begun
  <2>4. ~Installing' /\ ~Waiting' /\ Settling' = {}
    BY <2>3 DEF Installing, Waiting, Settling
  <2>5. Registry'
    <3> USE DEF Registry
    <3>1. InstancesAreOld'
      BY <1>1, <2>2, <2>4 DEF InstancesAreOld
    <3>2. EntryIsFresh'
      BY <2>4 DEF EntryIsFresh
    <3>3. \A u \in Targets \ {t} : Contains(outputs, u) => outputs[u].controller # c
      BY <1>1, <2>1 DEF OwnersHaveLoops
    <3>4. NamesAreUnique' /\ EntriesHaveOwners'
      BY <1>1, <3>3 DEF NamesAreUnique, EntriesHaveOwners, Contains
    <3>5. LoopsAreOwners'
      <4>1. \A d \in Installed :
              /\ loops[d].target \in OwnedBy(outputs, d) /\ loops[d].target \in Targets
              /\ outputs[loops[d].target].instance = loops[d].instance
        BY <1>1, <2>1 DEF LoopsAreOwners
      <4>2. t \in OwnedBy(outputs, c)
        BY <1>1 DEF OwnedBy, Contains
      <4>3. \A n : OwnedBy(outputs, n)' = OwnedBy(outputs, n)
        BY <1>1 DEF OwnedBy, Contains
      <4> QED
        BY <1>1, <2>2, <4>1, <4>2, <4>3 DEF LoopsAreOwners
    <3>6. OwnersHaveLoops'
      BY <1>1, <2>1, <2>2, <2>3, <2>4 DEF OwnersHaveLoops, Contains
    <3>7. CallsAreSound'
      BY <2>3 DEF CallsAreSound
    <3> QED
      BY <3>1, <3>2, <3>4, <3>5, <3>6, <3>7
  <2>6. Writes'
    BY <1>1, <1>2, <2>3, <2>4, WritesKept
  <2> QED
    BY <2>5, <2>6
<1> QED
  BY <1>3, <1>4 DEF InstallLoop

LEMMA RollbackRegistrationKeeps ==
  ASSUME IInv, RollbackRegistration
  PROVE  Registry' /\ Writes'
<1> USE DEF IInv
<1> DEFINE c == runtime.controller
           t == runtime.target
<1>1. /\ runtime.pc = "uninstall" /\ Installing /\ ~Waiting /\ Settling = {}
      /\ t \in Targets /\ outputs \in Table /\ queue \in Seq(WriteCommand)
      /\ UNCHANGED <<loops, queue, device, processing_up, events, replies, next_instance>>
      /\ outputs[t].mode = "automatic" /\ outputs[t].controller = c
      /\ AutomaticFor(t) = {}
      /\ processing_up => \A d \in Installed : loops[d].target # t
  BY DEF RollbackRegistration, Installing, Waiting, Settling, TypeOK, RuntimeTypeOK,
     Registry, EntryIsFresh, Table
<1>2. outputs' = UnregisterController(outputs, t)
  BY <1>1 DEF RollbackRegistration, OwnedBy, Contains
<1>3. /\ outputs'[t].mode = "unregistered"
      /\ \A u \in Targets \ {t} : outputs'[u] = outputs[u]
  BY <1>1, <1>2, UnregisterFacts
<1>4. runtime'.pc = "idle"
  BY DEF RollbackRegistration, IdleRuntime, Begun
<1>5. ~Installing' /\ ~Waiting' /\ Settling' = {} /\ Installed' = Installed
  BY <1>1, <1>4 DEF Installing, Waiting, Settling, Installed
<1>6. Registry'
  <2> USE DEF Registry
  <2>1. InstancesAreOld' /\ EntryIsFresh'
    BY <1>1, <1>5 DEF InstancesAreOld, EntryIsFresh
  <2>2. NamesAreUnique' /\ EntriesHaveOwners'
    BY <1>3 DEF NamesAreUnique, EntriesHaveOwners, Contains
  <2>3. LoopsAreOwners'
    BY <1>1, <1>3, <1>5 DEF LoopsAreOwners, OwnedBy, Contains
  <2>4. OwnersHaveLoops'
    BY <1>1, <1>3, <1>5 DEF OwnersHaveLoops, Contains
  <2>5. CallsAreSound'
    BY <1>4 DEF CallsAreSound
  <2> QED
    BY <2>1, <2>2, <2>3, <2>4, <2>5
<1>7. Writes'
  <2> USE DEF Writes
  <2>1. OneSafeWrite' /\ SafeWriteIsLast' /\ SettledStays'
    BY <1>1, <1>4, <1>5 DEF OneSafeWrite, SafeWriteIsLast, SettledStays
  <2>2. ManualHolds'
    BY <1>1, <1>3 DEF ManualHolds, QueuedFor
  <2>3. AutomaticWritesHaveOwner'
    <3>1. \A i \in DOMAIN queue : queue[i] \in WriteCommand
      BY <1>1, SequenceElements
    <3>2. ASSUME NEW i \in DOMAIN queue, queue[i].origin = "automatic"
          PROVE  /\ Contains(outputs', queue[i].target)
                 /\ outputs'[queue[i].target].instance = queue[i].instance
      <4>1. queue[i].target \in Targets \ {t}
        BY <1>1, <3>1, <3>2 DEF WriteCommand, AutomaticFor, QueuedFor
      <4> QED
        BY <1>3, <3>2, <4>1 DEF AutomaticWritesHaveOwner, Contains
    <3> QED
      BY <1>1, <3>2 DEF AutomaticWritesHaveOwner, Contains
  <2> QED
    BY <2>1, <2>2, <2>3
<1> QED
  BY <1>6, <1>7

\* A name gives up the outputs it owns, all of them settled: what is left
\* keeps its owner, and no automatic write loses its.
LEMMA ReleaseEffect ==
  ASSUME IInv, NEW c, Settled(c), ~Installing, Release(c)
  PROVE  \E t \in OwnedBy(outputs, c) :
           /\ OwnedBy(outputs, c) = {t} /\ t \in Targets
           /\ outputs'[t].mode = "unregistered"
           /\ \A u \in Targets \ {t} : outputs'[u] = outputs[u]
           /\ QueuedFor(t) = {}
<1>1. PICK t \in OwnedBy(outputs, c) : outputs' = UnregisterController(outputs, t)
  BY DEF Release
<1>2. t \in Targets /\ Contains(outputs, t) /\ outputs[t].controller = c
  BY DEF OwnedBy
<1>3. OwnedBy(outputs, c) = {t}
  BY <1>2 DEF OwnedBy, IInv, Registry, NamesAreUnique
<1>4. /\ outputs'[t].mode = "unregistered"
      /\ \A u \in Targets \ {t} : outputs'[u] = outputs[u]
  <2>1. outputs \in Table
    BY DEF IInv, TypeOK, Table
  <2> QED
    BY <1>1, <1>2, <2>1, UnregisterFacts
<1> QED
  BY <1>2, <1>3, <1>4 DEF Settled

LEMMA ReleaseLeavesOthers ==
  ASSUME outputs \in Table, NEW c, Release(c) \/ UNCHANGED outputs
  PROVE  \A u \in Targets : outputs[u].controller # c => outputs'[u] = outputs[u]
<1>1. CASE Release(c)
  <2>1. PICK t \in OwnedBy(outputs, c) : outputs' = UnregisterController(outputs, t)
    BY <1>1 DEF Release
  <2> QED
    BY <2>1, UnregisterFacts DEF OwnedBy
<1> QED
  BY <1>1

LEMMA ReleasedWrites ==
  ASSUME IInv, NEW t \in Targets, QueuedFor(t) = {}, UNCHANGED <<queue, processing_up>>,
         outputs'[t].mode = "unregistered",
         \A u \in Targets \ {t} : outputs'[u] = outputs[u]
  PROVE  ManualHolds' /\ AutomaticWritesHaveOwner'
<1> USE DEF IInv, Writes
<1>1. ManualHolds'
  BY DEF ManualHolds, QueuedFor
<1>2. AutomaticWritesHaveOwner'
  <2>1. \A i \in DOMAIN queue : queue[i] \in WriteCommand
    BY SequenceElements DEF TypeOK
  <2>2. ASSUME NEW i \in DOMAIN queue, queue[i].origin = "automatic"
        PROVE  /\ Contains(outputs', queue[i].target)
               /\ outputs'[queue[i].target].instance = queue[i].instance
    <3>1. queue[i].target \in Targets \ {t}
      BY <2>1, <2>2 DEF WriteCommand, QueuedFor
    <3> QED
      BY <2>2, <3>1 DEF AutomaticWritesHaveOwner, Contains
  <2> QED
    BY <2>2 DEF AutomaticWritesHaveOwner, Contains
<1> QED
  BY <1>1, <1>2

LEMMA ReleaseControllerKeeps ==
  ASSUME IInv, ReleaseController
  PROVE  Registry' /\ Writes'
<1> USE DEF IInv
<1> DEFINE c == runtime.controller
<1>1. /\ runtime.pc = "release" /\ ~Installing /\ ~Waiting /\ Settled(c) /\ Quiet
      /\ queue \in Seq(WriteCommand) /\ SameLoops
      /\ UNCHANGED <<loops, queue, device, processing_up, events, replies, next_instance>>
  BY DEF ReleaseController, Installing, Waiting, Settling, Quiet, SameLoops, TypeOK,
     Writes, SettledStays
<1>2. CASE UNCHANGED outputs /\ Return
  <2>1. runtime'.pc = "idle" /\ SameOwners
    BY <1>2 DEF IdleRuntime, Begun, SameOwners
  <2>2. Registry'
    <3>1. \A i \in DOMAIN events' : events'[i].instance < next_instance
      BY <1>1 DEF Registry, InstancesAreOld
    <3>2. Quiet'
      BY <2>1 DEF Quiet
    <3> QED
      BY <1>1, <2>1, <3>1, <3>2, RegistryKept
  <2>3. Writes'
    <3>1. ~Waiting' /\ Settling' = {}
      BY <2>1 DEF Waiting, Settling
    <3> QED
      BY <1>1, <1>2, <2>1, <3>1, WritesKept
  <2> QED
    BY <2>2, <2>3
<1>3. CASE Release(c) /\ Goto("remove_loop")
  <2>1. PICK t \in Targets :
           /\ OwnedBy(outputs, c) = {t}
           /\ outputs'[t].mode = "unregistered"
           /\ \A u \in Targets \ {t} : outputs'[u] = outputs[u]
           /\ QueuedFor(t) = {}
    BY <1>1, <1>3, ReleaseEffect
  <2>2. runtime'.pc = "remove_loop" /\ runtime'.controller = c
    BY <1>3 DEF TypeOK, RuntimeTypeOK, Runtime
  <2>3. ~Installing' /\ ~Waiting' /\ Settling' = {} /\ Installed' = Installed
    BY <1>1, <2>2 DEF Installing, Waiting, Settling, Installed
  <2>4. Contains(outputs, t) /\ outputs[t].controller = c
    BY <2>1 DEF OwnedBy
  <2>5. Registry'
    <3> USE DEF Registry
    <3>1. InstancesAreOld' /\ EntryIsFresh'
      BY <1>1, <2>3 DEF InstancesAreOld, EntryIsFresh
    <3>2. NamesAreUnique' /\ EntriesHaveOwners'
      BY <1>1, <2>1, <2>3 DEF NamesAreUnique, EntriesHaveOwners, Contains
    <3>3. LoopsAreOwners'
      BY <1>1, <2>1, <2>2, <2>3, <2>4 DEF LoopsAreOwners, OwnedBy, Contains
    <3>4. OwnersHaveLoops'
      BY <1>1, <2>1, <2>2, <2>3 DEF OwnersHaveLoops, Contains
    <3>5. CallsAreSound'
      BY <2>1, <2>2 DEF CallsAreSound, OwnedBy, Contains
    <3> QED
      BY <3>1, <3>2, <3>3, <3>4, <3>5
  <2>6. OneSafeWrite' /\ SafeWriteIsLast' /\ SettledStays'
    BY <1>1, <2>2, <2>3 DEF OneSafeWrite, SafeWriteIsLast, SettledStays, Writes
  <2> QED
    BY <1>1, <2>1, <2>5, <2>6, ReleasedWrites DEF Writes
<1> QED
  BY <1>2, <1>3 DEF ReleaseController

LEMMA ReleaseGroupKeeps ==
  ASSUME IInv, ReleaseGroup
  PROVE  Registry' /\ Writes'
<1> USE DEF IInv
<1>1. /\ runtime.pc = "release_group" /\ ~Installing /\ ~Waiting
      /\ Settling = runtime.group /\ runtime.rest \subseteq runtime.group
      /\ queue \in Seq(WriteCommand)
      /\ UNCHANGED <<loops, queue, device, processing_up, events, replies, next_instance>>
  BY DEF ReleaseGroup, Installing, Waiting, Settling, TypeOK, Writes, SettledStays
<1>2. PICK c \in runtime.rest :
        /\ IF MayReleaseName(c) THEN Release(c) ELSE UNCHANGED outputs
        /\ IF runtime.rest = {c} THEN Return
           ELSE runtime' = [runtime EXCEPT !.rest = @ \ {c}]
  BY DEF ReleaseGroup
<1>3. Settled(c)
  BY <1>1 DEF Writes, SettledStays
<1>4. \A u \in Targets :
        outputs'[u].mode # "unregistered" =>
          outputs'[u] = outputs[u] /\ outputs[u].controller # c
  <2>1. CASE MayReleaseName(c)
    <3>1. PICK t \in Targets :
            /\ OwnedBy(outputs, c) = {t}
            /\ outputs'[t].mode = "unregistered"
            /\ \A u \in Targets \ {t} : outputs'[u] = outputs[u]
      BY <1>1, <1>2, <1>3, <2>1, ReleaseEffect
    <3> QED
      BY <3>1 DEF OwnedBy, Contains
  <2>2. CASE ~MayReleaseName(c)
    <3>1. OwnedBy(outputs, c) = {} /\ UNCHANGED outputs
      BY <1>2, <1>3, <2>2 DEF MayReleaseName, MayRelease, Settled
    <3> QED
      BY <3>1 DEF OwnedBy, Contains
  <2> QED
    BY <2>1, <2>2
<1>5. /\ ~Installing' /\ ~Waiting' /\ Installed' = Installed
      /\ Settling' \subseteq Settling
      /\ runtime'.pc \in {"idle", "release_group"}
      /\ runtime'.pc = "release_group" => /\ runtime'.rest = runtime.rest \ {c}
                                         /\ runtime'.group = runtime.group
      /\ runtime'.pc = "idle" => runtime.rest = {c}
  <2>1. CASE runtime.rest = {c} /\ Return
    <3>1. runtime'.pc = "idle"
      BY <2>1 DEF IdleRuntime, Begun
    <3> QED
      BY <1>1, <2>1, <3>1 DEF Installing, Waiting, Settling, Installed
  <2>2. CASE runtime' = [runtime EXCEPT !.rest = @ \ {c}]
    <3>1. /\ runtime'.pc = "release_group" /\ runtime'.rest = runtime.rest \ {c}
          /\ runtime'.group = runtime.group
      BY <1>1, <2>2 DEF TypeOK, RuntimeTypeOK, Runtime
    <3> QED
      BY <1>1, <3>1 DEF Installing, Waiting, Settling, Installed
  <2> QED
    BY <1>2, <2>1, <2>2
<1>6. Registry'
  <2> USE DEF Registry
  <2>1. InstancesAreOld' /\ EntryIsFresh'
    BY <1>1, <1>5 DEF InstancesAreOld, EntryIsFresh
  <2>2. NamesAreUnique' /\ EntriesHaveOwners'
    BY <1>1, <1>4, <1>5 DEF NamesAreUnique, EntriesHaveOwners, Contains
  <2>3. LoopsAreOwners'
    <3>1. processing_up => c \notin Installed
      BY <1>1, <1>2 DEF CallsAreSound
    <3>2. \A u \in Targets : outputs[u].controller # c => outputs'[u] = outputs[u]
      <4>1. outputs \in Table
        BY DEF TypeOK, Table
      <4> QED
        BY <1>2, <4>1, ReleaseLeavesOthers
    <3> QED
      BY <1>1, <1>5, <3>1, <3>2 DEF LoopsAreOwners, OwnedBy, Contains
  <2>4. OwnersHaveLoops'
    BY <1>1, <1>4, <1>5 DEF OwnersHaveLoops, Contains
  <2>5. CallsAreSound'
    BY <1>1, <1>5 DEF CallsAreSound
  <2> QED
    BY <2>1, <2>2, <2>3, <2>4, <2>5
<1>7. OneSafeWrite' /\ SafeWriteIsLast'
  BY <1>1, <1>5 DEF OneSafeWrite, SafeWriteIsLast, Writes
<1>8. SettledStays'
  <2>1. ASSUME NEW d, Settled(d)
        PROVE  Settled(d)'
    BY <1>1, <1>4, <2>1 DEF Settled, OwnedBy, QueuedFor, Contains
  <2> QED
    BY <1>1, <1>5, <2>1 DEF SettledStays, Writes
<1>9. ManualHolds' /\ AutomaticWritesHaveOwner'
  <2>1. CASE MayReleaseName(c)
    BY <1>1, <1>2, <1>3, <2>1, ReleaseEffect, ReleasedWrites
  <2>2. CASE ~MayReleaseName(c)
    BY <1>1, <1>2, <2>2 DEF Writes, ManualHolds, AutomaticWritesHaveOwner, QueuedFor, Contains
  <2> QED
    BY <2>1, <2>2
<1> QED
  BY <1>6, <1>7, <1>8, <1>9 DEF Writes

LEMMA RemoveLoopKeeps ==
  ASSUME IInv, RemoveLoop
  PROVE  Registry' /\ Writes'
<1> USE DEF IInv
<1> DEFINE c == runtime.controller
<1>1. /\ runtime.pc = "remove_loop" /\ ~Installing /\ ~Waiting /\ c \in Controllers
      /\ queue \in Seq(WriteCommand) /\ loops \in [Controllers -> Loop]
      /\ UNCHANGED <<outputs, queue, device, processing_up, events, replies, next_instance>>
      /\ OwnedBy(outputs, c) = {}
  BY DEF RemoveLoop, Installing, Waiting, TypeOK, RuntimeTypeOK, serviceVars, Registry,
     CallsAreSound
<1>2. runtime'.pc = "idle" /\ SameOwners
  BY <1>1 DEF RemoveLoop, IdleRuntime, Begun, SameOwners
<1>3. ~Installing' /\ ~Waiting' /\ Settling' = {}
  BY <1>2 DEF Installing, Waiting, Settling
<1>4. /\ Installed' \subseteq Installed
      /\ processing_up => Installed' = Installed \ {c}
      /\ \A d \in Installed' : loops'[d] = loops[d]
  <2>1. CASE processing_up
    BY <1>1, <2>1 DEF RemoveLoop, RemoveFromRegistry, Installed, NoLoop
  <2>2. CASE ~processing_up
    BY <2>2 DEF RemoveLoop, RemoveFromRegistry, Installed
  <2> QED
    BY <2>1, <2>2
<1>5. Registry'
  <2> USE DEF Registry
  <2>1. InstancesAreOld' /\ EntryIsFresh'
    BY <1>1, <1>3, <1>4 DEF InstancesAreOld, EntryIsFresh
  <2>2. NamesAreUnique' /\ EntriesHaveOwners'
    BY <1>1, <1>3 DEF NamesAreUnique, EntriesHaveOwners, Contains
  <2>3. LoopsAreOwners'
    BY <1>1, <1>2, <1>4 DEF LoopsAreOwners, OwnedBy, Contains
  <2>4. OwnersHaveLoops'
    BY <1>1, <1>2, <1>3, <1>4 DEF OwnersHaveLoops, OwnedBy, Contains
  <2>5. CallsAreSound'
    BY <1>2 DEF CallsAreSound
  <2> QED
    BY <2>1, <2>2, <2>3, <2>4, <2>5
<1>6. Writes'
  BY <1>1, <1>2, <1>3, WritesKept
<1> QED
  BY <1>5, <1>6

LEMMA RemoveGroupKeeps ==
  ASSUME IInv, RemoveGroup
  PROVE  Registry' /\ Writes'
<1> USE DEF IInv
<1>1. /\ runtime.pc = "remove_group" /\ ~Installing /\ ~Waiting
      /\ Settling = runtime.group
      /\ queue \in Seq(WriteCommand) /\ loops \in [Controllers -> Loop]
      /\ UNCHANGED <<outputs, queue, device, processing_up, events, replies, next_instance>>
  BY DEF RemoveGroup, Installing, Waiting, Settling, TypeOK, serviceVars
<1>2. SameOwners
  BY <1>1 DEF SameOwners
<1>3. CASE processing_up
  <2>1. /\ runtime'.pc = "release_group" /\ runtime'.rest = runtime.group
        /\ runtime'.group = runtime.group
    BY <1>3 DEF RemoveGroup, TypeOK, RuntimeTypeOK, Runtime
  <2>2. ~Installing' /\ ~Waiting' /\ Settling' = Settling
    BY <1>1, <2>1 DEF Installing, Waiting, Settling
  <2>3. /\ Installed' = Installed \ runtime.group
        /\ \A d \in Installed' : loops'[d] = loops[d]
    BY <1>1, <1>3 DEF RemoveGroup, RemoveFromRegistry, Installed, NoLoop
  <2>4. Registry'
    <3> USE DEF Registry
    <3>1. InstancesAreOld' /\ EntryIsFresh'
      BY <1>1, <2>2, <2>3 DEF InstancesAreOld, EntryIsFresh
    <3>2. NamesAreUnique' /\ EntriesHaveOwners'
      BY <1>1, <2>2 DEF NamesAreUnique, EntriesHaveOwners, Contains
    <3>3. LoopsAreOwners'
      BY <1>1, <2>1, <2>3 DEF LoopsAreOwners, OwnedBy, Contains
    <3>4. OwnersHaveLoops'
      BY <1>1, <2>1, <2>2, <2>3 DEF OwnersHaveLoops, OwnedBy, Contains
    <3>5. CallsAreSound'
      BY <2>1, <2>3 DEF CallsAreSound
    <3> QED
      BY <3>1, <3>2, <3>3, <3>4, <3>5
  <2>5. Writes'
    BY <1>1, <1>2, <2>1, <2>2, WritesKept
  <2> QED
    BY <2>4, <2>5
<1>4. CASE ~processing_up
  <2>1. runtime'.pc = "idle" /\ SameLoops
    BY <1>4 DEF RemoveGroup, RemoveFromRegistry, IdleRuntime, Begun, SameLoops
  <2>2. Registry'
    <3>1. \A i \in DOMAIN events' : events'[i].instance < next_instance
      BY <1>1 DEF Registry, InstancesAreOld
    <3>2. Quiet /\ Quiet'
      BY <1>1, <2>1 DEF Quiet
    <3> QED
      BY <1>1, <1>2, <2>1, <3>1, <3>2, RegistryKept
  <2>3. Writes'
    <3>1. ~Waiting' /\ Settling' = {}
      BY <2>1 DEF Waiting, Settling
    <3> QED
      BY <1>1, <1>2, <2>1, <3>1, WritesKept
  <2> QED
    BY <2>2, <2>3
<1> QED
  BY <1>3, <1>4

InResume == At({"idle", "resume_loop", "rollback_resume"})

\* The steps of a resume move no ownership and no loop.
LEMMA ResumeKept ==
  ASSUME IInv, SameOwners, SameLoops, InResume, InResume',
         UNCHANGED <<queue, device, processing_up, events, next_instance>>,
         replies'["runtime"] = replies["runtime"],
         processing_up =>
           \A t \in Targets : outputs'[t].mode = "manual" => outputs[t].mode = "manual",
         CallsAreSound'
  PROVE  Registry' /\ Writes'
<1> USE DEF IInv, InResume
<1>1. /\ ~Installing /\ ~Installing' /\ ~Waiting /\ ~Waiting'
      /\ Settling = {} /\ Settling' = {}
      /\ Installed' = Installed /\ Installed \subseteq Controllers
      /\ \A c : OwnedBy(outputs', c) = OwnedBy(outputs, c)
  BY SameLoopsFacts, SameOwnersFacts DEF Installing, Waiting, Settling, Installed
<1>2. Registry'
  <2> USE DEF Registry
  <2>1. InstancesAreOld' /\ EntryIsFresh'
    BY <1>1 DEF InstancesAreOld, EntryIsFresh, SameLoops
  <2>2. NamesAreUnique' /\ EntriesHaveOwners'
    BY <1>1 DEF NamesAreUnique, EntriesHaveOwners, SameOwners
  <2>3. LoopsAreOwners'
    BY <1>1 DEF LoopsAreOwners, SameOwners, SameLoops
  <2>4. OwnersHaveLoops'
    BY <1>1 DEF OwnersHaveLoops, SameOwners, SameLoops
  <2> QED
    BY <2>1, <2>2, <2>3, <2>4
<1>3. Writes'
  BY <1>1, WritesKept DEF TypeOK
<1> QED
  BY <1>2, <1>3

LEMMA BeginResumeKeeps ==
  ASSUME IInv, NEW c \in Controllers, BeginResume(c)
  PROVE  Registry' /\ Writes'
<1> USE DEF IInv
<1>1. PICK t \in OwnedBy(outputs, c) : outputs' = RequestAutomatic(outputs, t)
  BY DEF BeginResume
<1>2. outputs \in Table /\ t \in Targets
  BY DEF TypeOK, Table, OwnedBy
<1>3. /\ outputs'[t].mode = IF outputs[t].mode = "manual" THEN "pending" ELSE outputs[t].mode
      /\ outputs'[t].controller = outputs[t].controller
      /\ outputs'[t].instance = outputs[t].instance
      /\ \A u \in Targets \ {t} : outputs'[u] = outputs[u]
  BY <1>1, <1>2, RequestFacts
<1>4. SameOwners
  BY <1>3 DEF SameOwners, Contains
<1>5. \A u \in Targets : outputs'[u].mode = "manual" => outputs[u].mode = "manual"
  BY <1>3
<1>6. runtime.pc = "idle" /\ runtime'.pc = "resume_loop" /\ runtime'.controller = c
  BY DEF BeginResume, Begun
<1>7. SameLoops /\ Installed' = Installed
  BY SameLoopsFacts DEF BeginResume, SameLoops
<1>8. CallsAreSound'
  <2>1. processing_up => c \in Installed
    BY <1>1, <1>2, <1>6 DEF Registry, OwnersHaveLoops, OwnedBy, Installing
  <2> QED
    BY <1>6, <1>7, <2>1 DEF CallsAreSound, BeginResume
<1> QED
  BY <1>4, <1>5, <1>6, <1>7, <1>8, ResumeKept DEF BeginResume, InResume

LEMMA ResumeLoopKeeps ==
  ASSUME IInv, ResumeLoop
  PROVE  Registry' /\ Writes'
<1> USE DEF IInv
<1>1. SameOwners /\ UNCHANGED <<outputs, queue, device, processing_up, events, next_instance, replies>>
  BY DEF ResumeLoop, serviceVars, SameOwners
<1>2. CASE CanPause(runtime.controller)
  <2>1. SameLoops
    <3>1. loops' = [loops EXCEPT ![runtime.controller] = [@ EXCEPT !.state = "running"]]
      BY <1>2 DEF ResumeLoop
    <3> QED
      BY <1>2, <3>1 DEF SameLoops, CanPause, Installed, TypeOK, Loop, NoLoop, LoopState
  <2>2. runtime.pc = "resume_loop" /\ runtime'.pc = "idle"
    BY <1>2 DEF ResumeLoop, IdleRuntime, Begun
  <2>3. CallsAreSound'
    BY <2>2 DEF CallsAreSound
  <2> QED
    BY <1>1, <2>1, <2>2, <2>3, ResumeKept DEF InResume
<1>3. CASE ~CanPause(runtime.controller)
  <2>1. SameLoops
    BY <1>3 DEF SameLoops, ResumeLoop
  <2>2. runtime.pc = "resume_loop" /\ runtime'.pc = "rollback_resume"
    BY <1>3 DEF ResumeLoop, TypeOK, RuntimeTypeOK, Runtime
  <2>3. CallsAreSound'
    BY <1>1, <1>3, <2>2 DEF CallsAreSound, Registry, CanPause
  <2> QED
    BY <1>1, <2>1, <2>2, <2>3, ResumeKept DEF InResume
<1> QED
  BY <1>2, <1>3

LEMMA RollbackResumeKeeps ==
  ASSUME IInv, RollbackResume
  PROVE  Registry' /\ Writes'
<1> USE DEF IInv
<1>1. PICK t \in OwnedBy(outputs, runtime.controller) :
        outputs' = RollbackAutomaticRequest(outputs, t)
  BY DEF RollbackResume
<1>2. outputs \in Table /\ t \in Targets
  BY DEF TypeOK, Table, OwnedBy
<1>3. SameOwners
  <2>1. /\ outputs'[t].mode = IF outputs[t].mode = "pending" THEN "manual" ELSE outputs[t].mode
        /\ outputs'[t].controller = outputs[t].controller
        /\ outputs'[t].instance = outputs[t].instance
        /\ \A u \in Targets \ {t} : outputs'[u] = outputs[u]
    BY <1>1, <1>2, RequestFacts
  <2> QED
    BY <2>1 DEF SameOwners, Contains
<1>4. runtime.pc = "rollback_resume" /\ runtime'.pc = "idle"
  BY DEF RollbackResume, IdleRuntime, Begun
<1>5. ~processing_up
  BY <1>4 DEF Registry, CallsAreSound
<1>6. SameLoops /\ CallsAreSound'
  BY <1>4 DEF RollbackResume, SameLoops, CallsAreSound
<1> QED
  BY <1>3, <1>4, <1>5, <1>6, ResumeKept DEF RollbackResume, InResume

-----------------------------------------------------------------------------
(***************************************************************************)
(* Steps of the other threads, and the writes of the runtime.              *)
(***************************************************************************)
\* The runtime, the queue and the ownership stay; events may come and go.
LEMMA EnvironmentKept ==
  ASSUME IInv, SameOwners, SameLoops, UNCHANGED <<runtime, queue, device, next_instance>>,
         replies'["runtime"] = replies["runtime"],
         processing_up' => processing_up,
         \A t \in Targets :
           outputs'[t].mode # outputs[t].mode =>
             outputs[t].mode = "pending" /\ outputs'[t].mode = "automatic",
         \A i \in DOMAIN events' :
           /\ events'[i].instance < next_instance
           /\ Installing => events'[i].instance # runtime.instance
  PROVE  Registry' /\ Writes'
<1> USE DEF IInv
<1>1. Registry'
  <2>1. ASSUME Installing
        PROVE  /\ outputs'[runtime.target].mode = outputs[runtime.target].mode
               /\ runtime.target \in Targets
               /\ AutomaticFor(runtime.target)' = {}
    <3>1. /\ runtime.target \in Targets /\ outputs[runtime.target].mode = "automatic"
          /\ AutomaticFor(runtime.target) = {}
      BY <2>1 DEF TypeOK, RuntimeTypeOK, Installing, Registry, EntryIsFresh
    <3> QED
      BY <3>1 DEF AutomaticFor, QueuedFor
  <2> QED
    BY <2>1, RegistryKept
<1>2. Writes'
  <2>1. (Waiting' <=> Waiting) /\ Settling' = Settling
    BY DEF Waiting, Settling
  <2>2. runtime'.pc = "release_group" => runtime'.rest \subseteq runtime'.group
    BY DEF Writes, SettledStays
  <2> QED
    BY <2>1, <2>2, WritesKept DEF TypeOK
<1> QED
  BY <1>1, <1>2

LEMMA EventsAreOld ==
  ASSUME IInv
  PROVE  \A i \in DOMAIN events :
           /\ events[i].instance < next_instance
           /\ Installing => events[i].instance # runtime.instance
BY DEF IInv, Registry, InstancesAreOld, EntryIsFresh

LEMMA ThreadsKeep ==
  ASSUME IInv,
         RecordOutput \/ ProcessingStops \/ UNCHANGED vars
  PROVE  Registry' /\ Writes'
<1>1. /\ SameOwners /\ SameLoops /\ replies'["runtime"] = replies["runtime"]
      /\ UNCHANGED <<outputs, events, runtime, queue, device, next_instance>>
      /\ processing_up' => processing_up
  BY DEF RecordOutput, ProcessingStops, vars, serviceVars, controlVars, SameOwners,
     SameLoops, IInv, TypeOK
<1> QED
  BY <1>1, EnvironmentKept, EventsAreOld

LEMMA ProcessSampleKeeps ==
  ASSUME IInv, NEW c \in Controllers, ProcessSample(c)
  PROVE  Registry' /\ Writes'
<1> DEFINE e == [controller |-> c, target |-> loops[c].target,
                 instance |-> loops[c].instance]
<1>1. /\ SameOwners /\ SameLoops
      /\ UNCHANGED <<outputs, replies, runtime, queue, device, next_instance, processing_up>>
  BY DEF ProcessSample, serviceVars, SameOwners, SameLoops
<1>2. c \in Installed
  BY DEF ProcessSample, Installed
<1>3. /\ e.instance < next_instance
      /\ Installing => e.instance # runtime.instance
  BY <1>2 DEF IInv, Registry, InstancesAreOld, EntryIsFresh
<1> HIDE DEF e
<1>4. events' = Append(events, e) /\ events \in Seq(ControlEvent)
  BY DEF ProcessSample, e, IInv, TypeOK
<1>5. \A i \in DOMAIN events' : events'[i] = e \/ (i \in DOMAIN events /\ events'[i] = events[i])
  BY <1>4, SequenceElements
<1>6. \A i \in DOMAIN events' :
        /\ events'[i].instance < next_instance
        /\ Installing => events'[i].instance # runtime.instance
  BY <1>3, <1>5, EventsAreOld
<1> QED
  BY <1>1, <1>6, EnvironmentKept

LEMMA CompleteKeeps ==
  ASSUME IInv, Complete
  PROVE  Registry' /\ Writes'
<1>1. /\ SameLoops
      /\ UNCHANGED <<replies, runtime, queue, device, next_instance, processing_up, events>>
  BY DEF Complete, HandleWriteCompletion, controlVars, SameLoops
<1>2. \A t \in Targets :
        /\ outputs'[t].controller = outputs[t].controller
        /\ outputs'[t].instance = outputs[t].instance
        /\ \/ outputs'[t].mode = outputs[t].mode
           \/ outputs[t].mode = "pending" /\ outputs'[t].mode = "automatic"
  <2>1. CASE UNCHANGED outputs
    BY <2>1
  <2>2. ASSUME NEW p \in pending_writes, outputs' = CompletedOutputs(p, Head(completions).ok)
        PROVE  <1>2
    <3>1. Head(completions) \in Completion
      BY DEF Complete, HandleWriteCompletion, IInv, TypeOK
    <3>2. Head(completions).ok \in BOOLEAN
      BY <3>1 DEF Completion
    <3>3. p \in PendingWrite /\ outputs \in Table
      BY DEF IInv, TypeOK, Table
    <3> QED
      BY <2>2, <3>2, <3>3, CompletionFacts
  <2> QED
    BY <2>1, <2>2 DEF Complete, HandleWriteCompletion
<1>3. SameOwners
  BY <1>2 DEF SameOwners, Contains
<1> QED
  BY <1>1, <1>2, <1>3, EnvironmentKept, EventsAreOld

\* A new command is the last one of its output and of no other.
LEMMA Appended ==
  ASSUME queue \in Seq(WriteCommand), NEW w, queue' = Append(queue, w)
  PROVE  /\ Len(queue) + 1 \in DOMAIN queue' /\ queue'[Len(queue) + 1] = w
         /\ DOMAIN queue' = DOMAIN queue \cup {Len(queue) + 1}
         /\ \A i \in DOMAIN queue : /\ i < Len(queue) + 1 /\ i \in Nat
                                    /\ queue'[i] = queue[i]
         /\ \A t : t # w.target => QueuedFor(t)' = QueuedFor(t)
<1>1. /\ DOMAIN queue' = 1 .. (Len(queue) + 1) /\ DOMAIN queue = 1 .. Len(queue)
      /\ Len(queue) \in Nat /\ queue'[Len(queue) + 1] = w
      /\ \A i \in DOMAIN queue : queue'[i] = queue[i]
  OBVIOUS
<1> QED
  BY <1>1 DEF QueuedFor

\* The commands left move up by one place when the first is executed.
LEMMA Executed ==
  ASSUME queue \in Seq(WriteCommand), queue # <<>>, queue' = Tail(queue)
  PROVE  /\ 1 \in DOMAIN queue /\ Head(queue) = queue[1] /\ queue[1] \in WriteCommand
         /\ \A i \in DOMAIN queue : i \in Nat /\ i >= 1
         /\ \A i \in DOMAIN queue' : /\ i \in Nat /\ i >= 1 /\ i + 1 \in DOMAIN queue
                                     /\ queue'[i] = queue[i + 1]
         /\ \A t : /\ QueuedFor(t) \subseteq DOMAIN queue
                   /\ QueuedFor(t)' \subseteq DOMAIN queue'
                   /\ \A k \in QueuedFor(t)' : k + 1 \in QueuedFor(t)
                   /\ \A i \in QueuedFor(t) : i # 1 =>
                        i - 1 \in QueuedFor(t)' /\ queue'[i - 1] = queue[i]
<1>1. /\ DOMAIN queue = 1 .. Len(queue) /\ DOMAIN queue' = 1 .. (Len(queue) - 1)
      /\ Len(queue) \in Nat \ {0}
      /\ \A i \in DOMAIN queue' : queue'[i] = queue[i + 1]
  OBVIOUS
<1>2. 1 \in DOMAIN queue /\ Head(queue) = queue[1] /\ queue[1] \in WriteCommand
  OBVIOUS
<1>3. \A i \in DOMAIN queue : i \in Nat /\ i >= 1
  BY <1>1
<1>4. \A i \in DOMAIN queue' : i \in Nat /\ i >= 1 /\ i + 1 \in DOMAIN queue
  BY <1>1
<1>5. \A i \in DOMAIN queue :
        i = 1 \/ (i - 1 \in DOMAIN queue' /\ queue'[i - 1] = queue[i])
  BY <1>1
<1>6. ASSUME NEW t
      PROVE  /\ \A k \in QueuedFor(t)' : k + 1 \in QueuedFor(t)
             /\ \A i \in QueuedFor(t) : i # 1 =>
                  i - 1 \in QueuedFor(t)' /\ queue'[i - 1] = queue[i]
  BY <1>1, <1>4, <1>5 DEF QueuedFor
<1> QED
  BY <1>1, <1>2, <1>3, <1>4, <1>6 DEF QueuedFor

LEMMA DispatchEventKeeps ==
  ASSUME IInv, DispatchEvent
  PROVE  Registry' /\ Writes'
<1> USE DEF IInv
<1> DEFINE e == Head(events)
<1>1. /\ SameOwners /\ SameLoops
      /\ UNCHANGED <<outputs, replies, runtime, device, next_instance, processing_up, loops>>
  BY DEF DispatchEvent, SameOwners, SameLoops, ApplyAutomatic, ApplyAutomaticFails
<1>2. /\ 1 \in DOMAIN events /\ e = events[1] /\ e \in ControlEvent
      /\ \A i \in DOMAIN events' : i + 1 \in DOMAIN events /\ events'[i] = events[i + 1]
  BY DEF DispatchEvent, TypeOK
<1>3. \A i \in DOMAIN events' :
        /\ events'[i].instance < next_instance
        /\ Installing => events'[i].instance # runtime.instance
  BY <1>2, EventsAreOld
<1>4. CASE ApplyAutomaticFails(e)
  <2>1. UNCHANGED queue
    BY <1>4 DEF ApplyAutomaticFails, DispatchFails, DispatchUnroutable, DispatchRefused
  <2> QED
    BY <1>1, <1>3, <2>1, EnvironmentKept
<1>5. CASE ApplyAutomatic(e)
  <2> DEFINE w == [id |-> next_completion_id, target |-> e.target, origin |-> "automatic",
                   instance |-> e.instance, client |-> "dispatcher"]
  <2>1. /\ queue' = Append(queue, w) /\ queue \in Seq(WriteCommand)
        /\ outputs[e.target].mode \in {"automatic", "pending"}
        /\ outputs[e.target].instance = e.instance
        /\ e.target \in Targets
    BY <1>2, <1>5 DEF ApplyAutomatic, DispatchTracked, Authorized, TypeOK, ControlEvent
  <2>2. w.target = e.target /\ w.origin = "automatic" /\ w.client = "dispatcher"
        /\ w.instance = e.instance
    OBVIOUS
  <2> HIDE DEF w, e
  <2>3. /\ Len(queue) + 1 \in DOMAIN queue' /\ queue'[Len(queue) + 1] = w
        /\ DOMAIN queue' = DOMAIN queue \cup {Len(queue) + 1}
        /\ \A i \in DOMAIN queue : queue'[i] = queue[i]
        /\ \A t : t # e.target => QueuedFor(t)' = QueuedFor(t)
    BY <2>1, <2>2, Appended
  <2>4. Registry'
    <3>1. ASSUME Installing
          PROVE  /\ outputs'[runtime.target].mode = outputs[runtime.target].mode
                 /\ runtime.target \in Targets
                 /\ AutomaticFor(runtime.target)' = {}
      <4>1. /\ runtime.target \in Targets /\ AutomaticFor(runtime.target) = {}
            /\ outputs[runtime.target].instance = runtime.instance
        BY <3>1 DEF TypeOK, RuntimeTypeOK, Installing, Registry, EntryIsFresh
      <4>2. runtime.target # e.target
        BY <1>2, <2>1, <3>1, <4>1, EventsAreOld DEF e
      <4>3. QueuedFor(runtime.target) \subseteq DOMAIN queue
        BY DEF QueuedFor
      <4> QED
        BY <1>1, <2>3, <4>1, <4>2, <4>3 DEF AutomaticFor
    <3> QED
      BY <1>1, <1>3, <3>1, RegistryKept
  <2>5. Writes'
    <3> USE DEF Writes
    <3>1. (Waiting' <=> Waiting) /\ Settling' = Settling
      BY <1>1 DEF Waiting, Settling
    <3>2. \A t : QueuedFor(t) \subseteq DOMAIN queue
      BY DEF QueuedFor
    <3>3. \A t \in Targets : outputs[t].mode = "manual" => t # e.target
      BY <2>1
    <3>4. OneSafeWrite'
      BY <1>1, <2>2, <2>3, <3>1 DEF OneSafeWrite
    <3>5. SafeWriteIsLast'
      BY <1>1, <2>3, <3>1, <3>2, <3>3 DEF SafeWriteIsLast, OwnedBy
    <3>6. SettledStays'
      <4>1. ASSUME NEW d, Settled(d)
            PROVE  Settled(d)'
        BY <1>1, <2>3, <3>3, <4>1 DEF Settled, OwnedBy
      <4> QED
        BY <1>1, <3>1, <4>1 DEF SettledStays
    <3>7. ManualHolds'
      BY <1>1, <2>3, <3>2, <3>3 DEF ManualHolds
    <3>8. AutomaticWritesHaveOwner'
      BY <1>1, <2>1, <2>2, <2>3 DEF AutomaticWritesHaveOwner, Contains
    <3> QED
      BY <3>4, <3>5, <3>6, <3>7, <3>8
  <2> QED
    BY <2>4, <2>5
<1> QED
  BY <1>4, <1>5 DEF DispatchEvent

LEMMA ManualWriteKeeps ==
  ASSUME IInv, NEW t \in Targets, ManualWrite(t)
  PROVE  Registry' /\ Writes'
<1> USE DEF IInv
<1>1. /\ SameLoops /\ runtime.pc = "idle" /\ queue \in Seq(WriteCommand)
      /\ UNCHANGED <<replies, runtime, device, next_instance, processing_up, loops, events>>
  BY DEF ManualWrite, controlVars, SameLoops, TypeOK
<1>2. /\ ~Waiting /\ Settling = {} /\ ~Waiting' /\ Settling' = {} /\ Quiet /\ Quiet'
  BY <1>1 DEF Waiting, Settling, Quiet
<1>3. SameOwners
  <2>1. CASE UNCHANGED outputs
    BY <2>1 DEF SameOwners
  <2>2. CASE outputs' = SetManual(outputs, t) /\ Contains(outputs, t)
    <3>1. outputs \in Table /\ "manual" \in OutputMode
      BY DEF TypeOK, Table, OutputMode
    <3> QED
      BY <2>2, <3>1, SetModeFacts DEF SetManual, SameOwners, Contains
  <2> QED
    BY <2>1, <2>2 DEF ManualWrite, WriteInstrument, WriteInstrumentFails
<1>4. Registry'
  BY <1>1, <1>2, <1>3, EventsAreOld, RegistryKept
<1>5. CASE UNCHANGED <<queue, outputs>>
  <2>1. runtime'.pc = "idle"
    BY <1>1
  <2>2. /\ Writes /\ queue \in Seq(WriteCommand) /\ UNCHANGED <<queue, device>> /\ SameOwners
        /\ replies'["runtime"] = replies["runtime"] /\ UNCHANGED <<processing_up, outputs>>
        /\ (Waiting' <=> Waiting) /\ ~Waiting /\ Settling' \subseteq Settling
        /\ runtime'.pc # "release_group" /\ Settling' = {}
    BY <1>1, <1>2, <1>3, <1>5, <2>1
  <2> QED
    BY <1>4, <2>2, WritesKept
<1>6. ASSUME NEW w, queue' = Append(queue, w), w.target = t, w.origin = "manual",
             w.client = "none",
             outputs' = SetManual(outputs, t) \/ (UNCHANGED outputs /\ ~Contains(outputs, t))
      PROVE  Writes'
  <2> USE DEF Writes
  <2>1. /\ Len(queue) + 1 \in DOMAIN queue' /\ queue'[Len(queue) + 1] = w
        /\ DOMAIN queue' = DOMAIN queue \cup {Len(queue) + 1}
        /\ \A i \in DOMAIN queue : /\ i < Len(queue) + 1 /\ queue'[i] = queue[i]
        /\ \A u : u # t => QueuedFor(u)' = QueuedFor(u)
    BY <1>1, <1>6, Appended
  <2>2. \A u \in Targets \ {t} : outputs'[u] = outputs[u]
    BY <1>6, SetModeFacts DEF SetManual, TypeOK, Table, OutputMode
  <2>3. \A i \in DOMAIN queue : queue[i].client # "runtime"
    BY <1>2 DEF OneSafeWrite
  <2>4. OneSafeWrite' /\ SafeWriteIsLast' /\ SettledStays'
    BY <1>1, <1>2, <1>6, <2>1, <2>3 DEF OneSafeWrite, SafeWriteIsLast, SettledStays, Quiet
  <2>5. ManualHolds'
    BY <1>1, <1>6, <2>1, <2>2 DEF ManualHolds, QueuedFor
  <2>6. AutomaticWritesHaveOwner'
    <3>1. \A i \in DOMAIN queue : queue[i] \in WriteCommand
      BY <1>1, SequenceElements
    <3>2. \A i \in DOMAIN queue : queue[i].target \in Targets
      BY <3>1 DEF WriteCommand
    <3> QED
      BY <1>3, <1>6, <2>1, <3>2 DEF AutomaticWritesHaveOwner, SameOwners, Contains
  <2> QED
    BY <2>4, <2>5, <2>6
<1>7. CASE WriteInstrument(t) /\ Contains(outputs, t)
  <2> DEFINE w == [id |-> next_completion_id, target |-> t, origin |-> "manual",
                   instance |-> outputs[t].instance, client |-> "none"]
  <2>1. queue' = Append(queue, w) /\ outputs' = SetManual(outputs, t)
    BY <1>7 DEF WriteInstrument, DispatchTracked
  <2>2. w.target = t /\ w.origin = "manual" /\ w.client = "none"
    OBVIOUS
  <2> HIDE DEF w
  <2> QED
    BY <1>4, <1>6, <2>1, <2>2
<1>8. CASE WriteInstrument(t) /\ ~Contains(outputs, t)
  <2> DEFINE w == [id |-> 0, target |-> t, origin |-> "manual",
                   instance |-> 0, client |-> "none"]
  <2>1. queue' = Append(queue, w) /\ UNCHANGED outputs
    BY <1>8 DEF WriteInstrument, DispatchUntracked
  <2>2. w.target = t /\ w.origin = "manual" /\ w.client = "none"
    OBVIOUS
  <2> HIDE DEF w
  <2> QED
    BY <1>4, <1>6, <1>8, <2>1, <2>2
<1> QED
  BY <1>4, <1>5, <1>7, <1>8 DEF ManualWrite, WriteInstrumentFails, DispatchRefused

LEMMA RequestSafeKeeps ==
  ASSUME IInv, RequestSafe
  PROVE  Registry' /\ Writes'
<1> USE DEF IInv
<1> DEFINE c == runtime.controller
<1>1. /\ SameLoops /\ runtime.pc = "apply_safe" /\ ~Waiting /\ queue \in Seq(WriteCommand)
      /\ UNCHANGED <<replies, device, next_instance, processing_up, loops, events>>
  BY DEF RequestSafe, SameLoops, Waiting, TypeOK
<1>2. PICK ticket \in Nat :
        /\ runtime' = [runtime EXCEPT !.pc = "pause_loop", !.ticket = ticket]
        /\ \/ ApplySafeFails(c) /\ ticket = 0
           \/ /\ \E t \in OwnedBy(outputs, c) : ApplySafe(t)
              /\ ticket = next_completion_id /\ ticket # 0
  BY DEF RequestSafe, TypeOK
<1>3. /\ runtime'.pc = "pause_loop" /\ runtime'.ticket = ticket
      /\ runtime'.command = runtime.command /\ runtime'.rest = runtime.rest
      /\ runtime'.controller = c /\ runtime'.group = runtime.group
  BY <1>2 DEF TypeOK, RuntimeTypeOK, Runtime
<1>4. Quiet /\ Quiet' /\ Settling' = Settling /\ (Waiting' <=> ticket # 0)
  BY <1>1, <1>3 DEF Quiet, Settling, Waiting
<1>5. CASE ApplySafeFails(c) /\ ticket = 0
  <2>1. SameOwners /\ UNCHANGED <<outputs, queue>>
    BY <1>5 DEF ApplySafeFails, DispatchFails, DispatchUnroutable, DispatchRefused, SameOwners
  <2>2. Registry'
    BY <1>1, <1>4, <2>1, EventsAreOld, RegistryKept
  <2>3. Writes'
    BY <1>1, <1>3, <1>4, <1>5, <2>1, WritesKept
  <2> QED
    BY <2>2, <2>3
<1>6. ASSUME NEW t \in OwnedBy(outputs, c), ApplySafe(t), ticket # 0
      PROVE  Registry' /\ Writes'
  <2> DEFINE w == [id |-> next_completion_id, target |-> t, origin |-> "safe",
                   instance |-> outputs[t].instance, client |-> "runtime"]
  <2>1. queue' = Append(queue, w) /\ outputs' = SetManual(outputs, t)
    BY <1>6 DEF ApplySafe, DispatchTracked
  <2>2. w.target = t /\ w.origin = "safe" /\ w.client = "runtime"
    OBVIOUS
  <2> HIDE DEF w
  <2>3. t \in Targets /\ Contains(outputs, t) /\ outputs[t].controller = c
    BY DEF OwnedBy
  <2>4. /\ outputs'[t].mode = "manual"
        /\ outputs'[t].controller = outputs[t].controller
        /\ outputs'[t].instance = outputs[t].instance
        /\ \A u \in Targets \ {t} : outputs'[u] = outputs[u]
    <3>1. outputs \in Table /\ "manual" \in OutputMode
      BY DEF TypeOK, Table, OutputMode
    <3> QED
      BY <2>1, <2>3, <3>1, SetModeFacts DEF SetManual
  <2>5. SameOwners
    BY <2>3, <2>4 DEF SameOwners, Contains
  <2>6. Registry'
    BY <1>1, <1>4, <2>5, EventsAreOld, RegistryKept
  <2>7. /\ Len(queue) + 1 \in DOMAIN queue' /\ queue'[Len(queue) + 1] = w
        /\ DOMAIN queue' = DOMAIN queue \cup {Len(queue) + 1}
        /\ \A i \in DOMAIN queue : /\ i < Len(queue) + 1 /\ i \in Nat
                                   /\ queue'[i] = queue[i]
        /\ \A u : u # t => QueuedFor(u)' = QueuedFor(u)
    BY <1>1, <2>1, <2>2, Appended
  <2>8. /\ replies["runtime"] = "none"
        /\ \A i \in DOMAIN queue : queue[i].client # "runtime"
    BY <1>1 DEF Writes, OneSafeWrite
  <2>9. \A d : OwnedBy(outputs', d) = OwnedBy(outputs, d)
    BY <2>5, SameOwnersFacts
  <2>10. OneSafeWrite'
    BY <1>1, <1>4, <1>6, <2>2, <2>7, <2>8 DEF OneSafeWrite
  <2>11. SafeWriteIsLast'
    <3>1. \A u \in OwnedBy(outputs, c) : u = t
      BY <1>4, <2>3 DEF OwnedBy, Registry, NamesAreUnique, Quiet, Installing
    <3>2. Len(queue) + 1 \in QueuedFor(t)' /\ \A j \in QueuedFor(t)' : j <= Len(queue) + 1
      <4>1. Len(queue) \in Nat
        BY <1>1
      <4> QED
        BY <2>2, <2>7, <4>1 DEF QueuedFor
    <3> QED
      BY <1>1, <1>3, <1>4, <2>2, <2>4, <2>7, <2>8, <2>9, <3>1, <3>2 DEF SafeWriteIsLast
  <2>12. SettledStays'
    <3>1. ASSUME NEW d \in Settling
          PROVE  Settled(d)'
      <4>1. d # c
        BY <1>1, <3>1 DEF Settling
      <4>2. Settled(d)
        BY <3>1 DEF Writes, SettledStays
      <4>3. \A u \in OwnedBy(outputs, d) : u \in Targets \ {t}
        BY <2>3, <4>1 DEF OwnedBy
      <4> QED
        BY <1>1, <2>4, <2>7, <2>9, <4>2, <4>3 DEF Settled
    <3> QED
      BY <1>3, <1>4, <3>1 DEF SettledStays
  <2>13. ManualHolds'
    BY <1>1, <2>2, <2>4, <2>7 DEF ManualHolds, QueuedFor, Writes
  <2>14. AutomaticWritesHaveOwner'
    <3>1. \A i \in DOMAIN queue : queue[i] \in WriteCommand
      BY <1>1, SequenceElements
    <3>2. \A i \in DOMAIN queue : queue[i].target \in Targets
      BY <3>1 DEF WriteCommand
    <3> QED
      BY <2>2, <2>5, <2>7, <3>2 DEF AutomaticWritesHaveOwner, SameOwners, Contains, Writes
  <2> QED
    BY <2>6, <2>10, <2>11, <2>12, <2>13, <2>14 DEF Writes
<1> QED
  BY <1>2, <1>5, <1>6

LEMMA ExecuteWriteKeeps ==
  ASSUME IInv, NEW ok \in BOOLEAN, ExecuteWrite(ok)
  PROVE  Registry' /\ Writes'
<1> USE DEF IInv
<1> DEFINE w == Head(queue)
<1>1. /\ SameLoops /\ SameOwners /\ queue \in Seq(WriteCommand) /\ queue # <<>>
      /\ UNCHANGED <<outputs, runtime, next_instance, processing_up, loops, events>>
      /\ queue' = Tail(queue)
  BY DEF ExecuteWrite, SameLoops, SameOwners, TypeOK
<1>2. /\ 1 \in DOMAIN queue /\ w = queue[1] /\ w \in WriteCommand
      /\ \A i \in DOMAIN queue : i \in Nat /\ i >= 1
      /\ \A i \in DOMAIN queue' : /\ i \in Nat /\ i >= 1 /\ i + 1 \in DOMAIN queue
                                  /\ queue'[i] = queue[i + 1]
  BY <1>1, Executed
<1>3. /\ \/ device' = [device EXCEPT ![w.target] = w.origin]
         \/ ~ok /\ UNCHANGED device
      /\ replies' = IF w.client = "none" THEN replies
                    ELSE [replies EXCEPT ![w.client] = IF ok THEN "ok" ELSE "failed"]
  BY DEF ExecuteWrite
<1>4. /\ replies \in [{"dispatcher", "runtime"} -> {"none", "ok", "failed"}]
      /\ device \in [Targets -> Origin \cup {"unknown"}]
      /\ w.target \in Targets /\ w.client \in Client
  BY <1>2 DEF TypeOK, WriteCommand
<1> HIDE DEF w
<1>5. \A t : /\ QueuedFor(t) \subseteq DOMAIN queue
             /\ QueuedFor(t)' \subseteq DOMAIN queue'
             /\ \A k \in QueuedFor(t)' : k + 1 \in QueuedFor(t)
             /\ \A i \in QueuedFor(t) : i # 1 =>
                 i - 1 \in QueuedFor(t)' /\ queue'[i - 1] = queue[i]
  BY <1>1, Executed
<1>6. Registry'
  <2>1. ASSUME Installing
        PROVE  /\ outputs'[runtime.target].mode = outputs[runtime.target].mode
               /\ runtime.target \in Targets
               /\ AutomaticFor(runtime.target)' = {}
    <3>1. runtime.target \in Targets /\ AutomaticFor(runtime.target) = {}
      BY <2>1 DEF TypeOK, RuntimeTypeOK, Installing, Registry, EntryIsFresh
    <3> QED
      BY <1>1, <1>2, <1>5, <3>1 DEF AutomaticFor
  <2> QED
    BY <1>1, <2>1, EventsAreOld, RegistryKept
<1>7. (Waiting' <=> Waiting) /\ Settling' = Settling
  BY <1>1 DEF Waiting, Settling
<1>8. ASSUME w.client = "runtime"
      PROVE  OneSafeWrite' /\ SafeWriteIsLast'
  <2>1. /\ Waiting /\ w.origin = "safe" /\ replies["runtime"] = "none"
        /\ \A i \in DOMAIN queue : queue[i].client = "runtime" => i = 1
    BY <1>2, <1>8 DEF Writes, OneSafeWrite
  <2>2. replies'["runtime"] = IF ok THEN "ok" ELSE "failed"
    BY <1>3, <1>4, <1>8
  <2>3. \A i \in DOMAIN queue' : queue'[i].client # "runtime"
    BY <1>2, <2>1
  <2>4. OneSafeWrite'
    BY <1>7, <2>1, <2>3 DEF OneSafeWrite
  <2>5. SafeWriteIsLast'
    <3>1. ASSUME NEW t \in OwnedBy(outputs, runtime.controller)
          PROVE  /\ outputs[t].mode = "manual" /\ QueuedFor(t)' = {}
                 /\ ok => device'[t] = "safe"
      <4>1. outputs[t].mode = "manual"
        BY <2>1 DEF Writes, SafeWriteIsLast
      <4>2. PICK i \in QueuedFor(t) :
              queue[i].client = "runtime" /\ \A j \in QueuedFor(t) : j <= i
        BY <2>1 DEF Writes, SafeWriteIsLast
      <4>3. i = 1 /\ \A j \in QueuedFor(t) : j <= 1
        BY <1>5, <2>1, <4>2
      <4>4. t = w.target
        BY <1>2, <4>2, <4>3 DEF QueuedFor
      <4>5. ok => device'[t] = "safe"
        BY <1>3, <1>4, <2>1, <4>4
      <4>6. QueuedFor(t)' = {}
        <5> SUFFICES ASSUME NEW k \in QueuedFor(t)'
                     PROVE  FALSE
          OBVIOUS
        <5>1. k + 1 \in QueuedFor(t) /\ k \in DOMAIN queue'
          BY <1>5
        <5>2. k \in Nat /\ k >= 1
          BY <1>2, <5>1
        <5>3. k + 1 <= 1
          BY <4>3, <5>1
        <5> QED
          BY <5>2, <5>3
      <4> QED
        BY <4>1, <4>5, <4>6
    <3>2. \A d : OwnedBy(outputs, d)' = OwnedBy(outputs, d)
      BY <1>1 DEF OwnedBy, Contains
    <3> QED
      BY <1>1, <2>2, <3>1, <3>2 DEF SafeWriteIsLast
  <2> QED
    BY <2>4, <2>5
<1>9. ASSUME w.client # "runtime"
      PROVE  OneSafeWrite' /\ SafeWriteIsLast'
  <2>1. replies'["runtime"] = replies["runtime"]
    BY <1>3, <1>4, <1>9 DEF Client
  <2>2. OneSafeWrite'
    BY <1>2, <1>7, <2>1 DEF Writes, OneSafeWrite
  <2>3. SafeWriteIsLast'
    <3>1. ASSUME NEW t \in OwnedBy(outputs, runtime.controller), Waiting
          PROVE  /\ outputs[t].mode = "manual"
                 /\ replies["runtime"] = "none" =>
                      \E i \in QueuedFor(t)' :
                        queue'[i].client = "runtime" /\ \A j \in QueuedFor(t)' : j <= i
                 /\ replies["runtime"] # "none" => QueuedFor(t)' = {}
                 /\ replies["runtime"] = "ok" => device'[t] = "safe"
      <4>1. /\ outputs[t].mode = "manual"
            /\ replies["runtime"] # "none" => QueuedFor(t) = {}
            /\ replies["runtime"] = "ok" => device[t] = "safe"
        BY <3>1 DEF Writes, SafeWriteIsLast
      <4>2. ASSUME replies["runtime"] = "none"
            PROVE  \E i \in QueuedFor(t)' :
                     queue'[i].client = "runtime" /\ \A j \in QueuedFor(t)' : j <= i
        <5>1. PICK i \in QueuedFor(t) :
                queue[i].client = "runtime" /\ \A j \in QueuedFor(t) : j <= i
          BY <3>1, <4>2 DEF Writes, SafeWriteIsLast
        <5>2. i # 1
          BY <1>2, <1>9, <5>1
        <5>3. i - 1 \in QueuedFor(t)' /\ queue'[i - 1].client = "runtime"
          <6>1. i - 1 \in QueuedFor(t)' /\ queue'[i - 1] = queue[i]
            BY <1>5, <5>2
          <6> QED
            BY <5>1, <6>1
        <5>4. i \in Nat
          BY <1>2, <1>5, <5>1
        <5>5. ASSUME NEW j \in QueuedFor(t)'
              PROVE  j <= i - 1
          <6>1. j + 1 <= i /\ j \in DOMAIN queue'
            BY <1>5, <5>1
          <6>2. j \in Nat
            BY <1>2, <6>1
          <6> QED
            BY <5>4, <6>1, <6>2
        <5> QED
          BY <5>3, <5>5
      <4>3. QueuedFor(t) = {} => QueuedFor(t)' = {} /\ w.target # t
        <5>1. w.target = t => 1 \in QueuedFor(t)
          BY <1>2 DEF QueuedFor
        <5> QED
          BY <1>5, <5>1
      <4>4. QueuedFor(t) = {} => device'[t] = device[t]
        <5>1. t \in Targets
          BY DEF OwnedBy
        <5> QED
          BY <1>3, <1>4, <4>3, <5>1
      <4> QED
        BY <4>1, <4>2, <4>3, <4>4
    <3>2. \A d : OwnedBy(outputs, d)' = OwnedBy(outputs, d)
      BY <1>1 DEF OwnedBy, Contains
    <3> QED
      BY <1>1, <1>7, <2>1, <3>1, <3>2 DEF SafeWriteIsLast
  <2> QED
    BY <2>2, <2>3
<1>10. SettledStays'
  <2>1. ASSUME NEW c, Settled(c)
        PROVE  Settled(c)'
    <3>1. \A t \in OwnedBy(outputs, c) :
            /\ t \in Targets /\ t # w.target /\ QueuedFor(t)' = {}
            /\ outputs[t].mode = "manual" /\ device[t] = "safe"
      <4>1. 1 \in QueuedFor(w.target)
        BY <1>2 DEF QueuedFor
      <4>2. \A t \in OwnedBy(outputs, c) :
              /\ t \in Targets /\ QueuedFor(t) = {}
              /\ outputs[t].mode = "manual" /\ device[t] = "safe"
        BY <2>1 DEF Settled, OwnedBy
      <4> QED
        BY <1>5, <4>1, <4>2
    <3>2. \A t \in OwnedBy(outputs, c) : device'[t] = device[t]
      BY <1>3, <1>4, <3>1
    <3>3. OwnedBy(outputs, c)' = OwnedBy(outputs, c)
      BY <1>1 DEF OwnedBy, Contains
    <3> QED
      BY <1>1, <3>1, <3>2, <3>3 DEF Settled
  <2> QED
    BY <1>1, <1>7, <2>1 DEF Writes, SettledStays
<1>11. ManualHolds'
  <2>1. ASSUME processing_up, NEW t \in Targets, outputs[t].mode = "manual",
               NEW k \in QueuedFor(t)', queue'[k].origin = "automatic"
        PROVE  \E j \in QueuedFor(t)' : k < j /\ queue'[j].origin # "automatic"
    <3>1. k + 1 \in QueuedFor(t) /\ k \in DOMAIN queue'
      BY <1>5
    <3>2. k \in Nat /\ queue[k + 1].origin = "automatic"
      BY <1>2, <2>1, <3>1
    <3>3. PICK j \in QueuedFor(t) : k + 1 < j /\ queue[j].origin # "automatic"
      BY <1>1, <2>1, <3>1, <3>2 DEF Writes, ManualHolds
    <3>4. j \in Nat
      BY <1>2, <1>5, <3>3
    <3>5. j # 1 /\ k < j - 1
      BY <3>2, <3>3, <3>4
    <3>6. j - 1 \in QueuedFor(t)' /\ queue'[j - 1].origin # "automatic"
      BY <1>5, <3>3, <3>5
    <3> QED
      BY <3>5, <3>6
  <2> QED
    BY <1>1, <2>1 DEF ManualHolds
<1>12. AutomaticWritesHaveOwner'
  BY <1>1, <1>2 DEF Writes, AutomaticWritesHaveOwner, Contains
<1> QED
  BY <1>6, <1>8, <1>9, <1>10, <1>11, <1>12 DEF Writes

-----------------------------------------------------------------------------
(***************************************************************************)
(* The theorems.                                                           *)
(***************************************************************************)
LEMMA InvariantInitial ==
  ASSUME Init
  PROVE  IInv
<1>1. TypeOK
  BY TypeInitial
<1>2. /\ runtime.pc = "idle" /\ queue = <<>> /\ events = <<>> /\ Installed = {}
      /\ replies["runtime"] = "none"
      /\ \A t \in Targets : ~Contains(outputs, t)
  BY DEF Init, ServiceInit, IdleRuntime, Begun, Installed, NoLoop, NotRegistered, Contains
<1>3. Registry
  BY <1>2 DEF Registry, InstancesAreOld, EntryIsFresh, NamesAreUnique, EntriesHaveOwners,
     LoopsAreOwners, OwnersHaveLoops, CallsAreSound, Installing
<1>4. Writes
  BY <1>2 DEF Writes, OneSafeWrite, SafeWriteIsLast, SettledStays, Waiting, Settling,
     ManualHolds, AutomaticWritesHaveOwner, QueuedFor
<1> QED
  BY <1>1, <1>3, <1>4 DEF IInv

LEMMA InvariantInductive ==
  ASSUME IInv, [Next]_vars
  PROVE  IInv'
<1>1. TypeOK'
  BY TypeInductive DEF IInv
<1>2. Registry' /\ Writes'
  BY AddControllerKeeps, BeginPauseKeeps, BeginGroupKeeps, BeginResumeKeeps,
     ManualWriteKeeps, InstallLoopKeeps, RollbackRegistrationKeeps, RequestSafeKeeps,
     PauseLoopKeeps, AwaitSafeKeeps, ReleaseControllerKeeps, RemoveLoopKeeps,
     RemoveGroupKeeps, ReleaseGroupKeeps, ResumeLoopKeeps, RollbackResumeKeeps,
     ExecuteWriteKeeps, DispatchEventKeeps, CompleteKeeps, ProcessSampleKeeps, ThreadsKeep
     DEF Next, UserCommand, RuntimeStep, WorkerStep, DispatcherStep
<1> QED
  BY <1>1, <1>2 DEF IInv

LEMMA Invariant == Spec => []IInv
BY InvariantInitial, InvariantInductive, PTL DEF Spec

\* What a manual override puts on the device stays there: no automatic write
\* accepted earlier is executed after it.
THEOREM ManualOverrideHolds == Spec => []ManualHolds
<1>1. IInv => ManualHolds
  BY DEF IInv, Writes
<1> QED
  BY <1>1, Invariant, PTL

\* No automatic write outlives the registration it was authorized under.
THEOREM WritesKeepTheirOwner == Spec => []AutomaticWritesHaveOwner
<1>1. IInv => AutomaticWritesHaveOwner
  BY DEF IInv, Writes
<1> QED
  BY <1>1, Invariant, PTL

\* Ownership is released only with the device at its safe value.
THEOREM ReleaseIsSafe == Spec => []SafeBeforeRelease
<1>1. IInv => SafeBeforeRelease
  <2>1. ASSUME IInv, NEW c \in Releasing
        PROVE  Settled(c)
    BY <2>1 DEF IInv, Writes, SettledStays, Settling, Releasing
  <2> QED
    BY <2>1 DEF SafeBeforeRelease, Settled
<1> QED
  BY <1>1, Invariant, PTL

\* Between commands, every owner has its loop and every loop its output.
THEOREM OwnersAreLoops == Spec => []OwnershipMatchesLoops
<1>1. IInv => OwnershipMatchesLoops
  <2> SUFFICES ASSUME IInv, Idle, processing_up
               PROVE  OwnershipMatchesLoops
    BY DEF OwnershipMatchesLoops
  <2> QED
    BY DEF IInv, Registry, LoopsAreOwners, OwnersHaveLoops, OwnershipMatchesLoops,
       OwnedBy, Installing
<1> QED
  BY <1>1, Invariant, PTL

-----------------------------------------------------------------------------
(***************************************************************************)
(* The inductive invariant of the correlation of writes and completions.   *)
(***************************************************************************)
Tracked == {i \in DOMAIN queue : queue[i].id # 0}

\* Ids are handed out once, in the order of the worker's channel, and the
\* completions come back in that order.
IdsInOrder ==
  /\ \A i, j \in Tracked : i < j => queue[i].id < queue[j].id
  /\ \A i \in Tracked : queue[i].id < next_completion_id
  /\ \A i, j \in DOMAIN completions : i < j => completions[i].id < completions[j].id
  /\ \A i \in DOMAIN completions : \A j \in Tracked : completions[i].id < queue[j].id
  /\ \A i \in DOMAIN completions :
       completions[i].id # 0 /\ completions[i].id < next_completion_id

\* One pending write for each id on its way, and for no other.
IdsArePending ==
  /\ \A p, q \in pending_writes : p.id = q.id => p = q
  /\ \A p \in pending_writes :
       \/ \E i \in Tracked : queue[i].id = p.id
       \/ \E i \in DOMAIN completions : completions[i].id = p.id
  /\ \A i \in Tracked : \E p \in pending_writes : p.id = queue[i].id
  /\ \A i \in DOMAIN completions : \E p \in pending_writes : p.id = completions[i].id

\* What an output has recorded is older than what is on its way to it.
RecordsAreOld ==
  /\ \A t \in Targets : /\ outputs[t].last_applied < next_completion_id
                        /\ outputs[t].last_failure < next_completion_id
  /\ \A p \in pending_writes : outputs[p.target].instance = p.instance =>
       p.id > outputs[p.target].last_applied /\ p.id > outputs[p.target].last_failure

\* A write belongs to an instance that exists or existed, and to a takeover
\* generation its output has reached.
GenerationsAreOld ==
  /\ \A t \in Targets : outputs[t].instance < next_instance
  /\ \A t \in Targets : outputs[t].mode = "pending" => outputs[t].transition # 0
  /\ \A p \in pending_writes :
       /\ p.instance < next_instance
       /\ Contains(outputs, p.target) /\ outputs[p.target].instance = p.instance =>
            p.transition <= outputs[p.target].transition

CInv == IdsInOrder /\ IdsArePending /\ RecordsAreOld /\ GenerationsAreOld

-----------------------------------------------------------------------------
(***************************************************************************)
(* What a step does to an output, as far as the correlation sees it.       *)
(***************************************************************************)
\* The registration goes on: its records stay, its generations grow.
Continued(t) ==
  /\ outputs'[t].instance = outputs[t].instance
  /\ outputs'[t].last_applied = outputs[t].last_applied
  /\ outputs'[t].last_failure = outputs[t].last_failure
  /\ outputs[t].transition <= outputs'[t].transition
  /\ outputs'[t].mode = "pending" => outputs'[t].transition # 0
  /\ Contains(outputs', t) => Contains(outputs, t)

\* The entry is cleared, or filled for an instance nobody has written for.
Renewed(t) ==
  /\ outputs'[t].last_applied = 0 /\ outputs'[t].last_failure = 0
  /\ outputs'[t].mode # "pending"
  /\ outputs'[t].instance < next_instance'
  /\ Contains(outputs', t) => next_instance <= outputs'[t].instance

LEMMA EntryFacts ==
  ASSUME TypeOK, NEW t \in Targets
  PROVE  /\ outputs[t].instance \in Nat /\ outputs[t].transition \in Nat
         /\ outputs[t].last_applied \in Nat /\ outputs[t].last_failure \in Nat
         /\ next_completion_id \in Nat /\ next_completion_id # 0
         /\ next_instance \in Nat /\ next_instance # 0
BY DEF TypeOK, OutputState

LEMMA PendingFacts ==
  ASSUME TypeOK, NEW p \in pending_writes
  PROVE  /\ p.id \in Nat /\ p.target \in Targets
         /\ p.instance \in Nat /\ p.transition \in Nat
BY DEF TypeOK, PendingWrite

LEMMA ChannelFacts ==
  ASSUME TypeOK
  PROVE  /\ DOMAIN queue \subseteq Nat /\ Tracked \subseteq DOMAIN queue
         /\ \A i \in DOMAIN queue : queue[i].id \in Nat
         /\ DOMAIN completions \subseteq Nat
         /\ \A i \in DOMAIN completions : completions[i].id \in Nat
<1>1. queue \in Seq(WriteCommand) /\ completions \in Seq(Completion)
  BY DEF TypeOK
<1>2. /\ DOMAIN queue \subseteq Nat
      /\ \A i \in DOMAIN queue : queue[i] \in WriteCommand
  BY <1>1, SequenceElements
<1>3. /\ DOMAIN completions \subseteq Nat
      /\ \A i \in DOMAIN completions : completions[i] \in Completion
  BY <1>1, SequenceElements
<1> QED
  BY <1>2, <1>3 DEF WriteCommand, Completion, Tracked

\* A pending write has an id of its own that was handed out.
LEMMA PendingIds ==
  ASSUME TypeOK, CInv, NEW p \in pending_writes
  PROVE  p.id # 0 /\ p.id < next_completion_id
BY DEF CInv, IdsInOrder, IdsArePending, Tracked

\* No write and no completion moves.
LEMMA OutputsAge ==
  ASSUME TypeOK, TypeOK', CInv,
         \A t \in Targets : Continued(t) \/ Renewed(t),
         Tracked' = Tracked, \A i \in Tracked : queue'[i].id = queue[i].id,
         UNCHANGED <<completions, pending_writes>>,
         next_completion_id <= next_completion_id', next_instance <= next_instance'
  PROVE  CInv'
<1>1. IdsInOrder'
  <2>1. next_completion_id \in Nat /\ next_completion_id' \in Nat
    BY DEF TypeOK
  <2> QED
    BY <2>1, ChannelFacts DEF CInv, IdsInOrder
<1>2. IdsArePending'
  BY DEF CInv, IdsArePending
<1>3. RecordsAreOld'
  <2>1. ASSUME NEW t \in Targets
        PROVE  /\ outputs'[t].last_applied < next_completion_id'
               /\ outputs'[t].last_failure < next_completion_id'
    <3>1. /\ next_completion_id \in Nat /\ next_completion_id' \in Nat
          /\ next_completion_id # 0
          /\ outputs[t].last_applied \in Nat /\ outputs[t].last_failure \in Nat
      BY EntryFacts DEF TypeOK
    <3>2. CASE Continued(t)
      BY <3>1, <3>2 DEF Continued, CInv, RecordsAreOld
    <3>3. CASE Renewed(t)
      BY <3>1, <3>3 DEF Renewed
    <3> QED
      BY <3>2, <3>3
  <2>2. ASSUME NEW p \in pending_writes, outputs'[p.target].instance = p.instance
        PROVE  /\ p.id > outputs'[p.target].last_applied
               /\ p.id > outputs'[p.target].last_failure
    <3>1. p.target \in Targets /\ p.id \in Nat /\ p.id # 0
      BY PendingFacts, PendingIds
    <3>2. CASE Continued(p.target)
      BY <2>2, <3>2 DEF Continued, CInv, RecordsAreOld
    <3>3. CASE Renewed(p.target)
      BY <3>1, <3>3 DEF Renewed
    <3> QED
      BY <3>1, <3>2, <3>3
  <2> QED
    BY <2>1, <2>2 DEF RecordsAreOld
<1>4. GenerationsAreOld'
  <2>1. next_instance \in Nat /\ next_instance' \in Nat
    BY DEF TypeOK
  <2>2. ASSUME NEW t \in Targets
        PROVE  /\ outputs'[t].instance < next_instance'
               /\ outputs'[t].mode = "pending" => outputs'[t].transition # 0
    <3>1. outputs[t].instance \in Nat
      BY EntryFacts
    <3>2. CASE Continued(t)
      BY <2>1, <3>1, <3>2 DEF Continued, CInv, GenerationsAreOld
    <3>3. CASE Renewed(t)
      BY <3>3 DEF Renewed
    <3> QED
      BY <3>2, <3>3
  <2>3. ASSUME NEW p \in pending_writes
        PROVE  /\ p.instance < next_instance'
               /\ Contains(outputs', p.target) /\ outputs'[p.target].instance = p.instance
                  => p.transition <= outputs'[p.target].transition
    <3>1. /\ p.target \in Targets /\ p.instance \in Nat /\ p.transition \in Nat
          /\ outputs[p.target].transition \in Nat
          /\ outputs'[p.target].transition \in Nat
      BY PendingFacts, EntryFacts DEF TypeOK, OutputState
    <3>2. p.instance < next_instance
      BY DEF CInv, GenerationsAreOld
    <3>3. CASE Continued(p.target)
      BY <2>1, <3>1, <3>2, <3>3 DEF Continued, CInv, GenerationsAreOld
    <3>4. CASE Renewed(p.target)
      BY <2>1, <3>1, <3>2, <3>4 DEF Renewed
    <3> QED
      BY <3>1, <3>3, <3>4
  <2> QED
    BY <2>2, <2>3 DEF GenerationsAreOld
<1> QED
  BY <1>1, <1>2, <1>3, <1>4 DEF CInv

\* A tracked write enters the worker's channel under the next id.
LEMMA WriteIsTracked ==
  ASSUME TypeOK, TypeOK', CInv, NEW t \in Targets, NEW i \in Nat, NEW transition \in Nat,
         NEW origin, NEW client, DispatchTracked(t, i, transition, origin, client),
         i < next_instance, transition <= outputs[t].transition,
         \A u \in Targets : Continued(u),
         UNCHANGED <<completions, next_instance>>
  PROVE  CInv'
<1> DEFINE n == next_completion_id
           w == [id |-> n, target |-> t, origin |-> origin, instance |-> i,
                 client |-> client]
           new == [id |-> n, target |-> t, instance |-> i, transition |-> transition]
<1>1. /\ n \in Nat /\ n # 0 /\ next_completion_id' = n + 1
      /\ pending_writes' = pending_writes \cup {new}
      /\ queue' = Append(queue, w)
  BY DEF DispatchTracked, TypeOK
<1>2. /\ w.id = n /\ new.id = n /\ new.target = t /\ new.instance = i
      /\ new.transition = transition
  OBVIOUS
<1> HIDE DEF w, new
<1>3. /\ Len(queue) + 1 \in DOMAIN queue' /\ queue'[Len(queue) + 1] = w
      /\ DOMAIN queue' = DOMAIN queue \cup {Len(queue) + 1}
      /\ \A k \in DOMAIN queue : k < Len(queue) + 1 /\ k \in Nat /\ queue'[k] = queue[k]
  BY <1>1, Appended DEF TypeOK
<1>4. /\ Tracked' = Tracked \cup {Len(queue) + 1}
      /\ \A k \in Tracked : queue'[k] = queue[k] /\ k < Len(queue) + 1 /\ k \in Nat
      /\ Len(queue) + 1 \in Nat
  BY <1>1, <1>2, <1>3 DEF Tracked, TypeOK
<1>5. /\ \A k \in Tracked : queue[k].id \in Nat
      /\ \A k \in DOMAIN completions : completions[k].id \in Nat
  BY ChannelFacts
<1>6. IdsInOrder'
  <2>1. /\ \A j, k \in Tracked : j < k => queue[j].id < queue[k].id
        /\ \A k \in Tracked : queue[k].id < n
        /\ \A j \in DOMAIN completions : /\ completions[j].id # 0
                                         /\ completions[j].id < n
                                         /\ \A k \in Tracked : completions[j].id < queue[k].id
        /\ \A j, k \in DOMAIN completions : j < k => completions[j].id < completions[k].id
    BY DEF CInv, IdsInOrder
  <2>2. ASSUME NEW j \in Tracked', NEW k \in Tracked', j < k
        PROVE  queue'[j].id < queue'[k].id
    <3>1. j \in Tracked
      BY <1>4, <2>2
    <3>2. CASE k \in Tracked
      BY <1>4, <2>1, <2>2, <3>1, <3>2
    <3>3. CASE k = Len(queue) + 1
      BY <1>2, <1>3, <1>4, <2>1, <3>1, <3>3
    <3> QED
      BY <1>4, <3>2, <3>3
  <2>3. ASSUME NEW k \in Tracked'
        PROVE  queue'[k].id < n + 1
    <3>1. CASE k \in Tracked
      <4>1. queue'[k].id = queue[k].id
        BY <1>4, <3>1
      <4> QED
        BY <1>1, <1>5, <2>1, <3>1, <4>1
    <3>2. CASE k = Len(queue) + 1
      BY <1>1, <1>2, <1>3, <3>2
    <3> QED
      BY <1>4, <3>1, <3>2
  <2>4. ASSUME NEW k \in Tracked', NEW j \in DOMAIN completions
        PROVE  completions[j].id < queue'[k].id
    BY <1>1, <1>2, <1>3, <1>4, <2>1
  <2>5. \A j \in DOMAIN completions : completions[j].id < n + 1
    BY <1>1, <1>5, <2>1
  <2> QED
    BY <1>1, <2>1, <2>2, <2>3, <2>4, <2>5 DEF IdsInOrder
<1>7. IdsArePending'
  <2>1. \A p \in pending_writes : p.id # n
    BY <1>1, PendingIds, PendingFacts
  <2>2. \A p, q \in pending_writes' : p.id = q.id => p = q
    <3>1. \A p, q \in pending_writes : p.id = q.id => p = q
      BY DEF CInv, IdsArePending
    <3> QED
      BY <1>1, <1>2, <2>1, <3>1
  <2>3. \E k \in Tracked' : queue'[k].id = new.id
    BY <1>2, <1>3, <1>4
  <2>4. ASSUME NEW p \in pending_writes
        PROVE  \/ \E k \in Tracked' : queue'[k].id = p.id
               \/ \E k \in DOMAIN completions : completions[k].id = p.id
    <3>1. \/ \E k \in Tracked : queue[k].id = p.id
          \/ \E k \in DOMAIN completions : completions[k].id = p.id
      BY DEF CInv, IdsArePending
    <3>2. ASSUME NEW k \in Tracked, queue[k].id = p.id
          PROVE  k \in Tracked' /\ queue'[k].id = p.id
      BY <1>4, <3>2
    <3> QED
      BY <3>1, <3>2
  <2>5. ASSUME NEW k \in Tracked'
        PROVE  \E p \in pending_writes' : p.id = queue'[k].id
    <3>1. CASE k \in Tracked
      <4>1. PICK p \in pending_writes : p.id = queue[k].id
        BY <3>1 DEF CInv, IdsArePending
      <4> QED
        BY <1>1, <1>4, <3>1, <4>1
    <3>2. CASE k = Len(queue) + 1
      BY <1>1, <1>2, <1>3, <3>2
    <3> QED
      BY <1>4, <3>1, <3>2
  <2>6. \A k \in DOMAIN completions : \E p \in pending_writes' : p.id = completions[k].id
    BY <1>1 DEF CInv, IdsArePending
  <2>7. \A p \in pending_writes' : p = new \/ p \in pending_writes
    BY <1>1
  <2>8. ASSUME NEW p \in pending_writes'
        PROVE  \/ \E k \in Tracked' : queue'[k].id = p.id
               \/ \E k \in DOMAIN completions : completions[k].id = p.id
    BY <2>3, <2>4, <2>7, Zenon
  <2>9. completions' = completions
    OBVIOUS
  <2> QED
    BY <2>2, <2>5, <2>6, <2>8, <2>9, Zenon DEF IdsArePending
<1>8. RecordsAreOld'
  <2> USE DEF CInv, RecordsAreOld
  <2>1. \A u \in Targets : /\ outputs'[u].last_applied < n /\ outputs'[u].last_applied \in Nat
                           /\ outputs'[u].last_failure < n /\ outputs'[u].last_failure \in Nat
    BY EntryFacts DEF Continued
  <2>2. \A u \in Targets : /\ outputs'[u].last_applied < n + 1
                           /\ outputs'[u].last_failure < n + 1
    BY <1>1, <2>1
  <2>3. ASSUME NEW p \in pending_writes', outputs'[p.target].instance = p.instance
        PROVE  /\ p.id > outputs'[p.target].last_applied
               /\ p.id > outputs'[p.target].last_failure
    <3>1. CASE p = new
      BY <1>1, <1>2, <2>1, <3>1
    <3>2. CASE p \in pending_writes
      BY <2>3, <3>2, PendingFacts DEF Continued
    <3> QED
      BY <1>1, <3>1, <3>2
  <2> QED
    BY <1>1, <2>2, <2>3
<1>9. GenerationsAreOld'
  <2> USE DEF CInv, GenerationsAreOld
  <2>1. \A u \in Targets : /\ outputs'[u].instance < next_instance
                           /\ outputs'[u].mode = "pending" => outputs'[u].transition # 0
    BY DEF Continued
  <2>2. \A u \in Targets : /\ outputs[u].transition \in Nat /\ outputs'[u].transition \in Nat
                           /\ outputs[u].transition <= outputs'[u].transition
    BY EntryFacts DEF Continued, TypeOK, OutputState
  <2>3. ASSUME NEW p \in pending_writes'
        PROVE  /\ p.instance < next_instance
               /\ Contains(outputs', p.target) /\ outputs'[p.target].instance = p.instance
                  => p.transition <= outputs'[p.target].transition
    <3>1. CASE p = new
      BY <1>2, <2>2, <3>1
    <3>2. CASE p \in pending_writes
      BY <2>2, <3>2, PendingFacts DEF Continued
    <3> QED
      BY <1>1, <3>1, <3>2
  <2> QED
    BY <2>1, <2>3
<1> QED
  BY <1>6, <1>7, <1>8, <1>9 DEF CInv

-----------------------------------------------------------------------------
(***************************************************************************)
(* The worker and the completions.                                         *)
(***************************************************************************)
\* A tracked write executed becomes the newest completion.
LEMMA ExecuteWriteOrdered ==
  ASSUME TypeOK, TypeOK', CInv, NEW ok \in BOOLEAN, ExecuteWrite(ok)
  PROVE  CInv'
<1> DEFINE w == queue[1]
           n == Len(completions)
<1>1. /\ queue # <<>> /\ queue' = Tail(queue) /\ queue \in Seq(WriteCommand)
      /\ UNCHANGED <<outputs, pending_writes, next_completion_id, next_instance>>
  BY DEF ExecuteWrite, TypeOK
<1>2. /\ 1 \in DOMAIN queue /\ Head(queue) = w /\ w \in WriteCommand
      /\ \A i \in DOMAIN queue : i \in Nat /\ i >= 1
      /\ \A i \in DOMAIN queue' : /\ i \in Nat /\ i >= 1 /\ i + 1 \in DOMAIN queue
                                  /\ queue'[i] = queue[i + 1]
  BY <1>1, Executed
<1>3. DOMAIN queue' = 1 .. (Len(queue) - 1) /\ DOMAIN queue = 1 .. Len(queue)
      /\ Len(queue) \in Nat
  BY <1>1
<1>4. \A i \in DOMAIN queue : i # 1 => i - 1 \in DOMAIN queue' /\ queue'[i - 1] = queue[i]
  BY <1>2, <1>3
<1>5. /\ \A i \in Tracked' : i \in Nat /\ i + 1 \in Tracked /\ queue'[i] = queue[i + 1]
      /\ \A i \in Tracked : i # 1 => i - 1 \in Tracked' /\ queue'[i - 1] = queue[i]
      /\ \A i \in Tracked : i \in Nat /\ i >= 1
      /\ \A i \in Tracked' : i >= 1
  BY <1>2, <1>4 DEF Tracked
<1>6. /\ \A i, j \in Tracked : i < j => queue[i].id < queue[j].id
      /\ \A i \in Tracked : queue[i].id < next_completion_id
      /\ \A i, j \in DOMAIN completions : i < j => completions[i].id < completions[j].id
      /\ \A i \in DOMAIN completions : \A j \in Tracked : completions[i].id < queue[j].id
      /\ \A i \in DOMAIN completions :
           completions[i].id # 0 /\ completions[i].id < next_completion_id
  BY DEF CInv, IdsInOrder
<1>7. /\ RecordsAreOld' /\ GenerationsAreOld'
  BY <1>1 DEF CInv, RecordsAreOld, GenerationsAreOld
<1>8. \A i, j \in Tracked' : i < j => queue'[i].id < queue'[j].id
  BY <1>5, <1>6
<1>9. \A i \in Tracked' : queue'[i].id < next_completion_id
  BY <1>5, <1>6
<1>10. CASE w.id = 0
  <2>1. completions' = completions
    BY <1>2, <1>10 DEF ExecuteWrite
  <2>2. 1 \notin Tracked
    BY <1>10 DEF Tracked
  <2>3. IdsInOrder'
    BY <1>1, <1>5, <1>6, <1>8, <1>9, <2>1 DEF IdsInOrder
  <2>4. \A p \in pending_writes :
          (\E i \in Tracked : queue[i].id = p.id) => \E i \in Tracked' : queue'[i].id = p.id
    BY <1>5, <2>2
  <2>5. \A i \in Tracked' : \E p \in pending_writes : p.id = queue'[i].id
    BY <1>5 DEF CInv, IdsArePending
  <2>6. IdsArePending'
    BY <1>1, <2>1, <2>4, <2>5 DEF CInv, IdsArePending
  <2> QED
    BY <1>7, <2>3, <2>6 DEF CInv
<1>11. CASE w.id # 0
  <2> DEFINE c == [id |-> w.id, ok |-> ok]
  <2>1. completions' = Append(completions, c) /\ completions \in Seq(Completion)
    BY <1>2, <1>11 DEF ExecuteWrite, TypeOK
  <2>2. c.id = w.id /\ 1 \in Tracked
    BY <1>2, <1>11 DEF Tracked
  <2> HIDE DEF c
  <2>3. /\ n \in Nat /\ DOMAIN completions = 1 .. n /\ DOMAIN completions' = 1 .. (n + 1)
        /\ completions'[n + 1] = c
        /\ \A i \in DOMAIN completions : completions'[i] = completions[i]
    BY <2>1
  <2> HIDE DEF n
  <2>4. /\ \A i \in DOMAIN completions' : i \in DOMAIN completions \/ i = n + 1
        /\ \A i \in DOMAIN completions : i \in DOMAIN completions' /\ i < n + 1
        /\ n + 1 \in DOMAIN completions'
        /\ \A i \in DOMAIN completions : ~(n + 1 < i)
    BY <2>3
  <2>5. \A j \in Tracked' : w.id < queue'[j].id
    <3>1. \A j \in Tracked' : 1 < j + 1
      BY <1>5
    <3> QED
      BY <1>5, <1>6, <2>2, <3>1
  <2>6. w.id \in Nat /\ w.id < next_completion_id
    BY <1>2, <1>6, <2>2 DEF WriteCommand
  <2>7. IdsInOrder'
    <3>1. ASSUME NEW i \in DOMAIN completions'
          PROVE  /\ completions'[i].id # 0 /\ completions'[i].id < next_completion_id
                 /\ \A j \in Tracked' : completions'[i].id < queue'[j].id
      BY <1>5, <1>6, <1>11, <2>2, <2>3, <2>4, <2>5, <2>6
    <3>2. ASSUME NEW i \in DOMAIN completions', NEW j \in DOMAIN completions', i < j
          PROVE  completions'[i].id < completions'[j].id
      <4>1. i \in DOMAIN completions
        BY <2>3, <2>4, <3>2
      <4>2. CASE j \in DOMAIN completions
        BY <1>6, <2>3, <3>2, <4>1, <4>2
      <4>3. CASE j = n + 1
        BY <1>6, <2>2, <2>3, <4>1, <4>3
      <4> QED
        BY <2>4, <4>2, <4>3
    <3> QED
      BY <1>1, <1>8, <1>9, <3>1, <3>2 DEF IdsInOrder
  <2>8. IdsArePending'
    <3>1. /\ \A p, q \in pending_writes : p.id = q.id => p = q
          /\ \A p \in pending_writes :
               \/ \E i \in Tracked : queue[i].id = p.id
               \/ \E i \in DOMAIN completions : completions[i].id = p.id
          /\ \A i \in Tracked : \E p \in pending_writes : p.id = queue[i].id
          /\ \A i \in DOMAIN completions : \E p \in pending_writes : p.id = completions[i].id
      BY DEF CInv, IdsArePending
    <3>2. ASSUME NEW p \in pending_writes
          PROVE  \/ \E i \in Tracked' : queue'[i].id = p.id
                 \/ \E i \in DOMAIN completions' : completions'[i].id = p.id
      <4>1. ASSUME NEW i \in DOMAIN completions, completions[i].id = p.id
            PROVE  i \in DOMAIN completions' /\ completions'[i].id = p.id
        BY <2>3, <2>4, <4>1
      <4>2. ASSUME NEW i \in Tracked, queue[i].id = p.id
            PROVE  \/ i # 1 /\ i - 1 \in Tracked' /\ queue'[i - 1].id = p.id
                   \/ n + 1 \in DOMAIN completions' /\ completions'[n + 1].id = p.id
        BY <1>5, <2>2, <2>3, <2>4, <4>2
      <4> QED
        BY <3>1, <4>1, <4>2
    <3>3. \A i \in Tracked' : \E p \in pending_writes : p.id = queue'[i].id
      BY <1>5, <3>1
    <3>4. \A i \in DOMAIN completions' : \E p \in pending_writes : p.id = completions'[i].id
      BY <2>2, <2>3, <2>4, <3>1
    <3> QED
      BY <1>1, <3>1, <3>2, <3>3, <3>4 DEF IdsArePending
  <2> QED
    BY <1>7, <2>7, <2>8 DEF CInv
<1> QED
  BY <1>10, <1>11

\* What the oldest completion says, and about which write.
LEMMA OldestCompletion ==
  ASSUME TypeOK, CInv, HandleWriteCompletion
  PROVE  /\ 1 \in DOMAIN completions /\ Head(completions) = completions[1]
         /\ completions[1] \in Completion
         /\ \A i \in DOMAIN completions' : /\ i \in Nat /\ i + 1 \in DOMAIN completions
                                           /\ i + 1 # 1
                                           /\ completions'[i] = completions[i + 1]
         /\ \A i \in DOMAIN completions : i # 1 =>
              /\ i - 1 \in DOMAIN completions' /\ completions'[i - 1] = completions[i]
              /\ completions[1].id < completions[i].id
         /\ \E p \in pending_writes :
              /\ p.id = completions[1].id
              /\ pending_writes' = pending_writes \ {p}
              /\ outputs' = CompletedOutputs(p, completions[1].ok)
         /\ UNCHANGED <<next_completion_id, queue>>
<1>1. /\ completions \in Seq(Completion) /\ completions # <<>>
      /\ completions' = Tail(completions)
  BY DEF HandleWriteCompletion, TypeOK
<1>2. /\ DOMAIN completions = 1 .. Len(completions) /\ Len(completions) \in Nat
      /\ DOMAIN completions' = 1 .. (Len(completions) - 1)
      /\ \A i \in DOMAIN completions' : completions'[i] = completions[i + 1]
      /\ Len(completions) # 0
  BY <1>1
<1>3. 1 \in DOMAIN completions /\ Head(completions) = completions[1]
      /\ completions[1] \in Completion
  BY <1>1
<1>4. \A i \in DOMAIN completions' : i \in Nat /\ i + 1 \in DOMAIN completions /\ i + 1 # 1
  BY <1>2
<1>5. \A i \in DOMAIN completions : i # 1 =>
        i - 1 \in DOMAIN completions' /\ completions'[i - 1] = completions[i]
  BY <1>2
<1>6. \A i \in DOMAIN completions : i # 1 => completions[1].id < completions[i].id
  BY <1>2, <1>3 DEF CInv, IdsInOrder
<1>7. \E p \in pending_writes : p.id = completions[1].id
  BY <1>3 DEF CInv, IdsArePending
<1>8. \E p \in pending_writes : /\ p.id = completions[1].id
                                /\ pending_writes' = pending_writes \ {p}
                                /\ outputs' = CompletedOutputs(p, completions[1].ok)
  BY <1>3, <1>7 DEF HandleWriteCompletion
<1> QED
  BY <1>2, <1>3, <1>4, <1>5, <1>6, <1>8 DEF HandleWriteCompletion

\* Handling a completion changes the entry of its own output at most.
LEMMA CompletedEntry ==
  ASSUME TypeOK, NEW p \in pending_writes, NEW ok \in BOOLEAN
  PROVE  LET new == CompletedOutputs(p, ok)
             t == p.target
         IN  /\ \A u \in Targets \ {t} : new[u] = outputs[u]
             /\ new[t].instance = outputs[t].instance
             /\ new[t].transition = outputs[t].transition
             /\ new[t].last_applied \in {outputs[t].last_applied, p.id}
             /\ new[t].last_failure \in {outputs[t].last_failure, p.id}
             /\ new[t].mode = IF /\ ok /\ AcceptsSuccess(outputs, t, p.instance, p.id)
                                 /\ p.transition # 0
                                 /\ MayCompleteTransition(outputs, t, p.instance, p.transition)
                              THEN "automatic" ELSE outputs[t].mode
<1> DEFINE t == p.target
           acked == AcknowledgeWrite(outputs, t, p.instance, p.id)
           failed == AcknowledgeWriteFailure(outputs, t, p.instance, p.id)
<1>1. t \in Targets /\ outputs \in Table /\ p.id \in Nat
  BY PendingFacts DEF TypeOK, Table
<1>2. /\ acked \in Table
      /\ \A u \in Targets \ {t} : acked[u] = outputs[u]
      /\ acked[t].mode = outputs[t].mode /\ acked[t].instance = outputs[t].instance
      /\ acked[t].transition = outputs[t].transition
      /\ acked[t].last_applied \in {outputs[t].last_applied, p.id}
      /\ acked[t].last_failure = outputs[t].last_failure
  BY <1>1 DEF AcknowledgeWrite, Table, OutputState
<1>3. /\ \A u \in Targets \ {t} : failed[u] = outputs[u]
      /\ failed[t].mode = outputs[t].mode /\ failed[t].instance = outputs[t].instance
      /\ failed[t].transition = outputs[t].transition
      /\ failed[t].last_applied = outputs[t].last_applied
      /\ failed[t].last_failure \in {outputs[t].last_failure, p.id}
  BY <1>1 DEF AcknowledgeWriteFailure, Table, OutputState
<1>4. MayCompleteTransition(acked, t, p.instance, p.transition)
        <=> MayCompleteTransition(outputs, t, p.instance, p.transition)
  BY <1>2 DEF MayCompleteTransition, Contains
<1>5. CompletedOutputs(p, ok) =
        IF ~ok THEN failed
        ELSE IF /\ AcceptsSuccess(outputs, t, p.instance, p.id) /\ p.transition # 0
                /\ MayCompleteTransition(outputs, t, p.instance, p.transition)
             THEN SetMode(acked, t, "automatic")
             ELSE acked
  BY <1>4 DEF CompletedOutputs, CompleteAutomaticTransition
<1> HIDE DEF acked, failed
<1>6. /\ \A u \in Targets \ {t} : SetMode(acked, t, "automatic")[u] = acked[u]
      /\ SetMode(acked, t, "automatic")[t] = [acked[t] EXCEPT !.mode = "automatic"]
  BY <1>1, <1>2 DEF SetMode, Table
<1>7. LET new == SetMode(acked, t, "automatic")
      IN  /\ new[t].mode = "automatic" /\ new[t].instance = acked[t].instance
          /\ new[t].transition = acked[t].transition
          /\ new[t].last_applied = acked[t].last_applied
          /\ new[t].last_failure = acked[t].last_failure
  BY <1>1, <1>2, <1>6 DEF Table, OutputState
<1> QED
  BY <1>2, <1>3, <1>5, <1>6, <1>7

\* The oldest completion is forgotten together with its write.
LEMMA CompleteOrdered ==
  ASSUME TypeOK, TypeOK', CInv, Complete
  PROVE  CInv'
<1>1. /\ 1 \in DOMAIN completions /\ completions[1] \in Completion
      /\ \A i \in DOMAIN completions' : /\ i \in Nat /\ i + 1 \in DOMAIN completions
                                        /\ i + 1 # 1
                                        /\ completions'[i] = completions[i + 1]
      /\ \A i \in DOMAIN completions : i # 1 =>
           /\ i - 1 \in DOMAIN completions' /\ completions'[i - 1] = completions[i]
           /\ completions[1].id < completions[i].id
      /\ UNCHANGED <<next_completion_id, queue>>
  BY OldestCompletion DEF Complete
<1>2. PICK p \in pending_writes : /\ p.id = completions[1].id
                                  /\ pending_writes' = pending_writes \ {p}
                                  /\ outputs' = CompletedOutputs(p, completions[1].ok)
  BY OldestCompletion DEF Complete
<1>3. completions[1].ok \in BOOLEAN /\ p.target \in Targets /\ p.id \in Nat
      /\ p.id < next_completion_id
  BY <1>1, PendingFacts, PendingIds DEF Completion
<1>4. /\ \A u \in Targets \ {p.target} : outputs'[u] = outputs[u]
      /\ outputs'[p.target].instance = outputs[p.target].instance
      /\ outputs'[p.target].transition = outputs[p.target].transition
      /\ outputs'[p.target].last_applied \in {outputs[p.target].last_applied, p.id}
      /\ outputs'[p.target].last_failure \in {outputs[p.target].last_failure, p.id}
      /\ outputs'[p.target].mode \in {outputs[p.target].mode, "automatic"}
      /\ Contains(outputs', p.target) => Contains(outputs, p.target)
  BY <1>2, <1>3, CompletedEntry DEF Contains, AcceptsSuccess
<1>5. Tracked' = Tracked
  BY <1>1 DEF Tracked
<1>6. /\ \A i, j \in Tracked : i < j => queue[i].id < queue[j].id
      /\ \A i \in Tracked : queue[i].id < next_completion_id
      /\ \A i, j \in DOMAIN completions : i < j => completions[i].id < completions[j].id
      /\ \A i \in DOMAIN completions : \A j \in Tracked : completions[i].id < queue[j].id
      /\ \A i \in DOMAIN completions :
           completions[i].id # 0 /\ completions[i].id < next_completion_id
  BY DEF CInv, IdsInOrder
<1>7. IdsInOrder'
  <2>1. \A i, j \in DOMAIN completions' : i < j => i + 1 < j + 1
    BY <1>1
  <2>2. \A i, j \in DOMAIN completions' : i < j => completions'[i].id < completions'[j].id
    BY <1>1, <1>6, <2>1
  <2> QED
    BY <1>1, <1>5, <1>6, <2>2 DEF IdsInOrder
<1>8. /\ \A q, r \in pending_writes : q.id = r.id => q = r
      /\ \A q \in pending_writes :
           \/ \E i \in Tracked : queue[i].id = q.id
           \/ \E i \in DOMAIN completions : completions[i].id = q.id
      /\ \A i \in Tracked : \E q \in pending_writes : q.id = queue[i].id
      /\ \A i \in DOMAIN completions : \E q \in pending_writes : q.id = completions[i].id
  BY DEF CInv, IdsArePending
<1>9. \A q \in pending_writes' : q \in pending_writes /\ q.id # p.id
  BY <1>2, <1>8
<1>10. IdsArePending'
  <2>1. ASSUME NEW q \in pending_writes'
        PROVE  \/ \E i \in Tracked : queue[i].id = q.id
               \/ \E i \in DOMAIN completions' : completions'[i].id = q.id
    <3>1. ASSUME NEW i \in DOMAIN completions, completions[i].id = q.id
          PROVE  i - 1 \in DOMAIN completions' /\ completions'[i - 1].id = q.id
      BY <1>1, <1>2, <1>9, <3>1
    <3> QED
      BY <1>8, <1>9, <3>1
  <2>2. ASSUME NEW i \in Tracked
        PROVE  \E q \in pending_writes' : q.id = queue[i].id
    <3>1. PICK q \in pending_writes : q.id = queue[i].id
      BY <1>8
    <3>2. q.id # p.id
      <4>1. completions[1].id < queue[i].id /\ queue[i].id \in Nat
        BY <1>1, <1>6, ChannelFacts
      <4> QED
        BY <1>2, <1>3, <3>1, <4>1
    <3> QED
      BY <1>2, <3>1, <3>2
  <2>3. ASSUME NEW i \in DOMAIN completions'
        PROVE  \E q \in pending_writes' : q.id = completions'[i].id
    <3>1. PICK q \in pending_writes : q.id = completions[i + 1].id
      BY <1>1, <1>8
    <3>2. q.id # p.id
      <4>1. completions[1].id < completions[i + 1].id /\ completions[i + 1].id \in Nat
        BY <1>1, ChannelFacts
      <4> QED
        BY <1>2, <1>3, <3>1, <4>1
    <3> QED
      BY <1>1, <1>2, <3>1, <3>2
  <2> QED
    BY <1>1, <1>5, <1>8, <1>9, <2>1, <2>2, <2>3 DEF IdsArePending
<1>11. RecordsAreOld'
  <2>1. \A q \in pending_writes' : q.id > p.id
    <3> SUFFICES ASSUME NEW q \in pending_writes' PROVE q.id > p.id
      OBVIOUS
    <3>1. CASE \E i \in Tracked : queue[i].id = q.id
      BY <1>1, <1>2, <1>6, <3>1
    <3>2. CASE \E i \in DOMAIN completions : completions[i].id = q.id
      BY <1>1, <1>2, <1>9, <3>2
    <3> QED
      BY <1>8, <1>9, <3>1, <3>2
  <2>2. /\ \A t \in Targets : /\ outputs[t].last_applied < next_completion_id
                              /\ outputs[t].last_failure < next_completion_id
        /\ \A q \in pending_writes : outputs[q.target].instance = q.instance =>
             /\ q.id > outputs[q.target].last_applied
             /\ q.id > outputs[q.target].last_failure
    BY DEF CInv, RecordsAreOld
  <2>3. \A t \in Targets : /\ outputs'[t].last_applied < next_completion_id
                           /\ outputs'[t].last_failure < next_completion_id
    BY <1>3, <1>4, <2>2
  <2>4. \A q \in pending_writes' : outputs'[q.target].instance = q.instance =>
          q.id > outputs'[q.target].last_applied /\ q.id > outputs'[q.target].last_failure
    BY <1>4, <1>9, <2>1, <2>2, PendingFacts
  <2> QED
    BY <1>1, <2>3, <2>4 DEF RecordsAreOld
<1>12. GenerationsAreOld'
  <2>1. next_instance' = next_instance
    BY DEF Complete, controlVars
  <2>2. \A t \in Targets : outputs[t].instance < next_instance
    BY DEF CInv, GenerationsAreOld
  <2>3. \A t \in Targets : outputs[t].mode = "pending" => outputs[t].transition # 0
    BY DEF CInv, GenerationsAreOld
  <2>4. \A q \in pending_writes :
          /\ q.instance < next_instance
          /\ Contains(outputs, q.target) /\ outputs[q.target].instance = q.instance =>
               q.transition <= outputs[q.target].transition
    BY DEF CInv, GenerationsAreOld
  <2>5. \A t \in Targets : /\ outputs'[t].instance = outputs[t].instance
                           /\ outputs'[t].transition = outputs[t].transition
                           /\ outputs'[t].mode = "pending" => outputs[t].mode = "pending"
                           /\ Contains(outputs', t) => Contains(outputs, t)
    BY <1>4 DEF Contains
  <2> QED
    BY <1>9, <2>1, <2>2, <2>3, <2>4, <2>5, PendingFacts DEF GenerationsAreOld
<1> QED
  BY <1>7, <1>10, <1>11, <1>12 DEF CInv

-----------------------------------------------------------------------------
(***************************************************************************)
(* The other steps: what they do to the table.                             *)
(***************************************************************************)
LEMMA TableStays ==
  ASSUME TypeOK, CInv, outputs' = outputs
  PROVE  \A t \in Targets : Continued(t)
BY EntryFacts DEF CInv, GenerationsAreOld, Continued

LEMMA TurnsManual ==
  ASSUME TypeOK, CInv, NEW t \in Targets, Contains(outputs, t),
         outputs' = SetManual(outputs, t)
  PROVE  /\ \A u \in Targets : Continued(u)
         /\ outputs'[t].mode = "manual"
         /\ \A u \in Targets \ {t} : outputs'[u] = outputs[u]
<1>1. /\ \A u \in Targets \ {t} : outputs'[u] = outputs[u]
      /\ outputs'[t] = [outputs[t] EXCEPT !.mode = "manual"]
      /\ outputs[t] \in OutputState
  BY DEF TypeOK, SetManual, SetMode
<1>2. /\ outputs'[t].mode = "manual"
      /\ outputs'[t].instance = outputs[t].instance
      /\ outputs'[t].transition = outputs[t].transition
      /\ outputs'[t].last_applied = outputs[t].last_applied
      /\ outputs'[t].last_failure = outputs[t].last_failure
  BY <1>1 DEF OutputState
<1>3. \A u \in Targets : outputs[u].mode = "pending" => outputs[u].transition # 0
  BY DEF CInv, GenerationsAreOld
<1>4. Continued(t)
  BY <1>2, EntryFacts DEF Continued, Contains
<1>5. \A u \in Targets \ {t} : Continued(u)
  BY <1>1, <1>3, EntryFacts DEF Continued, Contains
<1> QED
  BY <1>1, <1>2, <1>4, <1>5

\* A takeover begins a generation of its own; nothing was written in it.
LEMMA RequestsAutomatic ==
  ASSUME TypeOK, CInv, NEW t \in Targets, Contains(outputs, t),
         outputs' = RequestAutomatic(outputs, t)
  PROVE  /\ \A u \in Targets : Continued(u)
         /\ \A u \in Targets \ {t} : outputs'[u] = outputs[u]
         /\ \/ outputs' = outputs
            \/ /\ outputs[t].mode = "manual" /\ outputs'[t].mode = "pending"
               /\ outputs'[t].transition = outputs[t].transition + 1
<1>1. CASE outputs[t].mode # "manual"
  BY <1>1, TableStays DEF RequestAutomatic
<1>2. CASE outputs[t].mode = "manual"
  <2>1. /\ \A u \in Targets \ {t} : outputs'[u] = outputs[u]
        /\ outputs'[t] = [outputs[t] EXCEPT !.mode = "pending", !.transition = @ + 1]
        /\ outputs[t] \in OutputState
    BY <1>2 DEF TypeOK, RequestAutomatic, SetMode, NextGeneration, OutputState
  <2>2. /\ outputs'[t].mode = "pending"
        /\ outputs'[t].instance = outputs[t].instance
        /\ outputs'[t].transition = outputs[t].transition + 1
        /\ outputs'[t].last_applied = outputs[t].last_applied
        /\ outputs'[t].last_failure = outputs[t].last_failure
        /\ outputs[t].transition \in Nat
    BY <2>1 DEF OutputState
  <2>3. \A u \in Targets : outputs[u].mode = "pending" => outputs[u].transition # 0
    BY DEF CInv, GenerationsAreOld
  <2>4. Continued(t)
    BY <2>2 DEF Continued
  <2>5. \A u \in Targets \ {t} : Continued(u)
    BY <2>1, <2>3, EntryFacts DEF Continued, Contains
  <2> QED
    BY <1>2, <2>1, <2>2, <2>4, <2>5
<1> QED
  BY <1>1, <1>2

LEMMA TakesRequestBack ==
  ASSUME TypeOK, CInv, NEW t \in Targets, outputs' = RollbackAutomaticRequest(outputs, t)
  PROVE  /\ \A u \in Targets : Continued(u)
         /\ \A u \in Targets \ {t} : outputs'[u] = outputs[u]
         /\ \/ outputs' = outputs
            \/ outputs[t].mode = "pending" /\ outputs'[t].mode = "manual"
<1>1. CASE outputs[t].mode # "pending"
  BY <1>1, TableStays DEF RollbackAutomaticRequest
<1>2. CASE outputs[t].mode = "pending"
  <2>1. outputs' = SetManual(outputs, t) /\ Contains(outputs, t)
    BY <1>2 DEF RollbackAutomaticRequest, SetManual, Contains
  <2> QED
    BY <1>2, <2>1, TurnsManual
<1> QED
  BY <1>1, <1>2

LEMMA IsCleared ==
  ASSUME TypeOK, CInv, NEW t \in Targets, outputs' = UnregisterController(outputs, t),
         next_instance' = next_instance
  PROVE  /\ \A u \in Targets : Continued(u) \/ Renewed(u)
         /\ \A u \in Targets \ {t} : outputs'[u] = outputs[u]
         /\ outputs'[t].mode = "unregistered"
<1>1. /\ \A u \in Targets \ {t} : outputs'[u] = outputs[u]
      /\ outputs'[t] = NotRegistered
  BY DEF TypeOK, UnregisterController
<1>2. Renewed(t)
  BY <1>1, EntryFacts DEF NotRegistered, Renewed, Contains
<1>3. \A u \in Targets \ {t} : Continued(u)
  BY <1>1, EntryFacts DEF CInv, GenerationsAreOld, Continued, Contains
<1> QED
  BY <1>1, <1>2, <1>3 DEF NotRegistered

LEMMA IsFilled ==
  ASSUME TypeOK, CInv, NEW t \in Targets, NEW c, NEW safe,
         outputs' = RegisterController(outputs, t, c, next_instance, safe),
         next_instance' = next_instance + 1
  PROVE  /\ \A u \in Targets : Continued(u) \/ Renewed(u)
         /\ \A u \in Targets \ {t} : outputs'[u] = outputs[u]
         /\ outputs'[t].mode = "automatic"
<1>1. /\ \A u \in Targets \ {t} : outputs'[u] = outputs[u]
      /\ outputs'[t].mode = "automatic" /\ outputs'[t].instance = next_instance
      /\ outputs'[t].last_applied = 0 /\ outputs'[t].last_failure = 0
  BY DEF TypeOK, RegisterController
<1>2. Renewed(t)
  BY <1>1, EntryFacts DEF Renewed
<1>3. \A u \in Targets \ {t} : Continued(u)
  BY <1>1, EntryFacts DEF CInv, GenerationsAreOld, Continued, Contains
<1> QED
  BY <1>1, <1>2, <1>3

\* Nothing the correlation sees moves.
LEMMA NothingMoves ==
  ASSUME TypeOK, TypeOK', CInv, UNCHANGED <<serviceVars, next_instance>>
  PROVE  CInv'
<1>1. \A t \in Targets : Continued(t)
  BY TableStays DEF serviceVars
<1>2. next_completion_id \in Nat /\ next_instance \in Nat
  BY DEF TypeOK
<1> QED
  BY <1>1, <1>2, OutputsAge DEF serviceVars, Tracked

\* A dispatch that fails takes an id at most.
LEMMA FailedDispatch ==
  ASSUME TypeOK, TypeOK', CInv, DispatchFails,
         UNCHANGED <<outputs, completions, next_instance>>
  PROVE  CInv'
<1>1. \A t \in Targets : Continued(t)
  BY TableStays
<1>2. /\ next_completion_id \in Nat /\ next_instance \in Nat
      /\ next_completion_id' \in {next_completion_id, next_completion_id + 1}
      /\ UNCHANGED <<queue, pending_writes>>
  BY DEF TypeOK, DispatchFails, DispatchUnroutable, DispatchRefused
<1>3. next_completion_id <= next_completion_id'
  BY <1>2
<1> QED
  BY <1>1, <1>2, <1>3, OutputsAge DEF Tracked

LEMMA DispatchEventOrdered ==
  ASSUME TypeOK, TypeOK', CInv, DispatchEvent
  PROVE  CInv'
<1> DEFINE e == Head(events)
<1>1. e \in ControlEvent
  BY DEF DispatchEvent, TypeOK
<1>2. e.target \in Targets /\ e.instance \in Nat /\ next_instance' = next_instance
  BY <1>1 DEF ControlEvent, DispatchEvent
<1>3. CASE ApplyAutomatic(e)
  <2>1. /\ outputs' = outputs /\ completions' = completions
        /\ outputs[e.target].instance = e.instance
        /\ DispatchTracked(e.target, e.instance, AutomaticTransition(outputs, e.target),
                           "automatic", "dispatcher")
    BY <1>3 DEF ApplyAutomatic, Authorized
  <2>2. /\ outputs[e.target].transition \in Nat
        /\ AutomaticTransition(outputs, e.target) \in Nat
        /\ AutomaticTransition(outputs, e.target) <= outputs[e.target].transition
    BY <1>2, EntryFacts DEF AutomaticTransition
  <2>3. e.instance < next_instance
    BY <1>2, <2>1 DEF CInv, GenerationsAreOld
  <2>4. \A u \in Targets : Continued(u)
    BY <2>1, TableStays
  <2> HIDE DEF e
  <2> QED
    BY <1>2, <2>1, <2>2, <2>3, <2>4, WriteIsTracked
<1>4. CASE ApplyAutomaticFails(e)
  BY <1>2, <1>4, FailedDispatch DEF ApplyAutomaticFails, DispatchFails
<1> QED
  BY <1>3, <1>4 DEF DispatchEvent

LEMMA RequestSafeOrdered ==
  ASSUME TypeOK, TypeOK', CInv, RequestSafe
  PROVE  CInv'
<1>1. next_instance' = next_instance
  BY DEF RequestSafe
<1>2. ASSUME NEW t \in OwnedBy(outputs, runtime.controller), ApplySafe(t)
      PROVE  CInv'
  <2>1. t \in Targets /\ Contains(outputs, t)
    BY DEF OwnedBy
  <2>2. /\ DispatchTracked(t, outputs[t].instance, 0, "safe", "runtime")
        /\ outputs' = SetManual(outputs, t) /\ completions' = completions
    BY <1>2 DEF ApplySafe
  <2>3. \A u \in Targets : Continued(u)
    BY <2>1, <2>2, TurnsManual
  <2>4. outputs[t].instance < next_instance
    BY <2>1 DEF CInv, GenerationsAreOld
  <2>5. outputs[t].instance \in Nat /\ 0 <= outputs[t].transition
    BY <2>1, EntryFacts
  <2> QED
    BY <1>1, <2>1, <2>2, <2>3, <2>4, <2>5, WriteIsTracked
<1>3. CASE ApplySafeFails(runtime.controller)
  BY <1>1, <1>3, FailedDispatch DEF ApplySafeFails, DispatchFails
<1> QED
  BY <1>2, <1>3 DEF RequestSafe

LEMMA ManualWriteOrdered ==
  ASSUME TypeOK, TypeOK', CInv, NEW t \in Targets, ManualWrite(t)
  PROVE  CInv'
<1>1. next_instance' = next_instance /\ completions' = completions
  BY DEF ManualWrite, controlVars, WriteInstrument, WriteInstrumentFails
<1>2. CASE WriteInstrument(t) /\ Contains(outputs, t)
  <2>1. /\ DispatchTracked(t, outputs[t].instance, 0, "manual", "none")
        /\ outputs' = SetManual(outputs, t)
    BY <1>2 DEF WriteInstrument
  <2>2. \A u \in Targets : Continued(u)
    BY <1>2, <2>1, TurnsManual
  <2>3. outputs[t].instance < next_instance
    BY DEF CInv, GenerationsAreOld
  <2>4. outputs[t].instance \in Nat /\ 0 <= outputs[t].transition
    BY EntryFacts
  <2> QED
    BY <1>1, <2>1, <2>2, <2>3, <2>4, WriteIsTracked
<1>3. CASE WriteInstrument(t) /\ ~Contains(outputs, t)
  <2> DEFINE w == [id |-> 0, target |-> t, origin |-> "manual", instance |-> 0,
                   client |-> "none"]
  <2>1. /\ queue' = Append(queue, w)
        /\ UNCHANGED <<outputs, pending_writes, next_completion_id>>
    BY <1>3 DEF WriteInstrument, DispatchUntracked
  <2>2. w.id = 0
    OBVIOUS
  <2> HIDE DEF w
  <2>3. /\ DOMAIN queue' = DOMAIN queue \cup {Len(queue) + 1}
        /\ queue'[Len(queue) + 1] = w
        /\ \A i \in DOMAIN queue : queue'[i] = queue[i] /\ i # Len(queue) + 1
    BY <2>1, Appended DEF TypeOK
  <2>4. Tracked' = Tracked /\ \A i \in Tracked : queue'[i].id = queue[i].id
    BY <2>2, <2>3 DEF Tracked
  <2>5. \A u \in Targets : Continued(u)
    BY <2>1, TableStays
  <2>6. next_completion_id <= next_completion_id' /\ next_instance <= next_instance'
    BY <1>1, <2>1 DEF TypeOK
  <2>7. UNCHANGED <<completions, pending_writes>>
    BY <1>1, <2>1
  <2> QED
    BY <2>4, <2>5, <2>6, <2>7, OutputsAge
<1>4. CASE WriteInstrumentFails(t)
  BY <1>1, <1>4, FailedDispatch DEF WriteInstrumentFails, DispatchFails
<1> QED
  BY <1>2, <1>3, <1>4 DEF ManualWrite

\* The steps that change the table alone.
LEMMA TableStepOrdered ==
  ASSUME TypeOK, TypeOK', CInv, \A t \in Targets : Continued(t) \/ Renewed(t),
         UNCHANGED <<queue, completions, pending_writes, next_completion_id>>,
         next_instance <= next_instance'
  PROVE  CInv'
<1>1. next_completion_id \in Nat
  BY DEF TypeOK
<1> QED
  BY <1>1, OutputsAge DEF Tracked

LEMMA RegistrationOrdered ==
  ASSUME TypeOK, TypeOK', CInv,
         \/ \E c \in Controllers, t \in Targets, safe \in BOOLEAN : AddController(c, t, safe)
         \/ RollbackRegistration \/ ReleaseController \/ ReleaseGroup
  PROVE  CInv'
<1>1. UNCHANGED <<queue, completions, pending_writes, next_completion_id>>
  BY DEF AddController, RollbackRegistration, ReleaseController, ReleaseGroup
<1>2. next_instance \in Nat
  BY DEF TypeOK
<1>3. ASSUME NEW c \in Controllers, NEW t \in Targets, NEW safe \in BOOLEAN,
             AddController(c, t, safe)
      PROVE  CInv'
  <2>1. next_instance' = next_instance + 1
        /\ \/ outputs' = outputs
           \/ outputs' = RegisterController(outputs, t, c, next_instance, safe)
    BY <1>3 DEF AddController
  <2>2. \A u \in Targets : Continued(u) \/ Renewed(u)
    BY <2>1, TableStays, IsFilled
  <2> QED
    BY <1>1, <1>2, <2>1, <2>2, TableStepOrdered
<1>4. ASSUME NEW t \in Targets, next_instance' = next_instance,
             outputs' = outputs \/ outputs' = UnregisterController(outputs, t)
      PROVE  CInv'
  <2>1. \A u \in Targets : Continued(u) \/ Renewed(u)
    BY <1>4, TableStays, IsCleared
  <2> QED
    BY <1>1, <1>2, <1>4, <2>1, TableStepOrdered
<1>5. CASE outputs' = outputs /\ next_instance' = next_instance
  <2>1. \A u \in Targets : Continued(u)
    BY <1>5, TableStays
  <2> QED
    BY <1>1, <1>2, <1>5, <2>1, TableStepOrdered
<1>6. CASE RollbackRegistration
  BY <1>4, <1>5, <1>6 DEF RollbackRegistration, OwnedBy
<1>7. CASE ReleaseController
  BY <1>4, <1>5, <1>7 DEF ReleaseController, Release, OwnedBy
<1>8. CASE ReleaseGroup
  BY <1>4, <1>5, <1>8 DEF ReleaseGroup, Release, OwnedBy
<1> QED
  BY <1>3, <1>6, <1>7, <1>8

LEMMA ResumeOrdered ==
  ASSUME TypeOK, TypeOK', CInv, (\E c \in Controllers : BeginResume(c)) \/ RollbackResume
  PROVE  CInv'
<1>1. /\ UNCHANGED <<queue, completions, pending_writes, next_completion_id, next_instance>>
      /\ next_instance \in Nat
  BY DEF BeginResume, RollbackResume, TypeOK
<1>2. PICK t \in Targets :
        \/ Contains(outputs, t) /\ outputs' = RequestAutomatic(outputs, t)
        \/ outputs' = RollbackAutomaticRequest(outputs, t)
  BY DEF BeginResume, RollbackResume, OwnedBy
<1>3. \A u \in Targets : Continued(u)
  BY <1>2, RequestsAutomatic, TakesRequestBack
<1> QED
  BY <1>1, <1>3, TableStepOrdered

LEMMA CorrelationInitial == Init => CInv
BY DEF Init, ServiceInit, CInv, IdsInOrder, IdsArePending, RecordsAreOld,
       GenerationsAreOld, Tracked, NotRegistered

LEMMA CorrelationInductive == TypeOK /\ TypeOK' /\ CInv /\ [Next]_vars => CInv'
<1> SUFFICES ASSUME TypeOK, TypeOK', CInv, [Next]_vars PROVE CInv'
  OBVIOUS
<1>1. CASE UNCHANGED vars
  BY <1>1, NothingMoves DEF vars, controlVars
<1>2. CASE UserCommand
  <2>1. CASE \E c \in Controllers : BeginPause("pause", c) \/ BeginPause("remove", c)
    BY <2>1, NothingMoves DEF BeginPause
  <2>2. CASE \E group \in SUBSET Installed :
               BeginGroup("delete", group) \/ BeginGroup("shutdown", group)
    BY <2>2, NothingMoves DEF BeginGroup
  <2> QED
    BY <1>2, <2>1, <2>2, RegistrationOrdered, ResumeOrdered, ManualWriteOrdered
    DEF UserCommand
<1>3. CASE RuntimeStep
  <2>1. CASE InstallLoop \/ PauseLoop \/ AwaitSafe \/ RemoveLoop \/ RemoveGroup \/ ResumeLoop
    BY <2>1, NothingMoves
    DEF InstallLoop, PauseLoop, AwaitSafe, RemoveLoop, RemoveGroup, ResumeLoop
  <2> QED
    BY <1>3, <2>1, RegistrationOrdered, ResumeOrdered, RequestSafeOrdered DEF RuntimeStep
<1>4. CASE WorkerStep
  BY <1>4, ExecuteWriteOrdered DEF WorkerStep
<1>5. CASE DispatcherStep
  <2>1. CASE RecordOutput
    BY <2>1, NothingMoves DEF RecordOutput
  <2> QED
    BY <1>5, <2>1, DispatchEventOrdered DEF DispatcherStep
<1>6. CASE ProcessingStops \/ \E c \in Controllers : ProcessSample(c)
  BY <1>6, NothingMoves DEF ProcessingStops, ProcessSample
<1> QED
  BY <1>1, <1>2, <1>3, <1>4, <1>5, <1>6, CompleteOrdered DEF Next

LEMMA Correlation == Spec => [](IInv /\ CInv)
<1>1. IInv => TypeOK
  BY DEF IInv
<1> QED
  BY <1>1, CorrelationInitial, CorrelationInductive, Invariant, PTL DEF Spec

\* CompletionsAreMatched, for any number of outputs and writes: the ids pending
\* are exactly those queued or completed, completions come in the order of their
\* ids, and none of the current instance is older than what its output records.
THEOREM CompletionsMatch == Spec => []CompletionsAreMatched
<1>1. CInv => CompletionsAreMatched
  <2> SUFFICES ASSUME CInv PROVE CompletionsAreMatched
    OBVIOUS
  <2>1. {p.id : p \in pending_writes} =
          ({queue[i].id : i \in DOMAIN queue} \ {0})
            \cup {completions[i].id : i \in DOMAIN completions}
    <3>1. \A p \in pending_writes :
            p.id \in ({queue[i].id : i \in DOMAIN queue} \ {0})
                       \cup {completions[i].id : i \in DOMAIN completions}
      BY DEF CInv, IdsArePending, Tracked
    <3>2. \A i \in DOMAIN queue : queue[i].id # 0 =>
            \E p \in pending_writes : p.id = queue[i].id
      BY DEF CInv, IdsArePending, Tracked
    <3>3. \A i \in DOMAIN completions : \E p \in pending_writes : p.id = completions[i].id
      BY DEF CInv, IdsArePending
    <3> QED
      BY <3>1, <3>2, <3>3
  <2> QED
    BY <2>1 DEF CompletionsAreMatched, CInv, IdsInOrder, RecordsAreOld
<1> QED
  BY <1>1, Correlation, PTL

-----------------------------------------------------------------------------
(***************************************************************************)
(* OutputControl implements OutputOwnership.                               *)
(***************************************************************************)
ModeOf == [t \in Targets |-> outputs[t].mode]
EarnedOf == [t \in Targets |-> Earned(t)]

\* A completion on its way back earns its output the takeover.
Earns(i, p) ==
  /\ completions[i].ok /\ completions[i].id = p.id
  /\ MayCompleteTransition(outputs, p.target, p.instance, p.transition)

LEMMA EarnedFacts ==
  ASSUME NEW t
  PROVE  /\ Earned(t) <=> /\ outputs[t].mode = "pending"
                          /\ \E i \in DOMAIN completions : \E p \in pending_writes :
                               Earns(i, p) /\ p.target = t
         /\ Earned(t) \in BOOLEAN
BY DEF Earned, Earns

\* One output moves, the others stay as they are.
LEMMA MoveRefines ==
  ASSUME NEW t \in Targets, NEW from, NEW to, outputs[t].mode \in from,
         outputs'[t].mode = to, ~Earned(t)',
         \A u \in Targets \ {t} : outputs'[u].mode = outputs[u].mode,
         \A u \in Targets \ {t} : Earned(u)' <=> Earned(u)
  PROVE  Ownership!Move(t, from, to)
<1>1. ModeOf' = [ModeOf EXCEPT ![t] = to]
  BY DEF ModeOf
<1>2. \A u \in Targets : Earned(u)' = IF u = t THEN FALSE ELSE Earned(u)
  <2>1. \A u \in Targets \ {t} : Earned(u)' = Earned(u)
    BY Zenon DEF Earned
  <2>2. Earned(t)' = FALSE
    BY Zenon DEF Earned
  <2> QED
    BY <2>1, <2>2
<1>3. EarnedOf' = [EarnedOf EXCEPT ![t] = FALSE]
  BY <1>2 DEF EarnedOf
<1>4. ModeOf[t] \in from
  BY DEF ModeOf
<1> QED
  BY <1>1, <1>3, <1>4 DEF Ownership!Move, ModeOf, EarnedOf

\* No output moves and none earns or loses anything.
LEMMA NothingRefines ==
  ASSUME \A u \in Targets : outputs'[u].mode = outputs[u].mode,
         \A u \in Targets : Earned(u)' <=> Earned(u)
  PROVE  UNCHANGED Ownership!ownershipVars
<1>1. ModeOf' = ModeOf
  BY DEF ModeOf
<1>2. \A u \in Targets : Earned(u)' = Earned(u)
  BY Zenon DEF Earned
<1>3. EarnedOf' = EarnedOf
  BY <1>2 DEF EarnedOf
<1> QED
  BY <1>1, <1>3 DEF Ownership!ownershipVars, ModeOf, EarnedOf

\* A write not yet completed earns nothing.
WritesAdded ==
  /\ completions' = completions /\ pending_writes \subseteq pending_writes'
  /\ \A p \in pending_writes' \ pending_writes : \A i \in DOMAIN completions :
       completions[i].id # p.id

LEMMA EarnedStays ==
  ASSUME WritesAdded, NEW u \in Targets, outputs'[u] = outputs[u]
  PROVE  Earned(u)' <=> Earned(u)
<1>1. ASSUME NEW i \in DOMAIN completions, NEW p \in pending_writes', p.target = u,
             Earns(i, p)'
      PROVE  p \in pending_writes /\ Earns(i, p)
  BY <1>1 DEF WritesAdded, Earns, MayCompleteTransition, Contains
<1>2. ASSUME NEW i \in DOMAIN completions, NEW p \in pending_writes, p.target = u,
             Earns(i, p)
      PROVE  p \in pending_writes' /\ Earns(i, p)'
  BY <1>2 DEF WritesAdded, Earns, MayCompleteTransition, Contains
<1>3. DOMAIN completions' = DOMAIN completions
  BY DEF WritesAdded
<1>4. Earned(u)' <=> /\ outputs'[u].mode = "pending"
                     /\ \E i \in DOMAIN completions' : \E p \in pending_writes' :
                          Earns(i, p)' /\ p.target = u
  BY DEF Earned, Earns
<1> QED
  BY <1>1, <1>2, <1>3, <1>4, EarnedFacts

LEMMA TableRefines ==
  ASSUME WritesAdded, NEW t \in Targets, NEW from, NEW to,
         \A u \in Targets \ {t} : outputs'[u] = outputs[u],
         outputs[t].mode \in from, outputs'[t].mode = to, ~Earned(t)'
  PROVE  Ownership!Move(t, from, to)
<1>1. \A u \in Targets \ {t} : Earned(u)' <=> Earned(u)
  BY EarnedStays
<1> QED
  BY <1>1, MoveRefines

LEMMA TrackedWriteAdds ==
  ASSUME TypeOK, CInv, NEW t, NEW i, NEW transition, NEW origin, NEW client,
         DispatchTracked(t, i, transition, origin, client), completions' = completions
  PROVE  WritesAdded
<1>1. \A k \in DOMAIN completions : completions[k].id # next_completion_id
  BY ChannelFacts DEF CInv, IdsInOrder, TypeOK
<1> QED
  BY <1>1 DEF DispatchTracked, WritesAdded

LEMMA FailedWriteAdds ==
  ASSUME DispatchFails, completions' = completions
  PROVE  WritesAdded
BY DEF DispatchFails, DispatchUnroutable, DispatchRefused, WritesAdded

\* The step keeps the promise.
Keeps == [Ownership!OwnershipNext]_(Ownership!ownershipVars)

LEMMA TableStaysRefines ==
  ASSUME WritesAdded, outputs' = outputs
  PROVE  Keeps
<1>1. \A u \in Targets : Earned(u)' <=> Earned(u)
  BY EarnedStays
<1> QED
  BY <1>1, NothingRefines DEF Keeps

LEMMA ServiceRestsRefines ==
  ASSUME UNCHANGED serviceVars
  PROVE  Keeps
<1>1. WritesAdded
  BY DEF WritesAdded, serviceVars
<1> QED
  BY <1>1, TableStaysRefines DEF serviceVars

\* An override takes the output from whichever owner it had.
LEMMA OverrideRefines ==
  ASSUME TypeOK, CInv, WritesAdded, NEW t \in Targets, Contains(outputs, t),
         outputs' = SetManual(outputs, t)
  PROVE  Keeps
<1>1. /\ outputs'[t].mode = "manual"
      /\ \A u \in Targets \ {t} : outputs'[u] = outputs[u]
  BY TurnsManual
<1>2. ~Earned(t)'
  BY <1>1 DEF Earned
<1>3. CASE outputs[t].mode = "manual"
  <2>1. ~Earned(t)
    BY <1>3 DEF Earned
  <2>2. \A u \in Targets : Earned(u)' <=> Earned(u)
    BY <1>1, <1>2, <2>1, EarnedStays
  <2>3. \A u \in Targets : outputs'[u].mode = outputs[u].mode
    BY <1>1, <1>3
  <2> QED
    BY <2>2, <2>3, NothingRefines DEF Keeps
<1>4. CASE outputs[t].mode # "manual"
  <2>1. outputs[t].mode \in {"automatic", "pending"}
    BY <1>4 DEF TypeOK, OutputState, OutputMode, Contains
  <2>2. Ownership!Move(t, {"automatic", "pending"}, "manual")
    BY <1>1, <1>2, <2>1, TableRefines
  <2> QED
    BY <2>2 DEF Ownership!Override, Ownership!OwnershipNext, Keeps
<1> QED
  BY <1>3, <1>4

LEMMA WritingRefines ==
  ASSUME TypeOK, CInv,
         DispatchEvent \/ RequestSafe \/ \E t \in Targets : ManualWrite(t)
  PROVE  Keeps
<1>1. CASE DispatchEvent
  BY <1>1, TrackedWriteAdds, FailedWriteAdds, TableStaysRefines
  DEF DispatchEvent, ApplyAutomatic, ApplyAutomaticFails, DispatchFails
<1>2. CASE RequestSafe
  <2>1. ASSUME NEW t \in OwnedBy(outputs, runtime.controller), ApplySafe(t)
        PROVE  Keeps
    BY <2>1, TrackedWriteAdds, OverrideRefines DEF ApplySafe, OwnedBy
  <2>2. CASE ApplySafeFails(runtime.controller)
    BY <2>2, FailedWriteAdds, TableStaysRefines DEF ApplySafeFails, DispatchFails
  <2> QED
    BY <1>2, <2>1, <2>2 DEF RequestSafe
<1>3. ASSUME NEW t \in Targets, ManualWrite(t)
      PROVE  Keeps
  <2>1. CASE WriteInstrument(t) /\ Contains(outputs, t)
    BY <2>1, TrackedWriteAdds, OverrideRefines DEF WriteInstrument
  <2>2. CASE WriteInstrument(t) /\ ~Contains(outputs, t)
    <3>1. WritesAdded /\ outputs' = outputs
      BY <2>2 DEF WriteInstrument, DispatchUntracked, WritesAdded
    <3> QED
      BY <3>1, TableStaysRefines
  <2>3. CASE WriteInstrumentFails(t)
    BY <2>3, FailedWriteAdds, TableStaysRefines DEF WriteInstrumentFails, DispatchFails
  <2> QED
    BY <1>3, <2>1, <2>2, <2>3 DEF ManualWrite
<1> QED
  BY <1>1, <1>2, <1>3

LEMMA RegistrationRefines ==
  ASSUME TypeOK, Registry, CInv,
         \/ \E c \in Controllers, t \in Targets, safe \in BOOLEAN : AddController(c, t, safe)
         \/ RollbackRegistration \/ ReleaseController \/ ReleaseGroup
  PROVE  Keeps
<1>1. WritesAdded
  BY DEF AddController, RollbackRegistration, ReleaseController, ReleaseGroup, WritesAdded
<1>2. ASSUME NEW c \in Controllers, NEW t \in Targets, NEW safe \in BOOLEAN,
             AddController(c, t, safe)
      PROVE  Keeps
  <2>1. CASE outputs' = outputs
    BY <1>1, <2>1, TableStaysRefines
  <2>2. CASE ~Contains(outputs, t)
    <3>1. outputs' = RegisterController(outputs, t, c, next_instance, safe)
          /\ next_instance' = next_instance + 1
      BY <1>2, <2>2 DEF AddController
    <3>2. /\ \A u \in Targets \ {t} : outputs'[u] = outputs[u]
          /\ outputs'[t].mode = "automatic" /\ outputs[t].mode \in {"unregistered"}
      BY <2>2, <3>1, IsFilled DEF Contains
    <3>3. ~Earned(t)'
      BY <3>2 DEF Earned
    <3>4. Ownership!Move(t, {"unregistered"}, "automatic")
      BY <1>1, <3>2, <3>3, TableRefines
    <3> QED
      BY <3>4 DEF Ownership!Register, Ownership!OwnershipNext, Keeps
  <2> QED
    BY <1>2, <2>1, <2>2 DEF AddController
<1>3. ASSUME NEW t \in Targets, outputs' = UnregisterController(outputs, t),
             next_instance' = next_instance, outputs[t].mode \in {"automatic", "manual"}
      PROVE  Keeps
  <2>1. /\ \A u \in Targets \ {t} : outputs'[u] = outputs[u]
        /\ outputs'[t].mode = "unregistered"
    BY <1>3, IsCleared
  <2>2. ~Earned(t)'
    BY <2>1 DEF Earned
  <2>3. CASE outputs[t].mode \in {"automatic"}
    <3>1. Ownership!Move(t, {"automatic"}, "unregistered")
      BY <1>1, <2>1, <2>2, <2>3, TableRefines
    <3> QED
      BY <3>1 DEF Ownership!Unregister, Ownership!OwnershipNext, Keeps
  <2>4. CASE outputs[t].mode \in {"manual"}
    <3>1. Ownership!Move(t, {"manual"}, "unregistered")
      BY <1>1, <2>1, <2>2, <2>4, TableRefines
    <3> QED
      BY <3>1 DEF Ownership!Release, Ownership!OwnershipNext, Keeps
  <2> QED
    BY <1>3, <2>3, <2>4
<1>4. CASE outputs' = outputs
  BY <1>1, <1>4, TableStaysRefines
<1>5. CASE RollbackRegistration
  <2>1. outputs[runtime.target].mode = "automatic"
    BY <1>5 DEF RollbackRegistration, Registry, EntryIsFresh, Installing, At
  <2> QED
    BY <1>3, <1>4, <1>5, <2>1 DEF RollbackRegistration, OwnedBy
<1>6. CASE ReleaseController
  BY <1>3, <1>4, <1>6 DEF ReleaseController, Release, MayRelease, OwnedBy
<1>7. CASE ReleaseGroup
  BY <1>3, <1>4, <1>7 DEF ReleaseGroup, Release, MayRelease, OwnedBy
<1> QED
  BY <1>2, <1>5, <1>6, <1>7

\* A new takeover has earned nothing: no write belongs to its generation.
LEMMA ResumeRefines ==
  ASSUME TypeOK, CInv, (\E c \in Controllers : BeginResume(c)) \/ RollbackResume
  PROVE  Keeps
<1>1. WritesAdded
  BY DEF BeginResume, RollbackResume, WritesAdded
<1>2. PICK t \in Targets :
        \/ Contains(outputs, t) /\ outputs' = RequestAutomatic(outputs, t)
        \/ outputs' = RollbackAutomaticRequest(outputs, t)
  BY DEF BeginResume, RollbackResume, OwnedBy
<1>3. CASE Contains(outputs, t) /\ outputs' = RequestAutomatic(outputs, t)
  <2>1. /\ \A u \in Targets \ {t} : outputs'[u] = outputs[u]
        /\ Continued(t)
        /\ \/ outputs' = outputs
           \/ /\ outputs[t].mode = "manual" /\ outputs'[t].mode = "pending"
              /\ outputs'[t].transition = outputs[t].transition + 1
    BY <1>3, RequestsAutomatic
  <2>2. CASE outputs' = outputs
    BY <1>1, <2>2, TableStaysRefines
  <2>3. CASE /\ outputs[t].mode \in {"manual"} /\ outputs'[t].mode = "pending"
             /\ outputs'[t].transition = outputs[t].transition + 1
    <3>1. outputs[t].transition \in Nat
      BY EntryFacts
    <3>2. \A p \in pending_writes : p.target = t /\ p.instance = outputs[t].instance =>
            p.transition \in Nat /\ p.transition <= outputs[t].transition
      BY <1>3, PendingFacts DEF CInv, GenerationsAreOld
    <3>3. \A p \in pending_writes : p.target = t =>
            ~MayCompleteTransition(outputs', t, p.instance, p.transition)
      BY <2>1, <2>3, <3>1, <3>2 DEF MayCompleteTransition, Continued
    <3>4. ~Earned(t)'
      BY <3>3 DEF Earned, BeginResume, RollbackResume
    <3>5. Ownership!Move(t, {"manual"}, "pending")
      BY <1>1, <2>1, <2>3, <3>4, TableRefines
    <3> QED
      BY <3>5 DEF Ownership!TakeOver, Ownership!OwnershipNext, Keeps
  <2> QED
    BY <2>1, <2>2, <2>3
<1>4. CASE outputs' = RollbackAutomaticRequest(outputs, t)
  <2>1. CASE outputs' = outputs
    BY <1>1, <2>1, TableStaysRefines
  <2>2. CASE outputs[t].mode = "pending"
    <3>1. outputs' = SetManual(outputs, t) /\ Contains(outputs, t)
      BY <1>4, <2>2 DEF RollbackAutomaticRequest, SetManual, Contains
    <3> QED
      BY <1>1, <3>1, OverrideRefines
  <2> QED
    BY <1>4, <2>1, <2>2 DEF RollbackAutomaticRequest
<1> QED
  BY <1>2, <1>3, <1>4

\* Executing a write earns the takeover it was made in, if any.
LEMMA ExecuteWriteRefines ==
  ASSUME TypeOK, CInv, NEW ok \in BOOLEAN, ExecuteWrite(ok)
  PROVE  Keeps
<1> DEFINE w == queue[1]
           n == Len(completions)
           c == [id |-> w.id, ok |-> ok]
<1>1. UNCHANGED <<outputs, pending_writes>>
  BY DEF ExecuteWrite
<1>2. Head(queue) = w /\ 1 \in DOMAIN queue
  BY DEF ExecuteWrite, TypeOK
<1>3. CASE w.id = 0
  <2>1. WritesAdded
    BY <1>1, <1>2, <1>3 DEF ExecuteWrite, WritesAdded
  <2> QED
    BY <1>1, <2>1, TableStaysRefines
<1>4. CASE w.id # 0
  <2>1. completions' = Append(completions, c) /\ completions \in Seq(Completion)
    BY <1>2, <1>4 DEF ExecuteWrite, TypeOK
  <2>2. c.id = w.id
    OBVIOUS
  <2> HIDE DEF c
  <2>3. /\ DOMAIN completions' = DOMAIN completions \cup {n + 1}
        /\ completions'[n + 1] = c
        /\ \A i \in DOMAIN completions : completions'[i] = completions[i]
    BY <2>1
  <2> HIDE DEF n
  <2>4. PICK p \in pending_writes : p.id = w.id
    BY <1>2, <1>4 DEF CInv, IdsArePending, Tracked
  <2>5. \A q \in pending_writes : q.id = w.id => q = p
    BY <2>4 DEF CInv, IdsArePending
  <2>6. p.target \in Targets
    BY PendingFacts
  <2>7. \A u : Earned(u)' <=> /\ outputs[u].mode = "pending"
                              /\ \E i \in DOMAIN completions' : \E q \in pending_writes :
                                   Earns(i, q)' /\ q.target = u
    BY <1>1 DEF Earned, Earns
  <2>8. ASSUME NEW i \in DOMAIN completions, NEW q \in pending_writes
        PROVE  Earns(i, q)' <=> Earns(i, q)
    <3>1. completions'[i] = completions[i]
      BY <2>3
    <3> QED
      BY <1>1, <3>1 DEF Earns
  <2>9. \A u : Earned(u) => Earned(u)'
    BY <2>3, <2>7, <2>8, EarnedFacts
  <2>10. ASSUME NEW u, u # p.target, Earned(u)'
         PROVE  Earned(u)
    <3>1. PICK i \in DOMAIN completions', q \in pending_writes :
            Earns(i, q)' /\ q.target = u
      BY <2>7, <2>10
    <3>2. i \in DOMAIN completions
      <4>1. ASSUME i = n + 1 PROVE FALSE
        <5>1. completions'[n + 1].id = q.id
          BY <1>1, <3>1, <4>1 DEF Earns
        <5>2. q = p
          BY <2>2, <2>3, <2>5, <5>1
        <5> QED
          BY <2>10, <3>1, <5>2
      <4> QED
        BY <2>3, <3>1, <4>1
    <3>3. Earns(i, q)
      BY <2>8, <3>1, <3>2
    <3> QED
      BY <2>7, <2>10, <3>1, <3>2, <3>3, EarnedFacts
  <2>11. CASE Earned(p.target) \/ ~Earned(p.target)'
    <3>1. \A u \in Targets : Earned(u)' <=> Earned(u)
      BY <2>9, <2>10, <2>11
    <3> QED
      BY <1>1, <3>1, NothingRefines DEF Keeps
  <2>12. CASE Earned(p.target)'
    <3>1. outputs[p.target].mode = "pending"
      BY <2>7, <2>12
    <3>2. \A u \in Targets : Earned(u)' = IF u = p.target THEN TRUE ELSE Earned(u)
      <4>1. \A u \in Targets \ {p.target} : Earned(u)' = Earned(u)
        BY <2>9, <2>10, Zenon DEF Earned
      <4>2. Earned(p.target)' = TRUE
        BY <2>12, Zenon DEF Earned
      <4> QED
        BY <4>1, <4>2
    <3>3. EarnedOf' = [EarnedOf EXCEPT ![p.target] = TRUE]
      BY <2>6, <3>2 DEF EarnedOf
    <3>4. ModeOf' = ModeOf /\ ModeOf[p.target] = "pending"
      BY <1>1, <2>6, <3>1 DEF ModeOf
    <3>5. Ownership!Earn(p.target)
      BY <3>3, <3>4 DEF Ownership!Earn, ModeOf, EarnedOf
    <3> QED
      BY <2>6, <3>5 DEF Ownership!OwnershipNext, Keeps
  <2> QED
    BY <2>11, <2>12
<1> QED
  BY <1>3, <1>4

\* A completion confirms the takeover of its write, and only an earned one.
LEMMA CompleteRefines ==
  ASSUME TypeOK, CInv, Complete
  PROVE  Keeps
<1>1. /\ 1 \in DOMAIN completions /\ completions[1] \in Completion
      /\ \A i \in DOMAIN completions' : /\ i + 1 \in DOMAIN completions /\ i + 1 # 1
                                        /\ completions'[i] = completions[i + 1]
      /\ \A i \in DOMAIN completions : i # 1 =>
           /\ i - 1 \in DOMAIN completions' /\ completions'[i - 1] = completions[i]
           /\ completions[1].id < completions[i].id
  BY OldestCompletion DEF Complete
<1>2. PICK p \in pending_writes : /\ p.id = completions[1].id
                                  /\ pending_writes' = pending_writes \ {p}
                                  /\ outputs' = CompletedOutputs(p, completions[1].ok)
  BY OldestCompletion DEF Complete
<1> DEFINE t == p.target
           confirms == Earns(1, p)
<1>3. t \in Targets /\ completions[1].ok \in BOOLEAN
  BY <1>1, PendingFacts DEF Completion
<1>4. /\ \A u \in Targets \ {t} : outputs'[u] = outputs[u]
      /\ outputs'[t].instance = outputs[t].instance
      /\ outputs'[t].transition = outputs[t].transition
      /\ outputs'[t].mode =
           IF /\ completions[1].ok
              /\ AcceptsSuccess(outputs, t, p.instance, p.id) /\ p.transition # 0
              /\ MayCompleteTransition(outputs, t, p.instance, p.transition)
           THEN "automatic" ELSE outputs[t].mode
  BY <1>2, <1>3, CompletedEntry
<1>5. confirms => AcceptsSuccess(outputs, t, p.instance, p.id) /\ p.transition # 0
  BY <1>3
  DEF Earns, AcceptsSuccess, MayCompleteTransition, CInv, RecordsAreOld, GenerationsAreOld
<1>6. outputs'[t].mode = IF confirms THEN "automatic" ELSE outputs[t].mode
  BY <1>2, <1>4, <1>5 DEF Earns
<1>7. /\ \A q \in pending_writes : q.id = p.id => q = p
      /\ \A i \in DOMAIN completions : completions[i].id = p.id => i = 1
  <2>1. \A i \in DOMAIN completions : completions[i].id \in Nat
    BY ChannelFacts
  <2> QED
    BY <1>1, <1>2, <2>1 DEF CInv, IdsArePending
<1>8. \A u : Earned(u)' <=> /\ outputs'[u].mode = "pending"
                            /\ \E i \in DOMAIN completions' : \E q \in pending_writes' :
                                 Earns(i, q)' /\ q.target = u
  BY DEF Earned, Earns
<1>9. ASSUME NEW u \in Targets, outputs'[u].mode = outputs[u].mode,
             outputs'[u].instance = outputs[u].instance,
             outputs'[u].transition = outputs[u].transition,
             u = t => ~confirms
      PROVE  Earned(u)' <=> Earned(u)
  <2>1. ASSUME NEW i \in DOMAIN completions', NEW q \in pending_writes',
               Earns(i, q)', q.target = u
        PROVE  i + 1 \in DOMAIN completions /\ q \in pending_writes /\ Earns(i + 1, q)
    BY <1>1, <1>2, <1>9, <2>1 DEF Earns, MayCompleteTransition, Contains
  <2>2. ASSUME NEW i \in DOMAIN completions, NEW q \in pending_writes,
               Earns(i, q), q.target = u
        PROVE  i - 1 \in DOMAIN completions' /\ q \in pending_writes' /\ Earns(i - 1, q)'
    <3>1. q # p
      BY <1>7, <1>9, <2>2 DEF Earns
    <3>2. i # 1
      BY <1>2, <1>7, <2>2, <3>1 DEF Earns
    <3> QED
      BY <1>1, <1>2, <1>9, <2>2, <3>1, <3>2 DEF Earns, MayCompleteTransition, Contains
  <2> QED
    BY <1>8, <1>9, <2>1, <2>2, EarnedFacts
<1>10. \A u \in Targets \ {t} : Earned(u)' <=> Earned(u)
  BY <1>4, <1>9
<1>11. CASE ~confirms
  <2>1. \A u \in Targets : Earned(u)' <=> Earned(u)
    BY <1>3, <1>4, <1>6, <1>9, <1>10, <1>11
  <2>2. \A u \in Targets : outputs'[u].mode = outputs[u].mode
    BY <1>4, <1>6, <1>11
  <2> QED
    BY <2>1, <2>2, NothingRefines DEF Keeps
<1>12. CASE confirms
  <2>1. outputs[t].mode \in {"pending"} /\ Earned(t)
    BY <1>1, <1>12, EarnedFacts DEF Earns, MayCompleteTransition
  <2>2. outputs'[t].mode = "automatic"
    BY <1>6, <1>12
  <2>3. ~Earned(t)'
    BY <1>8, <2>2
  <2>4. Ownership!Move(t, {"pending"}, "automatic")
    BY <1>3, <1>4, <1>10, <2>1, <2>2, <2>3, MoveRefines
  <2>5. EarnedOf[t]
    BY <1>3, <2>1 DEF EarnedOf
  <2>6. Ownership!Confirm(t)
    BY <2>4, <2>5 DEF Ownership!Confirm, EarnedOf
  <2> QED
    BY <1>3, <2>6 DEF Ownership!OwnershipNext, Keeps
<1> QED
  BY <1>11, <1>12

LEMMA StepRefines ==
  ASSUME IInv, CInv, [Next]_vars
  PROVE  Keeps
<1>1. TypeOK /\ Registry
  BY DEF IInv
<1>2. CASE UNCHANGED vars
  BY <1>2, ServiceRestsRefines DEF vars
<1>3. CASE UserCommand
  <2>1. CASE \E c \in Controllers : BeginPause("pause", c) \/ BeginPause("remove", c)
    BY <2>1, ServiceRestsRefines DEF BeginPause
  <2>2. CASE \E group \in SUBSET Installed :
               BeginGroup("delete", group) \/ BeginGroup("shutdown", group)
    BY <2>2, ServiceRestsRefines DEF BeginGroup
  <2> QED
    BY <1>1, <1>3, <2>1, <2>2, RegistrationRefines, ResumeRefines, WritingRefines
    DEF UserCommand
<1>4. CASE RuntimeStep
  <2>1. CASE InstallLoop \/ PauseLoop \/ AwaitSafe \/ RemoveLoop \/ RemoveGroup \/ ResumeLoop
    BY <2>1, ServiceRestsRefines
    DEF InstallLoop, PauseLoop, AwaitSafe, RemoveLoop, RemoveGroup, ResumeLoop
  <2> QED
    BY <1>1, <1>4, <2>1, RegistrationRefines, ResumeRefines, WritingRefines
    DEF RuntimeStep
<1>5. CASE WorkerStep
  BY <1>1, <1>5, ExecuteWriteRefines DEF WorkerStep
<1>6. CASE DispatcherStep
  <2>1. CASE RecordOutput
    BY <2>1, ServiceRestsRefines DEF RecordOutput
  <2> QED
    BY <1>1, <1>6, <2>1, WritingRefines DEF DispatcherStep
<1>7. CASE ProcessingStops \/ \E c \in Controllers : ProcessSample(c)
  BY <1>7, ServiceRestsRefines DEF ProcessingStops, ProcessSample
<1> QED
  BY <1>1, <1>2, <1>3, <1>4, <1>5, <1>6, <1>7, CompleteRefines DEF Next

\* OutputControl implements OutputOwnership: whatever the threads do, and in
\* whatever order, a controller owns an output automatically only after its
\* installation or after a write of its current takeover reached the device,
\* and gives it up only while the output is manual or was just registered.
THEOREM ImplementsOwnership == Spec => KeepsOwnership
<1>1. Init => Ownership!OwnershipInit
  <2> SUFFICES ASSUME Init PROVE Ownership!OwnershipInit
    OBVIOUS
  <2>1. \A t \in Targets : outputs[t].mode = "unregistered"
    BY DEF Init, ServiceInit, NotRegistered
  <2>2. \A t \in Targets : Earned(t) = FALSE
    BY <2>1 DEF Earned
  <2> QED
    BY <2>1, <2>2 DEF Ownership!OwnershipInit
<1>2. IInv /\ CInv /\ [Next]_vars => [Ownership!OwnershipNext]_(Ownership!ownershipVars)
  BY StepRefines DEF Keeps
<1> QED
  BY <1>1, <1>2, Correlation, PTL DEF Spec, KeepsOwnership, Ownership!OwnershipSpec

==============================================================================
