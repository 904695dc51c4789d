-------------------------- MODULE RuntimeLifecycle --------------------------
(***************************************************************************)
(* The life of one ApplicationRuntime: the commands of the user interface  *)
(* and of Lua it executes while it is polled, its replacement by a runtime *)
(* built from another profile, and its destruction.                        *)
(*                                                                         *)
(* The Lua worker of the old runtime goes on while the runtime retires:    *)
(* what it queues must not be executed then.  The replacement may take the *)
(* same ports, so it may be built only after the old one released them.    *)
(***************************************************************************)
EXTENDS AcquisitionActions

CONSTANTS
  Controllers,  \* the control loops installed
  UserCommands, \* the commands the user interface executes
  LuaCommands,  \* the commands Lua queues
  MaxCommands   \* bound of the model: commands Lua queues

ASSUME LifecycleAssumption ==
  /\ IsFiniteSet(Controllers) /\ MaxCommands \in Nat
  /\ UserCommands \cup LuaCommands \subseteq {"Start", "Stop", "Resume"}

VARIABLES
  phase,       \* what the runtime thread is doing
  leaving,     \* the retirement under way is the destructor's
  unpaused,    \* controllers the retirement has still to pause
  pauseFailed, \* one of their safe outputs failed
  barrier,     \* the Stop of the retirement, NoAction if there is none
  commands,    \* the queue of Lua's commands
  queued,      \* history: commands Lua has queued
  paused,      \* the controllers that are paused
  replacement  \* the runtime being built, or built, has opened its ports

lifecycleVars ==
  <<phase, leaving, unpaused, pauseFailed, barrier, commands, queued, paused,
    replacement>>
vars == <<acquisitionVars, lifecycleVars>>

Phase == {"polled", "pausing", "stopping", "waiting", "building", "retired",
          "destroying", "destroyed"}

TypeOK ==
  /\ AcquisitionTypeOK
  /\ phase \in Phase /\ leaving \in BOOLEAN
  /\ leaving => phase \notin {"polled", "building", "retired"}
  /\ unpaused \subseteq Controllers /\ pauseFailed \in BOOLEAN
  /\ barrier \in Actions \cup {NoAction}
  /\ commands \in Seq(LuaCommands) /\ queued \in 0 .. MaxCommands
  /\ paused \subseteq Controllers
  /\ replacement \in BOOLEAN

Init ==
  /\ AcquisitionInit
  /\ phase = "polled" /\ leaving = FALSE
  /\ unpaused = {} /\ pauseFailed = FALSE /\ barrier = NoAction
  /\ commands = <<>> /\ queued = 0
  /\ paused = {} /\ replacement = FALSE

-----------------------------------------------------------------------------
(***************************************************************************)
(* The other threads: Lua queues commands until it is joined, the workers  *)
(* execute until they are.                                                 *)
(***************************************************************************)
Lua(command) ==
  /\ phase # "destroyed" /\ queued < MaxCommands
  /\ queued' = queued + 1
  /\ commands' = Append(commands, command)
  /\ UNCHANGED <<acquisitionVars, phase, leaving, unpaused, pauseFailed, barrier,
                 paused, replacement>>

Workers ==
  /\ phase # "destroyed"
  /\ \E c \in Connections : Worker(c)
  /\ UNCHANGED lifecycleVars

-----------------------------------------------------------------------------
(***************************************************************************)
(* The runtime while it is polled.                                         *)
(***************************************************************************)
\* Mutant: the retirement polls the runtime, Lua's commands included.
PolledOrWaiting == phase \in {"polled", "waiting"}
Polled == phase = "polled"

DrainEvents ==
  /\ phase \in {"polled", "waiting"}
  /\ PollEvent
  /\ UNCHANGED lifecycleVars

Perform(command) ==
  \/ /\ command = "Start" /\ AcceptStart
     /\ UNCHANGED paused
  \/ /\ command = "Stop" /\ AcceptStop
     /\ UNCHANGED paused
  \/ /\ command = "Resume"
     /\ \E c \in Controllers : paused' = paused \ {c}
     /\ UNCHANGED acquisitionVars

\* A command of Lua, at its turn.
ExecuteLua ==
  /\ Polled /\ reading = None /\ commands # <<>>
  /\ Perform(Head(commands))
  /\ commands' = Tail(commands)
  /\ UNCHANGED <<phase, leaving, unpaused, pauseFailed, barrier, queued, replacement>>

\* A command of the user interface.
Execute(command) ==
  /\ Polled /\ Perform(command)
  /\ UNCHANGED <<phase, leaving, unpaused, pauseFailed, barrier, commands, queued,
                 replacement>>

Continue ==
  /\ phase \in {"polled", "stopping"}
  /\ ReadFlag \/ SubmitStart
  /\ UNCHANGED lifecycleVars

-----------------------------------------------------------------------------
(***************************************************************************)
(* Retirement: pause_outputs_for_shutdown, stop_active_operations.         *)
(***************************************************************************)
BeginRetirement(destructor) ==
  /\ phase' = "pausing" /\ leaving' = destructor
  /\ unpaused' = Controllers /\ pauseFailed' = FALSE /\ barrier' = NoAction
  /\ UNCHANGED <<acquisitionVars, commands, queued, paused, replacement>>

\* The candidate's configuration has been loaded and is valid; if it is not,
\* nothing changes.
Retire(destructor) ==
  /\ phase = "polled" /\ reading = None
  /\ Len(accepted) < MaxActions
  /\ BeginRetirement(destructor)

Rebuild == Retire(FALSE)
Drop == Retire(TRUE)

\* Computation is paused even if the safe output fails.
PauseController(c) ==
  /\ phase = "pausing" /\ c \in unpaused
  /\ paused' = paused \cup {c}
  /\ unpaused' = unpaused \ {c}
  /\ pauseFailed' \in {pauseFailed, TRUE}
  /\ UNCHANGED <<acquisitionVars, phase, leaving, barrier, commands, queued,
                 replacement>>

\* A failed safe output keeps the old runtime; the destructor only logs it.
Paused ==
  /\ phase = "pausing" /\ unpaused = {}
  /\ phase' = IF pauseFailed /\ ~leaving THEN "polled" ELSE "stopping"
  /\ UNCHANGED <<acquisitionVars, leaving, unpaused, pauseFailed, barrier, commands,
                 queued, paused, replacement>>

StopActiveOperations ==
  /\ phase = "stopping"
  /\ AcceptStop
  /\ barrier' = Len(accepted')
  /\ phase' = "waiting"
  /\ UNCHANGED <<leaving, unpaused, pauseFailed, commands, queued, paused, replacement>>

\* What follows the retirement: a new runtime or the destruction of the fields.
AfterStop(stopped) ==
  IF leaving THEN "destroying" ELSE IF stopped THEN "building" ELSE "polled"

\* Mutant: the flags of the workers are taken for the completion.
FlagsCleared == \A c \in Connections : ~running[c]
BarrierApplied == result[barrier] = <<"Applied">>

Stopped ==
  /\ phase = "waiting" /\ BarrierApplied
  /\ phase' = AfterStop(TRUE)
  /\ UNCHANGED <<acquisitionVars, leaving, unpaused, pauseFailed, barrier, commands,
                 queued, paused, replacement>>

\* A worker could not close its source, or ten seconds have passed.
StopFails ==
  /\ phase = "waiting" /\ result[barrier] # <<"Applied">>
  /\ phase' = AfterStop(FALSE)
  /\ UNCHANGED <<acquisitionVars, leaving, unpaused, pauseFailed, barrier, commands,
                 queued, paused, replacement>>

-----------------------------------------------------------------------------
(***************************************************************************)
(* The replacement, and the end of the old runtime.                        *)
(***************************************************************************)
\* The startup script of the replacement starts its acquisition.
ReplacementOpens ==
  /\ phase \in {"building", "retired", "destroying"} /\ ~leaving
  /\ replacement' = TRUE
  /\ UNCHANGED <<acquisitionVars, phase, leaving, unpaused, pauseFailed, barrier,
                 commands, queued, paused>>

\* The dropped replacement closes what it opened; the old runtime stays.
InitializationFails ==
  /\ phase = "building"
  /\ replacement' = FALSE /\ phase' = "polled"
  /\ UNCHANGED <<acquisitionVars, leaving, unpaused, pauseFailed, barrier, commands,
                 queued, paused>>

InitializationSucceeds ==
  /\ phase = "building"
  /\ phase' = "retired"
  /\ UNCHANGED <<acquisitionVars, leaving, unpaused, pauseFailed, barrier, commands,
                 queued, paused, replacement>>

DropRetired ==
  /\ phase' = "destroying"
  /\ UNCHANGED <<acquisitionVars, leaving, unpaused, pauseFailed, barrier, commands,
                 queued, paused, replacement>>

ReplaceRuntime == phase = "retired" /\ DropRetired

\* The fields are dropped: the threads are joined, each worker after what was
\* sent to it before its Shutdown.
DropFields ==
  /\ phase = "destroying"
  /\ \A c \in Connections : queue[c] = <<>>
  /\ running' = [c \in Connections |-> FALSE]
  /\ phase' = "destroyed"
  /\ UNCHANGED <<queue, events, pending, result, accepted, reading, failures, rolled,
                 leaving, unpaused, pauseFailed, barrier, commands, queued, paused,
                 replacement>>

Destroyed == phase = "destroyed" /\ UNCHANGED vars

-----------------------------------------------------------------------------
Runtime ==
  \/ DrainEvents \/ ExecuteLua \/ Continue
  \/ \E c \in Controllers : PauseController(c)
  \/ Paused \/ StopActiveOperations \/ Stopped \/ DropFields

Next ==
  \/ \E command \in LuaCommands : Lua(command)
  \/ \E command \in UserCommands : Execute(command)
  \/ Workers
  \/ Runtime
  \/ Rebuild \/ Drop \/ StopFails
  \/ ReplacementOpens
  \/ InitializationFails \/ InitializationSucceeds \/ ReplaceRuntime
  \/ Destroyed

Spec == Init /\ [][Next]_vars

-----------------------------------------------------------------------------
(***************************************************************************)
(* Properties.                                                             *)
(***************************************************************************)
\* Two profiles never have a port open at once: while the replacement exists
\* no worker of the old runtime runs or has a Start left to execute.
OneProfileOwnsThePorts ==
  phase \in {"building", "retired"} \/ replacement =>
    \A c \in Connections :
      ~running[c] /\ \A i \in 1 .. Len(queue[c]) : queue[c][i].kind = "Stop"

\* From the moment a retirement has paused the last controller until the old
\* runtime is polled again or gone, whatever Lua queues meanwhile, every
\* controller stays paused.
RetiredControllersStayPaused ==
  phase \in {"stopping", "waiting", "building", "retired", "destroying"} =>
    paused = Controllers

=============================================================================
