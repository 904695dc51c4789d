------------------------------ MODULE Profiles ------------------------------
(* Which profile the application runs: selected on the command line, by the  *)
(* state file or by default when it is launched, and replaced from the       *)
(* Settings window while it runs.  Files change at any time and the process  *)
(* may die at any step, also between the two writes of the state file.       *)
EXTENDS ApplicationDefinition

CONSTANTS
  Paths,         \* the profile files that are used
  Startup,       \* startup.lua in the application directory
  Files,         \* what a file can be: [exists, readable, returns, root]
  CommandLines,  \* sequences of arguments [option, path]
  MaxEdits, MaxLaunches, MaxLoads  \* bounds of the model

VARIABLE profiles

Nothing == [path |-> "", definition |-> DefaultDefinition]
NoRequest == "none"
Fresh ==
  [selected |-> << >>, validation |-> "NotChecked", load_confirmation |-> FALSE,
   reload_confirmation |-> FALSE, requested |-> NoRequest, status |-> "NotReloaded"]

\* `saved` is the path in the state file; `ran` is history, the profiles that
\* were initialized in place of another one.
Init ==
  \E files \in [Paths -> Files] :
    profiles = [files |-> files, saved |-> << >>, phase |-> "off", active |-> Nothing,
                candidate |-> Nothing, settings |-> Fresh, console_pending |-> FALSE,
                ran |-> {}, edits |-> 0, launches |-> 0, loads |-> 0]

-----------------------------------------------------------------------------
(* Launching: config_path_from_args, discover, load_lua_definition_or_base.  *)

\* An argument that is not --config, one without a path and a second one end
\* the process.
CommandLineParses(line) ==
  /\ Len(line) <= 1
  /\ \A i \in DOMAIN line : line[i].option = "--config" /\ line[i].path \in Paths

RememberedStartupScript ==
  IF \E i \in DOMAIN profiles.saved : profiles.files[profiles.saved[i]].exists
  THEN profiles.saved ELSE << >>

Discovered(line) ==
  IF line # << >> THEN line[1].path
  ELSE IF RememberedStartupScript # << >> THEN RememberedStartupScript[1]
  ELSE Startup

IsLoadable(file) ==
  file.exists /\ file.readable /\ file.returns /\ Applies(file.root, DefaultDefinition)
Loaded(file) == Applied(file.root, DefaultDefinition)

Launch(line) ==
  /\ profiles.phase = "off" /\ profiles.launches < MaxLaunches
  /\ CommandLineParses(line)
  /\ LET path == Discovered(line)
         file == profiles.files[path]
     IN profiles' = [profiles EXCEPT
          !.phase = "idle", !.launches = @ + 1, !.settings = Fresh, !.console_pending = FALSE,
          !.active = [path |-> path,
                      definition |-> IF IsLoadable(file) THEN Loaded(file)
                                     ELSE DefaultDefinition]]

-----------------------------------------------------------------------------
(* The Settings window.  A click and the request it makes are one frame.     *)

Clicking == profiles.phase = "idle" /\ profiles.settings.requested = NoRequest
Settings(update) == profiles' = [profiles EXCEPT !.settings = update]

\* A file is picked in a dialog.
Select(path) ==
  /\ Clicking /\ profiles.files[path].exists
  /\ Settings([profiles.settings EXCEPT
       !.selected = <<path>>, !.validation = "NotChecked", !.status = "NotReloaded",
       !.load_confirmation = FALSE])
Clear ==
  /\ Clicking /\ profiles.settings.selected # << >>
  /\ Settings([profiles.settings EXCEPT
       !.selected = << >>, !.validation = "NotChecked", !.status = "NotReloaded",
       !.load_confirmation = FALSE])

Selected ==
  IF profiles.settings.selected = << >> THEN profiles.active.path
  ELSE profiles.settings.selected[1]
Validate ==
  /\ Clicking
  /\ Settings([profiles.settings EXCEPT
       !.validation = IF IsLoadable(profiles.files[Selected]) THEN "Valid" ELSE "Invalid"])

BeginLoad ==
  /\ Clicking
  /\ profiles.settings.selected # << >> /\ profiles.settings.validation = "Valid"
  /\ Settings([profiles.settings EXCEPT !.load_confirmation = TRUE])
CancelLoad ==
  /\ Clicking /\ profiles.settings.load_confirmation
  /\ Settings([profiles.settings EXCEPT !.load_confirmation = FALSE])
ConfirmLoad ==
  /\ Clicking /\ profiles.settings.load_confirmation
  /\ profiles.loads < MaxLoads
  /\ Settings([profiles.settings EXCEPT !.load_confirmation = FALSE, !.requested = "load"])

BeginReload ==
  /\ Clicking
  /\ Settings([profiles.settings EXCEPT !.reload_confirmation = TRUE])
CancelReload ==
  /\ Clicking /\ profiles.settings.reload_confirmation
  /\ Settings([profiles.settings EXCEPT !.reload_confirmation = FALSE])
ConfirmReload ==
  /\ Clicking /\ profiles.settings.reload_confirmation
  /\ profiles.loads < MaxLoads
  /\ Settings([profiles.settings EXCEPT !.reload_confirmation = FALSE, !.requested = "reload"])

Window ==
  \/ \E path \in Paths : Select(path)
  \/ Clear \/ Validate
  \/ BeginLoad \/ CancelLoad \/ ConfirmLoad
  \/ BeginReload \/ CancelReload \/ ConfirmReload

-----------------------------------------------------------------------------
(* Replacement: MyApp::load_profile and reload_runtime around                *)
(* ApplicationRuntime::rebuild_from_paths.                                   *)

Request == profiles.settings.requested
Ended(status) ==
  [profiles.settings EXCEPT
     !.requested = NoRequest, !.status = status,
     !.validation = IF status = "Succeeded" THEN "Valid" ELSE @,
     !.selected = IF status = "Succeeded" /\ Request = "load" THEN << >> ELSE @]
Fail == profiles' = [profiles EXCEPT !.settings = Ended("Failed"), !.phase = "idle"]

Target == IF Request = "load" THEN profiles.settings.selected[1] ELSE profiles.active.path

\* The candidate is read and checked before the experiment is touched.
Accepts(path) == ~profiles.console_pending /\ IsLoadable(profiles.files[path])
\* Mutant: the profile is remembered as soon as it is accepted.
StartRemembering(path) ==
  profiles' = [profiles EXCEPT
    !.phase = "retiring", !.loads = @ + 1,
    !.saved = IF Request = "load" THEN <<path>> ELSE @,
    !.candidate = [path |-> path, definition |-> Loaded(profiles.files[path])]]
StartLoading(path) ==
  profiles' = [profiles EXCEPT
    !.phase = "retiring", !.loads = @ + 1,
    !.candidate = [path |-> path, definition |-> Loaded(profiles.files[path])]]

Take ==
  /\ profiles.phase = "idle" /\ Request # NoRequest
  /\ \/ Accepts(Target) /\ StartLoading(Target)
     \/ ~Accepts(Target) /\ Fail

\* The outputs are paused and the operations stopped, and the candidate runs
\* its setup and its scripts; either may fail.
Retire ==
  /\ profiles.phase = "retiring"
  /\ Fail \/ profiles' = [profiles EXCEPT !.phase = "initializing"]
Initialize ==
  /\ profiles.phase = "initializing"
  /\ \/ Fail
     \/ profiles' = [profiles EXCEPT
          !.phase = IF Request = "load" THEN "remembering" ELSE "replacing",
          !.ran = @ \cup {profiles.candidate.path}]

\* fs::write empties the file first; a failure is logged.
Truncate ==
  /\ profiles.phase = "remembering"
  /\ \/ profiles' = [profiles EXCEPT !.phase = "replacing"]
     \/ profiles' = [profiles EXCEPT !.phase = "writing", !.saved = << >>]
Write ==
  /\ profiles.phase = "writing"
  /\ profiles' = [profiles EXCEPT !.phase = "replacing",
                                  !.saved = <<profiles.candidate.path>>]

Replace ==
  /\ profiles.phase = "replacing"
  /\ profiles' = [profiles EXCEPT
       !.phase = "idle", !.active = profiles.candidate,
       !.settings = Ended("Succeeded"), !.console_pending = FALSE]

Loading == Take \/ Retire \/ Initialize \/ Truncate \/ Write \/ Replace

-----------------------------------------------------------------------------
(* What happens around it. *)

\* A console command is submitted or ends; the GUI thread sees neither while
\* it replaces the runtime.
Console ==
  /\ Clicking
  /\ profiles' = [profiles EXCEPT !.console_pending = ~@]

Edit(path, file) ==
  /\ profiles.edits < MaxEdits /\ file # profiles.files[path]
  /\ profiles' = [profiles EXCEPT !.files[path] = file, !.edits = @ + 1]

\* The process ends, orderly or not.
End ==
  /\ profiles.phase # "off"
  /\ profiles' = [profiles EXCEPT !.phase = "off", !.active = Nothing,
                                  !.candidate = Nothing, !.settings = Fresh,
                                  !.console_pending = FALSE]

Next ==
  \/ \E line \in CommandLines : Launch(line)
  \/ Window \/ Loading \/ Console \/ End
  \/ \E path \in Paths, file \in Files : Edit(path, file)

-----------------------------------------------------------------------------
(***************************************************************************)
(* Properties.                                                             *)
(***************************************************************************)
\* What the next launch will select was run by this application in place of
\* another profile: a candidate that was rejected, could not replace the old
\* experiment or failed in its setup is never remembered, whenever the process
\* ends (load_profile saves after rebuild_from_profile has succeeded).
RemembersOnlyWhatRan == \A i \in DOMAIN profiles.saved : profiles.saved[i] \in profiles.ran

\* No port of a definition is used twice, by two connections or by one and the
\* emulator, in whatever case it is written; the connection of the emulator
\* exists and one connection is the primary one.
IsConsistent(definition) ==
  LET connections == definition.connections
      Ids == {c.id : c \in connections}
      UsedByEmulator(port) ==
        \E i \in DOMAIN definition.emulator :
          \E p \in definition.emulator[i].port : Lower[p] = port
  IN /\ \A c1, c2 \in connections :
          c1.id = c2.id \/ Lower[c1.port] = Lower[c2.port] => c1 = c2
     /\ \A c \in connections : ~UsedByEmulator(Lower[c.port])
     /\ \A i \in DOMAIN definition.emulator : definition.emulator[i].connection \subseteq Ids
     /\ connections # {} => PRIMARY \in Ids

\* The definition that is active is consistent: a worker is started for each of
\* its connections, the primary one first (application_definition.rs,
\* ApplicationRuntime::build).
PortsHaveOneUser == IsConsistent(profiles.active.definition)
=============================================================================
