----------------------------- MODULE Components -----------------------------
(* The components that keep their state to themselves, composed for the      *)
(* model checker and the prover: one is chosen at the start and runs alone,  *)
(* so one run checks them all without multiplying their states, and what a   *)
(* theorem says of this specification it says of each of them.  The          *)
(* constants are those of the components.                                    *)
EXTENDS Integers, Sequences, FiniteSets

CONSTANTS
  NotFinite, Huge, IntegerMax, ScaleOfMinutes, Identifiers,
  LoopDefinitions, LoopConfigurations, LoopRetunings, LoopSources, InputSignals,
  Measurements, MaxTime, MaxLoops,
  RecordedCommands, ReportedSeries, MaxLogEntries, MaxActions, MaxRecords,
  ParameterKeys, LongTexts, MaxPayload, ModelScripts, EmulatorSetups, EmulatorRequests,
  MaxStarts, MaxExchanges,
  Ports, Channels, Wiring, Reported, SerialOperations, Attempts, MaxSerialCalls, MaxUnderway,
  Lower, Alphabet, Padded, Paths, Startup, ProfileFiles, CommandLines,
  MaxFileEdits, MaxLaunches, MaxLoads,
  PanelScripts, Assigned, ScenarioCallbacks, Globals, Capacity,
  MaxPanelCalls, MaxPanelEdits, MaxReloads,
  RequestCalls, Described, StoredSeries, StoredLoops, KeptHandles, Colors, Connections, Spaced,
  MaxWindow, MaxRequests, MaxRuns

VARIABLES component, state
vars == <<component, state>>

\* The loops and the serial line come with what is proved of them.
Loops == INSTANCE ControlLoops_proofs WITH control <- state,
  Definitions <- LoopDefinitions, Configurations <- LoopConfigurations,
  Retunings <- LoopRetunings, Sources <- LoopSources
History == INSTANCE Recorder WITH recorder <- state,
  Commands <- RecordedCommands, Series <- ReportedSeries
Emulated == INSTANCE Emulator WITH emulator <- state, Keys <- ParameterKeys,
  Scripts <- ModelScripts, Setups <- EmulatorSetups, Requests <- EmulatorRequests,
  MaxRequests <- MaxExchanges
Line == INSTANCE SerialSource_proofs WITH serial <- state, Operations <- SerialOperations,
  MaxCalls <- MaxSerialCalls
Selection == INSTANCE Profiles WITH profiles <- state, Files <- ProfileFiles,
  MaxEdits <- MaxFileEdits
Panels == INSTANCE ControlPanels WITH panels <- state, Scripts <- PanelScripts,
  MaxCalls <- MaxPanelCalls, MaxEdits <- MaxPanelEdits
Scripting == INSTANCE LuaRequests WITH lua <- state, Calls <- RequestCalls,
  Series <- StoredSeries, Stored <- StoredLoops, Kept <- KeptHandles, PaneKeys <- Identifiers

Init ==
  \/ component = "loops" /\ Loops!Init
  \/ component = "history" /\ History!Init
  \/ component = "emulator" /\ Emulated!Init
  \/ component = "serial" /\ Line!Init
  \/ component = "profiles" /\ Selection!Init
  \/ component = "panels" /\ Panels!Init
  \/ component = "requests" /\ Scripting!Init

Next ==
  \/ component = "loops" /\ Loops!Next /\ UNCHANGED component
  \/ component = "history" /\ History!Next /\ UNCHANGED component
  \/ component = "emulator" /\ Emulated!Next /\ UNCHANGED component
  \/ component = "serial" /\ Line!Next /\ UNCHANGED component
  \/ component = "profiles" /\ Selection!Next /\ UNCHANGED component
  \/ component = "panels" /\ Panels!Next /\ UNCHANGED component
  \/ component = "requests" /\ Scripting!Next /\ UNCHANGED component

Spec == Init /\ [][Next]_vars

-----------------------------------------------------------------------------
(* What is taken for granted of the loops that are defined, of the registers *)
(* that are asked, of the log, which keeps an entry at least                 *)
(* (MAX_LOG_ENTRIES), and of the tables that scripts register.               *)
ASSUME LoopInputsAreValid == Loops!InputsAreValid
ASSUME LineInputsAreValid == Line!InputsAreValid
ASSUME LogKeepsEntries == MaxLogEntries \in Nat \ {0}
ASSUME PanelTablesAreArrays == Panels!PanelsAreArrays

-----------------------------------------------------------------------------
(* The properties of each component, of the one that is chosen. *)

(* An output of a controller can always be written: its range was checked    *)
(* against that of the target whenever the loop changed (ConfiguredLoop).    *)
OutputsAreWritable == component = "loops" => Loops!OutputsAreWritable

(* No integral, derivative or ramp of a running loop spans a pause (Resumed). *)
NothingSpansAPause == component = "loops" => Loops!NothingSpansAPause

(* A sample does not integrate past a bound it is saturated at, and a ramp   *)
(* that is retuned goes on from where it is (Evaluated, ConfigureReference).  *)
LoopsMoveSmoothly ==
  [][component = "loops" =>
       (Loops!IntegratesWithinBounds /\ Loops!RetunesWithoutBump)]_vars

(* The database is the history of the session up to some moment, all of it   *)
(* until the writer fails (the channel and the thread of the SQLite writer).  *)
HistoryHasNoHoles == component = "history" => History!HistoryHasNoHoles

(* The log names every action it reports, its file has no hole, and the      *)
(* subscribers of the hub see a request before its outcome.                  *)
LogTellsTheHistory == component = "history" => History!LogTellsTheHistory

(* An answer of the emulator is one to the very request it is returned for,  *)
(* although answers carry no id (the drain of the memory client).            *)
AnswersTheirRequests == component = "emulator" => Emulated!AnswersTheirRequests

(* A value that a 5X3 is said to have was in the register that was asked,    *)
(* on a channel identified since the port was opened (verify_channel_type).   *)
AnswersAreGenuine == component = "serial" => Line!AnswersAreGenuine

(* Only a profile that has run is selected at the next launch (load_profile). *)
RemembersOnlyWhatRan == component = "profiles" => Selection!RemembersOnlyWhatRan

(* No port has two users, and the primary connection exists (validation of   *)
(* application definitions).                                                 *)
PortsHaveOneUser == component = "profiles" => Selection!PortsHaveOneUser

(* The user interface shows the controls of the scripts that are registered, *)
(* once the events on their way are handled (the panel events of the view).  *)
PanelsFollowScripts == component = "panels" => Panels!PanelsFollowScripts

(* A control does not stay locked, and a draft that differs from its value   *)
(* is being edited or pending (the result of every callback).                *)
EditsAreSettled == component = "panels" => Panels!EditsAreSettled

(* What a script is told of a request is what became of that very request    *)
(* (send_application_command and the replies of the runtime).                *)
OutcomesAreTruthful == component = "requests" => Scripting!OutcomesAreTruthful

(* A command of a callback is executed only while its run is not over        *)
(* (execute_scenario_step drops the others).                                 *)
StaleRunsTouchNothing ==
  [][component = "requests" => Scripting!StaleRunsTouchNothing]_vars
=============================================================================
