SPECIFICATION Spec
CONSTANTS
  Connections = {1, 2}
  MaxActions = 3
  Faulty = {2}
  MaxFailures = 1
  Controllers = {"heater"}
  UserCommands = {"Start", "Stop"}
  LuaCommands = {"Start", "Resume"}
  MaxCommands = 1
INVARIANTS AppliedActionsHold EveryActionIsAnswered OneProfileOwnsThePorts RetiredControllersStayPaused
CHECK_DEADLOCK FALSE
