------------------------------ MODULE MCScenario ------------------------------
(* Instances of Scenario for the model checker: what the Lua code sends. *)
EXTENDS Scenario

StageKinds == {"start", "action", "complete", "stop"}
RunKinds == {"register", "cancel", "action", "timer", "condition", "race",
             "on_stop", "on_error"}
EnterKinds == {"start", "action"}
CompleteKinds == {"timer", "action", "complete"}
=============================================================================
