---------------------------- MODULE MCComponents ----------------------------
(* Values for the components of Components, and two components more, whose   *)
(* conditions and scripts nest and which are for the model checker alone.    *)
EXTENDS Components, TLC

-----------------------------------------------------------------------------
(* Control loops: a PID loop on a ranged register with a scale, a furnace   *)
(* and an on/off loop that wants the same register or an integer without a  *)
(* range.                                                                   *)

Settings(pairs) == [key \in {p[1] : p \in pairs} |-> (CHOOSE p \in pairs : p[1] = key)[2]]
PidSettings == Settings({<<"setpoint", 2>>, <<"kp", 1>>, <<"ki", 1>>, <<"kd", 1>>,
                         <<"output_min", 0>>, <<"output_max", 6>>})
FurnaceSettings == Settings({<<"setpoint", 4>>, <<"kp", 1>>, <<"ki", 1>>,
                             <<"output_min", 0>>, <<"output_max", 4>>, <<"ambient", 2>>,
                             <<"max_power", 2>>, <<"heater_lag", 1>>,
                             <<"linear_loss", 1>>, <<"radiation_loss", 0>>})
OnOffSettings == Settings({<<"setpoint", 2>>, <<"hysteresis", 1>>, <<"output_off", 1>>,
                           <<"output_on", 40>>})


Ranged == [address |-> "power", access |-> "read_write", type |-> "integer",
           range |-> <<[minimum |-> 0, maximum |-> 6]>>, scale |-> 2, safe |-> << >>]
Unranged == [address |-> "free", access |-> "read_write", type |-> "integer",
             range |-> << >>, scale |-> 1, safe |-> << >>]
Ramp == [kind |-> "ramp", start |-> 0, target |-> 4, rate |-> 1]

Loop(name, kind, settings, target, reference) ==
  [name |-> name, input |-> "s", kind |-> kind, settings |-> settings,
   target |-> target, reference |-> reference]
MCLoopDefinitions == {Loop("a", "pid", PidSettings, Ranged, <<Ramp>>),
                    Loop("a", "furnace", FurnaceSettings, Ranged, << >>),
                    Loop("b", "on_off", OnOffSettings, Unranged, << >>),
                    Loop("b", "on_off", OnOffSettings, Ranged, << >>)}

Set(key, x) == [key |-> key, value |-> [type |-> "number", value |-> x]]
MCLoopConfigurations == {<<Set("output_max", 8)>>,
                       <<Set("setpoint", 6), Set("ki", 2)>>,
                       <<Set("output_min", 2), Set("kp", -1)>>,
                       <<Set("ki", 3), Set("ki", 3)>>}
MCLoopRetunings == {<< >>, <<Set("target", 1)>>, <<Set("start", 61)>>}
MCLoopSources == {[kind |-> "fixed", value |-> 2]}

-----------------------------------------------------------------------------
(* Conditions: each kind of leaf with hysteresis and a hold time, composites *)
(* of two series, and races between conditions and both kinds of timer.      *)

Of(type, value) == [type |-> type, value |-> value]
Quoted(value) == Of("string", value)
Table(value) == Of("table", value)
Array(items) == Table([continuous |-> TRUE, items |-> items])
Whole(value) == Of("integer", value)

\* Conditions on series "a" unless another is named.
About(series, condition) == "series" :> Quoted(series) @@ condition
Held(condition, seconds, hysteresis) ==
  condition @@ "for_seconds" :> Whole(seconds) @@ "hysteresis" :> Whole(hysteresis)
Between(least, most) == Table("min" :> Whole(least) @@ "max" :> Whole(most))
Steady(target, tolerance) == Table("target" :> Whole(target) @@ "tolerance" :> Whole(tolerance))
Above == About("a", "above" :> Whole(1))
Stale(series) == About(series, "stale_for_seconds" :> Whole(2))
Composed(operator, hold) ==
  operator :> Array(<<Table(Held(Above, 1, 1)), Table(Stale("b"))>>)
  @@ "for_seconds" :> Whole(hold)

When(condition) == Table("when" :> Table(condition) @@ "callback" :> Quoted("next"))
Timer(kind, time) == Table(kind :> Whole(time) @@ "callback" :> Quoted("next"))

Carrying(alternatives, values, series, ages) ==
  [table |-> Array(alternatives).value,
   samples |-> [series : series, value : values, age : ages]]
ConditionRaces ==
  {Carrying(<<When(Held(About("a", condition), 1, 1))>>, {0, 1, 2, 4}, {"a"}, {0}) :
     condition \in {"above" :> Whole(1), "inside" :> Between(2, 3), "outside" :> Between(1, 4),
                   "stable" :> Steady(1, 1)}}
  \cup {Carrying(<<When(Held(About("a", "below" :> Whole(1)), 1, 1))>>, {0, 1, 2, NotFinite},
                  {"a"}, {0}),
         Carrying(<<When(Held(About("a", "rate_above" :> Whole(1)
                                        @@ "window_seconds" :> Whole(2)), 0, 1))>>,
                  {0, 2, 4}, {"a"}, {0, 1}),
         Carrying(<<When(Stale("a")), Timer("after", 3)>>, {0}, {"a", "b"}, {0, 1}),
         Carrying(<<Timer("at", 4), When(Composed("all", 1))>>, {1, 2}, {"a", "b"}, {0}),
         Carrying(<<When(Composed("any", 1)), Timer("at", 0)>>, {1, 2}, {"a", "b"}, {0}),
         Carrying(<<When(Composed("any", 1)), Timer("after", 4)>>, {1, 2}, {"a", "b"}, {0})}

Conditions == INSTANCE ScenarioConditions WITH race <- state, Races <- ConditionRaces,
  Identifiers <- {}, StartTime <- 1, Delays <- {0, 1, 2}, MaxPolls <- 3

WonAsDeclared == component = "conditions" => Conditions!WonAsDeclared
HeldContinuously == component = "conditions" => Conditions!HeldContinuously

-----------------------------------------------------------------------------
(* Scripts that build a scenario: two stages and a third that is never       *)
(* defined; conditions that are too relaxed or too deep, and one that is not. *)

Stage(transitions) ==
  "enter" :> Quoted("enter") @@ "transitions" :> Array(transitions)
To(next, condition) == Table("when" :> Table(condition) @@ "next" :> Quoted(next))
Defines(name, transitions) ==
  [method |-> "stage", name |-> name, table |-> Stage(transitions)]
Outside(width) == Held(About("a", "outside" :> Between(0, width)), 0, 2)
Nest(condition) == "any" :> Array(<<Table(condition)>>)
ScriptCalls ==
  {Defines("a", << >>), Defines("a", <<To("b", Outside(5)), To("a", Above)>>),
   Defines("b", <<To("c", Above)>>), Defines("b", <<To("a", Outside(4))>>),
   [method |-> "start", name |-> "a"],
   [method |-> "when", table |-> Outside(3), callback |-> "next"],
   [method |-> "when", table |-> Nest(Nest(Nest(Nest(Above)))), callback |-> "next"],
   [method |-> "race", array |-> Array(<<Timer("after", 1), When(Nest(Above))>>).value],
   [method |-> "after", time |-> -1, callback |-> "next"],
   [method |-> "on_stop", callback |-> "next"], [method |-> "stop", reason |-> " "],
   [method |-> "complete", reason |-> "done"], [method |-> "cancel"]}

Scripted == INSTANCE ScenarioScripts WITH scripts <- state, Identifiers <- {"a", "b", "c"},
  Calls <- ScriptCalls, Values <- -20..20, MaxHandles <- 2, MaxCalls <- 4

ScenariosCanAdvance == component = "scripts" => Scripted!ScenariosCanAdvance

-----------------------------------------------------------------------------
(* The recorder: an action of a connection, one of a series and one that is  *)
(* not recorded.                                                             *)

MCRecordedCommands ==
  {[kind |-> "write_instrument", series |-> << >>],
   [kind |-> "rename_series", series |-> <<1>>],
   [kind |-> "set_pane", series |-> << >>]}

-----------------------------------------------------------------------------
(* The emulator: a model with a ranged number and a switch that cannot be    *)
(* read, one whose catalog is too long to be sent and four that do not load; *)
(* answers of every type, failures with a short and a long text.             *)

LuaNumber(x) == [type |-> "number", value |-> x]
LuaInteger(x) == [type |-> "integer", value |-> x]
Failure(text) == [type |-> "failure", value |-> text]
Parameter(key, type, access) ==
  [key |-> key, name |-> << >>, type |-> type, access |-> access, series |-> FALSE,
   unit |-> << >>, min |-> << >>, max |-> << >>, fields |-> {"key", "type", "access"}]
Power == [Parameter("power", "number", <<"read_write">>) EXCEPT
            !.min = <<LuaInteger(0)>>, !.max = <<LuaNumber(2)>>, !.unit = <<"W">>]
Switch == Parameter("on", "boolean", <<"write_only">>)
Model(parameters) ==
  [runs |-> TRUE, handlers |-> {"read", "write"},
   instruments |-> <<[name |-> "furnace", parameters |-> parameters]>>,
   returns |-> {LuaInteger(1), LuaNumber(3), Failure("short"), Failure("long")}]
MCModelScripts ==
  {Model(<<Power, Switch>>),
   Model(<<[Power EXCEPT !.name = <<"long">>]>>),
   Model(<<Power, Power>>),
   Model(<<[Switch EXCEPT !.series = TRUE]>>),
   Model(<<[Power EXCEPT !.max = << >>]>>),
   [Model(<<Power, Switch>>) EXCEPT !.handlers = {"read"}]}

Setup(transport, port, client) ==
  [transport |-> transport, has_script |-> TRUE, port |-> port, client_port |-> client]
MCEmulatorSetups ==
  {Setup("memory", "", ""), Setup("serial", "COM1", "COM2"), Setup("serial", "COM1", "COM1"),
   Setup("serial", "COM1", ""), [Setup("memory", "", "") EXCEPT !.has_script = FALSE]}
Asks(kind, parameter) == [kind |-> kind, instrument |-> 1, parameter |-> parameter]
Written(x) ==
  [kind |-> "write_request", instrument |-> 1, parameter |-> 1, value |-> LuaNumber(x)]
MCEmulatorRequests ==
  {[kind |-> "describe_request"], [kind |-> "serial_request"], Asks("read_request", 1),
   Asks("read_request", 3), Written(1), Written(5)}

-----------------------------------------------------------------------------
(* The serial source: a channel of a port, which is a 5X3 or another device.  *)

Five == <<1, 0>>
Reading(address, register, scale) ==
  [kind |-> "read", address |-> address, register |-> register, scale |-> scale]
Writing(value) ==
  [kind |-> "write", address |-> Five, register |-> "setpoint", value |-> value, scale |-> 1]
Text(single_line, numeric) ==
  [kind |-> "text", single_line |-> single_line, numeric |-> numeric]
MCSerialOperations ==
  {Reading(Five, "measurement", 2), Reading(Five, "setpoint", 1), Reading(Five, "setpoint", 0),
   Writing(1), Writing(2), Writing(10000), Text(TRUE, FALSE), Text(TRUE, TRUE),
   Text(FALSE, TRUE), [kind |-> "elsewhere"]}
Wired(type) == [c \in {Five} |-> type]

MCChannels == {Five}
MCWiring == {Wired(3), Wired(7)}
MCReported == {1, -32768}

-----------------------------------------------------------------------------
(* Profiles: a definition with every section, an empty one and definitions   *)
(* that are refused, for a port written in two ways, for the emulator's port *)
(* or for the lack of a primary connection.                                  *)

Port(name) == Table("port" :> Quoted(name))
MCLower ==
  [n \in {"primary", "COM1", "com1", "Aux", "aux", "COM2", "COM3", "none", "even", "memory", "serial",
          "a.lua", "b.lua", "hardware"} |->
     CASE n = "COM1" -> "com1" [] n = "Aux" -> "aux" [] n = "COM2" -> "com2" [] n = "COM3" -> "com3"
       [] OTHER -> n]

WithPorts(primary, aux) ==
  "connections" :> Table("primary" :> Port(primary) @@ "Aux" :> Port(aux))
EmulatedAt(port) ==
  "emulator" :> Table("script" :> Quoted("m.lua") @@ "connection" :> Quoted("aux")
                      @@ "port" :> Quoted(port))
Everything ==
  "application" :> Table("fps" :> Of("integer", 60) @@ "plot_window" :> Of("number", 5000))
  @@ "connections" :>
       Table("primary" :> Table("port" :> Quoted("COM1") @@ "parity" :> Quoted("even"))
             @@ "aux" :> Port("COM2"))
  @@ "emulator" :> Table("script" :> Quoted("m.lua"))
  @@ "scripts" :> Array(<<Quoted("a.lua"), Quoted("b.lua")>>)
  @@ "plot_panes" :> Array(<<Table("id" :> Quoted("main"))>>)
  @@ "setup" :> Of("function", "setup")

Absent == [exists |-> FALSE, readable |-> FALSE, returns |-> FALSE, root |-> << >>]
File(root) == [exists |-> TRUE, readable |-> TRUE, returns |-> TRUE, root |-> root]
MCProfileFiles ==
  {Absent, [File(Everything) EXCEPT !.returns = FALSE], File(Everything),
   File(WithPorts("COM1", "com1")), File(WithPorts("COM1", "COM2") @@ EmulatedAt("com1")),
   File(WithPorts("COM1", "COM2") @@ EmulatedAt("COM3"))}

Config(path) == [option |-> "--config", path |-> path]
MCAlphabet == <<"aux">>
MCCommandLines ==
  {<< >>, <<Config("other.lua")>>, <<Config("")>>, <<Config("other.lua"), Config("other.lua")>>}

-----------------------------------------------------------------------------
(* Control panels: a script that replaces its panel by another one, a second *)
(* script with a function of the same name, and two that are refused; a      *)
(* value of each type, one of them out of the range.                         *)

Control(kind, id, callback) ==
  "kind" :> Quoted(kind) @@ "id" :> Quoted(id) @@ "label" :> Quoted(id)
  @@ (IF kind = "button" THEN "on_click" :> Quoted(callback)
      ELSE IF kind = "readout" THEN << >> ELSE "on_change" :> Quoted(callback))
Power0to2 ==
  Control("number", "power", "heat")
  @@ "min" :> Of("integer", 0) @@ "max" :> Of("number", 2)
ScriptWith(id, controls) ==
  "id" :> Quoted(id) @@ "heat" :> Of("function", "heat")
  @@ "panels" :> Array(<<Table("id" :> Quoted("main") @@ "title" :> Quoted("Main")
                               @@ "controls" :> Array(controls))>>)
MCPanelScripts ==
  {ScriptWith("rig", <<Table(Power0to2), Table(Control("readout", "state", ""))>>),
   ScriptWith("rig", <<Table(Control("toggle", "power", "heat")),
                       Table(Control("button", "stop", "heat"))>>),
   "id" :> Quoted("aux") @@ "heat" :> Of("function", "heat"),
   ScriptWith("rig", <<Table(Control("button", "stop", "missing"))>>),
   ScriptWith("rig", <<Table(Power0to2 @@ "initial" :> Of("integer", 3))>>)}

MCAssigned == {Of("integer", 1), Of("number", 5), Of("boolean", TRUE), Of("string", "hot")}

FailedSetupCanReload == component = "panels" => Panels!FailedSetupCanReload

-----------------------------------------------------------------------------
(* Scripts that call the application: the handles, a PID loop on the virtual *)
(* heater and an on/off loop on the power of the controller, what may be     *)
(* asked of them, and tables that are refused.                               *)

CallOn(on, as, op, key, value) ==
  [on |-> on, as |-> as, op |-> op, key |-> key, value |-> value, updates |-> << >>]
App(op, as, value) == CallOn("app", as, op, "", value)
Nothing == [type |-> "nil", value |-> 0]
LoopCall(op, key, value) == CallOn("heater", "", op, key, value)
Updating(op, key, value) ==
  [LoopCall(op, key, value) EXCEPT !.updates = <<[key |-> key, value |-> value]>>]

PidTable ==
  "name" :> Quoted("heater") @@ "input" :> Quoted("s") @@ "setpoint" :> Whole(2)
  @@ "kp" :> Whole(1) @@ "output_min" :> Whole(0) @@ "output_max" :> Whole(6)
  @@ "safe_output" :> Whole(0)
OnOffTable ==
  "name" :> Quoted("heater") @@ "input" :> Quoted("s") @@ "setpoint" :> Whole(2)
  @@ "hysteresis" :> Whole(1) @@ "output_off" :> Whole(0) @@ "output_on" :> Whole(4)
FilterTable ==
  "name" :> Quoted("smooth") @@ "kind" :> Quoted("median") @@ "window" :> Whole(3)

MCRequestCalls ==
  <<App("start", "", Nothing),
    App("virtual_instrument", "oven", Table("id" :> Whole(1))),
    App("metakon", "rig", Table("scale" :> Whole(2))),
    App("filter", "", Table(FilterTable @@ "interval" :> Whole(1))),
    CallOn("oven", "", "write", "heat", Whole(7)),
    CallOn("oven", "other", "pid", "heat", Table(PidTable)),
    CallOn("rig", "heater", "on_off", "output_power", Table(OnOffTable)),
    LoopCall("add", "integral", Nothing),
    LoopCall("set_ramp_reference", "",
             Table("start" :> Whole(0) @@ "target" :> Whole(4) @@ "rate" :> Whole(1))),
    LoopCall("remove", "", Nothing),
    Updating("write", "setpoint", Whole(5)),
    Updating("configure_reference", "target", Whole(1))>>

Oven ==
  [heat |-> [access |-> "read_write", type |-> "number",
             range |-> <<[minimum |-> 0, maximum |-> 6]>>, series |-> TRUE]]
Heater ==
  [address |-> <<"virtual", 1, 1, "heat">>, access |-> "read_write", type |-> "number",
   range |-> <<[minimum |-> 0, maximum |-> 6]>>, scale |-> 1, safe |-> <<0>>]
HeaterLoop ==
  [input |-> "s", target |-> Heater, running |-> TRUE,
   controller |-> Loops!NewController("pid", PidSettings), reference |-> << >>]

MCDescribed == <<1 :> Oven>>
MCStoredLoops == "heater" :> HeaterLoop
MCKeptHandles ==
  "oven" :> [on |-> "virtual", connection |-> 1, id |-> 1, parameters |-> Oven]
  @@ "heater" :> [on |-> "loop", name |-> "heater"]
MCConnections == << >>

-----------------------------------------------------------------------------
(* The specification with the two components of this module. *)
MCInit ==
  \/ Init
  \/ component = "conditions" /\ Conditions!Init
  \/ component = "scripts" /\ Scripted!Init

MCNext ==
  \/ Next
  \/ component = "conditions" /\ Conditions!Next /\ UNCHANGED component
  \/ component = "scripts" /\ Scripted!Next /\ UNCHANGED component

MCSpec == MCInit /\ [][MCNext]_vars
=============================================================================
