----------------------------- MODULE LuaOptions -----------------------------
(* What the bindings of src/lua_api accept before they send anything: option *)
(* tables, parameter keys and values.  A Lua value is [type, value]; "nil"   *)
(* has none that matters.  The numbers of the models are whole.              *)
EXTENDS LuaTables, ControlLoop

CONSTANTS
  ScaleOfMinutes,    \* of Metakon
  Colors,            \* the texts that are colors
  PaneKeys,          \* the texts that are identifiers
  Connections,       \* the connections the application defines, by name
  Spaced,            \* the names with a space inside; none has one around it
  MaxWindow          \* MAX_FILTER_WINDOW_SIZE

Device == INSTANCE Metakon

IsNumber(table, key) == Has(table, key, "integer") \/ Has(table, key, "number")
GivenNumber(table, key, default) ==
  IF IsNumber(table, key) THEN table[key].value ELSE default
IsByte(x) == x \in 0..255

-----------------------------------------------------------------------------
(* Values. *)

\* virtual_instrument_value_from_lua: anything is true or false to Lua.
ValueFits(type, v) ==
  CASE type = "boolean" -> TRUE
    [] type = "integer" -> v.type \in Reals
    [] type = "number" -> v.type \in Reals /\ Finite(v.value)

\* The parameters of controllers and of references are all numbers.
ParameterFits(v) == ValueFits("number", v)
ReferenceParameterFits(v) == ValueFits("number", v)

RawBounds(type) ==
  CASE type = "byte" -> <<-128, 127>>
    [] type = "ubyte" -> <<0, 255>>
    [] type = "int" -> <<-32768, 32767>>
    [] type = "uint" -> <<0, 65535>>

(* metakon_write_from_lua: an engineering value that is not a whole number   *)
(* of the register's steps is refused.                                       *)
MetakonValueFits(register, v, scale) ==
  LET type == Device!DataType(register)
      step == Device!EngineeringScale(register, scale)
      raw == v.value \div step
  IN /\ Device!IsWritable(register)
     /\ type # "bool" =>
          /\ v.type \in Reals
          /\ Finite(v.value)
          /\ raw * step = v.value
          /\ raw \in RawBounds(type)[1] .. RawBounds(type)[2]
          /\ Device!InRegisterRange(register, raw)

-----------------------------------------------------------------------------
(* Series, filters and connections. *)

IsPresentation(options) ==
  /\ Converts(options, "color", {"string"})
  /\ "color" \in DOMAIN options => options["color"].value \in Colors
  /\ Converts(options, "pane", {"string"})
  /\ "pane" \in DOMAIN options => options["pane"].value \in PaneKeys

SeriesKeys == {"name", "interval", "color", "visible", "pane"}

IsSeriesTable(options, keys) ==
  /\ OnlyHas(options, keys)
  /\ Converts(options, "name", {"string"})
  /\ Converts(options, "interval", Reals)
  /\ IsNumber(options, "interval") =>
       Finite(options["interval"].value) /\ options["interval"].value > 0
  /\ IsPresentation(options)

(* parse_series_options: nothing, a name, or a table. *)
IsSeries(v) ==
  \/ v.type \in {"nil", "string"}
  \/ v.type = "table" /\ IsSeriesTable(v.value, SeriesKeys)

Primary == 1

NamesConnection(options) ==
  /\ Converts(options, "connection", {"string"})
  /\ "connection" \in DOMAIN options => options["connection"].value \in DOMAIN Connections

IsSerialSeries(v) ==
  \/ v.type \in {"nil", "string"}
  \/ /\ v.type = "table"
     /\ IsSeriesTable(v.value, SeriesKeys \cup {"connection"})
     /\ NamesConnection(v.value)

\* The samples of a diagnostic come when its loop is updated.
IsDiagnosticSeries(v) ==
  IsSeries(v) /\ (v.type = "table" => "interval" \notin DOMAIN v.value)

FilterKeys(kind) == {"kind", IF kind = "exponential" THEN "time_constant" ELSE "window"}
IsWindow(options) ==
  IsNumber(options, "window") /\ options["window"].value \in 1..MaxWindow

IsFilterDefinition(options) ==
  CASE ~Has(options, "kind", "string") -> FALSE
    [] options["kind"].value = "exponential" ->
         GivenNumber(options, "time_constant", 0) \in 1..Huge
    [] options["kind"].value = "moving_average" -> IsWindow(options)
    [] options["kind"].value = "median" ->
         IsWindow(options) /\ options["window"].value % 2 = 1
    [] OTHER -> FALSE

IsFilterTable(options, keys) ==
  /\ IsFilterDefinition(options)
  /\ OnlyHas(options, FilterKeys(options["kind"].value) \cup keys)

IsFilter(options) ==
  /\ Has(options, "name", "string")
  /\ IsFilterTable(options, SeriesKeys \ {"interval"})
  /\ IsPresentation(options)
IsFilterUpdate(options) == IsFilterTable(options, {})

-----------------------------------------------------------------------------
(* Instruments. *)

OptionsOf(v) == IF v.type = "nil" THEN << >> ELSE v.value
IsOptions(v) == v.type \in {"nil", "table"}
ConnectionOf(options) ==
  IF "connection" \in DOMAIN options THEN Connections[options["connection"].value]
  ELSE Primary

IsMetakon(options) ==
  /\ OnlyHas(options, {"connection", "device", "channel", "scale"})
  /\ NamesConnection(options)
  /\ \A key \in {"device", "channel", "scale"} : Converts(options, key, Reals)
  /\ IsByte(GivenNumber(options, "device", 1))
  /\ IsByte(GivenNumber(options, "channel", 0))
  /\ GivenNumber(options, "scale", 1) \in 1..Huge

\* The userdata a script holds: the channel of a controller and the scale it
\* is read with.
MetakonHandle(options) ==
  [on |-> "metakon", connection |-> ConnectionOf(options),
   device |-> GivenNumber(options, "device", 1),
   channel |-> GivenNumber(options, "channel", 0),
   scale |-> GivenNumber(options, "scale", 1)]

IsVirtualInstrument(options) ==
  /\ OnlyHas(options, {"connection", "id"})
  /\ NamesConnection(options)
  /\ Converts(options, "id", Reals)
  /\ GivenNumber(options, "id", 1) \in 1..65535

\* A virtual instrument as it described itself: its parameters by key, with
\* their access, type, range and whether they may be a series.
VirtualHandle(options, parameters) ==
  [on |-> "virtual", connection |-> ConnectionOf(options),
   id |-> GivenNumber(options, "id", 1), parameters |-> parameters]

IsReadable(h, key) == h.parameters[key].access # "write_only"
IsSeriesParameter(h, key) == IsReadable(h, key) /\ h.parameters[key].series
VirtualValueFits(h, key, v) ==
  /\ ValueFits(h.parameters[key].type, v)
  /\ h.parameters[key].access # "read_only"

MetakonTarget(h, key) ==
  LET register == Device!RegisterTable[key]
      step == Device!EngineeringScale(key, h.scale)
  IN Target(<<"metakon", h.connection, h.device, h.channel, key>>, register.access,
            IF register.type = "bool" THEN "boolean"
            ELSE IF step = 1 THEN "integer" ELSE "number",
            <<[minimum |-> register.minimum * step, maximum |-> register.maximum * step]>>,
            step)
VirtualTarget(h, key) ==
  LET parameter == h.parameters[key]
  IN Target(<<"virtual", h.connection, h.id, key>>, parameter.access, parameter.type,
            parameter.range, 1)

-----------------------------------------------------------------------------
(* Control loops. *)

\* The options that are the settings of a loop.
PidNumbers ==
  [setpoint |-> "setpoint", kp |-> "kp", ki |-> "ki", kd |-> "kd",
   output_min |-> "output_min", output_max |-> "output_max"]
OnOffNumbers ==
  [setpoint |-> "setpoint", hysteresis |-> "hysteresis", output_off |-> "output_off",
   output_on |-> "output_on"]
FurnaceNumbers ==
  [setpoint |-> "setpoint", kp |-> "kp", ki |-> "ki", output_min |-> "output_min",
   output_max |-> "output_max", ambient |-> "ambient_temperature",
   max_power |-> "max_power", heater_lag |-> "heater_lag",
   linear_loss |-> "linear_loss", radiation_loss |-> "radiation_loss_1000c"]

SettingsOf(numbers, options) ==
  [key \in DOMAIN numbers |-> GivenNumber(options, numbers[key], 0)]

HasSettings(kind, numbers, optional, options) ==
  /\ \A key \in DOMAIN numbers : Converts(options, numbers[key], Reals)
  /\ \A key \in DOMAIN numbers \ optional : numbers[key] \in DOMAIN options
  /\ SettingsError(kind, SettingsOf(numbers, options)) = "none"

SafeOutputFits(target, options) ==
  /\ Converts(options, "safe_output", Reals)
  /\ "safe_output" \in DOMAIN options =>
       WithSafeValue(target, options["safe_output"].value).error = "none"

IsLoop(kind, numbers, optional, target, options) ==
  /\ TargetError(target) = "none"
  /\ OnlyHas(options, {"name", "input", "safe_output"}
                        \cup {numbers[key] : key \in DOMAIN numbers})
  /\ HasText(options, "name")
  /\ HasText(options, "input")
  /\ SafeOutputFits(target, options)
  /\ HasSettings(kind, numbers, optional, options)

\* The terms a script may leave out are zero.
IsPid(target, options) == IsLoop("pid", PidNumbers, {"ki", "kd"}, target, options)
IsOnOff(target, options) == IsLoop("on_off", OnOffNumbers, {}, target, options)
IsFurnace(target, options) == IsLoop("furnace", FurnaceNumbers, {"ki"}, target, options)

LoopKinds == {"pid", "on_off", "furnace"}
IsLoopOf(kind, target, options) ==
  CASE kind = "pid" -> IsPid(target, options)
    [] kind = "on_off" -> IsOnOff(target, options)
    [] kind = "furnace" -> IsFurnace(target, options)
NumbersOf(kind) ==
  CASE kind = "pid" -> PidNumbers
    [] kind = "on_off" -> OnOffNumbers
    [] kind = "furnace" -> FurnaceNumbers

\* The loop a table defines: running, with its safe value if it has one.
DefinitionOf(kind, target, options) ==
  [name |-> options["name"].value, input |-> options["input"].value, kind |-> kind,
   settings |-> SettingsOf(NumbersOf(kind), options), reference |-> << >>,
   target |-> IF "safe_output" \in DOMAIN options
              THEN WithSafeValue(target, options["safe_output"].value).target
              ELSE target]

IsRamp(options) ==
  /\ OnlyHas(options, {"start", "target", "rate"})
  /\ \A key \in {"start", "target", "rate"} : IsNumber(options, key)
  /\ RampSourceError(RampSource(options["start"].value, options["target"].value,
                                options["rate"].value)) = "none"
=============================================================================
