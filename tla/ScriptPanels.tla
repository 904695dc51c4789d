---------------------------- MODULE ScriptPanels ----------------------------
(* What app.register_script accepts: a script is a Lua table with an id, its *)
(* panels and the functions that its controls call.                          *)
EXTENDS LuaTables

CONSTANTS
  Identifiers,  \* the texts that are identifiers
  NotFinite     \* stands for NaN and the infinities

Callback(table) == IF table["kind"].value = "button" THEN "on_click" ELSE "on_change"
Options(kind) ==
  {"kind", "id", "label"}
  \cup CASE kind = "readout" -> {"initial"}
         [] kind = "number" -> {"initial", "min", "max", "step", "on_change"}
         [] kind = "toggle" -> {"initial", "on_change"}
         [] kind = "button" -> {"on_click"}

NumberParses(table) ==
  LET initial == Given(table, "initial", 0)
  IN /\ \A key \in {"initial", "min", "max", "step"} \cap DOMAIN table :
          table[key].type \in Reals /\ table[key].value # NotFinite
     /\ Given(table, "step", 1) > 0
     /\ "min" \in DOMAIN table => table["min"].value <= initial
     /\ "max" \in DOMAIN table => initial <= table["max"].value

ControlParses(table) ==
  /\ \A key \in {"kind", "id", "label"} : HasText(table, key)
  /\ table["kind"].value \in {"readout", "number", "toggle", "button"}
  /\ OnlyHas(table, Options(table["kind"].value))
  /\ table["id"].value \in Identifiers
  /\ table["kind"].value = "readout" => Converts(table, "initial", {"string"})
  /\ table["kind"].value = "number" => NumberParses(table)
  /\ table["kind"].value # "readout" =>
       HasText(table, Callback(table)) /\ table[Callback(table)].value \in Identifiers

PanelParses(table) ==
  /\ OnlyHas(table, {"id", "title", "controls"})
  /\ HasText(table, "id") /\ table["id"].value \in Identifiers
  /\ HasText(table, "title")
  /\ Has(table, "controls", "table")
  /\ LET controls == table["controls"].value
     IN /\ IsArrayOfTables(controls)
        /\ \A i \in DOMAIN controls.items : ControlParses(TablesOf(controls)[i])
        /\ HaveDistinctIds(TablesOf(controls))

\* Any value that is neither nil nor a boolean is true to Lua.
Truth(table, key) ==
  key \in DOMAIN table /\ (table[key].type = "boolean" => table[key].value)

Option(table, key) == IF key \in DOMAIN table THEN <<table[key].value>> ELSE << >>
Definition(table) ==
  LET kind == table["kind"].value
  IN [id |-> table["id"].value, kind |-> kind,
      initial |-> CASE kind = "readout" -> Given(table, "initial", "none")
                    [] kind = "number" -> Given(table, "initial", 0)
                    [] kind = "toggle" -> Truth(table, "initial")
                    [] kind = "button" -> << >>,
      minimum |-> Option(table, "min"), maximum |-> Option(table, "max"),
      callback |-> IF kind = "readout" THEN << >> ELSE <<table[Callback(table)].value>>]

Panel(table) ==
  [id |-> table["id"].value,
   controls |-> [i \in DOMAIN table["controls"].value.items |->
                   Definition(table["controls"].value.items[i].value)]]

Panels(script) ==
  IF "panels" \notin DOMAIN script THEN << >>
  ELSE [i \in DOMAIN script["panels"].value.items |->
          Panel(script["panels"].value.items[i].value)]

Functions(script) == {key \in DOMAIN script : script[key].type = "function"}

RegistrationParses(script) ==
  /\ HasText(script, "id") /\ script["id"].value \in Identifiers
  /\ Converts(script, "panels", {"table"})
  /\ "panels" \in DOMAIN script =>
       LET panels == script["panels"].value
       IN /\ IsArrayOfTables(panels)
          /\ \A i \in DOMAIN panels.items : PanelParses(TablesOf(panels)[i])
          /\ HaveDistinctIds(TablesOf(panels))
  /\ \A i \in DOMAIN Panels(script) : \A j \in DOMAIN Panels(script)[i].controls :
       \A k \in DOMAIN Panels(script)[i].controls[j].callback :
         Panels(script)[i].controls[j].callback[k] \in Functions(script)

Registration(script) == [panels |-> Panels(script), functions |-> Functions(script)]

\* A value that app.set_control takes for a control of a kind.
IsAssignable(kind, value) ==
  \/ kind = "readout" /\ value.type = "string"
  \/ kind = "number" /\ value.type \in Reals /\ value.value # NotFinite
  \/ kind = "toggle" /\ value.type = "boolean"
=============================================================================
