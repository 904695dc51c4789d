------------------------ MODULE ApplicationDefinition ------------------------
(* What a Lua profile declares: which tables are accepted as a definition,   *)
(* and the definition they stand for.  Times are in milliseconds.            *)
EXTENDS LuaTables

CONSTANTS
  Lower,        \* to_ascii_lowercase, on the names that occur
  Alphabet,     \* the lower-case connection names in the order of their bytes
  Padded,       \* names that begin or end with white space
  Identifiers,  \* names that are identifiers
  NotFinite     \* stands for NaN and the infinities

-----------------------------------------------------------------------------
(* Values. *)

IsDuration(table, key) ==
  /\ Converts(table, key, Reals)
  /\ key \in DOMAIN table => table[key].value # NotFinite /\ table[key].value > 0
NamesSomething(name) == name # "" /\ name \notin Padded

-----------------------------------------------------------------------------
(* The section "application". *)

DefaultRuntime ==
  [fps |-> 30, poll_interval |-> 1000, plot_window |-> 3600000,
   max_plot_points_per_series |-> 4000]

RuntimeIsValid(r) ==
  /\ r.fps \in 1 .. 240
  /\ r.poll_interval > 0
  /\ r.plot_window \in 1000 .. 1209600000
  /\ r.max_plot_points_per_series \in 4 .. 100000

RuntimeOf(table, base) == [key \in DOMAIN base |-> Given(table, key, base[key])]

RuntimeParses(table, base) ==
  /\ OnlyHas(table, DOMAIN base)
  /\ \A key \in {"fps", "max_plot_points_per_series"} : Converts(table, key, {"integer"})
  /\ \A key \in {"poll_interval", "plot_window"} : IsDuration(table, key)
  /\ RuntimeIsValid(RuntimeOf(table, base))

-----------------------------------------------------------------------------
(* The section "connections": the primary one has the first number, the      *)
(* others follow by name.                                                    *)

PRIMARY == 1
ConnectionId(names, name) ==
  IF Lower[name] = "primary" THEN PRIMARY
  ELSE LET Place(n) == CHOOSE i \in DOMAIN Alphabet : Alphabet[i] = Lower[n]
       IN 2 + Cardinality({n \in names : Lower[n] # "primary" /\ Place(n) < Place(name)})

ConnectionOptions ==
  {"port", "baud_rate", "data_bits", "parity", "stop_bits", "flow_control", "timeout"}

ConnectionParses(name, table) ==
  /\ OnlyHas(table, ConnectionOptions)
  /\ Has(table, "port", "string") /\ NamesSomething(table["port"].value)
  /\ NamesSomething(name)
  /\ \A key \in {"baud_rate", "data_bits", "stop_bits"} : Converts(table, key, {"integer"})
  /\ Given(table, "baud_rate", 9600) > 0
  /\ Given(table, "data_bits", 8) \in 5 .. 8
  /\ Given(table, "stop_bits", 1) \in 1 .. 2
  /\ \A key \in {"parity", "flow_control"} : Converts(table, key, {"string"})
  /\ Lower[Given(table, "parity", "none")] \in {"none", "even", "odd"}
  /\ Lower[Given(table, "flow_control", "none")] \in {"none", "software", "hardware"}
  /\ IsDuration(table, "timeout")

SerialConnection(names, name, table) ==
  [id |-> ConnectionId(names, name), name |-> name, port |-> table["port"].value,
   baud_rate |-> Given(table, "baud_rate", 9600), data_bits |-> Given(table, "data_bits", 8),
   parity |-> Lower[Given(table, "parity", "none")], stop_bits |-> Given(table, "stop_bits", 1),
   flow_control |-> Lower[Given(table, "flow_control", "none")],
   timeout |-> Given(table, "timeout", 250)]

ConnectionsOf(table) == {SerialConnection(DOMAIN table, name, table[name].value) : name \in DOMAIN table}

\* Mutant: ports are compared as they are written.
DifferByCase(c, d) ==
  c.id # d.id /\ Lower[c.name] # Lower[d.name] /\ c.port # d.port
CanCoexist(c, d) ==
  c.id # d.id /\ Lower[c.name] # Lower[d.name] /\ Lower[c.port] # Lower[d.port]

ConnectionsParse(table) ==
  /\ \A name \in DOMAIN table :
       /\ table[name].type = "table"
       /\ ConnectionParses(name, table[name].value)
  /\ DOMAIN table = {} \/ \E name \in DOMAIN table : Lower[name] = "primary"
  /\ \A c, d \in ConnectionsOf(table) : c.name = d.name \/ CanCoexist(c, d)

-----------------------------------------------------------------------------
(* The section "emulator": without a transport, the options decide. *)

TransportOf(table) ==
  Lower[Given(table, "transport",
              IF DOMAIN table \cap {"connection", "port"} # {} THEN "serial" ELSE "memory")]

Named(connections, name) == {c \in connections : Lower[c.name] = Lower[name]}

EmulatorOf(table, connections) ==
  [transport |-> TransportOf(table), script |-> table["script"].value,
   connection |-> IF TransportOf(table) = "serial"
                  THEN {c.id : c \in Named(connections, table["connection"].value)} ELSE {},
   port |-> IF TransportOf(table) = "serial" THEN {table["port"].value} ELSE {}]

EmulatorIsValid(connections, emulator) ==
  /\ emulator.connection \subseteq {c.id : c \in connections}
  /\ \A c \in connections, port \in emulator.port : Lower[c.port] # Lower[port]

EmulatorParses(table, connections) ==
  /\ OnlyHas(table, {"transport", "connection", "port", "script"})
  /\ Has(table, "script", "string") /\ table["script"].value # ""
  /\ Converts(table, "transport", {"string"})
  /\ \/ TransportOf(table) = "memory"
     \/ /\ TransportOf(table) = "serial"
        /\ Has(table, "connection", "string") /\ Has(table, "port", "string")
        /\ Named(connections, table["connection"].value) # {}
        /\ NamesSomething(table["port"].value)
  /\ EmulatorIsValid(connections, EmulatorOf(table, connections))

-----------------------------------------------------------------------------
(* The sections "scripts" and "plot_panes". *)

ScriptsParse(array) ==
  /\ array.continuous
  /\ \A i \in DOMAIN array.items :
       /\ array.items[i].type = "string" /\ array.items[i].value # ""
       /\ \A j \in DOMAIN array.items :
            Lower[array.items[i].value] = Lower[array.items[j].value] => i = j

PaneParses(table) ==
  /\ OnlyHas(table, {"id", "title", "weight"})
  /\ Has(table, "id", "string") /\ table["id"].value \in Identifiers
  /\ Converts(table, "title", {"string"})
  /\ Given(table, "title", "title") \notin Blank
  /\ Converts(table, "weight", Reals)
  /\ Given(table, "weight", 1) # NotFinite /\ Given(table, "weight", 1) > 0

Pane(table) ==
  [key |-> table["id"].value, title |-> Given(table, "title", table["id"].value),
   weight |-> Given(table, "weight", 1)]

PlotLayoutParses(array) ==
  /\ array.items # << >> /\ IsArrayOfTables(array)
  /\ \A i \in DOMAIN array.items : PaneParses(TablesOf(array)[i])
  /\ HaveDistinctIds(TablesOf(array))

PlotLayoutOf(array) == [i \in DOMAIN array.items |-> Pane(array.items[i].value)]
DefaultPlotLayout == <<[key |-> "main", title |-> "Plot", weight |-> 1]>>

-----------------------------------------------------------------------------
(* The whole profile.  The sections are applied to a base one after the      *)
(* other; the emulator is checked against the connections the profile has.   *)

DefaultDefinition ==
  [runtime |-> DefaultRuntime, connections |-> {}, emulator |-> << >>, scripts |-> << >>,
   panes |-> DefaultPlotLayout]

Sections == {"application", "connections", "emulator", "scripts", "plot_panes"}
Section(root, key) == root[key].value
ConnectionsIn(root, base) ==
  IF "connections" \in DOMAIN root THEN ConnectionsOf(Section(root, "connections"))
  ELSE base.connections

RootIsValid(root) ==
  /\ DOMAIN root \subseteq Sections \cup {"setup"}
  /\ Converts(root, "setup", {"function"})
  /\ \A key \in Sections : Converts(root, key, {"table"})

SectionParses(key, section, root, base) ==
  CASE key = "application" -> RuntimeParses(section, base.runtime)
    [] key = "connections" -> ConnectionsParse(section)
    [] key = "emulator" -> EmulatorParses(section, ConnectionsIn(root, base))
    [] key = "scripts" -> ScriptsParse(section)
    [] key = "plot_panes" -> PlotLayoutParses(section)

\* New connections must also suit the emulator of the base.
Applies(root, base) ==
  /\ RootIsValid(root)
  /\ \A key \in Sections \cap DOMAIN root :
       SectionParses(key, Section(root, key), root, base)
  /\ \A i \in DOMAIN base.emulator :
       EmulatorIsValid(ConnectionsIn(root, base), base.emulator[i])

Applied(root, base) ==
  [runtime |-> IF "application" \in DOMAIN root
               THEN RuntimeOf(Section(root, "application"), base.runtime) ELSE base.runtime,
   connections |-> ConnectionsIn(root, base),
   emulator |-> IF "emulator" \in DOMAIN root
                THEN <<EmulatorOf(Section(root, "emulator"), ConnectionsIn(root, base))>>
                ELSE base.emulator,
   scripts |-> IF "scripts" \in DOMAIN root
               THEN [i \in DOMAIN Section(root, "scripts").items |->
                       Section(root, "scripts").items[i].value]
               ELSE base.scripts,
   panes |-> IF "plot_panes" \in DOMAIN root
             THEN PlotLayoutOf(Section(root, "plot_panes")) ELSE base.panes]
=============================================================================
