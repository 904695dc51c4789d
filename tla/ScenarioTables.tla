--------------------------- MODULE ScenarioTables ---------------------------
(***************************************************************************)
(* What a Lua script may write about a scenario, and what the program      *)
(* makes of it (lua_api/scenarios.rs): conditions, triggers, races and     *)
(* stages; and what the leaves of a condition say of a value               *)
(* (scenario/condition.rs).                                                *)
(***************************************************************************)
EXTENDS LuaTables, TLC

CONSTANTS
  NotFinite,   \* A value that is not a number, or infinite.
  Identifiers  \* A letter or underscore first, then letters, digits or underscores.

Numeric ==
  {"above", "below", "rate_above", "rate_below", "stale_for_seconds"}
Nested == {"inside", "outside", "stable"}
Composite == {"all", "any"}
Operators == Numeric \cup Nested \cup Composite
ConditionKeys ==
  Operators \cup {"series", "window_seconds", "for_seconds", "hysteresis", "edge"}

IsOperator(table, operator) == operator \in DOMAIN table
Operator(table) == CHOOSE operator \in Operators : operator \in DOMAIN table

\* An absent number is its default; what is not finite is refused.
Finite(table, key) ==
  key \in DOMAIN table /\ table[key].type \in Reals /\ table[key].value # NotFinite
NotNegative(table, key) ==
  key \in DOMAIN table => Finite(table, key) /\ table[key].value >= 0
Positive(table, key) == Finite(table, key) /\ table[key].value > 0
Number(table, key) == Given(table, key, 0)

IsRange(table) ==
  /\ OnlyHas(table, {"min", "max"})
  /\ Finite(table, "min") /\ Finite(table, "max")
  /\ table["min"].value < table["max"].value

IsBand(table) ==
  /\ OnlyHas(table, {"target", "tolerance"})
  /\ Finite(table, "target") /\ Positive(table, "tolerance")

\* Relaxed by the hysteresis on both sides, "outside" still has an inside.
LeavesAnInside(range, hysteresis) ==
  hysteresis > 0 => 2 * hysteresis < range["max"].value - range["min"].value

IsLeaf(table) ==
  LET operator == Operator(table)
      rate == operator \in {"rate_above", "rate_below"}
      held == Number(table, "for_seconds") > 0
  IN /\ HasText(table, "series")
     /\ Converts(table, "window_seconds", Reals)
     /\ IF rate THEN Positive(table, "window_seconds")
        ELSE "window_seconds" \notin DOMAIN table
     /\ operator \in Numeric => Finite(table, operator)
     /\ operator \in Nested => table[operator].type = "table"
     /\ operator = "inside" => IsRange(table[operator].value)
     /\ operator = "outside" =>
          /\ IsRange(table[operator].value)
          /\ LeavesAnInside(table[operator].value, Number(table, "hysteresis"))
     /\ operator = "stable" => held /\ IsBand(table[operator].value)
     /\ operator = "stale_for_seconds" =>
          ~held /\ "hysteresis" \notin DOMAIN table /\ Positive(table, operator)

RECURSIVE IsConditionAt(_, _)
IsConditionAt(table, depth) ==
  /\ OnlyHas(table, ConditionKeys)
  /\ Cardinality({operator \in Operators : IsOperator(table, operator)}) = 1
  /\ NotNegative(table, "for_seconds") /\ NotNegative(table, "hysteresis")
  /\ Converts(table, "edge", {"string"}) /\ Given(table, "edge", "rising") = "rising"
  /\ IF Operator(table) \notin Composite THEN IsLeaf(table)
     ELSE LET children == table[Operator(table)]
          IN /\ children.type = "table"
             /\ depth < 3
             /\ DOMAIN table \cap {"series", "window_seconds", "hysteresis"} = {}
             /\ Len(children.value.items) \in 1..16
             /\ IsArrayOfTables(children.value)
             /\ \A i \in DOMAIN children.value.items :
                  IsConditionAt(TablesOf(children.value)[i], depth + 1)

IsCondition(table) == IsConditionAt(table, 0)

-----------------------------------------------------------------------------
(* A condition is the sequence of the nodes of its tree, children first and *)
(* the root last; a composite names its children by their positions.        *)

LeafNode(table) ==
  LET operator == Operator(table)
      common == [series |-> table["series"].value, hold |-> Number(table, "for_seconds"),
                 hysteresis |-> Number(table, "hysteresis")]
      Its(key) == table[operator].value[key].value
      Directed(kind) ==
        [kind |-> kind, threshold |-> table[operator].value,
         direction |-> IF operator \in {"above", "rate_above"} THEN "above" ELSE "below"]
      own ==
        CASE operator \in {"above", "below"} -> Directed("threshold")
          [] operator \in {"inside", "outside"} ->
               [kind |-> operator, minimum |-> Its("min"), maximum |-> Its("max")]
          [] operator = "stable" ->
               [kind |-> "stable", target |-> Its("target"), tolerance |-> Its("tolerance")]
          [] operator \in {"rate_above", "rate_below"} ->
               [window |-> Number(table, "window_seconds")] @@ Directed("rate")
          [] operator = "stale_for_seconds" ->
               [kind |-> "stale", duration |-> table[operator].value]
  IN common @@ own

RECURSIVE NodesAfter(_, _)
NodesAfter(table, before) ==
  IF Operator(table) \notin Composite THEN <<LeafNode(table)>>
  ELSE LET items == table[Operator(table)].value.items
           nodes[i \in 0..Len(items)] ==
             IF i = 0 THEN << >>
             ELSE nodes[i - 1] \o NodesAfter(items[i].value, before + Len(nodes[i - 1]))
       IN Append(nodes[Len(items)],
                 [kind |-> Operator(table), hold |-> Number(table, "for_seconds"),
                  children |-> {before + Len(nodes[i]) : i \in DOMAIN items}])

Nodes(table) == NodesAfter(table, 0)

-----------------------------------------------------------------------------
(* Triggers, races and stages. *)

Triggers == {"after", "at", "when"}
IsTrigger(table) ==
  /\ Cardinality(Triggers \cap DOMAIN table) = 1
  /\ NotNegative(table, "after") /\ NotNegative(table, "at")
  /\ "when" \in DOMAIN table => table["when"].type = "table" /\ IsCondition(table["when"].value)

Trigger(table) ==
  LET kind == CHOOSE kind \in Triggers : kind \in DOMAIN table
  IN IF kind = "when" THEN [kind |-> kind, nodes |-> Nodes(table[kind].value)]
     ELSE [kind |-> kind, time |-> table[kind].value]

IsAlternative(table) ==
  OnlyHas(table, Triggers \cup {"callback"}) /\ IsTrigger(table) /\ HasText(table, "callback")

IsRace(array) ==
  /\ IsArrayOfTables(array) /\ array.items # << >>
  /\ \A i \in DOMAIN array.items : IsAlternative(TablesOf(array)[i])
Race(array) == [i \in DOMAIN array.items |-> Trigger(array.items[i].value)]

IsTransition(table) ==
  /\ OnlyHas(table, Triggers \cup {"next", "reason"})
  /\ HasText(table, "next") /\ table["next"].value \in Identifiers
  /\ "reason" \in DOMAIN table => HasText(table, "reason")
  /\ IsTrigger(table)
Transition(table) == [trigger |-> Trigger(table), next |-> table["next"].value]

IsStage(table) ==
  /\ OnlyHas(table, {"enter", "transitions"})
  /\ HasText(table, "enter")
  /\ Converts(table, "transitions", {"table"})
  /\ "transitions" \in DOMAIN table =>
       LET transitions == table["transitions"].value
       IN /\ IsArrayOfTables(transitions)
          /\ \A i \in DOMAIN transitions.items : IsTransition(TablesOf(transitions)[i])

\* What is kept of a stage: its transitions.
Stage(table) ==
  IF "transitions" \notin DOMAIN table THEN << >>
  ELSE LET items == table["transitions"].value.items
       IN [i \in DOMAIN items |-> Transition(items[i].value)]

-----------------------------------------------------------------------------
(* What a leaf says of a value.  entered: it said so at the last evaluation. *)

Beyond(direction, x, threshold, hysteresis, entered) ==
  LET slack == IF entered THEN hysteresis ELSE 0
  IN IF direction = "above" THEN x > threshold - slack ELSE x < threshold + slack

Within(node, x, entered) ==
  LET slack == IF entered THEN node.hysteresis ELSE 0
  IN x \in (node.minimum - slack)..(node.maximum + slack)

Beside(node, x, entered) ==
  LET slack == IF entered THEN node.hysteresis ELSE 0
  IN x < node.minimum + slack \/ x > node.maximum - slack

Near(node, x, entered) ==
  LET slack == IF entered THEN node.hysteresis ELSE 0
  IN x - node.target \in (-(node.tolerance + slack))..(node.tolerance + slack)
=============================================================================
