------------------------------ MODULE LuaTables ------------------------------
(* Lua tables as the program reads them.  A table is a function from the     *)
(* keys it has to values [type, value]; an array is [continuous, items], in  *)
(* which validate_array has found every key from 1 to the length or not.     *)
(*                                                                           *)
(* Lua turns a number into a string, and a numeric string into a number,     *)
(* where the other is asked for; the tables of the models have neither.      *)
EXTENDS Integers, Sequences, FiniteSets

Reals == {"integer", "number"}

\* An option is absent, or its value has the type asked for.
Converts(table, key, types) == key \in DOMAIN table => table[key].type \in types
Given(table, key, default) == IF key \in DOMAIN table THEN table[key].value ELSE default
Has(table, key, type) == key \in DOMAIN table /\ table[key].type = type

Blank == {"", " "}
HasText(table, key) == Has(table, key, "string") /\ table[key].value \notin Blank
OnlyHas(table, keys) == DOMAIN table \subseteq keys

\* An array of tables, and these tables in order.
IsArrayOfTables(array) ==
  array.continuous /\ \A i \in DOMAIN array.items : array.items[i].type = "table"
TablesOf(array) == [i \in DOMAIN array.items |-> array.items[i].value]
HaveDistinctIds(tables) ==
  \A i, j \in DOMAIN tables : tables[i]["id"].value = tables[j]["id"].value => i = j
=============================================================================
