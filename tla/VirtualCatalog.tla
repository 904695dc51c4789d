--------------------------- MODULE VirtualCatalog ---------------------------
(* What the script of a virtual instrument declares, and how its server      *)
(* answers a request with it: the catalog read from Lua, the checks around   *)
(* every call of the model and the messages that carry the answers.          *)
EXTENDS Integers, Sequences, FiniteSets
LOCAL INSTANCE FiniteSetsExt

CONSTANTS
  NotFinite,        \* stands for NaN and the infinities
  Keys,             \* names that are identifiers
  LongTexts,        \* texts that no message has room for
  MaxPayload        \* MAX_PAYLOAD_LENGTH

OrElse(option, default) == IF option = << >> THEN default ELSE option[1]

-----------------------------------------------------------------------------
(* The catalog: parameters are numbered in the order of the script. *)

Readable(access) == access \in {"read_only", "read_write"}
Writable(access) == access \in {"write_only", "read_write"}

ParameterFields == {"key", "name", "type", "access", "series", "unit", "min", "max"}

IsRange(p) == p.min # << >> /\ p.max # << >>

\* An integer bound is an integer in Lua, a bound of a number may be one.
BoundHasType(type, bound) ==
  bound[1].type \in (IF type = "integer" THEN {"integer"} ELSE {"integer", "number"})
RangeParses(p) ==
  \/ p.min = << >> /\ p.max = << >>
  \/ /\ IsRange(p)
     /\ p.type # "boolean"
     /\ BoundHasType(p.type, p.min)
     /\ BoundHasType(p.type, p.max)

Descriptor(p) ==
  [key |-> p.key, name |-> OrElse(p.name, p.key), type |-> p.type,
   access |-> OrElse(p.access, "read_only"), series |-> p.series, unit |-> p.unit,
   range |-> IF IsRange(p)
             THEN <<[minimum |-> p.min[1].value, maximum |-> p.max[1].value]>>
             ELSE << >>]

Parses(p) ==
  /\ p.fields \subseteq ParameterFields
  /\ OrElse(p.access, "read_only") \in {"read_only", "write_only", "read_write"}
  /\ p.type \in {"boolean", "integer", "number"}
  /\ RangeParses(p)

RangeIsValid(d) ==
  \A r \in {d.range[i] : i \in DOMAIN d.range} :
    NotFinite \notin {r.minimum, r.maximum} /\ r.minimum <= r.maximum

DescriptorIsValid(d) ==
  /\ d.key \in Keys
  /\ d.name # ""
  /\ d.unit # <<"">>
  /\ d.series => Readable(d.access)
  /\ RangeIsValid(d)

InstrumentIsValid(instrument) ==
  /\ instrument.name # ""
  /\ instrument.parameters # << >>
  /\ \A i \in DOMAIN instrument.parameters :
       /\ Parses(instrument.parameters[i])
       /\ DescriptorIsValid(Descriptor(instrument.parameters[i]))
       /\ \A j \in DOMAIN instrument.parameters :
            instrument.parameters[i].key = instrument.parameters[j].key => i = j

Catalog(script) ==
  [i \in DOMAIN script.instruments |->
     [name |-> script.instruments[i].name,
      parameters |-> [j \in DOMAIN script.instruments[i].parameters |->
                        Descriptor(script.instruments[i].parameters[j])]]]
Descriptors(catalog) ==
  UNION {{catalog[i].parameters[j] : j \in DOMAIN catalog[i].parameters} : i \in DOMAIN catalog}

HandlersAreDefined(script) ==
  /\ (\E d \in Descriptors(Catalog(script)) : Readable(d.access)) => "read" \in script.handlers
  /\ (\E d \in Descriptors(Catalog(script)) : Writable(d.access)) => "write" \in script.handlers

\* The file can be read and its code ends in time without an error.
Loads(script) ==
  /\ script.runs
  /\ script.instruments # << >>
  /\ \A i \in DOMAIN script.instruments : InstrumentIsValid(script.instruments[i])
  /\ HandlersAreDefined(script)

-----------------------------------------------------------------------------
(* The server: the model is called between two checks of the same kind. *)

ErrorResponse(code, message) == [kind |-> "error_response", code |-> code, message |-> message]

InRange(d, value) ==
  \A r \in {d.range[i] : i \in DOMAIN d.range} :
    r.minimum <= value.value /\ value.value <= r.maximum

\* 5 a value of another type, 6 a number that is not finite, 7 one out of range.
ValidationErrors(d, value) ==
  IF value.type # d.type THEN {5}
  ELSE IF value.type = "number" /\ value.value = NotFinite THEN {6}
  ELSE IF ~InRange(d, value) THEN {7}
  ELSE {}

\* What the model returns in Lua becomes a value of the declared type or fails.
Converts(type, returned) ==
  returned.type = type \/ (type = "number" /\ returned.type = "integer")

Called(d, returned, kind) ==
  IF returned.type = "failure" THEN ErrorResponse(100, returned.value)
  ELSE IF ~Converts(d.type, returned) THEN ErrorResponse(100, "type")
  ELSE LET value == [type |-> d.type, value |-> returned.value]
       IN IF ValidationErrors(d, value) # {} THEN ErrorResponse(100, "invalid")
          ELSE [kind |-> kind, value |-> value]

IsKnown(catalog, request) ==
  /\ request.instrument \in DOMAIN catalog
  /\ request.parameter \in DOMAIN catalog[request.instrument].parameters
Addressed(catalog, request) == catalog[request.instrument].parameters[request.parameter]

UnknownAddress(catalog, request) ==
  ErrorResponse(IF request.instrument \in DOMAIN catalog THEN 3 ELSE 2, "unknown")

ReadResponse(catalog, request, returned) ==
  LET d == Addressed(catalog, request)
  IN IF ~Readable(d.access) THEN ErrorResponse(4, "access")
     ELSE Called(d, returned, "read_response")

WriteResponse(catalog, request, returned) ==
  LET d == Addressed(catalog, request)
      errors == ValidationErrors(d, request.value)
  IN IF ~Writable(d.access) THEN ErrorResponse(4, "access")
     ELSE IF errors # {} THEN ErrorResponse(CHOOSE code \in errors : TRUE, "invalid")
     ELSE Called(d, returned, "write_response")

Response(catalog, request, returned) ==
  CASE request.kind = "describe_request" ->
         [kind |-> "describe_response", instruments |-> catalog]
    [] request.kind \in {"read_request", "write_request"} /\ ~IsKnown(catalog, request) ->
         UnknownAddress(catalog, request)
    [] request.kind = "read_request" /\ IsKnown(catalog, request) ->
         ReadResponse(catalog, request, returned)
    [] request.kind = "write_request" /\ IsKnown(catalog, request) ->
         WriteResponse(catalog, request, returned)

-----------------------------------------------------------------------------
(* Messages: only their length can keep one from being sent. *)

TextLength(text) == 2 + (IF text \in LongTexts THEN MaxPayload ELSE 1)
ValueLength(value) == IF value.type = "boolean" THEN 2 ELSE 9

DescriptorLength(d) ==
  2 + TextLength(d.key) + TextLength(d.name) + 3
    + (IF d.range = << >> THEN 1 ELSE 17)
    + (IF d.unit = << >> THEN 1 ELSE 1 + TextLength(d.unit[1]))

InstrumentLength(instrument) ==
  2 + TextLength(instrument.name) + 2
    + MapThenSumSet(LAMBDA j : DescriptorLength(instrument.parameters[j]),
                    DOMAIN instrument.parameters)

CatalogLength(catalog) ==
  2 + MapThenSumSet(LAMBDA i : InstrumentLength(catalog[i]), DOMAIN catalog)

PayloadLength(message) ==
  CASE message.kind = "describe_request" -> 0
    [] message.kind = "read_request" -> 4
    [] message.kind = "write_request" -> 4 + ValueLength(message.value)
    [] message.kind = "describe_response" -> CatalogLength(message.instruments)
    [] message.kind \in {"read_response", "write_response"} -> ValueLength(message.value)
    [] message.kind = "error_response" -> 2 + TextLength(message.message)

Encodes(message) == PayloadLength(message) <= MaxPayload

\* A number that is not finite is refused before the server sees it.
Decodes(message) ==
  "value" \in DOMAIN message =>
    ~(message.value.type = "number" /\ message.value.value = NotFinite)

\* The kind of answer each request has.
ResponseKind(request) ==
  CASE request.kind = "describe_request" -> "describe_response"
    [] request.kind = "read_request" -> "read_response"
    [] request.kind = "write_request" -> "write_response"
=============================================================================
