------------------------------- MODULE Metakon -------------------------------
(* The registers of a Metakon 5X3 channel and the frames that read and write *)
(* them.  A frame is what its bytes say: the address, the register, the      *)
(* command and a typed value; `intact` is whether its check byte is right.   *)
EXTENDS Integers

CONSTANTS ScaleOfMinutes   \* stands for 1/60, the scale of the integral time

Register(address, access, type, minimum, maximum, scaled) ==
  [address |-> address, access |-> access, type |-> type,
   minimum |-> minimum, maximum |-> maximum, scaled |-> scaled]

RegisterTable ==
  [channel_type      |-> Register(0,  "read_only",  "ubyte", 0, 255, "no"),
   measurement       |-> Register(1,  "read_only",  "int", -999, 9999, "process"),
   setpoint          |-> Register(2,  "read_write", "int", -999, 9999, "process"),
   proportional_band |-> Register(3,  "read_write", "uint", 1, 9999, "process"),
   integral_time     |-> Register(4,  "read_write", "uint", 1, 30000, "minutes"),
   derivative_time   |-> Register(5,  "read_write", "ubyte", 0, 255, "no"),
   output_power      |-> Register(6,  "read_write", "byte", -100, 100, "no"),
   pwm_positive      |-> Register(7,  "read_only",  "bool", 0, 1, "no"),
   pwm_negative      |-> Register(8,  "read_only",  "bool", 0, 1, "no"),
   upper_setpoint    |-> Register(9,  "read_write", "int", -999, 9999, "process"),
   upper_hysteresis  |-> Register(10, "read_write", "ubyte", 0, 255, "process"),
   upper_output      |-> Register(11, "read_write", "bool", 0, 1, "no"),
   lower_setpoint    |-> Register(12, "read_write", "int", -999, 9999, "process"),
   lower_hysteresis  |-> Register(13, "read_write", "ubyte", 0, 255, "process"),
   lower_output      |-> Register(14, "read_write", "bool", 0, 1, "no")]
Registers == DOMAIN RegisterTable

Address(register) == RegisterTable[register].address
DataType(register) == RegisterTable[register].type
IsWritable(register) == RegisterTable[register].access = "read_write"

FromAddress(address) == {r \in Registers : Address(r) = address}

EngineeringScale(register, scale) ==
  CASE RegisterTable[register].scaled = "process" -> scale
    [] RegisterTable[register].scaled = "minutes" -> ScaleOfMinutes
    [] OTHER -> 1

ScaleIsValid(scale) == scale > 0

InRegisterRange(register, value) ==
  value \in RegisterTable[register].minimum .. RegisterTable[register].maximum

\* A write to an address is a parameter of the 5X3: a known, writable register,
\* with a value of its type and in its range.
WriteParses(address, type, value) ==
  \E r \in FromAddress(address) :
    /\ IsWritable(r)
    /\ type = DataType(r)
    /\ InRegisterRange(r, value)

-----------------------------------------------------------------------------
ChannelTypeCode == 3
SensorFault == -32768

DataLength(type) ==
  CASE type \in {"bool", "ubyte", "byte"} -> 1
    [] type \in {"uint", "int"} -> 2
    [] type \in {"ulong", "long", "float"} -> 4
    [] type = "double" -> 8
ReadResponseLength(type) == 6 + DataLength(type)
WriteResponseLength == 5

ReadRequest(address, register) ==
  [kind |-> "metakon", address |-> address, register |-> Address(register),
   command |-> "read"]
WriteRequest(address, register, value) ==
  [kind |-> "metakon", address |-> address, register |-> Address(register),
   command |-> "write", value |-> value]

ReadFrame(request, type, value) ==
  [kind |-> "metakon", address |-> request.address, register |-> request.register,
   command |-> "read", type |-> type, value |-> value, intact |-> TRUE]
WriteFrame(request) ==
  [kind |-> "metakon", address |-> request.address, register |-> request.register,
   command |-> "write", intact |-> TRUE]

FrameLength(frame) ==
  IF frame.command = "read" THEN ReadResponseLength(frame.type) ELSE WriteResponseLength

\* Mutant: the check byte is skipped.
AnswersUnchecked(frame, request) ==
  /\ frame.address = request.address
  /\ frame.register = request.register
  /\ frame.command = request.command
\* What both decoders compare: the check byte, then the fields of the request.
Answers(frame, request) ==
  /\ frame.intact
  /\ frame.address = request.address
  /\ frame.register = request.register
  /\ frame.command = request.command

\* The bytes of a boolean are all zeros or all ones.
ValueParses(type, value) == type = "bool" => value \in {0, 1}

DecodesRead(frame, request, type) ==
  /\ Answers(frame, request)
  /\ ValueParses(frame.type, frame.value)
  /\ frame.type = type

DecodesWrite(frame, request) == Answers(frame, request)

\* Booleans keep their value, integers keep their type when the scale is one.
InstrumentValue(type, value, scale) ==
  CASE type = "bool" -> [type |-> "boolean", value |-> value = 1]
    [] scale = 1 -> [type |-> "integer", value |-> value]
    [] OTHER -> [type |-> "number", value |-> value * scale]
=============================================================================
