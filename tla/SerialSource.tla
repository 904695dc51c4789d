---------------------------- MODULE SerialSource ----------------------------
(* The serial source of a connection's worker: a port that is opened when it *)
(* is first needed, channels that are identified before they are used, and   *)
(* exchanges that are tried again.  The devices behind the port answer in    *)
(* order, late, damaged or never.                                            *)
EXTENDS Metakon, Sequences

CONSTANTS Ports,          \* the ports a connection may be configured with
          Channels,       \* addresses <<device, channel>> on each port
          Wiring,         \* assignments of type codes to the channels of a port
          Reported,       \* values the devices hold in their registers
          Operations,     \* requests of the worker
          Attempts,       \* the code's READ_ATTEMPTS and WRITE_ATTEMPTS
          MaxCalls,       \* bound on requests
          MaxUnderway     \* bound on frames on the line

VARIABLE serial

NoCall == [kind |-> "none"]
NoAnswer == [kind |-> "none"]
Used == {"channel_type", "measurement", "setpoint"}

\* What is taken for granted: registers hold integers, and the worker is asked
\* for registers and channels that are modelled.
InputsAreValid ==
  /\ Wiring \subseteq [Channels -> Int] /\ Reported \subseteq Int
  /\ \A operation \in Operations :
       \/ operation.kind \in {"text", "elsewhere"}
       \/ /\ operation.kind \in {"read", "write"}
          /\ operation.address \in Channels /\ operation.register \in Used
          /\ operation.kind = "write" => operation.value \in Int

\* `identified`, `held` and `late` record what the properties speak of.
Init ==
  \E wired \in [Ports -> Wiring] :
    serial = [config |-> << >>, port |-> << >>, verified |-> {},
              devices |-> [p \in Ports |-> [c \in Channels |->
                             [r \in Used |-> IF r = "channel_type" THEN wired[p][c] ELSE 0]]],
              requests |-> << >>, frames |-> << >>, input |-> << >>,
              call |-> NoCall, plan |-> << >>, phase |-> "idle", attempt |-> 1,
              answer |-> NoAnswer, calls |-> 0,
              identified |-> {}, held |-> [p \in Ports |-> [c \in Channels |->
                             [r \in Used |-> IF r = "channel_type" THEN {wired[p][c]} ELSE {0}]]],
              late |-> FALSE]

IsOpen(s) == s.port # << >>
Opened(s) == s.port[1]
Idle(s) == s.phase = "idle"

-----------------------------------------------------------------------------
(* Requests of the worker.                                                   *)

Finish(s, answer) ==
  [s EXCEPT !.phase = "idle", !.plan = << >>, !.answer = answer]
Failed(s) == Finish(s, [kind |-> "error"])

IsMetakon(call) == call.kind \in {"read", "write"}

\* The port is opened from the configuration of the moment, and forgets which
\* channels were identified.
Open(s) ==
  [s EXCEPT !.port = s.config, !.verified = {}, !.input = << >>, !.identified = {}]

ExchangesOf(call, verified) ==
  CASE call.kind = "text" -> <<"text">>
    [] call.kind = "read" -> (IF call.address \in verified THEN << >> ELSE <<"verify">>)
                               \o <<"read">>
    [] call.kind = "write" -> (IF call.address \in verified THEN << >> ELSE <<"verify">>)
                                \o <<"write", "read">>

\* Checked before the port is opened.
IsValid(call) ==
  IsMetakon(call) =>
    /\ ScaleIsValid(call.scale)
    /\ call.kind = "write" =>
         WriteParses(Address(call.register), DataType(call.register), call.value)

\* A text that is empty or has a newline is refused by the open port.
Start(s) ==
  IF s.call.kind = "text" /\ ~s.call.single_line THEN Failed(s)
  ELSE [s EXCEPT !.plan = ExchangesOf(s.call, s.verified), !.phase = "send", !.attempt = 1]

Request ==
  \E operation \in Operations :
    LET called == [serial EXCEPT !.call = operation, !.calls = @ + 1, !.answer = NoAnswer,
                                 !.late = FALSE] IN
    /\ Idle(serial)
    /\ serial.calls < MaxCalls
    /\ \/ operation.kind = "elsewhere" /\ serial' = Finish(called, [kind |-> "none_here"])
       \/ operation.kind # "elsewhere" /\ ~IsValid(operation) /\ serial' = Failed(called)
       \/ /\ operation.kind # "elsewhere"
          /\ IsValid(operation)
          /\ \/ IsOpen(called) /\ serial' = Start(called)
             \/ ~IsOpen(called) /\ serial' = Failed(called)
             \/ ~IsOpen(called) /\ called.config # << >> /\ serial' = Start(Open(called))

Stop ==
  /\ Idle(serial)
  /\ IsOpen(serial)
  /\ serial' = [serial EXCEPT !.port = << >>, !.verified = {}, !.input = << >>]

\* Another thread stores a configuration; an open port keeps its own.
Configure ==
  \E config \in {<<p>> : p \in Ports} \cup {<< >>} :
    /\ config # serial.config
    /\ serial' = [serial EXCEPT !.config = config]

-----------------------------------------------------------------------------
(* One exchange: clear the input, write, wait for as many bytes as expected. *)

Exchange(s) == Head(s.plan)
Asked(s) ==
  CASE Exchange(s) = "text" -> [kind |-> "text"]
    [] Exchange(s) = "verify" -> ReadRequest(s.call.address, "channel_type")
    [] Exchange(s) = "read" -> ReadRequest(s.call.address, s.call.register)
    [] Exchange(s) = "write" -> WriteRequest(s.call.address, s.call.register, s.call.value)

RegisterAsked(s) == IF Exchange(s) = "verify" THEN "channel_type" ELSE s.call.register

ClearInput(s) == [s EXCEPT !.input = << >>]

\* A text is asked once, a frame up to three times.
Retry(s) ==
  IF Exchange(s) = "text" \/ s.attempt = Attempts THEN Failed(s)
  ELSE [s EXCEPT !.phase = "send", !.attempt = @ + 1]

Outlived(entries) == [i \in DOMAIN entries |-> [entries[i] EXCEPT !.current = FALSE]]

Send ==
  /\ serial.phase = "send"
  /\ \/ serial' = Retry(serial)
     \/ LET cleared == ClearInput(serial) IN
        /\ Len(serial.requests) + Len(serial.frames) < MaxUnderway
        /\ serial' = [cleared EXCEPT
             !.phase = "wait", !.frames = Outlived(@),
             !.requests = Append(Outlived(@), [port |-> Opened(serial), current |-> TRUE,
                                               request |-> Asked(serial)])]

Expected(s) ==
  IF Exchange(s) = "write" THEN WriteResponseLength
  ELSE ReadResponseLength(DataType(RegisterAsked(s)))

\* What a line is once it is complete: a finite number, another text, or one
\* that is empty, too long or not UTF-8.
Texts == {"number", "words"}

\* Bytes of another length than the expected one do not pass the check byte.
Decodes(s, frame) ==
  IF Exchange(s) = "text"
  THEN frame.kind = "text" /\ frame.value \in (IF s.call.numeric THEN {"number"} ELSE Texts)
  ELSE /\ frame.kind = "metakon"
       /\ FrameLength(frame) = Expected(s)
       /\ IF Exchange(s) = "write" THEN DecodesWrite(frame, Asked(s))
          ELSE DecodesRead(frame, Asked(s), DataType(RegisterAsked(s)))

Proceed(s) == [s EXCEPT !.plan = Tail(@), !.phase = "send", !.attempt = 1]

ValueOf(call, frame) ==
  [kind |-> "value", raw |-> frame.value,
   value |-> InstrumentValue(frame.type, frame.value, EngineeringScale(call.register, call.scale))]

Accept(s, frame) ==
  CASE Exchange(s) = "text" -> Finish(s, [kind |-> "text"])
    [] Exchange(s) = "write" -> Proceed(s)
    [] Exchange(s) = "verify" ->
         IF frame.value # ChannelTypeCode THEN Failed(s)
         ELSE Proceed([s EXCEPT !.verified = @ \cup {s.call.address}])
    [] Exchange(s) = "read" ->
         IF s.call.register = "measurement" /\ frame.value = SensorFault THEN Failed(s)
         ELSE Finish(s, ValueOf(s.call, frame))

Receive ==
  /\ serial.phase = "wait"
  /\ serial.input # << >>
  /\ LET frame == Head(serial.input).frame
         received == [serial EXCEPT !.input = Tail(@)] IN
     serial' = IF Decodes(serial, frame) THEN Accept(received, frame) ELSE Retry(received)

Timeout ==
  /\ serial.phase = "wait"
  /\ serial.input = << >>
  /\ serial' = Retry(serial)

-----------------------------------------------------------------------------
(* The line and the devices behind it.                                       *)

RegisterOf(request) == CHOOSE r \in FromAddress(request.register) : TRUE

Answered(s, entry, text) ==
  LET request == entry.request
      device == s.devices[entry.port][request.address] IN
  CASE request.kind = "text" -> [kind |-> "text", value |-> text]
    [] request.kind = "metakon" /\ request.command = "write" -> WriteFrame(request)
    [] OTHER -> ReadFrame(request, DataType(RegisterOf(request)), device[RegisterOf(request)])

Executed(s, entry) ==
  LET request == entry.request IN
  IF request.kind = "metakon" /\ request.command = "write"
  THEN [s EXCEPT !.devices[entry.port][request.address][RegisterOf(request)] = request.value,
                 !.held[entry.port][request.address][RegisterOf(request)] =
                    @ \cup {request.value}]
  ELSE s

\* The device carries out the oldest request and answers, or never gets it.
DeviceAnswers ==
  /\ serial.requests # << >>
  /\ LET entry == Head(serial.requests)
         taken == [serial EXCEPT !.requests = Tail(@)] IN
     \/ serial' = taken
     \/ \E text \in IF entry.request.kind = "text" THEN Texts \cup {"malformed"} ELSE {""} :
          serial' = [Executed(taken, entry) EXCEPT !.frames =
                       Append(@, [port |-> entry.port, current |-> entry.current,
                                  frame |-> Answered(serial, entry, text)])]

\* A frame arrives, damaged or not, or is lost.  An answer to another exchange
\* that arrives after the input was cleared is late.
Arrive ==
  /\ serial.frames # << >>
  /\ LET entry == Head(serial.frames)
         taken == [serial EXCEPT !.frames = Tail(@)]
         identifies == /\ entry.frame.kind = "metakon" /\ entry.frame.command = "read"
                       /\ entry.frame.register = Address("channel_type")
                       /\ entry.frame.value = ChannelTypeCode IN
     \/ serial' = taken
     \/ /\ serial.port = <<entry.port>>
        /\ \E damaged \in BOOLEAN :
             serial' = [taken EXCEPT
               !.input = Append(@, IF damaged /\ entry.frame.kind = "metakon"
                                   THEN [entry EXCEPT !.frame.intact = FALSE] ELSE entry),
               !.late = @ \/ (serial.phase = "wait" /\ ~entry.current),
               !.identified = @ \cup (IF identifies /\ ~damaged THEN {entry.frame.address} ELSE {})]

\* The process moves a measurement.
Change ==
  \E p \in Ports, c \in Channels :
    \E value \in Reported :
      /\ value # serial.devices[p][c].measurement
      /\ serial' = [serial EXCEPT !.devices[p][c].measurement = value,
                                  !.held[p][c].measurement = @ \cup {value}]

-----------------------------------------------------------------------------
Next ==
  \/ Request \/ Stop \/ Configure
  \/ Send \/ Receive \/ Timeout
  \/ DeviceAnswers \/ Arrive \/ Change

Spec == Init /\ [][Next]_serial

HasValue == serial.answer.kind = "value"
HeldHere(s) == s.held[Opened(s)][s.call.address][s.call.register]

\* A value is one that the register asked has held, on a channel that has said
\* since the port was opened that it is a 5X3, and never the alarm value; a
\* write that is confirmed was carried out, and its value is the register's,
\* unless an answer to an earlier request arrived while it was waited for
\* (clear_input before each exchange, the address and the register in each
\* answer, verify_channel_type and the read after each write).
AnswersAreGenuine ==
  HasValue /\ IsOpen(serial) =>
    LET call == serial.call IN
    /\ call.address \in serial.identified
    /\ serial.answer.raw \in HeldHere(serial)
    /\ ~(call.register = "measurement" /\ serial.answer.raw = SensorFault)
    /\ call.kind = "write" /\ ~serial.late =>
         serial.answer.raw = call.value
=============================================================================
