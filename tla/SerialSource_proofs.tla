------------------------ MODULE SerialSource_proofs ------------------------
(***************************************************************************)
(* Proofs about SerialSource, for any ports, channels, wiring, requests    *)
(* and bounds: whatever the line loses, damages or delays, a value that is *)
(* answered was held by the register asked, on a channel that said what it *)
(* is, and a confirmed write was carried out.                              *)
(*                                                                         *)
(* The operators of SerialSource take a state to the next, so the          *)
(* invariant is an operator too, and the lemmas say which of its parts     *)
(* each operator keeps.                                                    *)
(***************************************************************************)
EXTENDS SerialSource, SequenceTheorems, TLAPS

-----------------------------------------------------------------------------
(***************************************************************************)
(* The inductive invariant.                                                *)
(***************************************************************************)
Addresses == {Address(r) : r \in Used}
FrameTypes == {DataType(r) : r \in Used}
Asking ==
  [kind : {"text"}]
    \cup [kind : {"metakon"}, address : Channels, register : Addresses, command : {"read"}]
    \cup [kind : {"metakon"}, address : Channels, register : Addresses,
          command : {"write"}, value : Int]
Answering ==
  [kind : {"text"}, value : Texts \cup {"malformed"}]
    \cup [kind : {"metakon"}, address : Channels, register : Addresses,
          command : {"read"}, type : FrameTypes, value : Int, intact : BOOLEAN]
    \cup [kind : {"metakon"}, address : Channels, register : Addresses,
          command : {"write"}, intact : BOOLEAN]
OnLine == [port : Ports, current : BOOLEAN, request : Asking]
Arriving == [port : Ports, current : BOOLEAN, frame : Answering]

Plans == {<< >>, <<"text">>, <<"read">>, <<"verify", "read">>, <<"write", "read">>,
          <<"verify", "write", "read">>}

IsState(s) ==
  s = [config |-> s.config, port |-> s.port, verified |-> s.verified,
       devices |-> s.devices, requests |-> s.requests, frames |-> s.frames,
       input |-> s.input, call |-> s.call, plan |-> s.plan, phase |-> s.phase,
       attempt |-> s.attempt, answer |-> s.answer, calls |-> s.calls,
       identified |-> s.identified, held |-> s.held, late |-> s.late]

TypeInv(s) ==
  /\ IsState(s)
  /\ s.config = << >> \/ \E p \in Ports : s.config = <<p>>
  /\ s.port = << >> \/ \E p \in Ports : s.port = <<p>>
  /\ s.devices \in [Ports -> [Channels -> [Used -> Int]]]
  /\ s.held \in [Ports -> [Channels -> [Used -> SUBSET Int]]]
  /\ s.requests \in Seq(OnLine) /\ s.frames \in Seq(Arriving) /\ s.input \in Seq(Arriving)
  /\ s.call \in Operations \cup {NoCall}
  /\ s.plan \in Plans
  /\ s.phase \in {"idle", "send", "wait"}
  /\ s.late \in BOOLEAN

\* What is left of a call, and that a channel is verified before it is used.
PlanInv(s) ==
  /\ s.phase = "idle" <=> s.plan = << >>
  /\ s.phase # "idle" =>
       /\ IsOpen(s) /\ s.answer = NoAnswer
       /\ \/ s.call.kind = "text" /\ s.plan = <<"text">>
          \/ s.call.kind = "read" /\ s.plan \in {<<"read">>, <<"verify", "read">>}
          \/ /\ s.call.kind = "write" /\ s.call.register = "setpoint"
             /\ s.plan \in {<<"read">>, <<"write", "read">>, <<"verify", "write", "read">>}
       /\ IsMetakon(s.call) /\ Exchange(s) # "verify" => s.call.address \in s.verified

\* What devices hold and what is on its way from them has been held.
WasHeld(s, entry) ==
  entry.frame.kind = "metakon" /\ entry.frame.command = "read" =>
    \A r \in Used : entry.frame.register = Address(r) =>
      entry.frame.value \in s.held[entry.port][entry.frame.address][r]
HeldInv(s) ==
  /\ \A p \in Ports, c \in Channels, r \in Used : s.devices[p][c][r] \in s.held[p][c][r]
  /\ \A i \in DOMAIN s.frames : WasHeld(s, s.frames[i])
  /\ \A i \in DOMAIN s.input : WasHeld(s, s.input[i]) /\ s.port = <<s.input[i].port>>

\* A channel is verified by an answer that was not damaged.
Identifies(frame) ==
  /\ frame.kind = "metakon" /\ frame.command = "read"
  /\ frame.register = Address("channel_type") /\ frame.value = ChannelTypeCode
IdentifiedInv(s) ==
  /\ s.verified \subseteq s.identified
  /\ \A i \in DOMAIN s.input :
       Identifies(s.input[i].frame) /\ s.input[i].frame.intact =>
         s.input[i].frame.address \in s.identified

\* The request of this exchange is the last on the line, so its answer is on
\* its way only when no request is left; and only an answer to an earlier
\* request, which makes the call late, can be taken for it.
Written(s) == s.devices[Opened(s)][s.call.address][s.call.register] = s.call.value
IsAReading(frame) == frame.kind = "metakon" /\ frame.command = "read"
Telling(s, entry) ==
  s.call.kind = "write" =>
    /\ Exchange(s) = "write" => Written(s)
    /\ Exchange(s) = "read" /\ ~s.late /\ IsAReading(entry.frame) =>
         entry.frame.value = s.call.value
CurrentInv(s) ==
  s.phase = "wait" =>
    /\ \A i \in DOMAIN s.requests : s.requests[i].current =>
         /\ i = Len(s.requests)
         /\ s.requests[i].port = Opened(s) /\ s.requests[i].request = Asked(s)
    /\ \A i \in DOMAIN s.frames :
         s.frames[i].current => s.requests = << >> /\ Telling(s, s.frames[i])
    /\ \A i \in DOMAIN s.input :
         s.input[i].current => s.requests = << >> /\ Telling(s, s.input[i])
    /\ ~s.late => \A i \in DOMAIN s.input : s.input[i].current

\* From the confirmation of a write to its end nothing else is written.
WriteInv(s) ==
  s.call.kind = "write" /\ s.plan = <<"read">> /\ ~s.late =>
    /\ Written(s)
    /\ \A i \in DOMAIN s.requests :
         s.requests[i].request.kind = "metakon" => s.requests[i].request.command = "read"

\* AnswersAreGenuine, of any state.
IsGenuine(s) ==
  s.answer.kind = "value" /\ IsOpen(s) =>
    /\ s.call.address \in s.identified
    /\ s.answer.raw \in HeldHere(s)
    /\ ~(s.call.register = "measurement" /\ s.answer.raw = SensorFault)
    /\ s.call.kind = "write" /\ ~s.late => s.answer.raw = s.call.value
    /\ IsMetakon(s.call)

Inv(s) ==
  /\ TypeInv(s) /\ PlanInv(s) /\ HeldInv(s) /\ IdentifiedInv(s)
  /\ CurrentInv(s) /\ WriteInv(s) /\ IsGenuine(s)

-----------------------------------------------------------------------------
(***************************************************************************)
(* Registers and sequences.                                                *)
(***************************************************************************)

\* The addresses of the registers used tell them apart.
LEMMA UsedRegisters ==
  /\ Address("channel_type") = 0 /\ Address("measurement") = 1 /\ Address("setpoint") = 2
  /\ ~IsWritable("channel_type") /\ ~IsWritable("measurement")
  /\ \A r \in Registers : Address(r) \in 0 .. 2 => r \in Used
  /\ Used \subseteq Registers
<1>1. Registers = {"channel_type", "measurement", "setpoint", "proportional_band",
                   "integral_time", "derivative_time", "output_power", "pwm_positive",
                   "pwm_negative", "upper_setpoint", "upper_hysteresis", "upper_output",
                   "lower_setpoint", "lower_hysteresis", "lower_output"}
  BY DEF Registers, RegisterTable
<1>2. \A r \in Registers : Address(r) \in 0 .. 2 => r \in Used
  <2>1. /\ Address("proportional_band") = 3 /\ Address("integral_time") = 4
        /\ Address("derivative_time") = 5 /\ Address("output_power") = 6
        /\ Address("pwm_positive") = 7 /\ Address("pwm_negative") = 8
    BY DEF Address, RegisterTable, Register
  <2>2. /\ Address("upper_setpoint") = 9 /\ Address("upper_hysteresis") = 10
        /\ Address("upper_output") = 11 /\ Address("lower_setpoint") = 12
        /\ Address("lower_hysteresis") = 13 /\ Address("lower_output") = 14
    BY DEF Address, RegisterTable, Register
  <2> QED
    BY <1>1, <2>1, <2>2 DEF Used
<1>3. Address("channel_type") = 0 /\ Address("measurement") = 1 /\ Address("setpoint") = 2
  BY DEF Address, RegisterTable, Register
<1>4. ~IsWritable("channel_type") /\ ~IsWritable("measurement")
  BY DEF IsWritable, RegisterTable, Register
<1>5. Used \subseteq Registers
  BY <1>1 DEF Used
<1> QED
  BY <1>2, <1>3, <1>4, <1>5

\* An address of a register used is that of no other register.
LEMMA RegisterFound ==
  ASSUME NEW r \in Used, NEW request, request.register = Address(r)
  PROVE  RegisterOf(request) = r
<1>1. Address(r) \in 0 .. 2
  BY UsedRegisters DEF Used
<1>2. r \in FromAddress(request.register)
  BY UsedRegisters DEF FromAddress
<1>3. ASSUME NEW q \in FromAddress(request.register)
      PROVE  q = r
  <2>1. q \in Registers /\ Address(q) = Address(r)
    BY <1>3 DEF FromAddress
  <2>2. q \in Used
    BY <2>1, <1>1, UsedRegisters
  <2> QED
    BY <2>1, <2>2, UsedRegisters DEF Used
<1> QED
  BY <1>2, <1>3 DEF RegisterOf

LEMMA AddressesTellApart ==
  ASSUME NEW r \in Used, NEW q \in Used, Address(r) = Address(q)
  PROVE  r = q
  BY UsedRegisters DEF Used

\* Of the registers used only the setpoint can be written.
LEMMA OnlySetpointIsWritten ==
  ASSUME NEW r \in Used, NEW type, NEW value, WriteParses(Address(r), type, value)
  PROVE  r = "setpoint"
<1>1. PICK q \in FromAddress(Address(r)) : IsWritable(q)
  BY DEF WriteParses
<1>2. q \in Registers /\ Address(q) = Address(r)
  BY <1>1 DEF FromAddress
<1>3. Address(r) \in 0 .. 2
  BY UsedRegisters DEF Used
<1>4. q \in Used
  BY <1>2, <1>3, UsedRegisters
<1>5. q = r
  BY <1>2, <1>4, AddressesTellApart
<1> QED
  BY <1>1, <1>5, UsedRegisters DEF Used

LEMMA TailFacts ==
  ASSUME NEW S, NEW q \in Seq(S), q # << >>
  PROVE  /\ Head(q) \in S /\ Tail(q) \in Seq(S)
         /\ 1 \in DOMAIN q /\ Head(q) = q[1]
         /\ Len(q) \in Nat /\ Len(Tail(q)) = Len(q) - 1
         /\ Tail(q) = << >> <=> Len(q) = 1
         /\ \A i \in DOMAIN Tail(q) : i \in Nat /\ i + 1 \in DOMAIN q /\ Tail(q)[i] = q[i + 1]
<1>1. /\ Head(q) \in S /\ Tail(q) \in Seq(S) /\ Len(Tail(q)) = Len(q) - 1
      /\ \A i \in 1 .. Len(Tail(q)) : Tail(q)[i] = q[i + 1]
  BY HeadTailProperties
<1>2. Len(q) \in Nat \ {0} /\ Len(q) \in Nat
  BY EmptySeq, LenProperties
<1>3. DOMAIN q = 1 .. Len(q) /\ DOMAIN Tail(q) = 1 .. Len(Tail(q))
  BY <1>1, LenProperties
<1>4. Head(q) = q[1]
  OBVIOUS
<1>5. Tail(q) = << >> <=> Len(Tail(q)) = 0
  BY <1>1, EmptySeq
<1> QED
  BY <1>1, <1>2, <1>3, <1>4, <1>5

LEMMA AppendFacts ==
  ASSUME NEW S, NEW q \in Seq(S), NEW e \in S
  PROVE  /\ Append(q, e) \in Seq(S) /\ Append(q, e) # << >>
         /\ Len(q) \in Nat /\ Len(Append(q, e)) = Len(q) + 1
         /\ \A i \in DOMAIN Append(q, e) :
              \/ i \in DOMAIN q /\ i # Len(q) + 1 /\ Append(q, e)[i] = q[i]
              \/ i = Len(q) + 1 /\ Append(q, e)[i] = e
<1>1. Len(q) \in Nat /\ DOMAIN q = 1 .. Len(q)
  BY LenProperties
<1>2. /\ Append(q, e) \in Seq(S) /\ Append(q, e) # << >>
      /\ Len(Append(q, e)) = Len(q) + 1
      /\ \A i \in 1 .. Len(q) : Append(q, e)[i] = q[i]
      /\ Append(q, e)[Len(q) + 1] = e
  BY AppendProperties
<1>3. DOMAIN Append(q, e) = 1 .. Len(q) + 1
  BY <1>1, <1>2, LenProperties
<1> QED
  BY <1>1, <1>2, <1>3

-----------------------------------------------------------------------------
(***************************************************************************)
(* Steps of a call that leave the line as it is.                           *)
(***************************************************************************)
Same(r, s) ==
  /\ r.config = s.config /\ r.port = s.port /\ r.verified = s.verified
  /\ r.devices = s.devices /\ r.held = s.held /\ r.requests = s.requests
  /\ r.frames = s.frames /\ r.input = s.input /\ r.call = s.call
  /\ r.identified = s.identified /\ r.late = s.late

\* What an operator of a call makes of a state: its new phase, plan and answer.
Becomes(r, s, phase, plan, answer) ==
  IsState(r) /\ Same(r, s) /\ r.phase = phase /\ r.plan = plan /\ r.answer = answer

LEMMA Finishing ==
  ASSUME NEW s, IsState(s), NEW answer, NEW r, r = Finish(s, answer)
  PROVE  Becomes(r, s, "idle", << >>, answer)
  BY DEF IsState, Finish, Becomes, Same

LEMMA Retrying ==
  ASSUME NEW s, IsState(s), NEW r, r = Retry(s)
  PROVE  \/ Becomes(r, s, "idle", << >>, [kind |-> "error"])
         \/ Becomes(r, s, "send", s.plan, s.answer)
<1>1. CASE Exchange(s) = "text" \/ s.attempt = Attempts
  BY <1>1, Finishing DEF Retry, Failed
<1>2. CASE ~(Exchange(s) = "text" \/ s.attempt = Attempts)
  BY <1>2 DEF IsState, Retry, Becomes, Same
<1> QED
  BY <1>1, <1>2

LEMMA Proceeding ==
  ASSUME NEW s, IsState(s), NEW r, r = Proceed(s)
  PROVE  Becomes(r, s, "send", Tail(s.plan), s.answer)
  BY DEF IsState, Proceed, Becomes, Same

LEMMA Starting ==
  ASSUME NEW s, IsState(s), NEW r, r = Start(s)
  PROVE  \/ Becomes(r, s, "idle", << >>, [kind |-> "error"])
         \/ Becomes(r, s, "send", ExchangesOf(s.call, s.verified), s.answer)
<1>1. CASE s.call.kind = "text" /\ ~s.call.single_line
  BY <1>1, Finishing DEF Start, Failed
<1>2. CASE ~(s.call.kind = "text" /\ ~s.call.single_line)
  BY <1>2 DEF IsState, Start, Becomes, Same
<1> QED
  BY <1>1, <1>2

\* What the devices held and what of it is on the line stays true when nothing
\* is added to either.
LEMMA HeldStays ==
  ASSUME NEW s, HeldInv(s), NEW r, r.devices = s.devices, r.held = s.held,
         \A i \in DOMAIN r.frames : /\ i \in DOMAIN s.frames
                                    /\ r.frames[i].frame = s.frames[i].frame
                                    /\ r.frames[i].port = s.frames[i].port,
         r.input = << >> \/ (r.input = s.input /\ r.port = s.port)
  PROVE  HeldInv(r)
<1>1. \A i \in DOMAIN r.frames : WasHeld(r, r.frames[i])
  <2> TAKE i \in DOMAIN r.frames
  <2>1. WasHeld(s, s.frames[i])
    BY DEF HeldInv
  <2> QED
    BY <2>1 DEF WasHeld
<1>2. \A i \in DOMAIN r.input : WasHeld(r, r.input[i]) /\ r.port = <<r.input[i].port>>
  <2>1. CASE r.input = << >>
    <3>1. DOMAIN r.input = {}
      BY <2>1
    <3> QED
      BY <3>1
  <2>2. CASE r.input = s.input /\ r.port = s.port
    <3> TAKE i \in DOMAIN r.input
    <3>1. WasHeld(s, s.input[i]) /\ s.port = <<s.input[i].port>>
      BY <2>2 DEF HeldInv
    <3> QED
      BY <2>2, <3>1 DEF WasHeld
  <2> QED
    BY <2>1, <2>2
<1> QED
  BY <1>1, <1>2 DEF HeldInv

\* Such a step keeps what is said of the line and of what it holds.
LEMMA LineKept ==
  ASSUME NEW s, NEW r, NEW phase \in {"idle", "send"}, NEW plan \in Plans, NEW answer,
         TypeInv(s), HeldInv(s), IdentifiedInv(s), Becomes(r, s, phase, plan, answer)
  PROVE  TypeInv(r) /\ HeldInv(r) /\ IdentifiedInv(r) /\ CurrentInv(r)
<1>1. TypeInv(r)
  BY DEF TypeInv, Becomes, Same
<1>2. HeldInv(r)
  BY HeldStays DEF Becomes, Same
<1>3. IdentifiedInv(r)
  BY DEF IdentifiedInv, Becomes, Same
<1>4. CurrentInv(r)
  BY DEF CurrentInv, Becomes
<1> QED
  BY <1>1, <1>2, <1>3, <1>4

\* The end of a call that answers no value, which is what an error is.
LEMMA FinishKeeps ==
  ASSUME NEW s, NEW r, NEW answer, Inv(s), Becomes(r, s, "idle", << >>, answer),
         answer.kind # "value"
  PROVE  Inv(r)
<1>1. TypeInv(r) /\ HeldInv(r) /\ IdentifiedInv(r) /\ CurrentInv(r)
  BY LineKept DEF Inv, Plans
<1>2. PlanInv(r)
  BY DEF Becomes, PlanInv
<1>3. WriteInv(r)
  BY DEF Becomes, WriteInv
<1>4. IsGenuine(r)
  BY DEF Becomes, IsGenuine
<1> QED
  BY <1>1, <1>2, <1>3, <1>4 DEF Inv

LEMMA RetryKeeps ==
  ASSUME NEW s, Inv(s), s.phase # "idle", NEW r, r = Retry(s)
  PROVE  Inv(r)
<1>0. IsState(s)
  BY DEF Inv, TypeInv
<1>1. CASE Becomes(r, s, "idle", << >>, [kind |-> "error"])
  BY <1>1, FinishKeeps
<1>2. CASE Becomes(r, s, "send", s.plan, s.answer)
  <2>1. s.plan \in Plans /\ s.plan # << >> /\ s.answer = NoAnswer /\ IsOpen(s)
    BY DEF Inv, TypeInv, PlanInv
  <2>2. TypeInv(r) /\ HeldInv(r) /\ IdentifiedInv(r) /\ CurrentInv(r)
    BY <1>2, <2>1, LineKept DEF Inv
  <2>3. PlanInv(r)
    BY <1>2, <2>1 DEF Inv, Becomes, Same, PlanInv, IsOpen, Exchange, NoAnswer
  <2>4. WriteInv(r)
    BY <1>2 DEF Inv, Becomes, Same, WriteInv, Written, Opened
  <2>5. IsGenuine(r)
    BY <1>2, <2>1 DEF Becomes, IsGenuine, NoAnswer
  <2> QED
    BY <2>2, <2>3, <2>4, <2>5 DEF Inv
<1> QED
  BY <1>0, <1>1, <1>2, Retrying

\* A call begins with the request of its plan; its first exchange is not a read
\* after a write.
LEMMA ExchangesAreAPlan ==
  ASSUME NEW call, NEW verified, call.kind \in {"text", "read", "write"},
         NEW plan, plan = ExchangesOf(call, verified)
  PROVE  /\ call.kind = "text" => plan = <<"text">>
         /\ call.kind = "read" => \/ plan = <<"read">> /\ call.address \in verified
                                  \/ plan = <<"verify", "read">>
         /\ call.kind = "write" => \/ plan = <<"write", "read">> /\ call.address \in verified
                                   \/ plan = <<"verify", "write", "read">>
<1>1. << >> \o <<"read">> = <<"read">> /\ << >> \o <<"write", "read">> = <<"write", "read">>
  OBVIOUS
<1>2. /\ <<"verify">> \o <<"read">> = <<"verify", "read">>
      /\ <<"verify">> \o <<"write", "read">> = <<"verify", "write", "read">>
  <2> DEFINE Names == {"verify", "write", "read"}
             two == <<"verify">> \o <<"read">>
             three == <<"verify">> \o <<"write", "read">>
  <2>1. /\ <<"verify">> \in Seq(Names) /\ <<"read">> \in Seq(Names)
        /\ <<"write", "read">> \in Seq(Names)
        /\ <<"verify", "read">> \in Seq(Names) /\ <<"verify", "write", "read">> \in Seq(Names)
    OBVIOUS
  <2>2. two \in Seq(Names) /\ Len(two) = 2 /\ two[1] = "verify" /\ two[2] = "read"
    BY <2>1, ConcatProperties
  <2>3. /\ three \in Seq(Names) /\ Len(three) = 3
        /\ three[1] = "verify" /\ three[2] = "write" /\ three[3] = "read"
    BY <2>1, ConcatProperties
  <2> HIDE DEF two, three, Names
  <2>4. two = <<"verify", "read">>
    BY <2>1, <2>2, SeqEqual
  <2>5. three = <<"verify", "write", "read">>
    BY <2>1, <2>3, SeqEqual
  <2> QED
    BY <2>4, <2>5 DEF two, three
<1> QED
  BY <1>1, <1>2 DEF ExchangesOf

LEMMA StartKeeps ==
  ASSUME InputsAreValid, NEW s, Inv(s), s.phase = "idle", IsOpen(s), s.answer = NoAnswer,
         s.call \in Operations, s.call.kind # "elsewhere", IsValid(s.call),
         NEW r, r = Start(s)
  PROVE  Inv(r)
<1>0. IsState(s)
  BY DEF Inv, TypeInv
<1>1. CASE Becomes(r, s, "idle", << >>, [kind |-> "error"])
  BY <1>1, FinishKeeps
<1>2. CASE Becomes(r, s, "send", ExchangesOf(s.call, s.verified), s.answer)
  <2> DEFINE plan == ExchangesOf(s.call, s.verified)
  <2>1. s.call.kind \in {"text", "read", "write"}
    BY DEF InputsAreValid
  <2>2. s.call.kind = "write" => s.call.register = "setpoint"
    <3>1. SUFFICES ASSUME s.call.kind = "write"
                   PROVE  s.call.register = "setpoint"
      OBVIOUS
    <3>2. s.call.register \in Used
      BY <3>1 DEF InputsAreValid
    <3>3. WriteParses(Address(s.call.register), DataType(s.call.register), s.call.value)
      BY <3>1 DEF IsValid, IsMetakon
    <3> QED
      BY <3>2, <3>3, OnlySetpointIsWritten
  <2>3. /\ s.call.kind = "text" => plan = <<"text">>
        /\ s.call.kind = "read" => \/ plan = <<"read">> /\ s.call.address \in s.verified
                                   \/ plan = <<"verify", "read">>
        /\ s.call.kind = "write" => \/ plan = <<"write", "read">> /\ s.call.address \in s.verified
                                    \/ plan = <<"verify", "write", "read">>
    BY <2>1, ExchangesAreAPlan
  <2>4. Becomes(r, s, "send", plan, NoAnswer)
    BY <1>2
  <2> HIDE DEF plan
  <2>5. plan \in Plans /\ plan # << >>
    BY <2>1, <2>3 DEF Plans
  <2>6. TypeInv(r) /\ HeldInv(r) /\ IdentifiedInv(r) /\ CurrentInv(r)
    BY <2>4, <2>5, LineKept DEF Inv
  <2>7. PlanInv(r)
    <3>1. r.phase = "send" /\ r.plan # << >> /\ IsOpen(r) /\ r.answer = NoAnswer
      BY <2>4, <2>5 DEF Becomes, Same, IsOpen
    <3>2. r.call = s.call /\ r.verified = s.verified /\ r.plan = plan
      BY <2>4 DEF Becomes, Same
    <3>3. IsMetakon(r.call) /\ Exchange(r) # "verify" => r.call.address \in r.verified
      BY <2>3, <3>2 DEF IsMetakon, Exchange
    <3> QED
      BY <2>1, <2>2, <2>3, <3>1, <3>2, <3>3 DEF PlanInv
  <2>8. WriteInv(r)
    <3>1. r.call.kind = "write" => r.plan # <<"read">>
      BY <2>3, <2>4 DEF Becomes, Same
    <3> QED
      BY <3>1 DEF WriteInv
  <2>9. IsGenuine(r)
    BY <2>4 DEF Becomes, IsGenuine, NoAnswer
  <2> QED
    BY <2>6, <2>7, <2>8, <2>9 DEF Inv
<1> QED
  BY <1>0, <1>1, <1>2, Starting

-----------------------------------------------------------------------------
(***************************************************************************)
(* Receiving.                                                              *)
(***************************************************************************)

\* What is known of a frame that the call takes from the input.
Known(s, entry) ==
  /\ entry \in Arriving /\ WasHeld(s, entry) /\ s.port = <<entry.port>>
  /\ Identifies(entry.frame) /\ entry.frame.intact => entry.frame.address \in s.identified
  /\ entry.current => s.requests = << >> /\ Telling(s, entry)
  /\ ~s.late => entry.current

LEMMA TakeInput ==
  ASSUME NEW s, Inv(s), s.phase = "wait", s.input # << >>,
         NEW r, r = [s EXCEPT !.input = Tail(@)]
  PROVE  Inv(r) /\ r.phase = "wait" /\ r.plan = s.plan /\ r.call = s.call
                /\ Known(r, Head(s.input))
<1> DEFINE rest == Tail(s.input)
<1>1. /\ Head(s.input) \in Arriving /\ rest \in Seq(Arriving)
      /\ 1 \in DOMAIN s.input /\ Head(s.input) = s.input[1]
      /\ \A i \in DOMAIN rest : i + 1 \in DOMAIN s.input /\ rest[i] = s.input[i + 1]
  BY TailFacts DEF Inv, TypeInv
<1>2. r = [s EXCEPT !.input = rest]
  OBVIOUS
<1> HIDE DEF rest
<1>3. /\ IsState(r) /\ r.input = rest /\ r.phase = s.phase /\ r.plan = s.plan
      /\ r.answer = s.answer
      /\ r.config = s.config /\ r.port = s.port /\ r.verified = s.verified
      /\ r.devices = s.devices /\ r.held = s.held /\ r.requests = s.requests
      /\ r.frames = s.frames /\ r.call = s.call
      /\ r.identified = s.identified /\ r.late = s.late
  BY <1>2 DEF Inv, TypeInv, IsState
<1>4. TypeInv(r)
  BY <1>1, <1>3 DEF Inv, TypeInv
<1>5. PlanInv(r)
  BY <1>3 DEF Inv, PlanInv, IsOpen, Exchange
<1>6. HeldInv(r)
  <2>1. \A entry : WasHeld(s, entry) => WasHeld(r, entry)
    BY <1>3 DEF WasHeld
  <2> QED
    BY ZenonT(60), <1>1, <1>3, <2>1 DEF Inv, HeldInv
<1>7. IdentifiedInv(r)
  BY <1>1, <1>3 DEF Inv, IdentifiedInv
<1>8. \A entry : Telling(r, entry) <=> Telling(s, entry)
  BY <1>3 DEF Telling, Exchange, Written, Opened
<1>9. CurrentInv(r)
  <2>1. Asked(r) = Asked(s) /\ Opened(r) = Opened(s)
    BY <1>3 DEF Asked, Exchange, Opened
  <2>2. CurrentInv(s)
    BY DEF Inv
  <2> QED
    BY ZenonT(60), <1>1, <1>3, <1>8, <2>1, <2>2 DEF CurrentInv
<1>10. WriteInv(r)
  BY <1>3 DEF Inv, WriteInv, Written, Opened
<1>11. IsGenuine(r)
  BY <1>3 DEF Inv, IsGenuine, IsOpen, HeldHere, Opened
<1>12. Known(r, Head(s.input))
  <2> DEFINE entry == Head(s.input)
  <2>1. WasHeld(s, entry) /\ s.port = <<entry.port>>
    BY <1>1 DEF Inv, HeldInv
  <2>2. Identifies(entry.frame) /\ entry.frame.intact => entry.frame.address \in s.identified
    BY <1>1 DEF Inv, IdentifiedInv
  <2>3. /\ entry.current => s.requests = << >> /\ Telling(s, entry)
        /\ ~s.late => entry.current
    BY <1>1 DEF Inv, CurrentInv
  <2>4. WasHeld(r, entry)
    BY <2>1, <1>3 DEF WasHeld
  <2>5. Telling(r, entry) <=> Telling(s, entry)
    BY <1>8
  <2>6. entry \in Arriving
    BY <1>1
  <2> HIDE DEF entry
  <2>7. Known(r, entry)
    BY <1>3, <2>1, <2>2, <2>3, <2>4, <2>5, <2>6 DEF Known
  <2> QED
    BY <2>7 DEF entry
<1> QED
  BY <1>3, <1>4, <1>5, <1>6, <1>7, <1>9, <1>10, <1>11, <1>12 DEF Inv

\* A frame that decodes as the answer to a read is of the register asked.
LEMMA Matching ==
  ASSUME NEW s, NEW entry, Decodes(s, entry.frame), Exchange(s) \in {"read", "verify"}
  PROVE  /\ entry.frame.kind = "metakon" /\ entry.frame.intact
         /\ entry.frame.address = s.call.address /\ entry.frame.command = "read"
         /\ entry.frame.register = Address(RegisterAsked(s))
  BY DEF Decodes, DecodesRead, Answers, Asked, ReadRequest, RegisterAsked

\* What is left of a plan after its first exchange.
LEMMA PlanTails ==
  /\ Tail(<<"verify", "read">>) = <<"read">> /\ Tail(<<"write", "read">>) = <<"read">>
  /\ Tail(<<"verify", "write", "read">>) = <<"write", "read">>
<1> DEFINE Names == {"verify", "write", "read"}
           long == <<"verify", "write", "read">>
           rest == Tail(long)
<1>1. /\ long \in Seq(Names) /\ long # << >> /\ Len(long) = 3
      /\ long[2] = "write" /\ long[3] = "read" /\ <<"write", "read">> \in Seq(Names)
  OBVIOUS
<1> HIDE DEF long, Names
<1>2. /\ rest \in Seq(Names) /\ Len(rest) = 2
      /\ \A i \in DOMAIN rest : rest[i] = long[i + 1]
  BY <1>1, TailFacts
<1>3. DOMAIN rest = 1 .. 2
  BY <1>2, LenProperties
<1> HIDE DEF rest
<1>4. rest[1] = "write" /\ rest[2] = "read"
  BY <1>1, <1>2, <1>3
<1>5. rest = <<"write", "read">>
  BY <1>1, <1>2, <1>4, SeqEqual
<1>6. Tail(<<"verify", "read">>) = <<"read">> /\ Tail(<<"write", "read">>) = <<"read">>
  OBVIOUS
<1> QED
  BY <1>5, <1>6 DEF rest, long

LEMMA VerifyKeeps ==
  ASSUME NEW s, Inv(s), s.phase = "wait", Exchange(s) = "verify",
         NEW entry, Known(s, entry), Decodes(s, entry.frame), NEW r, r = Accept(s, entry.frame)
  PROVE  Inv(r)
<1>1. CASE entry.frame.value # ChannelTypeCode
  <2>1. Becomes(r, s, "idle", << >>, [kind |-> "error"])
    BY <1>1, Finishing DEF Accept, Failed, Inv, TypeInv
  <2> QED
    BY <2>1, FinishKeeps
<1>2. CASE entry.frame.value = ChannelTypeCode
  <2> DEFINE verified == s.verified \cup {s.call.address}
             v == [s EXCEPT !.verified = verified]
  <2>1. r = Proceed(v)
    BY <1>2 DEF Accept
  <2>2. /\ IsState(v) /\ v.verified = verified /\ v.phase = s.phase /\ v.plan = s.plan
        /\ v.answer = s.answer /\ v.input = s.input
        /\ v.config = s.config /\ v.port = s.port
        /\ v.devices = s.devices /\ v.held = s.held /\ v.requests = s.requests
        /\ v.frames = s.frames /\ v.call = s.call
        /\ v.identified = s.identified /\ v.late = s.late
    <3>1. v = [s EXCEPT !.verified = verified]
      OBVIOUS
    <3> HIDE DEF v, verified
    <3> QED
      BY <3>1 DEF Inv, TypeInv, IsState
  <2>3. s.call.address \in s.identified
    <3>1. RegisterAsked(s) = "channel_type"
      BY DEF RegisterAsked
    <3>2. Identifies(entry.frame) /\ entry.frame.intact /\ entry.frame.address = s.call.address
      BY <1>2, <3>1, Matching DEF Identifies
    <3> QED
      BY <3>2 DEF Known
  <2>4. verified \subseteq s.identified /\ s.call.address \in verified
    BY <2>3 DEF Inv, IdentifiedInv
  <2> HIDE DEF v, verified
  <2>5. TypeInv(v) /\ HeldInv(v) /\ IdentifiedInv(v)
    <3>1. TypeInv(v)
      BY <2>2 DEF Inv, TypeInv
    <3>2. HeldInv(v)
      BY <2>2, HeldStays DEF Inv
    <3>3. IdentifiedInv(v)
      BY <2>2, <2>4 DEF Inv, IdentifiedInv
    <3> QED
      BY <3>1, <3>2, <3>3
  <2>6. Becomes(r, v, "send", Tail(s.plan), s.answer)
    BY <2>1, <2>2, Proceeding
  <2>7. /\ IsOpen(s) /\ s.answer = NoAnswer
        /\ \/ s.call.kind = "read" /\ s.plan = <<"verify", "read">>
           \/ /\ s.call.kind = "write" /\ s.call.register = "setpoint"
              /\ s.plan = <<"verify", "write", "read">>
    BY DEF Inv, PlanInv, Exchange
  <2>8. \/ s.call.kind = "read" /\ Tail(s.plan) = <<"read">>
        \/ /\ s.call.kind = "write" /\ s.call.register = "setpoint"
           /\ Tail(s.plan) = <<"write", "read">>
    BY <2>7, PlanTails
  <2>9. TypeInv(r) /\ HeldInv(r) /\ IdentifiedInv(r) /\ CurrentInv(r)
    <3>1. Tail(s.plan) \in Plans
      BY <2>8 DEF Plans
    <3> QED
      BY <2>5, <2>6, <3>1, LineKept
  <2>10. PlanInv(r)
    <3>1. /\ r.phase = "send" /\ r.plan = Tail(s.plan) /\ r.answer = NoAnswer
          /\ r.call = s.call /\ r.port = s.port /\ r.verified = verified
      BY <2>2, <2>6, <2>7 DEF Becomes, Same
    <3>2. r.plan # << >> /\ IsOpen(r) /\ r.call.address \in r.verified
      BY <2>4, <2>7, <2>8, <3>1 DEF IsOpen
    <3> QED
      BY <2>7, <2>8, <3>1, <3>2 DEF PlanInv
  <2>11. WriteInv(r)
    BY <2>2, <2>6, <2>8 DEF WriteInv, Becomes, Same
  <2>12. IsGenuine(r)
    BY <2>6, <2>7 DEF IsGenuine, Becomes, NoAnswer
  <2> QED
    BY <2>9, <2>10, <2>11, <2>12 DEF Inv
<1> QED
  BY <1>1, <1>2

\* A write that is confirmed in time was carried out, and no other write is on
\* the line.
LEMMA WriteKeeps ==
  ASSUME NEW s, Inv(s), s.phase = "wait", Exchange(s) = "write",
         NEW entry, Known(s, entry), NEW r, r = Accept(s, entry.frame)
  PROVE  Inv(r)
<1>1. Becomes(r, s, "send", Tail(s.plan), s.answer)
  BY Proceeding DEF Accept, Inv, TypeInv
<1>2. /\ IsOpen(s) /\ s.answer = NoAnswer /\ s.call.kind = "write"
      /\ s.call.register = "setpoint" /\ s.plan = <<"write", "read">>
      /\ s.call.address \in s.verified
  <2>1. /\ s.phase # "idle" /\ Exchange(s) # "text" /\ Exchange(s) # "read"
        /\ Exchange(s) # "verify"
    OBVIOUS
  <2> QED
    BY <2>1 DEF Inv, PlanInv, Exchange, IsMetakon
<1>3. Tail(s.plan) = <<"read">>
  BY <1>2, PlanTails
<1>4. TypeInv(r) /\ HeldInv(r) /\ IdentifiedInv(r) /\ CurrentInv(r)
  <2>1. Tail(s.plan) \in Plans
    BY <1>3 DEF Plans
  <2> QED
    BY <1>1, <2>1, LineKept DEF Inv
<1>5. PlanInv(r)
  BY <1>1, <1>2, <1>3 DEF PlanInv, Becomes, Same, IsOpen
<1>6. WriteInv(r)
  <2>1. SUFFICES ASSUME ~r.late
                 PROVE  WriteInv(r)
    BY DEF WriteInv
  <2>2. Written(s) /\ s.requests = << >>
    BY <1>1, <1>2, <2>1 DEF Known, Telling, Becomes, Same
  <2>3. Written(r) /\ r.requests = << >>
    BY <1>1, <2>2 DEF Written, Opened, Becomes, Same
  <2> QED
    BY <2>3 DEF WriteInv
<1>7. IsGenuine(r)
  BY <1>1, <1>2 DEF IsGenuine, Becomes, NoAnswer
<1> QED
  BY <1>4, <1>5, <1>6, <1>7 DEF Inv

\* A value that is answered was held by the register asked.
LEMMA ReadKeeps ==
  ASSUME InputsAreValid, NEW s, Inv(s), s.phase = "wait", Exchange(s) = "read",
         NEW entry, Known(s, entry), Decodes(s, entry.frame), NEW r, r = Accept(s, entry.frame)
  PROVE  Inv(r)
<1>1. CASE s.call.register = "measurement" /\ entry.frame.value = SensorFault
  <2>1. Becomes(r, s, "idle", << >>, [kind |-> "error"])
    BY <1>1, Finishing DEF Accept, Failed, Inv, TypeInv
  <2> QED
    BY <2>1, FinishKeeps
<1>2. CASE ~(s.call.register = "measurement" /\ entry.frame.value = SensorFault)
  <2> DEFINE answer == ValueOf(s.call, entry.frame)
  <2>1. Becomes(r, s, "idle", << >>, answer)
    BY <1>2, Finishing DEF Accept, Inv, TypeInv
  <2>2. answer.kind = "value" /\ answer.raw = entry.frame.value
    BY DEF ValueOf
  <2> HIDE DEF answer
  <2>3. TypeInv(r) /\ HeldInv(r) /\ IdentifiedInv(r) /\ CurrentInv(r)
    BY <2>1, LineKept DEF Inv, Plans
  <2>4. PlanInv(r)
    BY <2>1 DEF PlanInv, Becomes
  <2>5. WriteInv(r)
    BY <2>1 DEF WriteInv, Becomes
  <2>6. IsGenuine(r)
    <3>1. /\ IsMetakon(s.call) /\ s.call.address \in s.identified
          /\ s.call.kind = "write" => s.plan = <<"read">>
      BY DEF Inv, PlanInv, IdentifiedInv, Exchange, IsMetakon
    <3>2. s.call.register \in Used /\ s.call.address \in Channels
      <4>1. s.call \in Operations
        BY <3>1 DEF Inv, TypeInv, NoCall, IsMetakon
      <4> QED
        BY <3>1, <4>1 DEF InputsAreValid, IsMetakon
    <3>3. /\ entry.frame.kind = "metakon" /\ entry.frame.command = "read"
          /\ entry.frame.address = s.call.address
          /\ entry.frame.register = Address(s.call.register)
      BY Matching DEF RegisterAsked
    <3>4. entry.frame.value \in HeldHere(s)
      BY <3>2, <3>3 DEF Known, WasHeld, HeldHere, Opened
    <3>5. s.call.kind = "write" /\ ~s.late => entry.frame.value = s.call.value
      BY <3>3 DEF Known, Telling, IsAReading
    <3>6. HeldHere(r) = HeldHere(s)
      BY <2>1 DEF HeldHere, Opened, Becomes, Same
    <3> QED
      BY <1>2, <2>1, <2>2, <3>1, <3>4, <3>5, <3>6 DEF IsGenuine, Becomes, Same
  <2> QED
    BY <2>3, <2>4, <2>5, <2>6 DEF Inv
<1> QED
  BY <1>1, <1>2

LEMMA AcceptKeeps ==
  ASSUME InputsAreValid, NEW s, Inv(s), s.phase = "wait",
         NEW entry, Known(s, entry), Decodes(s, entry.frame), NEW r, r = Accept(s, entry.frame)
  PROVE  Inv(r)
<1>1. Exchange(s) \in {"text", "verify", "write", "read"}
  BY DEF Inv, PlanInv, Exchange
<1>2. CASE Exchange(s) = "text"
  <2>1. Becomes(r, s, "idle", << >>, [kind |-> "text"])
    BY <1>2, Finishing DEF Accept, Inv, TypeInv
  <2> QED
    BY <2>1, FinishKeeps
<1> QED
  BY <1>1, <1>2, VerifyKeeps, WriteKeeps, ReadKeeps

LEMMA ReceiveKeeps ==
  ASSUME InputsAreValid, Inv(serial), Receive
  PROVE  Inv(serial')
<1> DEFINE entry == Head(serial.input)
           received == [serial EXCEPT !.input = Tail(@)]
<1>1. serial.phase = "wait" /\ serial.input # << >>
  BY DEF Receive
<1>2. serial' = IF Decodes(serial, entry.frame) THEN Accept(received, entry.frame)
                ELSE Retry(received)
  BY DEF Receive
<1>3. /\ Inv(received) /\ received.phase = "wait" /\ received.plan = serial.plan
      /\ received.call = serial.call /\ Known(received, entry)
  BY <1>1, TakeInput
<1> HIDE DEF entry, received
<1>4. Decodes(serial, entry.frame) => Decodes(received, entry.frame)
  BY <1>3 DEF Decodes, Exchange, Expected, RegisterAsked, Asked
<1> QED
  BY <1>2, <1>3, <1>4, AcceptKeeps, RetryKeeps

LEMMA TimeoutKeeps ==
  ASSUME Inv(serial), Timeout
  PROVE  Inv(serial')
  BY RetryKeeps DEF Timeout

-----------------------------------------------------------------------------
(***************************************************************************)
(* Requests of the worker.                                                 *)
(***************************************************************************)
Called(s, call) ==
  [s EXCEPT !.call = call, !.calls = @ + 1, !.answer = NoAnswer, !.late = FALSE]

LEMMA CallKeeps ==
  ASSUME NEW s, Inv(s), s.phase = "idle", NEW call \in Operations, NEW r, r = Called(s, call)
  PROVE  Inv(r) /\ r.phase = "idle" /\ r.call = call /\ r.answer = NoAnswer
                /\ r.config = s.config /\ r.port = s.port
<1> DEFINE no == FALSE
           calls == s.calls + 1
<1>1. r = [s EXCEPT !.call = call, !.calls = calls, !.answer = NoAnswer, !.late = no]
  BY DEF Called
<1>2. no \in BOOLEAN
  OBVIOUS
<1> HIDE DEF no, calls
<1>3. /\ IsState(r) /\ r.call = call /\ r.answer = NoAnswer /\ r.late = no
      /\ r.phase = s.phase /\ r.plan = s.plan
      /\ r.config = s.config /\ r.port = s.port /\ r.verified = s.verified
      /\ r.devices = s.devices /\ r.held = s.held /\ r.requests = s.requests
      /\ r.frames = s.frames /\ r.input = s.input /\ r.identified = s.identified
  BY <1>1 DEF Inv, TypeInv, IsState
<1>4. s.plan = << >>
  BY DEF Inv, PlanInv
<1>5. TypeInv(r)
  BY <1>2, <1>3 DEF Inv, TypeInv
<1>6. HeldInv(r) /\ IdentifiedInv(r)
  <2>1. HeldInv(r)
    BY <1>3, HeldStays DEF Inv
  <2>2. IdentifiedInv(r)
    BY <1>3 DEF Inv, IdentifiedInv
  <2> QED
    BY <2>1, <2>2
<1>7. PlanInv(r) /\ CurrentInv(r) /\ WriteInv(r)
  BY <1>3, <1>4 DEF PlanInv, CurrentInv, WriteInv
<1>8. IsGenuine(r)
  BY <1>3 DEF IsGenuine, NoAnswer
<1> QED
  BY <1>3, <1>5, <1>6, <1>7, <1>8 DEF Inv

LEMMA OpenKeeps ==
  ASSUME NEW s, Inv(s), s.phase = "idle", s.config # << >>, s.answer = NoAnswer,
         NEW r, r = Open(s)
  PROVE  Inv(r) /\ r.phase = "idle" /\ r.call = s.call /\ r.answer = NoAnswer /\ IsOpen(r)
<1>1. /\ IsState(r) /\ r.port = s.config /\ r.verified = {} /\ r.input = << >>
      /\ r.identified = {}
      /\ r.call = s.call /\ r.answer = s.answer /\ r.late = s.late
      /\ r.phase = s.phase /\ r.plan = s.plan /\ r.config = s.config
      /\ r.devices = s.devices /\ r.held = s.held /\ r.requests = s.requests
      /\ r.frames = s.frames
  BY DEF Inv, TypeInv, IsState, Open
<1>2. s.plan = << >>
  BY DEF Inv, PlanInv
<1>3. TypeInv(r)
  BY <1>1, EmptySeq DEF Inv, TypeInv
<1>4. HeldInv(r)
  BY <1>1, HeldStays DEF Inv
<1>5. IdentifiedInv(r) /\ PlanInv(r) /\ CurrentInv(r) /\ WriteInv(r)
  BY <1>1, <1>2 DEF IdentifiedInv, PlanInv, CurrentInv, WriteInv
<1>6. IsGenuine(r)
  BY <1>1 DEF IsGenuine, NoAnswer
<1> QED
  BY <1>1, <1>3, <1>4, <1>5, <1>6 DEF Inv, IsOpen

LEMMA RequestKeeps ==
  ASSUME InputsAreValid, Inv(serial), Request
  PROVE  Inv(serial')
<1>1. PICK operation \in Operations :
        LET called == Called(serial, operation) IN
        /\ serial.phase = "idle"
        /\ \/ serial' = Finish(called, [kind |-> "none_here"])
           \/ serial' = Failed(called)
           \/ /\ operation.kind # "elsewhere"
              /\ IsValid(operation)
              /\ \/ IsOpen(called) /\ serial' = Start(called)
                 \/ ~IsOpen(called) /\ called.config # << >> /\ serial' = Start(Open(called))
  BY DEF Request, Idle, Called
<1> DEFINE called == Called(serial, operation)
<1>2. \/ serial' = Finish(called, [kind |-> "none_here"])
      \/ serial' = Failed(called)
      \/ /\ operation.kind # "elsewhere"
         /\ IsValid(operation)
         /\ \/ IsOpen(called) /\ serial' = Start(called)
            \/ ~IsOpen(called) /\ called.config # << >> /\ serial' = Start(Open(called))
  BY <1>1
<1>3. Inv(called) /\ called.phase = "idle" /\ called.call = operation /\ called.answer = NoAnswer
  BY <1>1, CallKeeps
<1> HIDE DEF called
<1>4. IsState(called)
  BY <1>3 DEF Inv, TypeInv
<1>5. CASE serial' = Finish(called, [kind |-> "none_here"])
  BY <1>3, <1>4, <1>5, Finishing, FinishKeeps
<1>6. CASE serial' = Failed(called)
  BY <1>3, <1>4, <1>6, Finishing, FinishKeeps DEF Failed
<1>7. CASE operation.kind # "elsewhere" /\ IsValid(operation) /\ IsOpen(called)
           /\ serial' = Start(called)
  BY <1>3, <1>7, StartKeeps
<1>8. CASE operation.kind # "elsewhere" /\ IsValid(operation) /\ called.config # << >>
           /\ serial' = Start(Open(called))
  <2> DEFINE opened == Open(called)
  <2>1. /\ Inv(opened) /\ opened.phase = "idle" /\ opened.call = operation
        /\ opened.answer = NoAnswer /\ IsOpen(opened)
    BY <1>3, <1>8, OpenKeeps
  <2>2. serial' = Start(opened)
    BY <1>8
  <2> HIDE DEF opened
  <2> QED
    BY <1>8, <2>1, <2>2, StartKeeps
<1> QED
  BY <1>2, <1>5, <1>6, <1>7, <1>8

LEMMA StopKeeps ==
  ASSUME Inv(serial), Stop
  PROVE  Inv(serial')
<1>1. /\ IsState(serial') /\ serial'.port = << >> /\ serial'.verified = {}
      /\ serial'.input = << >> /\ serial'.identified = serial.identified
      /\ serial'.call = serial.call /\ serial'.answer = serial.answer
      /\ serial'.late = serial.late /\ serial'.phase = "idle" /\ serial'.plan = serial.plan
      /\ serial'.config = serial.config /\ serial'.devices = serial.devices
      /\ serial'.held = serial.held /\ serial'.requests = serial.requests
      /\ serial'.frames = serial.frames
  BY DEF Inv, TypeInv, IsState, Stop, Idle
<1>2. serial.plan = << >>
  BY DEF Inv, PlanInv, Stop, Idle
<1>3. TypeInv(serial')
  BY <1>1, EmptySeq DEF Inv, TypeInv
<1>4. HeldInv(serial')
  BY <1>1, HeldStays DEF Inv
<1>5. IdentifiedInv(serial') /\ PlanInv(serial') /\ CurrentInv(serial') /\ WriteInv(serial')
  BY <1>1, <1>2 DEF IdentifiedInv, PlanInv, CurrentInv, WriteInv
<1>6. IsGenuine(serial')
  BY <1>1 DEF IsGenuine, IsOpen
<1> QED
  BY <1>3, <1>4, <1>5, <1>6 DEF Inv

LEMMA ConfigureKeeps ==
  ASSUME Inv(serial), Configure
  PROVE  Inv(serial')
<1>1. PICK config \in {<<p>> : p \in Ports} \cup {<< >>} :
        serial' = [serial EXCEPT !.config = config]
  BY DEF Configure
<1>2. /\ IsState(serial') /\ serial'.config = config
      /\ serial'.port = serial.port /\ serial'.verified = serial.verified
      /\ serial'.input = serial.input /\ serial'.identified = serial.identified
      /\ serial'.call = serial.call /\ serial'.answer = serial.answer
      /\ serial'.late = serial.late /\ serial'.phase = serial.phase
      /\ serial'.plan = serial.plan /\ serial'.devices = serial.devices
      /\ serial'.held = serial.held /\ serial'.requests = serial.requests
      /\ serial'.frames = serial.frames
  BY <1>1 DEF Inv, TypeInv, IsState
<1>3. TypeInv(serial')
  BY <1>2 DEF Inv, TypeInv
<1>4. HeldInv(serial') /\ IdentifiedInv(serial')
  BY ZenonT(60), <1>2 DEF Inv, HeldInv, WasHeld, IdentifiedInv
<1>5. PlanInv(serial')
  BY <1>2 DEF Inv, PlanInv, IsOpen, Exchange
<1>6. CurrentInv(serial')
  <2>1. /\ Asked(serial') = Asked(serial) /\ Opened(serial') = Opened(serial)
        /\ \A e : Telling(serial', e) <=> Telling(serial, e)
    BY <1>2 DEF Asked, Exchange, Opened, Telling, Written
  <2> QED
    BY <1>2, <2>1 DEF Inv, CurrentInv
<1>7. WriteInv(serial')
  BY <1>2 DEF Inv, WriteInv, Written, Opened
<1>8. IsGenuine(serial')
  BY <1>2 DEF Inv, IsGenuine, IsOpen, HeldHere, Opened
<1> QED
  BY <1>3, <1>4, <1>5, <1>6, <1>7, <1>8 DEF Inv

-----------------------------------------------------------------------------
(***************************************************************************)
(* The line and the devices.                                               *)
(***************************************************************************)
LEMMA AskedIsTyped ==
  ASSUME InputsAreValid, NEW s, Inv(s), s.phase # "idle"
  PROVE  Asked(s) \in Asking
<1>1. Exchange(s) \in {"text", "verify", "read", "write"}
  BY DEF Inv, PlanInv, Exchange
<1>2. CASE Exchange(s) = "text"
  BY <1>2 DEF Asked, Asking
<1>3. CASE Exchange(s) \in {"verify", "read", "write"}
  <2>1. s.call.kind \in {"read", "write"} /\ (Exchange(s) = "write" => s.call.kind = "write")
    BY <1>3 DEF Inv, PlanInv, Exchange
  <2>2. s.call \in Operations
    BY <2>1 DEF Inv, TypeInv, NoCall
  <2>3. /\ s.call.address \in Channels /\ s.call.register \in Used
        /\ s.call.kind = "write" => s.call.value \in Int
    BY <2>1, <2>2 DEF InputsAreValid
  <2>4. Address("channel_type") \in Addresses /\ Address(s.call.register) \in Addresses
    BY <2>3 DEF Addresses, Used
  <2> QED
    BY <1>3, <2>1, <2>3, <2>4 DEF Asked, Asking, ReadRequest, WriteRequest
<1> QED
  BY <1>1, <1>2, <1>3

Outlive(e) == [e EXCEPT !.current = FALSE]

LEMMA OutlivedFacts ==
  ASSUME NEW S, NEW q \in Seq(S), \A e \in S : Outlive(e) \in S
  PROVE  /\ Outlived(q) \in Seq(S) /\ Len(Outlived(q)) = Len(q)
         /\ DOMAIN Outlived(q) = DOMAIN q
         /\ \A i \in DOMAIN q : q[i] \in S /\ Outlived(q)[i] = Outlive(q[i])
<1>1. Len(q) \in Nat /\ DOMAIN q = 1 .. Len(q) /\ \A i \in DOMAIN q : q[i] \in S
  BY LenProperties, ElementOfSeq
<1>2. Outlived(q) = [i \in 1 .. Len(q) |-> Outlive(q[i])]
  BY <1>1 DEF Outlived, Outlive
<1>3. \A i \in 1 .. Len(q) : Outlive(q[i]) \in S
  BY <1>1
<1>4. Outlived(q) \in Seq(S)
  BY <1>1, <1>2, <1>3, IsASeq
<1>5. DOMAIN Outlived(q) = 1 .. Len(q)
  BY <1>2
<1> QED
  BY <1>1, <1>2, <1>4, <1>5, LenProperties

LEMMA OutlivedRequests ==
  ASSUME NEW q \in Seq(OnLine)
  PROVE  /\ Outlived(q) \in Seq(OnLine) /\ Len(Outlived(q)) = Len(q)
         /\ DOMAIN Outlived(q) = DOMAIN q
         /\ \A i \in DOMAIN q : ~Outlived(q)[i].current /\ Outlived(q)[i].request = q[i].request
<1>1. \A e \in OnLine :
        Outlive(e) \in OnLine /\ ~Outlive(e).current /\ Outlive(e).request = e.request
  BY DEF OnLine, Outlive
<1> QED
  BY <1>1, OutlivedFacts

LEMMA OutlivedFrames ==
  ASSUME NEW q \in Seq(Arriving)
  PROVE  /\ Outlived(q) \in Seq(Arriving) /\ DOMAIN Outlived(q) = DOMAIN q
         /\ \A i \in DOMAIN q : /\ ~Outlived(q)[i].current /\ Outlived(q)[i].frame = q[i].frame
                                /\ Outlived(q)[i].port = q[i].port
<1>1. \A e \in Arriving :
        /\ Outlive(e) \in Arriving /\ ~Outlive(e).current
        /\ Outlive(e).frame = e.frame /\ Outlive(e).port = e.port
  BY DEF Arriving, Outlive
<1> QED
  BY <1>1, OutlivedFacts

\* A request that is sent is the only one of this exchange, and the last.
LEMMA SendKeeps ==
  ASSUME InputsAreValid, Inv(serial), Send
  PROVE  Inv(serial')
<1>1. CASE serial' = Retry(serial)
  BY <1>1, RetryKeeps DEF Send
<1>2. CASE serial' # Retry(serial)
  <2> DEFINE sent == [port |-> Opened(serial), current |-> TRUE, request |-> Asked(serial)]
             requests == Append(Outlived(serial.requests), sent)
             frames == Outlived(serial.frames)
  <2>1. serial.phase = "send"
    BY DEF Send
  <2>2. sent \in OnLine /\ sent.port = Opened(serial) /\ sent.request = Asked(serial)
    <3>1. Asked(serial) \in Asking
      BY <2>1, AskedIsTyped
    <3>2. Opened(serial) \in Ports
      BY <2>1 DEF Inv, TypeInv, PlanInv, IsOpen, Opened
    <3> QED
      BY <3>1, <3>2 DEF OnLine
  <2>3. /\ IsState(serial') /\ serial'.phase = "wait" /\ serial'.input = << >>
        /\ serial'.frames = frames /\ serial'.requests = requests
        /\ serial'.config = serial.config /\ serial'.port = serial.port
        /\ serial'.verified = serial.verified /\ serial'.identified = serial.identified
        /\ serial'.call = serial.call /\ serial'.answer = serial.answer
        /\ serial'.late = serial.late /\ serial'.plan = serial.plan
        /\ serial'.devices = serial.devices /\ serial'.held = serial.held
    <3>1. serial' = [serial EXCEPT !.input = << >>, !.phase = "wait", !.frames = frames,
                                   !.requests = requests]
      <4>1. serial' = [ClearInput(serial) EXCEPT !.phase = "wait", !.frames = Outlived(@),
                                                 !.requests = Append(Outlived(@), sent)]
        BY <1>2 DEF Send
      <4>2. IsState(serial)
        BY DEF Inv, TypeInv
      <4> HIDE DEF sent
      <4> QED
        BY <4>1, <4>2 DEF ClearInput, IsState
    <3>2. IsState(serial)
      BY DEF Inv, TypeInv
    <3> HIDE DEF requests, frames
    <3> QED
      BY <3>1, <3>2 DEF IsState
  <2>4. /\ frames \in Seq(Arriving) /\ DOMAIN frames = DOMAIN serial.frames
        /\ \A i \in DOMAIN frames : /\ ~frames[i].current
                                    /\ frames[i].frame = serial.frames[i].frame
                                    /\ frames[i].port = serial.frames[i].port
    BY OutlivedFrames DEF Inv, TypeInv
  <2>5. /\ Outlived(serial.requests) \in Seq(OnLine)
        /\ \A i \in DOMAIN Outlived(serial.requests) :
             /\ ~Outlived(serial.requests)[i].current
             /\ i \in DOMAIN serial.requests
             /\ Outlived(serial.requests)[i].request = serial.requests[i].request
    BY OutlivedRequests DEF Inv, TypeInv
  <2> HIDE DEF frames, sent
  <2>6. /\ requests \in Seq(OnLine)
        /\ \A i \in DOMAIN requests :
             \/ /\ ~requests[i].current /\ i \in DOMAIN serial.requests
                /\ requests[i].request = serial.requests[i].request
             \/ i = Len(requests) /\ requests[i] = sent
    BY <2>2, <2>5, AppendFacts
  <2> HIDE DEF requests
  <2>7. TypeInv(serial')
    BY <2>3, <2>4, <2>6, EmptySeq DEF Inv, TypeInv
  <2>8. PlanInv(serial')
    BY <2>1, <2>3 DEF Inv, PlanInv, IsOpen, Exchange
  <2>9. HeldInv(serial')
    BY <2>3, <2>4, HeldStays DEF Inv
  <2>10. IdentifiedInv(serial')
    BY <2>3 DEF Inv, IdentifiedInv
  <2>11. Asked(serial') = Asked(serial) /\ Opened(serial') = Opened(serial)
    BY <2>3 DEF Asked, Exchange, Opened
  <2>12. CurrentInv(serial')
    BY <2>2, <2>3, <2>4, <2>6, <2>11 DEF CurrentInv
  <2>13. WriteInv(serial')
    <3>1. SUFFICES ASSUME serial.call.kind = "write", serial.plan = <<"read">>, ~serial.late
                   PROVE  WriteInv(serial')
      BY <2>3 DEF WriteInv
    <3>2. Written(serial')
      BY <2>3, <3>1 DEF Inv, WriteInv, Written, Opened
    <3>3. sent.request.command = "read"
      BY <2>2, <3>1 DEF Asked, Exchange, ReadRequest
    <3>4. \A i \in DOMAIN serial.requests :
            serial.requests[i].request.kind = "metakon" =>
              serial.requests[i].request.command = "read"
      BY <3>1 DEF Inv, WriteInv
    <3> QED
      BY <2>3, <2>6, <3>2, <3>3, <3>4 DEF WriteInv
  <2>14. IsGenuine(serial')
    BY <2>1, <2>3 DEF Inv, PlanInv, IsGenuine, NoAnswer
  <2> QED
    BY <2>7, <2>8, <2>9, <2>10, <2>12, <2>13, <2>14 DEF Inv
<1> QED
  BY <1>1, <1>2

\* What a device answers is a frame, and a value that it answers is the one that
\* the register asked holds.
LEMMA AnswerFacts ==
  ASSUME NEW s, TypeInv(s), HeldInv(s), NEW entry \in OnLine,
         NEW text, entry.request.kind = "text" => text \in Texts \cup {"malformed"},
         NEW frame, frame = Answered(s, entry, text)
  PROVE  /\ frame \in Answering
         /\ frame.kind = "metakon" =>
              /\ entry.request.kind = "metakon" /\ frame.command = entry.request.command
              /\ frame.register = entry.request.register
              /\ frame.address = entry.request.address
         /\ frame.kind = "metakon" /\ frame.command = "read" =>
              \A r \in Used : frame.register = Address(r) =>
                /\ frame.value = s.devices[entry.port][frame.address][r]
                /\ frame.value \in s.held[entry.port][frame.address][r]
<1> DEFINE request == entry.request
<1>1. request \in Asking /\ entry.port \in Ports
  BY DEF OnLine
<1>2. CASE request.kind = "text"
  BY <1>1, <1>2 DEF Answered, Answering, Texts
<1>3. CASE request.kind = "metakon"
  <2>1. /\ request.address \in Channels /\ request.register \in Addresses
        /\ request.command \in {"read", "write"}
    BY <1>1, <1>3 DEF Asking
  <2>2. CASE request.command = "write"
    <3>1. frame = [kind |-> "metakon", address |-> request.address,
                   register |-> request.register, command |-> "write", intact |-> TRUE]
      BY <1>3, <2>2 DEF Answered, WriteFrame
    <3>2. frame \in Answering
      BY <2>1, <3>1 DEF Answering
    <3> QED
      BY <1>3, <2>2, <3>1, <3>2
  <2>3. CASE request.command = "read"
    <3>1. PICK q \in Used : request.register = Address(q)
      BY <2>1 DEF Addresses
    <3>2. RegisterOf(request) = q
      BY <3>1, RegisterFound
    <3> DEFINE value == s.devices[entry.port][request.address][q]
    <3>3. frame = ReadFrame(request, DataType(q), value)
      BY <1>3, <2>3, <3>2 DEF Answered
    <3>4. value \in Int /\ value \in s.held[entry.port][request.address][q]
      <4>1. s.devices \in [Ports -> [Channels -> [Used -> Int]]]
        BY DEF TypeInv
      <4>2. \A p \in Ports, c \in Channels, u \in Used : s.devices[p][c][u] \in s.held[p][c][u]
        BY DEF HeldInv
      <4> QED
        BY <1>1, <2>1, <4>1, <4>2
    <3> HIDE DEF value
    <3>5. frame = [kind |-> "metakon", address |-> request.address,
                   register |-> request.register, command |-> "read", type |-> DataType(q),
                   value |-> value, intact |-> TRUE]
      BY <3>3 DEF ReadFrame
    <3>6. DataType(q) \in FrameTypes
      BY DEF FrameTypes
    <3>7. frame \in Answering
      BY <2>1, <3>4, <3>5, <3>6 DEF Answering
    <3>8. frame.register = request.register
      BY <3>5
    <3>9. \A u \in Used : frame.register = Address(u) => u = q
      BY <3>1, <3>8, AddressesTellApart
    <3>10. /\ frame.kind = "metakon" /\ frame.command = "read" /\ frame.value = value
           /\ frame.address = request.address
      BY <3>5
    <3>11. /\ frame.value = s.devices[entry.port][frame.address][q]
           /\ frame.value \in s.held[entry.port][frame.address][q]
      BY <3>4, <3>10 DEF value
    <3> HIDE DEF request
    <3> QED
      BY <1>3, <2>3, <3>7, <3>8, <3>9, <3>10, <3>11 DEF request
  <2> QED
    BY <2>1, <2>2, <2>3
<1> QED
  BY <1>1, <1>2, <1>3 DEF Asking

\* What a device is asked to write it holds from then on.
LEMMA ExecutedFacts ==
  ASSUME NEW s, TypeInv(s), HeldInv(s), NEW entry \in OnLine, NEW r, r = Executed(s, entry)
  PROVE  /\ IsState(r) /\ r.config = s.config /\ r.port = s.port /\ r.verified = s.verified
         /\ r.requests = s.requests /\ r.frames = s.frames /\ r.input = s.input
         /\ r.call = s.call /\ r.plan = s.plan /\ r.phase = s.phase /\ r.answer = s.answer
         /\ r.identified = s.identified /\ r.late = s.late
         /\ r.devices \in [Ports -> [Channels -> [Used -> Int]]]
         /\ r.held \in [Ports -> [Channels -> [Used -> SUBSET Int]]]
         /\ \A p \in Ports, c \in Channels, q \in Used :
              s.held[p][c][q] \subseteq r.held[p][c][q] /\ r.devices[p][c][q] \in r.held[p][c][q]
         /\ IF entry.request.kind = "metakon" /\ entry.request.command = "write"
            THEN \A q \in Used : entry.request.register = Address(q) =>
                   r.devices[entry.port][entry.request.address][q] = entry.request.value
            ELSE r.devices = s.devices
<1> DEFINE request == entry.request
<1>1. request \in Asking /\ entry.port \in Ports
  BY DEF OnLine
<1>2. CASE ~(request.kind = "metakon" /\ request.command = "write")
  BY <1>2 DEF Executed, TypeInv, HeldInv
<1>3. CASE request.kind = "metakon" /\ request.command = "write"
  <2> DEFINE port == entry.port
             address == request.address
             value == request.value
  <2>1. address \in Channels /\ request.register \in Addresses /\ value \in Int
    BY <1>1, <1>3 DEF Asking
  <2>2. PICK q \in Used : request.register = Address(q)
    BY <2>1 DEF Addresses
  <2>3. RegisterOf(request) = q
    BY <2>2, RegisterFound
  <2>4. r = [s EXCEPT !.devices[port][address][q] = value,
                      !.held[port][address][q] = @ \cup {value}]
    BY <1>3, <2>3 DEF Executed
  <2>5. port \in Ports
    BY <1>1
  <2>6. \A p \in Used : request.register = Address(p) => p = q
    BY <2>2, AddressesTellApart
  <2> HIDE DEF port, address, value
  <2> DEFINE devices == [s.devices EXCEPT ![port][address][q] = value]
             held == [s.held EXCEPT ![port][address][q] = @ \cup {value}]
  <2>7. r = [s EXCEPT !.devices = devices, !.held = held]
    BY <2>4
  <2>8. devices \in [Ports -> [Channels -> [Used -> Int]]]
    BY <2>1, <2>5 DEF TypeInv
  <2>9. held \in [Ports -> [Channels -> [Used -> SUBSET Int]]]
    BY <2>1, <2>5 DEF TypeInv
  <2>10. devices[port][address][q] = value
    BY <2>1, <2>5 DEF TypeInv
  <2>11. \A p \in Ports, c \in Channels, u \in Used :
           s.held[p][c][u] \subseteq held[p][c][u] /\ devices[p][c][u] \in held[p][c][u]
    BY <2>1, <2>5 DEF TypeInv, HeldInv
  <2> HIDE DEF devices, held
  <2>12. /\ IsState(r) /\ r.devices = devices /\ r.held = held
         /\ r.config = s.config /\ r.port = s.port /\ r.verified = s.verified
         /\ r.requests = s.requests /\ r.frames = s.frames /\ r.input = s.input
         /\ r.call = s.call /\ r.plan = s.plan /\ r.phase = s.phase /\ r.answer = s.answer
         /\ r.identified = s.identified /\ r.late = s.late
    BY <2>7 DEF TypeInv, IsState
  <2> QED
    BY <1>3, <2>6, <2>8, <2>9, <2>10, <2>11, <2>12 DEF port, address, value
<1> QED
  BY <1>2, <1>3

\* What is known of a request that a device takes from the line.
Taken(s, entry) ==
  /\ entry \in OnLine
  /\ s.phase = "wait" =>
       /\ \A i \in DOMAIN s.frames : ~s.frames[i].current
       /\ \A i \in DOMAIN s.input : ~s.input[i].current
       /\ entry.current => /\ s.requests = << >>
                           /\ entry.port = Opened(s) /\ entry.request = Asked(s)
  /\ s.call.kind = "write" /\ s.plan = <<"read">> /\ ~s.late =>
       (entry.request.kind = "metakon" => entry.request.command = "read")

LEMMA TakeRequest ==
  ASSUME NEW s, Inv(s), s.requests # << >>, NEW r, r = [s EXCEPT !.requests = Tail(@)]
  PROVE  Inv(r) /\ Taken(r, Head(s.requests)) /\ r.devices = s.devices
<1> DEFINE rest == Tail(s.requests)
           entry == Head(s.requests)
<1>1. /\ entry \in OnLine /\ rest \in Seq(OnLine)
      /\ 1 \in DOMAIN s.requests /\ entry = s.requests[1]
      /\ Len(s.requests) \in Nat /\ Len(rest) = Len(s.requests) - 1
      /\ rest = << >> <=> Len(s.requests) = 1
      /\ \A i \in DOMAIN rest : /\ i \in Nat /\ i + 1 \in DOMAIN s.requests
                                /\ rest[i] = s.requests[i + 1]
  BY TailFacts DEF Inv, TypeInv
<1>2. r = [s EXCEPT !.requests = rest]
  OBVIOUS
<1> HIDE DEF rest, entry
<1>3. /\ IsState(r) /\ r.requests = rest /\ r.phase = s.phase /\ r.plan = s.plan
      /\ r.answer = s.answer
      /\ r.config = s.config /\ r.port = s.port /\ r.verified = s.verified
      /\ r.devices = s.devices /\ r.held = s.held /\ r.input = s.input
      /\ r.frames = s.frames /\ r.call = s.call
      /\ r.identified = s.identified /\ r.late = s.late
  BY <1>2 DEF Inv, TypeInv, IsState
<1>4. TypeInv(r)
  BY <1>1, <1>3 DEF Inv, TypeInv
<1>5. PlanInv(r)
  BY <1>3 DEF Inv, PlanInv, IsOpen, Exchange
<1>6. HeldInv(r) /\ IdentifiedInv(r)
  <2>1. HeldInv(r)
    BY <1>3, HeldStays DEF Inv
  <2>2. IdentifiedInv(r)
    BY <1>3 DEF Inv, IdentifiedInv
  <2> QED
    BY <2>1, <2>2
<1>7. Asked(r) = Asked(s) /\ Opened(r) = Opened(s)
  BY <1>3 DEF Asked, Exchange, Opened
<1>8. s.phase = "wait" =>
        /\ \A i \in DOMAIN s.frames : ~s.frames[i].current
        /\ \A i \in DOMAIN s.input : ~s.input[i].current
        /\ \A i \in DOMAIN s.requests : s.requests[i].current =>
             /\ i = Len(s.requests)
             /\ s.requests[i].port = Opened(s) /\ s.requests[i].request = Asked(s)
        /\ ~s.late => \A i \in DOMAIN s.input : s.input[i].current
  BY DEF Inv, CurrentInv
<1>9. CurrentInv(r)
  BY <1>1, <1>3, <1>7, <1>8 DEF CurrentInv
<1>10. WriteInv(r)
  BY <1>1, <1>3 DEF Inv, WriteInv, Written, Opened
<1>11. IsGenuine(r)
  BY <1>3 DEF Inv, IsGenuine, IsOpen, HeldHere, Opened
<1>12. Taken(r, entry)
  <2>1. s.call.kind = "write" /\ s.plan = <<"read">> /\ ~s.late =>
          (entry.request.kind = "metakon" => entry.request.command = "read")
    BY <1>1 DEF Inv, WriteInv
  <2>2. s.phase = "wait" /\ entry.current =>
          rest = << >> /\ entry.port = Opened(s) /\ entry.request = Asked(s)
    BY <1>1, <1>8
  <2> QED
    BY <1>1, <1>3, <1>7, <1>8, <2>1, <2>2 DEF Taken
<1> QED
  BY <1>3, <1>4, <1>5, <1>6, <1>9, <1>10, <1>11, <1>12 DEF Inv, entry

\* The answer to the request of this exchange tells what the device did.
LEMMA AnswerTells ==
  ASSUME InputsAreValid, NEW s, Inv(s), s.phase = "wait", s.call.kind = "write",
         NEW entry, Taken(s, entry), entry.current, NEW r, r = Executed(s, entry),
         NEW text, NEW frame, frame = Answered(s, entry, text)
  PROVE  /\ Exchange(s) = "write" =>
              r.devices[Opened(s)][s.call.address][s.call.register] = s.call.value
         /\ Exchange(s) = "read" /\ ~s.late => frame.value = s.call.value
<1>1. entry \in OnLine /\ entry.port = Opened(s) /\ entry.request = Asked(s)
  BY DEF Taken
<1>2. s.call.register = "setpoint" /\ "setpoint" \in Used
  BY DEF Inv, PlanInv, Used
<1>3. ASSUME Exchange(s) = "write"
      PROVE  r.devices[Opened(s)][s.call.address][s.call.register] = s.call.value
  <2>1. /\ entry.request.kind = "metakon" /\ entry.request.command = "write"
        /\ entry.request.register = Address("setpoint")
        /\ entry.request.address = s.call.address /\ entry.request.value = s.call.value
    BY <1>1, <1>2, <1>3 DEF Asked, WriteRequest
  <2>2. \A q \in Used : entry.request.register = Address(q) =>
          r.devices[entry.port][entry.request.address][q] = entry.request.value
    BY <1>1, <2>1, ExecutedFacts DEF Inv
  <2> QED
    BY <1>1, <1>2, <2>1, <2>2
<1>4. ASSUME Exchange(s) = "read", ~s.late
      PROVE  frame.value = s.call.value
  <2>1. s.plan = <<"read">>
    BY <1>4 DEF Inv, PlanInv, Exchange
  <2>2. s.devices[Opened(s)][s.call.address][s.call.register] = s.call.value
    BY <1>4, <2>1 DEF Inv, WriteInv, Written
  <2>3. entry.request = ReadRequest(s.call.address, "setpoint")
    BY <1>1, <1>2, <1>4 DEF Asked
  <2>4. RegisterOf(entry.request) = "setpoint"
    BY <1>2, <2>3, RegisterFound DEF ReadRequest
  <2>5. frame.value = s.devices[entry.port][entry.request.address]["setpoint"]
    BY <2>3, <2>4 DEF Answered, ReadRequest, ReadFrame
  <2> QED
    BY <1>1, <1>2, <2>2, <2>3, <2>5 DEF ReadRequest
<1> QED
  BY <1>3, <1>4

LEMMA AnswerKeeps ==
  ASSUME InputsAreValid, NEW s, Inv(s), NEW entry, Taken(s, entry), NEW e, e = Executed(s, entry),
         NEW text, entry.request.kind = "text" => text \in Texts \cup {"malformed"},
         NEW frame, frame = Answered(s, entry, text),
         NEW answered, answered = [port |-> entry.port, current |-> entry.current, frame |-> frame],
         NEW r, r = [e EXCEPT !.frames = Append(@, answered)]
  PROVE  Inv(r)
<1>1. entry \in OnLine /\ entry.port \in Ports /\ entry.current \in BOOLEAN
  BY DEF Taken, OnLine
<1>2. frame \in Answering /\ answered \in Arriving
  <2>1. frame \in Answering
    BY <1>1, AnswerFacts DEF Inv
  <2> QED
    BY <1>1, <2>1 DEF Arriving
<1> DEFINE frames == Append(s.frames, answered)
<1>3. /\ frames \in Seq(Arriving)
      /\ \A i \in DOMAIN frames : \/ i \in DOMAIN s.frames /\ frames[i] = s.frames[i]
                                  \/ frames[i] = answered
  BY <1>2, AppendFacts DEF Inv, TypeInv
<1>4. /\ IsState(e) /\ e.config = s.config /\ e.port = s.port /\ e.verified = s.verified
      /\ e.requests = s.requests /\ e.frames = s.frames /\ e.input = s.input
      /\ e.call = s.call /\ e.plan = s.plan /\ e.phase = s.phase /\ e.answer = s.answer
      /\ e.identified = s.identified /\ e.late = s.late
      /\ e.devices \in [Ports -> [Channels -> [Used -> Int]]]
      /\ e.held \in [Ports -> [Channels -> [Used -> SUBSET Int]]]
      /\ \A p \in Ports, c \in Channels, q \in Used :
           s.held[p][c][q] \subseteq e.held[p][c][q] /\ e.devices[p][c][q] \in e.held[p][c][q]
  BY <1>1, ExecutedFacts DEF Inv
<1>5. ~(entry.request.kind = "metakon" /\ entry.request.command = "write") =>
        e.devices = s.devices
  BY <1>1, ExecutedFacts DEF Inv
<1>6. r = [e EXCEPT !.frames = frames]
  BY <1>4
<1> HIDE DEF frames
<1>7. /\ IsState(r) /\ r.frames = frames /\ r.config = s.config /\ r.port = s.port
      /\ r.verified = s.verified /\ r.requests = s.requests /\ r.input = s.input
      /\ r.call = s.call /\ r.plan = s.plan /\ r.phase = s.phase /\ r.answer = s.answer
      /\ r.identified = s.identified /\ r.late = s.late
      /\ r.devices = e.devices /\ r.held = e.held
  BY <1>4, <1>6 DEF IsState
<1>8. TypeInv(r)
  BY <1>3, <1>4, <1>7 DEF Inv, TypeInv
<1>9. PlanInv(r)
  BY <1>7 DEF Inv, PlanInv, IsOpen, Exchange
<1>10. HeldInv(r)
  <2>1. ASSUME NEW f \in Arriving, WasHeld(s, f)
        PROVE  WasHeld(r, f)
    <3>1. SUFFICES ASSUME f.frame.kind = "metakon", f.frame.command = "read",
                          NEW q \in Used, f.frame.register = Address(q)
                   PROVE  f.frame.value \in r.held[f.port][f.frame.address][q]
      BY DEF WasHeld
    <3>2. f.port \in Ports /\ f.frame.address \in Channels
      BY <3>1 DEF Arriving, Answering
    <3>3. f.frame.value \in s.held[f.port][f.frame.address][q]
      BY <2>1, <3>1 DEF WasHeld
    <3> QED
      BY <1>4, <1>7, <3>2, <3>3
  <2>2. WasHeld(s, answered)
    BY <1>1, AnswerFacts DEF WasHeld, Inv
  <2>3. \A i \in DOMAIN s.frames : s.frames[i] \in Arriving /\ WasHeld(s, s.frames[i])
    BY LenProperties, ElementOfSeq DEF Inv, TypeInv, HeldInv
  <2>4. \A i \in DOMAIN s.input :
          s.input[i] \in Arriving /\ WasHeld(s, s.input[i]) /\ s.port = <<s.input[i].port>>
    BY LenProperties, ElementOfSeq DEF Inv, TypeInv, HeldInv
  <2>5. \A i \in DOMAIN r.frames : WasHeld(r, r.frames[i])
    BY SMTT(30), <1>2, <1>3, <1>7, <2>1, <2>2, <2>3
  <2>6. \A i \in DOMAIN r.input : WasHeld(r, r.input[i]) /\ r.port = <<r.input[i].port>>
    BY <1>7, <2>1, <2>4
  <2>7. \A p \in Ports, c \in Channels, q \in Used : r.devices[p][c][q] \in r.held[p][c][q]
    BY <1>4, <1>7
  <2> QED
    BY <2>5, <2>6, <2>7 DEF HeldInv
<1>11. IdentifiedInv(r)
  BY <1>7 DEF Inv, IdentifiedInv
<1>12. CurrentInv(r)
  <2>1. SUFFICES ASSUME s.phase = "wait"
                 PROVE  CurrentInv(r)
    BY <1>7 DEF CurrentInv
  <2>2. Asked(r) = Asked(s) /\ Opened(r) = Opened(s) /\ Exchange(r) = Exchange(s)
    BY <1>7 DEF Asked, Exchange, Opened
  <2>3. entry.current => s.requests = << >> /\ Telling(r, answered)
    <3>1. SUFFICES ASSUME entry.current, s.call.kind = "write"
                   PROVE  s.requests = << >> /\ Telling(r, answered)
      BY <1>7, <2>1 DEF Telling, Taken
    <3>2. /\ Exchange(s) = "write" =>
               e.devices[Opened(s)][s.call.address][s.call.register] = s.call.value
          /\ Exchange(s) = "read" /\ ~s.late => frame.value = s.call.value
      BY <2>1, <3>1, AnswerTells
    <3> QED
      BY <1>7, <2>1, <2>2, <3>1, <3>2 DEF Telling, Written, Taken
  <2>4. /\ \A i \in DOMAIN s.frames : ~s.frames[i].current
        /\ \A i \in DOMAIN s.input : ~s.input[i].current
    BY <2>1 DEF Taken
  <2>5. /\ \A i \in DOMAIN s.requests : s.requests[i].current =>
             /\ i = Len(s.requests)
             /\ s.requests[i].port = Opened(s) /\ s.requests[i].request = Asked(s)
        /\ ~s.late => \A i \in DOMAIN s.input : s.input[i].current
    BY <2>1 DEF Inv, CurrentInv
  <2>6. \A i \in DOMAIN r.frames :
          r.frames[i].current => r.requests = << >> /\ Telling(r, r.frames[i])
    <3>1. answered.current = entry.current
      OBVIOUS
    <3>2. SUFFICES ASSUME NEW i \in DOMAIN frames, frames[i].current
                   PROVE  s.requests = << >> /\ Telling(r, frames[i])
      BY <1>7
    <3>3. frames[i] = answered
      BY <1>3, <2>4, <3>2
    <3> QED
      BY <2>3, <3>1, <3>2, <3>3
  <2>7. \A i \in DOMAIN r.input : ~r.input[i].current
    BY <1>7, <2>4
  <2>8. ~r.late => \A i \in DOMAIN r.input : r.input[i].current
    BY <1>7, <2>5
  <2> QED
    BY ZenonT(60), <1>7, <2>2, <2>5, <2>6, <2>7, <2>8 DEF CurrentInv
<1>13. WriteInv(r)
  <2>1. SUFFICES ASSUME s.call.kind = "write", s.plan = <<"read">>, ~s.late
                 PROVE  WriteInv(r)
    BY <1>7 DEF WriteInv
  <2>2. r.devices = s.devices
    BY <1>5, <1>7, <2>1 DEF Taken
  <2> QED
    BY <1>7, <2>1, <2>2 DEF Inv, WriteInv, Written, Opened
<1>14. IsGenuine(r)
  <2>1. SUFFICES ASSUME s.answer.kind = "value", IsOpen(s)
                 PROVE  IsGenuine(r)
    BY <1>7 DEF IsGenuine, IsOpen
  <2>2. IsMetakon(s.call) /\ s.answer.raw \in HeldHere(s)
    BY <2>1 DEF Inv, IsGenuine
  <2>3. s.call.address \in Channels /\ s.call.register \in Used
    <3>1. s.call \in Operations
      BY <2>2 DEF Inv, TypeInv, NoCall, IsMetakon
    <3> QED
      BY <2>2, <3>1 DEF InputsAreValid, IsMetakon
  <2>4. Opened(s) \in Ports
    BY <2>1 DEF Inv, TypeInv, IsOpen, Opened
  <2>5. HeldHere(s) \subseteq HeldHere(r)
    BY <1>4, <1>7, <2>3, <2>4 DEF HeldHere, Opened
  <2> QED
    BY <1>7, <2>1, <2>2, <2>5 DEF Inv, IsGenuine, IsOpen
<1> QED
  BY <1>8, <1>9, <1>10, <1>11, <1>12, <1>13, <1>14 DEF Inv

LEMMA DeviceAnswersKeeps ==
  ASSUME InputsAreValid, Inv(serial), DeviceAnswers
  PROVE  Inv(serial')
<1> DEFINE entry == Head(serial.requests)
           taken == [serial EXCEPT !.requests = Tail(@)]
<1>1. /\ serial.requests # << >>
      /\ \/ serial' = taken
         \/ \E text : /\ entry.request.kind = "text" => text \in Texts \cup {"malformed"}
                      /\ serial' = [Executed(taken, entry) EXCEPT !.frames =
                           Append(@, [port |-> entry.port, current |-> entry.current,
                                      frame |-> Answered(serial, entry, text)])]
  BY DEF DeviceAnswers
<1>2. Inv(taken) /\ Taken(taken, entry) /\ taken.devices = serial.devices
  BY <1>1, TakeRequest
<1> HIDE DEF entry, taken
<1>3. CASE serial' = taken
  BY <1>2, <1>3
<1>4. ASSUME NEW text, entry.request.kind = "text" => text \in Texts \cup {"malformed"},
             serial' = [Executed(taken, entry) EXCEPT !.frames =
                         Append(@, [port |-> entry.port, current |-> entry.current,
                                    frame |-> Answered(serial, entry, text)])]
      PROVE  Inv(serial')
  <2> DEFINE e == Executed(taken, entry)
             frame == Answered(taken, entry, text)
             answered == [port |-> entry.port, current |-> entry.current, frame |-> frame]
  <2>1. Answered(serial, entry, text) = frame
    BY <1>2 DEF Answered
  <2>2. serial' = [e EXCEPT !.frames = Append(@, answered)]
    BY <1>4, <2>1
  <2>3. /\ e = Executed(taken, entry) /\ frame = Answered(taken, entry, text)
        /\ answered = [port |-> entry.port, current |-> entry.current, frame |-> frame]
    OBVIOUS
  <2> HIDE DEF e, frame, answered
  <2> QED
    BY <1>2, <1>4, <2>2, <2>3, AnswerKeeps
<1> QED
  BY <1>1, <1>3, <1>4

LEMMA TakeFrame ==
  ASSUME NEW s, Inv(s), s.frames # << >>, NEW r, r = [s EXCEPT !.frames = Tail(@)],
         NEW entry, entry = Head(s.frames)
  PROVE  /\ Inv(r) /\ r.phase = s.phase /\ r.port = s.port
         /\ entry \in Arriving /\ WasHeld(r, entry)
         /\ r.phase = "wait" /\ entry.current => r.requests = << >> /\ Telling(r, entry)
<1> DEFINE rest == Tail(s.frames)
<1>1. /\ entry \in Arriving /\ rest \in Seq(Arriving)
      /\ 1 \in DOMAIN s.frames /\ entry = s.frames[1]
      /\ \A i \in DOMAIN rest : i + 1 \in DOMAIN s.frames /\ rest[i] = s.frames[i + 1]
  BY TailFacts DEF Inv, TypeInv
<1>2. r = [s EXCEPT !.frames = rest]
  OBVIOUS
<1> HIDE DEF rest
<1>3. /\ IsState(r) /\ r.frames = rest /\ r.phase = s.phase /\ r.plan = s.plan
      /\ r.answer = s.answer
      /\ r.config = s.config /\ r.port = s.port /\ r.verified = s.verified
      /\ r.devices = s.devices /\ r.held = s.held /\ r.input = s.input
      /\ r.requests = s.requests /\ r.call = s.call
      /\ r.identified = s.identified /\ r.late = s.late
  BY <1>2 DEF Inv, TypeInv, IsState
<1>4. TypeInv(r)
  BY <1>1, <1>3 DEF Inv, TypeInv
<1>5. PlanInv(r)
  BY <1>3 DEF Inv, PlanInv, IsOpen, Exchange
<1>6. \A e : WasHeld(r, e) <=> WasHeld(s, e)
  BY <1>3 DEF WasHeld
<1>7. HeldInv(r)
  BY <1>1, <1>3, <1>6 DEF Inv, HeldInv
<1>8. IdentifiedInv(r)
  BY <1>3 DEF Inv, IdentifiedInv
<1>9. /\ Asked(r) = Asked(s) /\ Opened(r) = Opened(s)
      /\ \A e : Telling(r, e) <=> Telling(s, e)
  BY <1>3 DEF Asked, Exchange, Opened, Telling, Written
<1>10. s.phase = "wait" =>
         \A i \in DOMAIN s.frames :
           s.frames[i].current => s.requests = << >> /\ Telling(s, s.frames[i])
  BY DEF Inv, CurrentInv
<1>11. CurrentInv(r)
  BY ZenonT(60), <1>1, <1>3, <1>9, <1>10 DEF Inv, CurrentInv
<1>12. WriteInv(r)
  BY <1>3 DEF Inv, WriteInv, Written, Opened
<1>13. IsGenuine(r)
  BY <1>3 DEF Inv, IsGenuine, IsOpen, HeldHere, Opened
<1>14. WasHeld(r, entry)
  BY <1>1, <1>6 DEF Inv, HeldInv
<1>15. s.phase = "wait" /\ entry.current => s.requests = << >> /\ Telling(r, entry)
  BY <1>1, <1>9, <1>10
<1> QED
  BY <1>1, <1>3, <1>4, <1>5, <1>7, <1>8, <1>11, <1>12, <1>13, <1>14, <1>15 DEF Inv

\* A frame as it arrives.
Arrived(entry, damaged) ==
  IF damaged /\ entry.frame.kind = "metakon" THEN [entry EXCEPT !.frame.intact = FALSE] ELSE entry

LEMMA ArrivedFacts ==
  ASSUME NEW entry \in Arriving, NEW damaged \in BOOLEAN,
         NEW e, e = Arrived(entry, damaged)
  PROVE  /\ e \in Arriving /\ e.port = entry.port /\ e.current = entry.current
         /\ e.frame.kind = entry.frame.kind
         /\ e.frame.kind = "metakon" => /\ e.frame.command = entry.frame.command
                                        /\ e.frame.register = entry.frame.register
                                        /\ e.frame.address = entry.frame.address
                                        /\ e.frame.intact => ~damaged
         /\ e.frame.kind = "metakon" /\ e.frame.command = "read" =>
              e.frame.value = entry.frame.value
<1>1. CASE ~(damaged /\ entry.frame.kind = "metakon")
  BY <1>1 DEF Arrived
<1>2. CASE damaged /\ entry.frame.kind = "metakon"
  <2> DEFINE frame == [entry.frame EXCEPT !.intact = FALSE]
  <2>1. entry.frame \in Answering
    BY DEF Arriving
  <2>2. /\ frame \in Answering /\ frame.kind = entry.frame.kind
        /\ frame.command = entry.frame.command
        /\ frame.register = entry.frame.register /\ frame.address = entry.frame.address
        /\ ~frame.intact /\ (frame.command = "read" => frame.value = entry.frame.value)
    <3> DEFINE no == FALSE
    <3>1. frame = [entry.frame EXCEPT !.intact = no] /\ no \in BOOLEAN /\ ~no
      OBVIOUS
    <3> HIDE DEF frame, no
    <3>2. CASE entry.frame \in
                 [kind : {"metakon"}, address : Channels, register : Addresses,
                  command : {"read"}, type : FrameTypes, value : Int, intact : BOOLEAN]
      BY <3>1, <3>2 DEF Answering
    <3>3. CASE entry.frame \in
                 [kind : {"metakon"}, address : Channels, register : Addresses,
                  command : {"write"}, intact : BOOLEAN]
      BY <3>1, <3>3 DEF Answering
    <3> QED
      BY <1>2, <2>1, <3>2, <3>3 DEF Answering
  <2>3. e = [entry EXCEPT !.frame = frame]
    BY <1>2 DEF Arrived
  <2> HIDE DEF frame
  <2>4. e \in Arriving /\ e.frame = frame /\ e.port = entry.port /\ e.current = entry.current
    BY <2>2, <2>3 DEF Arriving
  <2> QED
    BY <2>2, <2>4
<1> QED
  BY <1>1, <1>2

\* A frame that arrives is what its device held; it says what its channel is only
\* if it is not damaged, and one that answers another exchange makes the call late.
LEMMA ArriveKeeps ==
  ASSUME Inv(serial), Arrive
  PROVE  Inv(serial')
<1> DEFINE entry == Head(serial.frames)
           s == [serial EXCEPT !.frames = Tail(@)]
           identifies == /\ entry.frame.kind = "metakon" /\ entry.frame.command = "read"
                         /\ entry.frame.register = Address("channel_type")
                         /\ entry.frame.value = ChannelTypeCode
           late == s.late \/ (s.phase = "wait" /\ ~entry.current)
           identified(damaged) ==
             s.identified \cup (IF identifies /\ ~damaged THEN {entry.frame.address} ELSE {})
<1>1. serial.frames # << >>
  BY DEF Arrive
<1>2. /\ Inv(s) /\ s.phase = serial.phase /\ s.port = serial.port
      /\ entry \in Arriving /\ WasHeld(s, entry)
      /\ s.phase = "wait" /\ entry.current => s.requests = << >> /\ Telling(s, entry)
  BY <1>1, TakeFrame
<1>3. \/ serial' = s
      \/ /\ serial.port = <<entry.port>>
         /\ \E damaged \in BOOLEAN :
              serial' = [s EXCEPT
                !.input = Append(@, Arrived(entry, damaged)),
                !.late = @ \/ (serial.phase = "wait" /\ ~entry.current),
                !.identified = @ \cup (IF identifies /\ ~damaged THEN {entry.frame.address}
                                       ELSE {})]
  BY DEF Arrive, Arrived
<1>4. CASE serial' = s
  BY <1>2, <1>4
<1>5. ASSUME serial.port = <<entry.port>>, NEW damaged \in BOOLEAN,
             serial' = [s EXCEPT
               !.input = Append(@, Arrived(entry, damaged)),
               !.late = @ \/ (serial.phase = "wait" /\ ~entry.current),
               !.identified = @ \cup (IF identifies /\ ~damaged THEN {entry.frame.address}
                                      ELSE {})]
      PROVE  Inv(serial')
  <2> DEFINE e == Arrived(entry, damaged)
             input == Append(s.input, e)
             known == identified(damaged)
             r == serial'
  <2>1. r = [s EXCEPT !.input = input, !.late = late, !.identified = known]
    BY <1>2, <1>5
  <2>2. /\ e \in Arriving /\ e.port = entry.port /\ e.current = entry.current
        /\ e.frame.kind = entry.frame.kind
        /\ e.frame.kind = "metakon" => /\ e.frame.command = entry.frame.command
                                       /\ e.frame.register = entry.frame.register
                                       /\ e.frame.address = entry.frame.address
                                       /\ e.frame.intact => ~damaged
        /\ e.frame.kind = "metakon" /\ e.frame.command = "read" =>
             e.frame.value = entry.frame.value
    BY <1>2, ArrivedFacts
  <2>3. s.identified \subseteq known /\ (identifies /\ ~damaged => entry.frame.address \in known)
    OBVIOUS
  <2>4. late \in BOOLEAN /\ (s.late => late) /\ (s.phase = "wait" /\ ~late => entry.current)
    BY <1>2 DEF Inv, TypeInv
  <2>5. WasHeld(s, e)
    <3> HIDE DEF e, entry, s
    <3> QED
      BY <1>2, <2>2 DEF WasHeld
  <2>6. Identifies(e.frame) /\ e.frame.intact => e.frame.address \in known
    <3>1. Identifies(e.frame) /\ e.frame.intact => identifies /\ ~damaged
      <4> HIDE DEF e, entry, s
      <4> QED
        BY <2>2 DEF Identifies
    <3> QED
      BY <2>2, <2>3, <3>1 DEF Identifies
  <2>7. s.phase = "wait" /\ e.current => s.requests = << >> /\ Telling(s, e)
    <3> HIDE DEF e, entry, s
    <3>1. SUFFICES ASSUME s.phase = "wait", e.current, s.call.kind = "write"
                   PROVE  s.requests = << >> /\ Telling(s, e)
      BY <1>2, <2>2 DEF Telling
    <3>2. s.requests = << >> /\ Telling(s, entry)
      BY <1>2, <2>2, <3>1
    <3> QED
      BY <2>2, <3>1, <3>2 DEF Telling, IsAReading
  <2>8. s.port = <<e.port>>
    BY <1>2, <1>5, <2>2
  <2> HIDE DEF e, entry, s, late, known, identified
  <2>9. /\ input \in Seq(Arriving)
        /\ \A i \in DOMAIN input : \/ i \in DOMAIN s.input /\ input[i] = s.input[i]
                                   \/ input[i] = e
    BY <1>2, <2>2, AppendFacts DEF Inv, TypeInv
  <2> HIDE DEF input
  <2>10. /\ IsState(r) /\ r.input = input /\ r.late = late /\ r.identified = known
         /\ r.config = s.config /\ r.port = s.port /\ r.verified = s.verified
         /\ r.requests = s.requests /\ r.frames = s.frames
         /\ r.call = s.call /\ r.plan = s.plan /\ r.phase = s.phase /\ r.answer = s.answer
         /\ r.devices = s.devices /\ r.held = s.held
    BY <1>2, <2>1 DEF Inv, TypeInv, IsState
  <2> HIDE DEF r
  <2>11. TypeInv(r)
    BY <1>2, <2>4, <2>9, <2>10 DEF Inv, TypeInv
  <2>12. PlanInv(r)
    BY <1>2, <2>10 DEF Inv, PlanInv, IsOpen, Exchange
  <2>13. HeldInv(r)
    <3>1. \A f : WasHeld(r, f) <=> WasHeld(s, f)
      BY <2>10 DEF WasHeld
    <3> QED
      BY <1>2, <2>5, <2>8, <2>9, <2>10, <3>1 DEF Inv, HeldInv
  <2>14. IdentifiedInv(r)
    BY <1>2, <2>3, <2>6, <2>9, <2>10 DEF Inv, IdentifiedInv
  <2>15. CurrentInv(r)
    <3>1. SUFFICES ASSUME s.phase = "wait"
                   PROVE  CurrentInv(r)
      BY <2>10 DEF CurrentInv
    <3>2. Asked(r) = Asked(s) /\ Opened(r) = Opened(s)
      BY <2>10 DEF Asked, Exchange, Opened
    <3>3. \A f : Telling(s, f) => Telling(r, f)
      BY <2>4, <2>10 DEF Telling, Exchange, Written, Opened
    <3>4. /\ \A i \in DOMAIN s.input : s.input[i].current => s.requests = << >> /\ Telling(s, s.input[i])
          /\ ~s.late => \A i \in DOMAIN s.input : s.input[i].current
      BY <1>2, <3>1 DEF Inv, CurrentInv
    <3>5. \A i \in DOMAIN input : input[i].current => s.requests = << >> /\ Telling(r, input[i])
      BY <2>7, <2>9, <3>1, <3>3, <3>4
    <3>6. ~late => \A i \in DOMAIN input : input[i].current
      BY <2>2, <2>4, <2>9, <3>1, <3>4
    <3>7. /\ \A i \in DOMAIN s.requests : s.requests[i].current =>
               /\ i = Len(s.requests)
               /\ s.requests[i].port = Opened(s) /\ s.requests[i].request = Asked(s)
          /\ \A i \in DOMAIN s.frames :
               s.frames[i].current => s.requests = << >> /\ Telling(s, s.frames[i])
      BY <1>2, <3>1 DEF Inv, CurrentInv
    <3> QED
      BY <2>10, <3>2, <3>3, <3>5, <3>6, <3>7 DEF CurrentInv
  <2>16. WriteInv(r)
    BY <1>2, <2>4, <2>10 DEF Inv, WriteInv, Written, Opened
  <2>17. IsGenuine(r)
    BY <1>2, <2>3, <2>4, <2>10 DEF Inv, IsGenuine, IsOpen, HeldHere, Opened
  <2>18. Inv(r)
    BY <2>11, <2>12, <2>13, <2>14, <2>15, <2>16, <2>17 DEF Inv
  <2> QED
    BY <2>18 DEF r
<1> HIDE DEF entry, s, identifies
<1> QED
  BY <1>3, <1>4, <1>5

\* A measurement that moves is held from then on; no setpoint moves with it.
LEMMA ChangeKeeps ==
  ASSUME InputsAreValid, Inv(serial), Change
  PROVE  Inv(serial')
<1>1. PICK p \in Ports, c \in Channels, value \in Reported :
        serial' = [serial EXCEPT !.devices[p][c].measurement = value,
                                 !.held[p][c].measurement = @ \cup {value}]
  BY DEF Change
<1> DEFINE devices == [serial.devices EXCEPT ![p][c]["measurement"] = value]
           held == [serial.held EXCEPT ![p][c]["measurement"] = @ \cup {value}]
           r == serial'
<1>2. r = [serial EXCEPT !.devices = devices, !.held = held]
  BY <1>1
<1>3. value \in Int /\ "measurement" \in Used /\ "setpoint" \in Used
  BY DEF InputsAreValid, Used
<1>4. /\ serial.devices \in [Ports -> [Channels -> [Used -> Int]]]
      /\ serial.held \in [Ports -> [Channels -> [Used -> SUBSET Int]]]
      /\ \A q \in Ports, d \in Channels, u \in Used :
           serial.devices[q][d][u] \in serial.held[q][d][u]
  BY DEF Inv, TypeInv, HeldInv
<1>5. devices \in [Ports -> [Channels -> [Used -> Int]]]
  BY <1>3, <1>4
<1>6. held \in [Ports -> [Channels -> [Used -> SUBSET Int]]]
  BY <1>3, <1>4
<1>7. \A q \in Ports, d \in Channels, u \in Used :
        serial.held[q][d][u] \subseteq held[q][d][u] /\ devices[q][d][u] \in held[q][d][u]
  BY <1>3, <1>4
<1>8. \A q \in Ports, d \in Channels :
        devices[q][d]["setpoint"] = serial.devices[q][d]["setpoint"]
  BY <1>3, <1>4
<1> HIDE DEF devices, held
<1>9. /\ IsState(r) /\ r.devices = devices /\ r.held = held
      /\ r.config = serial.config /\ r.port = serial.port /\ r.verified = serial.verified
      /\ r.requests = serial.requests /\ r.frames = serial.frames /\ r.input = serial.input
      /\ r.call = serial.call /\ r.plan = serial.plan /\ r.phase = serial.phase
      /\ r.answer = serial.answer /\ r.identified = serial.identified /\ r.late = serial.late
  BY <1>2 DEF Inv, TypeInv, IsState
<1> HIDE DEF r
<1>10. TypeInv(r)
  BY <1>5, <1>6, <1>9 DEF Inv, TypeInv
<1>11. PlanInv(r)
  BY <1>9 DEF Inv, PlanInv, IsOpen, Exchange
<1>12. HeldInv(r)
  <2>1. ASSUME NEW f \in Arriving, WasHeld(serial, f)
        PROVE  WasHeld(r, f)
    <3>1. SUFFICES ASSUME f.frame.kind = "metakon", f.frame.command = "read",
                          NEW q \in Used, f.frame.register = Address(q)
                   PROVE  f.frame.value \in r.held[f.port][f.frame.address][q]
      BY DEF WasHeld
    <3>2. f.port \in Ports /\ f.frame.address \in Channels
      BY <3>1 DEF Arriving, Answering
    <3>3. f.frame.value \in serial.held[f.port][f.frame.address][q]
      BY <2>1, <3>1 DEF WasHeld
    <3> QED
      BY <1>7, <1>9, <3>2, <3>3
  <2>2. /\ \A i \in DOMAIN serial.frames :
             serial.frames[i] \in Arriving /\ WasHeld(serial, serial.frames[i])
        /\ \A i \in DOMAIN serial.input :
             /\ serial.input[i] \in Arriving /\ WasHeld(serial, serial.input[i])
             /\ serial.port = <<serial.input[i].port>>
    BY LenProperties, ElementOfSeq DEF Inv, TypeInv, HeldInv
  <2>3. \A i \in DOMAIN r.frames : WasHeld(r, r.frames[i])
    BY <1>9, <2>1, <2>2
  <2>4. \A i \in DOMAIN r.input : WasHeld(r, r.input[i]) /\ r.port = <<r.input[i].port>>
    BY <1>9, <2>1, <2>2
  <2> QED
    BY <1>7, <1>9, <2>3, <2>4 DEF HeldInv
<1>13. IdentifiedInv(r)
  BY <1>9 DEF Inv, IdentifiedInv
<1>14. ASSUME serial.phase # "idle", serial.call.kind = "write"
       PROVE  Written(serial) <=> Written(r)
  <2>1. serial.call.register = "setpoint" /\ IsOpen(serial)
    BY <1>14 DEF Inv, PlanInv
  <2>2. serial.call.address \in Channels
    <3>1. serial.call \in Operations
      BY <1>14 DEF Inv, TypeInv, NoCall
    <3> QED
      BY <1>14, <3>1 DEF InputsAreValid
  <2>3. Opened(serial) \in Ports
    BY <2>1 DEF Inv, TypeInv, IsOpen, Opened
  <2> QED
    BY <1>8, <1>9, <2>1, <2>2, <2>3 DEF Written, Opened
<1>15. CurrentInv(r)
  <2>1. SUFFICES ASSUME serial.phase = "wait"
                 PROVE  CurrentInv(r)
    BY <1>9 DEF CurrentInv
  <2>2. Asked(r) = Asked(serial) /\ Opened(r) = Opened(serial)
    BY <1>9 DEF Asked, Exchange, Opened
  <2>3. \A f : Telling(serial, f) => Telling(r, f)
    BY <1>9, <1>14, <2>1 DEF Telling, Exchange
  <2> QED
    BY <1>9, <2>1, <2>2, <2>3 DEF Inv, CurrentInv
<1>16. WriteInv(r)
  <2>1. SUFFICES ASSUME serial.call.kind = "write", serial.plan = <<"read">>, ~serial.late
                 PROVE  WriteInv(r)
    BY <1>9 DEF WriteInv
  <2>2. serial.phase # "idle"
    BY <2>1 DEF Inv, PlanInv
  <2> QED
    BY <1>9, <1>14, <2>1, <2>2 DEF Inv, WriteInv
<1>17. IsGenuine(r)
  <2>1. SUFFICES ASSUME serial.answer.kind = "value", IsOpen(serial)
                 PROVE  IsGenuine(r)
    BY <1>9 DEF IsGenuine, IsOpen
  <2>2. IsMetakon(serial.call) /\ serial.answer.raw \in HeldHere(serial)
    BY <2>1 DEF Inv, IsGenuine
  <2>3. serial.call.address \in Channels /\ serial.call.register \in Used
    <3>1. serial.call \in Operations
      BY <2>2 DEF Inv, TypeInv, NoCall, IsMetakon
    <3> QED
      BY <2>2, <3>1 DEF InputsAreValid, IsMetakon
  <2>4. Opened(serial) \in Ports
    BY <2>1 DEF Inv, TypeInv, IsOpen, Opened
  <2>5. HeldHere(serial) \subseteq HeldHere(r)
    BY <1>7, <1>9, <2>3, <2>4 DEF HeldHere, Opened
  <2> QED
    BY <1>9, <2>1, <2>2, <2>5 DEF Inv, IsGenuine, IsOpen
<1>18. Inv(r)
  BY <1>10, <1>11, <1>12, <1>13, <1>15, <1>16, <1>17 DEF Inv
<1> QED
  BY <1>18 DEF r

-----------------------------------------------------------------------------
(***************************************************************************)
(* The theorem.                                                            *)
(***************************************************************************)
LEMMA InitiallyInv ==
  ASSUME InputsAreValid, Init
  PROVE  Inv(serial)
<1>1. PICK wired \in [Ports -> Wiring] :
        serial = [config |-> << >>, port |-> << >>, verified |-> {},
                  devices |-> [p \in Ports |-> [c \in Channels |->
                                 [r \in Used |-> IF r = "channel_type" THEN wired[p][c] ELSE 0]]],
                  requests |-> << >>, frames |-> << >>, input |-> << >>,
                  call |-> NoCall, plan |-> << >>, phase |-> "idle", attempt |-> 1,
                  answer |-> NoAnswer, calls |-> 0,
                  identified |-> {}, held |-> [p \in Ports |-> [c \in Channels |->
                                 [r \in Used |-> IF r = "channel_type" THEN {wired[p][c]}
                                                 ELSE {0}]]],
                  late |-> FALSE]
  BY DEF Init
<1> DEFINE devices == [p \in Ports |-> [c \in Channels |->
                        [r \in Used |-> IF r = "channel_type" THEN wired[p][c] ELSE 0]]]
           held == [p \in Ports |-> [c \in Channels |->
                     [r \in Used |-> IF r = "channel_type" THEN {wired[p][c]} ELSE {0}]]]
           no == FALSE
<1>2. \A p \in Ports, c \in Channels : wired[p][c] \in Int
  BY DEF InputsAreValid
<1>3. /\ devices \in [Ports -> [Channels -> [Used -> Int]]]
      /\ held \in [Ports -> [Channels -> [Used -> SUBSET Int]]]
      /\ \A p \in Ports, c \in Channels, r \in Used : devices[p][c][r] \in held[p][c][r]
  BY <1>2
<1>4. no \in BOOLEAN
  OBVIOUS
<1>5. serial = [config |-> << >>, port |-> << >>, verified |-> {}, devices |-> devices,
                requests |-> << >>, frames |-> << >>, input |-> << >>,
                call |-> NoCall, plan |-> << >>, phase |-> "idle", attempt |-> 1,
                answer |-> NoAnswer, calls |-> 0, identified |-> {}, held |-> held,
                late |-> no]
  BY <1>1
<1> HIDE DEF devices, held, no
<1>6. IsState(serial)
  BY <1>5 DEF IsState
<1>7. TypeInv(serial)
  BY <1>3, <1>4, <1>5, <1>6, EmptySeq DEF TypeInv, Plans
<1>8. HeldInv(serial) /\ IdentifiedInv(serial)
  BY <1>3, <1>5 DEF HeldInv, IdentifiedInv
<1>9. PlanInv(serial) /\ CurrentInv(serial) /\ WriteInv(serial) /\ IsGenuine(serial)
  BY <1>5 DEF PlanInv, CurrentInv, WriteInv, IsGenuine, NoAnswer
<1> QED
  BY <1>7, <1>8, <1>9 DEF Inv

LEMMA Invariance ==
  ASSUME InputsAreValid, Inv(serial), [Next]_serial
  PROVE  Inv(serial')
<1>1. CASE Next
  BY <1>1, RequestKeeps, StopKeeps, ConfigureKeeps, SendKeeps, ReceiveKeeps, TimeoutKeeps,
     DeviceAnswersKeeps, ArriveKeeps, ChangeKeeps DEF Next
<1>2. CASE UNCHANGED serial
  BY <1>2
<1> QED
  BY <1>1, <1>2

\* A value that is answered was held by the register that was asked, on a
\* channel that said since the port was opened that it is a 5X3, and is never
\* the alarm value; a write that is confirmed was carried out, unless an answer
\* to an earlier request came while it was waited for: whatever the line loses,
\* damages or delays (exchange and verify_channel_type of metakon/client.rs).
THEOREM AnswersStayGenuine ==
  ASSUME InputsAreValid
  PROVE  Spec => []AnswersAreGenuine
<1>1. Init => Inv(serial)
  BY InitiallyInv
<1>2. Inv(serial) /\ [Next]_serial => Inv(serial')
  BY Invariance
<1>3. Inv(serial) => AnswersAreGenuine
  BY DEF Inv, IsGenuine, AnswersAreGenuine, HasValue
<1> DEFINE Good == Inv(serial)
<1>4. Init => Good
  BY <1>1
<1>5. Good /\ [Next]_serial => Good'
  BY <1>2
<1>6. Good => AnswersAreGenuine
  BY <1>3
<1> HIDE DEF Good
<1> QED
  BY <1>4, <1>5, <1>6, PTL DEF Spec
=============================================================================
