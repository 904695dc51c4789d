-------------------------- MODULE Components_proofs --------------------------
(***************************************************************************)
(* Proofs about Components, for any values of its constants that satisfy   *)
(* the assumptions it names: what a run of Components checks of the loops, *)
(* the serial line, the emulator, the recorder, the profiles, the control  *)
(* panels and the requests of scripts holds of every instance.             *)
(*                                                                         *)
(* The loops and the serial line are proved about in modules of their own, *)
(* whose theorems are carried over.  Each of the other components has an   *)
(* inductive invariant of its state, stated of a record s so that it can   *)
(* be used of the state and of the one after a step.                       *)
(***************************************************************************)
EXTENDS Components, SequenceTheorems, FiniteSetTheorems, TLAPS

-----------------------------------------------------------------------------
(***************************************************************************)
(* Sequences whose elements need no common type.                           *)
(***************************************************************************)
IsSeq(q) == q \in Seq({q[i] : i \in DOMAIN q})

LEMMA SeqFacts ==
  ASSUME NEW q, IsSeq(q)
  PROVE  Len(q) \in Nat /\ DOMAIN q = 1..Len(q)
BY DEF IsSeq

LEMMA IsSeqOf ==
  ASSUME NEW S, NEW r \in Seq(S)
  PROVE  IsSeq(r)
<1>1. Len(r) \in Nat /\ DOMAIN r = 1..Len(r) /\ \A i \in 1..Len(r) : r[i] \in {r[k] : k \in DOMAIN r}
  OBVIOUS
<1>2. r = [i \in 1..Len(r) |-> r[i]]
  OBVIOUS
<1>3. [i \in 1..Len(r) |-> r[i]] \in Seq({r[k] : k \in DOMAIN r})
  BY <1>1
<1> QED
  BY <1>2, <1>3 DEF IsSeq

LEMMA SameSeq ==
  ASSUME NEW q, NEW r, IsSeq(q), IsSeq(r), Len(q) = Len(r), \A i \in DOMAIN q : q[i] = r[i]
  PROVE  q = r
<1>1. q \in Seq({q[i] : i \in DOMAIN q}) /\ r \in Seq({r[i] : i \in DOMAIN r})
  BY DEF IsSeq
<1>2. DOMAIN q = 1..Len(q) /\ DOMAIN r = 1..Len(r)
  BY SeqFacts
<1>3. q = [i \in 1..Len(q) |-> q[i]] /\ r = [i \in 1..Len(r) |-> r[i]]
  BY <1>1
<1> QED
  BY <1>2, <1>3

LEMMA EmptyFacts == IsSeq(<< >>) /\ DOMAIN << >> = {} /\ Len(<< >>) = 0
<1>1. << >> \in Seq({}) /\ Len(<< >>) = 0
  BY EmptySeq
<1>2. IsSeq(<< >>)
  BY <1>1, IsSeqOf
<1>3. DOMAIN << >> = 1..0
  BY <1>1, <1>2, SeqFacts
<1> QED
  BY <1>1, <1>2, <1>3

IsAppendOf(r, q, e) ==
  /\ IsSeq(r) /\ Len(r) = Len(q) + 1 /\ DOMAIN r = DOMAIN q \cup {Len(q) + 1}
  /\ \A i \in DOMAIN q : r[i] = q[i]
  /\ r[Len(q) + 1] = e

LEMMA AppendFacts ==
  ASSUME NEW q, IsSeq(q), NEW e, NEW r, r = Append(q, e)
  PROVE  IsAppendOf(r, q, e)
<1> DEFINE S == {q[i] : i \in DOMAIN q} \cup {e}
<1>1. q \in Seq(S) /\ e \in S
  BY DEF IsSeq
<1> HIDE DEF S
<1>2. r \in Seq(S) /\ Len(r) = Len(q) + 1 /\ DOMAIN r = 1..Len(r) /\ Len(q) \in Nat
      /\ DOMAIN q = 1..Len(q)
      /\ \A i \in DOMAIN q : r[i] = q[i]
      /\ r[Len(q) + 1] = e
  BY <1>1
<1>3. IsSeq(r)
  BY <1>2, IsSeqOf
<1> QED
  BY <1>2, <1>3 DEF IsAppendOf

IsTailOf(r, q) ==
  /\ IsSeq(r) /\ Len(r) = Len(q) - 1 /\ Head(q) = q[1] /\ 1 \in DOMAIN q
  /\ \A i \in DOMAIN r : i + 1 \in DOMAIN q /\ r[i] = q[i + 1] /\ i \in Nat /\ i # 0

LEMMA TailFacts ==
  ASSUME NEW q, IsSeq(q), q # << >>, NEW r, r = Tail(q)
  PROVE  IsTailOf(r, q)
<1> DEFINE S == {q[i] : i \in DOMAIN q}
<1>1. q \in Seq(S)
  BY DEF IsSeq
<1> HIDE DEF S
<1>2. /\ Len(q) \in Nat /\ DOMAIN q = 1..Len(q) /\ Len(q) # 0
      /\ \A i \in DOMAIN q : q[i] \in S
  BY <1>1, EmptySeq
<1>3. /\ r \in Seq(S) /\ Len(r) = Len(q) - 1
      /\ \A i \in 1..Len(r) : r[i] = q[i + 1]
  BY <1>1, <1>2, HeadTailProperties
<1>4. Head(q) = q[1] /\ 1 \in DOMAIN q
  BY <1>1, <1>2
<1>5. Len(r) \in Nat /\ DOMAIN r = 1..Len(r)
  BY <1>3
<1>6. \A i \in DOMAIN r : i + 1 \in DOMAIN q /\ r[i] = q[i + 1] /\ i \in Nat /\ i # 0
  BY <1>2, <1>3, <1>5
<1>7. IsSeq(r)
  BY <1>3, IsSeqOf
<1> QED
  BY <1>3, <1>4, <1>6, <1>7 DEF IsTailOf

IsOne(q) == q = << >> \/ q = <<q[1]>>

LEMMA OneFacts ==
  ASSUME NEW x, NEW y
  PROVE  /\ [<<x>> EXCEPT ![1] = y] = <<y>> /\ <<x>>[1] = x /\ <<x>> # << >>
         /\ Tail(<<x>>) = << >> /\ Append(<< >>, x) = <<x>> /\ IsOne(<<x>>) /\ IsOne(<< >>)
<1>1. [<<x>> EXCEPT ![1] = y] = <<y>>
  OBVIOUS
<1>2. <<x>>[1] = x /\ <<x>> # << >>
  OBVIOUS
<1>3. Tail(<<x>>) = << >>
  OBVIOUS
<1>4. Append(<< >>, x) = <<x>>
  OBVIOUS
<1>5. IsOne(<<x>>) /\ IsOne(<< >>)
  BY <1>2 DEF IsOne
<1> QED
  BY <1>1, <1>2, <1>3, <1>4, <1>5

-----------------------------------------------------------------------------
(***************************************************************************)
(* The loops and the serial line: what their own modules prove.            *)
(***************************************************************************)

\* Where the loops run, they run as ControlLoops says.
LEMMA LoopsRun ==
  /\ component = "loops" /\ Init => Loops!Init
  /\ ~(component = "loops") /\ [Next]_vars => (~(component = "loops"))'
  /\ component = "loops" /\ [Next]_vars => (component = "loops")' /\ [Loops!Next]_state
<1>1. component = "loops" /\ Init => Loops!Init
  BY DEF Init
<1>2. ~(component = "loops") /\ [Next]_vars => (~(component = "loops"))'
  BY DEF Next, vars
<1>3. component = "loops" /\ [Next]_vars => (component = "loops")' /\ [Loops!Next]_state
  BY DEF Next, vars
<1> QED
  BY <1>1, <1>2, <1>3

\* An output of a controller can always be written: the checks of a loop that
\* is configured or retuned (controller.rs, conversion.rs) leave no other.
THEOREM OutputsCanAlwaysBeWritten == Spec => []OutputsAreWritable
<1>1. Loops!Init /\ [][Loops!Next]_state => []Loops!OutputsAreWritable
  BY Loops!OutputsCanBeWritten, LoopInputsAreValid DEF Loops!OutputsCanBeWritten, Loops!Spec
<1>2. ~(component = "loops") \/ Loops!OutputsAreWritable => OutputsAreWritable
  BY DEF OutputsAreWritable
<1> QED
  BY <1>1, <1>2, LoopsRun, PTL DEF Spec

\* No integral, derivative or ramp of a running loop spans a pause: a loop that
\* is resumed forgets its time base (control_loop.rs).
THEOREM NoLoopEverSpansAPause == Spec => []NothingSpansAPause
<1>1. Loops!Init /\ [][Loops!Next]_state => []Loops!NothingSpansAPause
  BY Loops!NothingEverSpansAPause, LoopInputsAreValid DEF Loops!NothingEverSpansAPause, Loops!Spec
<1>2. ~(component = "loops") \/ Loops!NothingSpansAPause => NothingSpansAPause
  BY DEF NothingSpansAPause
<1> QED
  BY <1>1, <1>2, LoopsRun, PTL DEF Spec

\* A sample does not integrate past a bound its output is saturated at, and a
\* ramp that is retuned goes on from where it is (controller.rs, reference.rs).
THEOREM LoopsMoveWithoutBump == Spec => LoopsMoveSmoothly
<1> DEFINE Smooth == Loops!IntegratesWithinBounds /\ Loops!RetunesWithoutBump
<1>1. Loops!Init /\ [][Loops!Next]_state => [][Smooth]_state
  BY Loops!LoopsAlwaysMoveSmoothly, LoopInputsAreValid
  DEF Loops!LoopsAlwaysMoveSmoothly, Loops!LoopsMoveSmoothly, Loops!Spec
<1>2. [Next]_vars /\ [Smooth]_state => [component = "loops" => Smooth]_vars
  BY DEF Next, vars
<1>3. [Next]_vars /\ ~(component = "loops") => [component = "loops" => Smooth]_vars
  BY DEF Next, vars
<1> QED
  BY <1>1, <1>2, <1>3, LoopsRun, PTL DEF Spec, LoopsMoveSmoothly

\* A value that a 5X3 is said to have was in the register that was asked, on a
\* channel identified since the port was opened (metakon.rs, serial sources).
THEOREM AnswersOfTheLineAreGenuine == Spec => []AnswersAreGenuine
<1>1. component = "serial" /\ Init => Line!Init
  BY DEF Init
<1>2. ~(component = "serial") /\ [Next]_vars => (~(component = "serial"))'
  BY DEF Next, vars
<1>3. component = "serial" /\ [Next]_vars => (component = "serial")' /\ [Line!Next]_state
  BY DEF Next, vars
<1>4. Line!Init /\ [][Line!Next]_state => []Line!AnswersAreGenuine
  BY Line!AnswersStayGenuine, LineInputsAreValid DEF Line!AnswersStayGenuine, Line!Spec
<1>5. ~(component = "serial") \/ Line!AnswersAreGenuine => AnswersAreGenuine
  BY DEF AnswersAreGenuine
<1> QED
  BY <1>1, <1>2, <1>3, <1>4, <1>5, PTL DEF Spec

(***************************************************************************)
(* The emulator.                                                           *)
(***************************************************************************)
Pcs == {"idle", "joining", "disconnecting", "checking", "starting", "publishing"}
AfterStop == {"idle", "checking", "starting", "applied"}

Shape(s) ==
  /\ s = [setup |-> s.setup, runtime |-> s.runtime, handle |-> s.handle, server |-> s.server,
          session |-> s.session, client |-> s.client, written |-> s.written,
          answer |-> s.answer, result |-> s.result]
  /\ s.runtime = [pc |-> s.runtime.pc, next |-> s.runtime.next]
  /\ s.server = [epoch |-> s.server.epoch, status |-> s.server.status,
                 catalog |-> s.server.catalog, returns |-> s.server.returns,
                 stop |-> s.server.stop, inbox |-> s.server.inbox]
  /\ s.client = [pc |-> s.client.pc, request |-> s.client.request, id |-> s.client.id]
  /\ s.session # << >> =>
       /\ s.session = <<s.session[1]>>
       /\ s.session[1] = [epoch |-> s.session[1].epoch, pending |-> s.session[1].pending,
                          response |-> s.session[1].response, input |-> s.session[1].input]

\* A session is of the latest server, which is in charge or being stopped, and
\* without a handle no server runs, but for one that is just starting or stopping.
RuntimeInv(s) ==
  /\ s.server.epoch \in Nat
  /\ s.runtime.pc \in Pcs
  /\ s.handle = 0 \/ s.handle = s.server.epoch
  /\ s.runtime.pc \in {"joining", "disconnecting"} =>
       s.runtime.next \in AfterStop /\ s.handle = 0
  /\ s.handle = 0 /\ s.runtime.pc \notin {"joining", "publishing"} =>
       s.server.status \in {"off", "done"}
  /\ s.runtime.pc = "publishing" =>
       /\ s.handle = 0 /\ s.server.epoch # 0
       /\ s.session = << >> /\ s.server.inbox = << >>
  /\ s.session # << >> =>
       /\ s.session[1].epoch = s.server.epoch /\ s.server.epoch # 0
       /\ s.handle = s.server.epoch \/ s.runtime.pc \in {"joining", "disconnecting"}

\* One request or answer at most is on its way or has been read: none once the
\* session was drained, that of the request that is underway while it is waited for.
TokenInv(s) ==
  /\ s.client.id \in Nat
  /\ IsOne(s.server.inbox)
  /\ s.client.pc \in {"idle", "draining", "sending", "receiving"}
  /\ s.client.pc # "idle" => s.session # << >>
  /\ s.session # << >> =>
       LET x == s.session[1] IN
       /\ IsOne(x.input)
       /\ s.server.inbox # << >> => x.input = << >> /\ x.response = << >>
       /\ x.input # << >> => x.response = << >>
       /\ ~x.pending => s.server.inbox = << >> /\ x.input = << >> /\ x.response = << >>
       /\ s.client.pc = "sending" =>
            s.server.inbox = << >> /\ x.input = << >> /\ x.response = << >>
       /\ s.client.pc = "receiving" =>
            /\ x.response = << >>
            /\ s.server.inbox # << >> => /\ s.server.inbox[1].id = s.client.id
                                         /\ s.server.inbox[1].request = s.client.request
            /\ x.input # << >> =>
                 /\ x.input[1].to = s.client.id
                 /\ x.input[1].message.kind = "write_response"
                      /\ s.client.request.kind = "write_request" => s.client.id \in s.written

\* Ids are those of requests that were begun, and one that found no session was
\* not sent.
AnswerInv(s) ==
  /\ \A id \in s.written : id \in Nat /\ id <= s.client.id
  /\ s.server.inbox # << >> =>
       s.server.inbox[1].id \in Nat /\ s.server.inbox[1].id <= s.client.id
  /\ s.answer.kind \in {"value", "device"} => s.answer.sent.to = s.answer.id
  /\ s.answer.kind = "value" /\ s.answer.request.kind = "write_request" =>
       s.answer.id \in s.written
  /\ s.answer.kind = "stopped" =>
       /\ s.answer.id \notin s.written
       /\ s.answer.id \in Nat /\ s.answer.id <= s.client.id
       /\ s.client.pc # "idle" => s.answer.id # s.client.id
       /\ s.server.inbox # << >> => s.server.inbox[1].id # s.answer.id
  /\ s.answer.kind = "serial" =>
       ~Emulated!IsVirtual(s.answer.request) \/ s.setup.transport # "memory"

EmulatorInv(s) == Shape(s) /\ RuntimeInv(s) /\ TokenInv(s) /\ AnswerInv(s)

LEMMA EmulatorInit ==
  ASSUME Emulated!Init
  PROVE  EmulatorInv(state)
<1>1. /\ Shape(state) /\ state.runtime.pc = "idle" /\ state.handle = 0
      /\ state.server.epoch = 0 /\ state.server.status = "off" /\ state.server.inbox = << >>
      /\ state.session = << >> /\ state.client.pc = "idle" /\ state.client.id = 0
      /\ state.written = {} /\ state.answer.kind = "none"
  BY DEF Emulated!Init, Emulated!NoServer, Emulated!NoAnswer, Shape
<1> QED
  BY <1>1 DEF EmulatorInv, RuntimeInv, TokenInv, AnswerInv, IsOne, Pcs

\* The runtime thread goes from step to step.
Kept(t) ==
  /\ Shape(t) /\ t.setup = state.setup /\ t.session = state.session /\ t.client = state.client
  /\ t.written = state.written /\ t.answer = state.answer
  /\ t.server.epoch = state.server.epoch /\ t.server.status = state.server.status
  /\ t.server.inbox = state.server.inbox

LEMMA KeptKeeps ==
  ASSUME EmulatorInv(state), NEW t, Kept(t), RuntimeInv(t)
  PROVE  EmulatorInv(t)
<1>1. TokenInv(t)
  BY DEF EmulatorInv, Kept, TokenInv
<1>2. AnswerInv(t)
  BY DEF EmulatorInv, Kept, AnswerInv
<1> QED
  BY <1>1, <1>2 DEF EmulatorInv, Kept

GoesTo(next, pc) == IF next \in {"applied", "failed"} THEN pc = "idle" ELSE pc = next

LEMMA GoesOnFacts ==
  ASSUME Shape(state), NEW next, NEW t, t = Emulated!GoesOn(next)
  PROVE  Kept(t) /\ t.handle = state.handle /\ t.server = state.server
         /\ GoesTo(next, t.runtime.pc)
<1>1. CASE next \in {"applied", "failed"}
  BY <1>1 DEF Emulated!GoesOn, Emulated!Idle, Emulated!At, Shape, Kept, GoesTo
<1>2. CASE next \notin {"applied", "failed"}
  BY <1>2 DEF Emulated!GoesOn, Emulated!At, Shape, Kept, GoesTo
<1> QED
  BY <1>1, <1>2

LEMMA ReapKeeps ==
  ASSUME EmulatorInv(state), Emulated!ServerFinished, NEW next, next \in AfterStop,
         Emulated!Reap(next)
  PROVE  EmulatorInv(state')
<1>1. /\ Kept(state') /\ state'.handle = 0 /\ state'.runtime.pc = "disconnecting"
      /\ state'.runtime.next = next
  BY DEF Emulated!Reap, Emulated!At, EmulatorInv, Shape, Kept
<1>2. state.handle # 0 /\ state.server.status = "done"
  BY DEF Emulated!ServerFinished, Emulated!server
<1>3. RuntimeInv(state')
  BY <1>1, <1>2 DEF EmulatorInv, RuntimeInv, Kept, Pcs
<1> QED
  BY <1>1, <1>3, KeptKeeps

LEMMA StopKeeps ==
  ASSUME EmulatorInv(state), NEW next, next \in {"applied", "starting"},
         state.runtime.pc \in {"idle", "checking"}, Emulated!Stop(next)
  PROVE  EmulatorInv(state')
<1>1. CASE state.handle = 0
  <2>1. state' = Emulated!GoesOn(next)
    BY <1>1 DEF Emulated!Stop
  <2>2. Kept(state') /\ state'.handle = 0 /\ GoesTo(next, state'.runtime.pc)
    BY <1>1, <2>1, GoesOnFacts DEF EmulatorInv
  <2>3. RuntimeInv(state')
    BY <1>1, <2>2 DEF EmulatorInv, RuntimeInv, Kept, Pcs, GoesTo
  <2> QED
    BY <2>2, <2>3, KeptKeeps
<1>2. CASE state.handle # 0
  <2>1. /\ Kept(state') /\ state'.handle = 0 /\ state'.runtime.pc = "joining"
        /\ state'.runtime.next = next
    BY <1>2 DEF Emulated!Stop, Emulated!At, EmulatorInv, Shape, Kept
  <2>2. RuntimeInv(state')
    BY <1>2, <2>1 DEF EmulatorInv, RuntimeInv, Kept, Pcs, AfterStop
  <2> QED
    BY <2>1, <2>2, KeptKeeps
<1> QED
  BY <1>1, <1>2

LEMMA StartCommandKeeps ==
  ASSUME EmulatorInv(state), Emulated!StartCommand
  PROVE  EmulatorInv(state')
<1>1. state.runtime.pc = "idle"
  BY DEF Emulated!StartCommand, Emulated!runtime
<1>2. ASSUME NEW next, next \in {"failed", "checking"}, state' = Emulated!GoesOn(next)
      PROVE  EmulatorInv(state')
  <2>1. Kept(state') /\ state'.handle = state.handle /\ GoesTo(next, state'.runtime.pc)
    BY <1>2, GoesOnFacts DEF EmulatorInv
  <2>2. RuntimeInv(state')
    BY <1>1, <1>2, <2>1 DEF EmulatorInv, RuntimeInv, Kept, Pcs, GoesTo
  <2> QED
    BY <2>1, <2>2, KeptKeeps
<1>3. ASSUME Emulated!ServerFinished, Emulated!Reap("checking") PROVE EmulatorInv(state')
  BY <1>3, ReapKeeps DEF AfterStop
<1> QED
  BY <1>2, <1>3 DEF Emulated!StartCommand

LEMMA PollKeeps ==
  ASSUME EmulatorInv(state), Emulated!Poll
  PROVE  EmulatorInv(state')
BY ReapKeeps DEF Emulated!Poll, AfterStop

LEMMA StopCommandKeeps ==
  ASSUME EmulatorInv(state), Emulated!StopCommand
  PROVE  EmulatorInv(state')
BY StopKeeps DEF Emulated!StopCommand, Emulated!runtime

LEMMA CheckSessionKeeps ==
  ASSUME EmulatorInv(state), Emulated!CheckSession
  PROVE  EmulatorInv(state')
<1>1. state.runtime.pc = "checking"
  BY DEF Emulated!CheckSession, Emulated!runtime
<1>2. CASE Emulated!Stop("starting")
  BY <1>1, <1>2, StopKeeps
<1>3. CASE state' = Emulated!GoesOn("starting")
  <2>1. Kept(state') /\ state'.handle = state.handle /\ GoesTo("starting", state'.runtime.pc)
    BY <1>3, GoesOnFacts DEF EmulatorInv
  <2>2. RuntimeInv(state')
    BY <1>1, <2>1 DEF EmulatorInv, RuntimeInv, Kept, Pcs, GoesTo
  <2> QED
    BY <2>1, <2>2, KeptKeeps
<1> QED
  BY <1>2, <1>3 DEF Emulated!CheckSession

LEMMA JoinKeeps ==
  ASSUME EmulatorInv(state), Emulated!Join
  PROVE  EmulatorInv(state')
<1>1. state.runtime.pc = "joining" /\ state.server.status = "done"
  BY DEF Emulated!Join, Emulated!runtime, Emulated!server
<1>2. /\ Kept(state') /\ state'.handle = state.handle /\ state'.runtime.pc = "disconnecting"
      /\ state'.runtime.next = state.runtime.next
  BY DEF Emulated!Join, EmulatorInv, Shape, Kept
<1>3. RuntimeInv(state')
  BY <1>1, <1>2 DEF EmulatorInv, RuntimeInv, Kept, Pcs
<1> QED
  BY <1>2, <1>3, KeptKeeps

LEMMA DisconnectLocalKeeps ==
  ASSUME EmulatorInv(state), Emulated!DisconnectLocal
  PROVE  EmulatorInv(state')
<1> DEFINE next == state.runtime.next
           gone == Emulated!GoesOn(next)
<1>1. state.runtime.pc = "disconnecting" /\ state.client.pc = "idle"
  BY DEF Emulated!DisconnectLocal, Emulated!runtime, Emulated!client, Emulated!SessionIsFree
<1>2. next \in AfterStop /\ state.handle = 0 /\ state.server.status \in {"off", "done"}
  BY <1>1 DEF EmulatorInv, RuntimeInv
<1>3. state' = [gone EXCEPT !.session = << >>]
  BY DEF Emulated!DisconnectLocal, Emulated!runtime
<1>4. /\ Kept(gone) /\ gone.handle = state.handle /\ gone.server = state.server
      /\ GoesTo(next, gone.runtime.pc)
  BY GoesOnFacts DEF EmulatorInv
<1> HIDE DEF gone, next
<1>5. /\ Shape(state') /\ state'.session = << >> /\ state'.runtime = gone.runtime
      /\ state'.handle = state.handle /\ state'.server = state.server
      /\ state'.client = state.client /\ state'.written = state.written
      /\ state'.answer = state.answer /\ state'.setup = state.setup
  BY <1>3, <1>4 DEF Shape, Kept
<1>6. RuntimeInv(state')
  BY <1>2, <1>4, <1>5 DEF EmulatorInv, RuntimeInv, Pcs, AfterStop, GoesTo
<1>7. TokenInv(state')
  BY <1>1, <1>5 DEF EmulatorInv, TokenInv
<1>8. AnswerInv(state')
  BY <1>5 DEF EmulatorInv, AnswerInv
<1> QED
  BY <1>5, <1>6, <1>7, <1>8 DEF EmulatorInv

LEMMA LaunchKeeps ==
  ASSUME EmulatorInv(state), NEW script, NEW opens, Emulated!Launch(script, opens)
  PROVE  EmulatorInv(state')
<1>1. state.runtime.pc = "starting"
  BY DEF Emulated!Launch, Emulated!runtime
<1>2. ASSUME NEW next, next \in {"applied", "failed"}, state' = Emulated!GoesOn(next)
      PROVE  EmulatorInv(state')
  <2>1. Kept(state') /\ state'.handle = state.handle /\ GoesTo(next, state'.runtime.pc)
    BY <1>2, GoesOnFacts DEF EmulatorInv
  <2>2. RuntimeInv(state')
    BY <1>1, <1>2, <2>1 DEF EmulatorInv, RuntimeInv, Kept, Pcs, GoesTo
  <2> QED
    BY <2>1, <2>2, KeptKeeps
<1>3. ASSUME NEW next, next \in {"publishing", "applied"}, state.handle = 0,
             NEW catalog, NEW returns, NEW handle,
             handle = (IF next = "publishing" THEN 0 ELSE state.server.epoch + 1),
             state' = [Emulated!GoesOn(next) EXCEPT
               !.server = [epoch |-> state.server.epoch + 1, status |-> "checking",
                           catalog |-> catalog, returns |-> returns,
                           stop |-> FALSE, inbox |-> << >>],
               !.handle = handle]
      PROVE  EmulatorInv(state')
  <2> DEFINE gone == Emulated!GoesOn(next)
             server == [epoch |-> state.server.epoch + 1, status |-> "checking",
                        catalog |-> catalog, returns |-> returns,
                        stop |-> FALSE, inbox |-> << >>]
  <2>1. Kept(gone) /\ GoesTo(next, gone.runtime.pc)
    BY GoesOnFacts DEF EmulatorInv
  <2>2. state' = [gone EXCEPT !.server = server, !.handle = handle]
    BY <1>3
  <2>3. /\ server.epoch = state.server.epoch + 1 /\ server.inbox = << >>
        /\ server = [epoch |-> server.epoch, status |-> server.status,
                     catalog |-> server.catalog, returns |-> server.returns,
                     stop |-> server.stop, inbox |-> server.inbox]
    OBVIOUS
  <2> HIDE DEF gone, server
  <2>4. /\ Shape(state') /\ state'.session = state.session /\ state'.runtime = gone.runtime
        /\ state'.handle = handle /\ state'.server = server
        /\ state'.client = state.client /\ state'.written = state.written
        /\ state'.answer = state.answer /\ state'.setup = state.setup
    BY <2>1, <2>2, <2>3 DEF Shape, Kept
  <2>5. state.server.epoch \in Nat /\ state.session = << >> /\ state.client.pc = "idle"
    BY <1>1, <1>3 DEF EmulatorInv, RuntimeInv, TokenInv
  <2>6. state'.runtime.pc = IF next = "publishing" THEN "publishing" ELSE "idle"
    BY <1>3, <2>1, <2>4 DEF GoesTo
  <2>7. RuntimeInv(state')
    <3>1. CASE next = "publishing"
      BY <3>1, <1>3, <2>3, <2>4, <2>5, <2>6 DEF RuntimeInv, Pcs
    <3>2. CASE next # "publishing"
      BY <3>2, <1>3, <2>3, <2>4, <2>5, <2>6 DEF RuntimeInv, Pcs
    <3> QED
      BY <3>1, <3>2
  <2>8. TokenInv(state')
    BY <2>3, <2>4, <2>5 DEF EmulatorInv, TokenInv, IsOne
  <2>9. AnswerInv(state')
    BY <2>3, <2>4 DEF EmulatorInv, AnswerInv
  <2> QED
    BY <2>4, <2>7, <2>8, <2>9 DEF EmulatorInv
<1>4. CASE state.handle # 0
  BY <1>4, <1>2 DEF Emulated!Launch
<1>5. CASE ~Emulated!CanStart(script, opens)
  BY <1>5, <1>2 DEF Emulated!Launch
<1>6. CASE state.handle = 0 /\ Emulated!CanStart(script, opens)
  <2> DEFINE next == IF Emulated!IsLocal THEN "publishing" ELSE "applied"
  <2>1. state' = [Emulated!GoesOn(next) EXCEPT
               !.server = [epoch |-> state.server.epoch + 1, status |-> "checking",
                           catalog |-> Emulated!Catalog(script), returns |-> script.returns,
                           stop |-> FALSE, inbox |-> << >>],
               !.handle = IF Emulated!IsLocal THEN 0 ELSE state.server.epoch + 1]
    BY <1>6 DEF Emulated!Launch, Emulated!server
  <2>2. CASE Emulated!IsLocal
    BY <2>1, <2>2, <1>3, <1>6
  <2>3. CASE ~Emulated!IsLocal
    BY <2>1, <2>3, <1>3, <1>6
  <2> QED
    BY <2>2, <2>3
<1> QED
  BY <1>4, <1>5, <1>6

LEMMA PublishKeeps ==
  ASSUME EmulatorInv(state), Emulated!Publish
  PROVE  EmulatorInv(state')
<1> DEFINE gone == Emulated!GoesOn("applied")
           x == [epoch |-> state.server.epoch, pending |-> FALSE, response |-> << >>,
                 input |-> << >>]
<1>1. state.runtime.pc = "publishing" /\ state.client.pc = "idle"
  BY DEF Emulated!Publish, Emulated!runtime, Emulated!client, Emulated!SessionIsFree
<1>2. /\ state.server.epoch # 0 /\ state.server.epoch \in Nat /\ state.server.inbox = << >>
  BY <1>1 DEF EmulatorInv, RuntimeInv
<1>3. state' = [gone EXCEPT !.session = <<x>>, !.handle = state.server.epoch]
  BY DEF Emulated!Publish, Emulated!server
<1>4. Kept(gone) /\ gone.server = state.server /\ gone.runtime.pc = "idle"
  BY GoesOnFacts DEF EmulatorInv, GoesTo
<1>5. /\ x.epoch = state.server.epoch /\ ~x.pending /\ x.response = << >> /\ x.input = << >>
      /\ x = [epoch |-> x.epoch, pending |-> x.pending, response |-> x.response,
              input |-> x.input]
  OBVIOUS
<1> HIDE DEF gone, x
<1>6. <<x>> # << >> /\ <<x>>[1] = x
  BY OneFacts
<1>7. /\ Shape(state') /\ state'.session = <<x>> /\ state'.runtime = gone.runtime
      /\ state'.handle = state.server.epoch /\ state'.server = state.server
      /\ state'.client = state.client /\ state'.written = state.written
      /\ state'.answer = state.answer /\ state'.setup = state.setup
  BY <1>3, <1>4, <1>5, <1>6 DEF Shape, Kept
<1>8. RuntimeInv(state')
  BY <1>2, <1>4, <1>5, <1>6, <1>7 DEF EmulatorInv, RuntimeInv, Pcs
<1>9. TokenInv(state')
  BY <1>1, <1>2, <1>5, <1>6, <1>7 DEF EmulatorInv, TokenInv, IsOne
<1>10. AnswerInv(state')
  BY <1>7 DEF EmulatorInv, AnswerInv
<1> QED
  BY <1>7, <1>8, <1>9, <1>10 DEF EmulatorInv

\* The server thread.
LEMMA StatusKeeps ==
  ASSUME EmulatorInv(state), state.server.status \in {"checking", "reading"},
         NEW status, state' = [state EXCEPT !.server.status = status]
  PROVE  EmulatorInv(state')
<1>1. /\ Shape(state') /\ state'.session = state.session /\ state'.runtime = state.runtime
      /\ state'.handle = state.handle /\ state'.server.epoch = state.server.epoch
      /\ state'.server.inbox = state.server.inbox
      /\ state'.client = state.client /\ state'.written = state.written
      /\ state'.answer = state.answer /\ state'.setup = state.setup
  BY DEF EmulatorInv, Shape
<1>2. RuntimeInv(state')
  BY <1>1 DEF EmulatorInv, RuntimeInv
<1>3. TokenInv(state')
  BY <1>1 DEF EmulatorInv, TokenInv
<1>4. AnswerInv(state')
  BY <1>1 DEF EmulatorInv, AnswerInv
<1> QED
  BY <1>1, <1>2, <1>3, <1>4 DEF EmulatorInv

LEMMA ServeKeeps ==
  ASSUME EmulatorInv(state), NEW returned, Emulated!Serve(returned)
  PROVE  EmulatorInv(state')
<1> DEFINE id == state.server.inbox[1].id
           request == state.server.inbox[1].request
           response == Emulated!Response(state.server.catalog, request, returned)
           sent == [message |-> response, to |-> id, epoch |-> state.server.epoch]
           executes == request.kind = "write_request" /\ response.kind = "write_response"
           written == IF executes THEN state.written \cup {id} ELSE state.written
           done == [state EXCEPT !.server.inbox = Tail(@), !.written = written]
<1>1. state.server.status = "reading" /\ state.server.inbox # << >>
  BY DEF Emulated!Serve, Emulated!server
<1>2. \/ /\ state' = [done EXCEPT !.server.status = "checking",
                                   !.session[1].input = Append(@, sent)]
         /\ state.session # << >>
      \/ state' = [done EXCEPT !.server.status = "done"]
  BY DEF Emulated!Serve, Emulated!server, Emulated!ClientListens, Emulated!session
<1>3. sent.to = id /\ sent.message = response
  OBVIOUS
<1>4. /\ written = IF executes THEN state.written \cup {id} ELSE state.written
      /\ request.kind = "write_request" /\ response.kind = "write_response" => executes
  OBVIOUS
<1>5. id \in Nat /\ id <= state.client.id
  BY <1>1 DEF EmulatorInv, AnswerInv
<1>6. state.server.inbox = <<state.server.inbox[1]>>
  BY <1>1 DEF EmulatorInv, TokenInv, IsOne
<1>7. Tail(state.server.inbox) = << >>
  BY <1>6, OneFacts
<1> HIDE DEF id, request, response, sent, executes, written
<1>t. done = [state EXCEPT !.server.inbox = << >>, !.written = written]
  BY <1>7
<1> HIDE DEF done
<1>8. /\ Shape(done) /\ done.session = state.session /\ done.runtime = state.runtime
      /\ done.handle = state.handle /\ done.server.epoch = state.server.epoch
      /\ done.server.inbox = << >>
      /\ done.client = state.client /\ done.written = written
      /\ done.answer = state.answer /\ done.setup = state.setup
  BY <1>t DEF EmulatorInv, Shape
<1>9. /\ \A w \in written : w \in Nat /\ w <= state.client.id
      /\ state.written \subseteq written
      /\ state.answer.kind = "stopped" => state.answer.id \notin written
  BY <1>1, <1>4, <1>5 DEF EmulatorInv, AnswerInv, id
<1>10. CASE state' = [done EXCEPT !.server.status = "done"]
  <2>1. /\ Shape(state') /\ state'.session = state.session /\ state'.runtime = state.runtime
        /\ state'.handle = state.handle /\ state'.server.epoch = state.server.epoch
        /\ state'.server.inbox = << >> /\ state'.server.status = "done"
        /\ state'.client = state.client /\ state'.written = written
        /\ state'.answer = state.answer /\ state'.setup = state.setup
    BY <1>10, <1>8 DEF Shape
  <2>2. RuntimeInv(state')
    BY <2>1 DEF EmulatorInv, RuntimeInv
  <2>3. TokenInv(state')
    BY <2>1, <1>1, <1>9 DEF EmulatorInv, TokenInv, IsOne
  <2>4. AnswerInv(state')
    BY <2>1, <1>9 DEF EmulatorInv, AnswerInv
  <2> QED
    BY <2>1, <2>2, <2>3, <2>4 DEF EmulatorInv
<1>11. CASE /\ state' = [done EXCEPT !.server.status = "checking",
                                     !.session[1].input = Append(@, sent)]
            /\ state.session # << >>
  <2> DEFINE old == state.session[1]
             new == [old EXCEPT !.input = <<sent>>]
  <2>1. /\ old.input = << >> /\ old.response = << >> /\ old.pending
        /\ state.session = <<old>>
        /\ old = [epoch |-> old.epoch, pending |-> old.pending, response |-> old.response,
                  input |-> old.input]
    BY <1>1, <1>11 DEF EmulatorInv, TokenInv, Shape
  <2>2. Append(old.input, sent) = <<sent>>
    BY <2>1, OneFacts
  <2>3. state' = [done EXCEPT !.server.status = "checking",
                              !.session = [<<old>> EXCEPT ![1] = new]]
    BY <1>11, <1>8, <2>1, <2>2
  <2>4. new.input = <<sent>> /\ new.response = << >> /\ new.pending /\ new.epoch = old.epoch
        /\ new = [epoch |-> new.epoch, pending |-> new.pending, response |-> new.response,
                  input |-> new.input]
    BY <2>1
  <2> HIDE DEF new, old
  <2>5. [<<old>> EXCEPT ![1] = new] = <<new>> /\ <<new>>[1] = new /\ <<new>> # << >>
        /\ <<sent>>[1] = sent /\ IsOne(<<sent>>)
    BY OneFacts
  <2>6. /\ Shape(state') /\ state'.session = <<new>> /\ state'.runtime = state.runtime
        /\ state'.handle = state.handle /\ state'.server.epoch = state.server.epoch
        /\ state'.server.inbox = << >>
        /\ state'.client = state.client /\ state'.written = written
        /\ state'.answer = state.answer /\ state'.setup = state.setup
    BY ZenonT(40), <2>3, <2>4, <2>5, <1>8 DEF Shape
  <2>7. RuntimeInv(state')
    BY <1>1, <1>11, <2>4, <2>5, <2>6 DEF EmulatorInv, RuntimeInv, old
  <2>8. TokenInv(state')
    <3>1. state.client.pc = "receiving" => id = state.client.id /\ request = state.client.request
      BY <1>1, <1>11 DEF EmulatorInv, TokenInv, id, request
    <3>2. state.client.pc # "sending"
      BY <1>1, <1>11 DEF EmulatorInv, TokenInv
    <3> QED
      BY <3>1, <3>2, <1>3, <1>4, <2>4, <2>5, <2>6 DEF EmulatorInv, TokenInv, IsOne
  <2>9. AnswerInv(state')
    BY <2>6, <1>9 DEF EmulatorInv, AnswerInv
  <2> QED
    BY <2>6, <2>7, <2>8, <2>9 DEF EmulatorInv
<1> QED
  BY <1>2, <1>10, <1>11

LEMMA ServerKeeps ==
  ASSUME EmulatorInv(state), Emulated!Server
  PROVE  EmulatorInv(state')
BY StatusKeeps, ServeKeeps
DEF Emulated!Server, Emulated!CheckStop, Emulated!ReadTimesOut, Emulated!Fail, Emulated!server

\* The worker thread: an answer without an exchange.
LEMMA AnswersKeeps ==
  ASSUME EmulatorInv(state), NEW t, Shape(t), t.runtime = state.runtime, t.handle = state.handle,
         t.server = state.server, t.setup = state.setup, t.written = state.written,
         t.client.pc = "idle", t.client.id \in Nat, t.client.id >= state.client.id,
         t.session = << >> \/ t.session = state.session, AnswerInv(t)
  PROVE  EmulatorInv(t)
<1>1. RuntimeInv(t)
  BY DEF EmulatorInv, RuntimeInv
<1>2. TokenInv(t)
  BY DEF EmulatorInv, TokenInv
<1> QED
  BY <1>1, <1>2 DEF EmulatorInv

LEMMA BeginKeeps ==
  ASSUME EmulatorInv(state), NEW request, Emulated!Begin(request)
  PROVE  EmulatorInv(state')
<1> DEFINE id == state.client.id + 1
           client == [pc |-> "draining", request |-> request, id |-> id]
           begun == [state EXCEPT !.client = client]
           Unsent(kind) == [begun EXCEPT !.client.pc = "idle",
                                         !.answer = [kind |-> kind, id |-> id,
                                                     request |-> request, sent |-> << >>]]
<1>1. state.client.pc = "idle" /\ state.client.id \in Nat
  BY DEF Emulated!Begin, Emulated!client, EmulatorInv, TokenInv
<1>2. /\ id \in Nat /\ id > state.client.id
      /\ client.pc = "draining" /\ client.id = id
      /\ client = [pc |-> client.pc, request |-> client.request, id |-> client.id]
  BY <1>1
<1>3. \/ state' = Unsent("serial") /\ (~Emulated!IsVirtual(request) \/ ~Emulated!IsLocal)
      \/ state' = Unsent("stopped")
      \/ state' = begun /\ state.session # << >>
  BY DEF Emulated!Begin, Emulated!client, Emulated!session
<1>4. ASSUME NEW kind, kind = "serial" \/ kind = "stopped", state' = Unsent(kind),
             kind = "serial" => ~Emulated!IsVirtual(request) \/ ~Emulated!IsLocal
      PROVE  EmulatorInv(state')
  <2> DEFINE answer == [kind |-> kind, id |-> id, request |-> request, sent |-> << >>]
  <2>1. answer.kind = kind /\ answer.id = id /\ answer.request = request
    OBVIOUS
  <2>2. state' = [begun EXCEPT !.client.pc = "idle", !.answer = answer]
    BY <1>4
  <2> HIDE DEF answer, id, client
  <2>3. /\ Shape(state') /\ state'.runtime = state.runtime /\ state'.handle = state.handle
        /\ state'.server = state.server /\ state'.setup = state.setup
        /\ state'.written = state.written /\ state'.session = state.session
        /\ state'.client.pc = "idle" /\ state'.client.id = id /\ state'.answer = answer
    BY <1>2, <2>2 DEF EmulatorInv, Shape
  <2>4. AnswerInv(state')
    BY <1>1, <1>2, <1>4, <2>1, <2>3 DEF EmulatorInv, AnswerInv, Emulated!IsLocal
  <2> QED
    BY <1>2, <1>1, <2>3, <2>4, AnswersKeeps
<1>5. CASE state' = begun /\ state.session # << >>
  <2> HIDE DEF id, client
  <2>1. /\ Shape(state') /\ state'.runtime = state.runtime /\ state'.handle = state.handle
        /\ state'.server = state.server /\ state'.setup = state.setup
        /\ state'.written = state.written /\ state'.session = state.session
        /\ state'.client.pc = "draining" /\ state'.client.id = id /\ state'.answer = state.answer
    BY <1>2, <1>5 DEF EmulatorInv, Shape
  <2>2. RuntimeInv(state')
    BY <2>1 DEF EmulatorInv, RuntimeInv
  <2>3. TokenInv(state')
    BY <2>1, <1>2, <1>5 DEF EmulatorInv, TokenInv
  <2>4. AnswerInv(state')
    BY <2>1, <1>1, <1>2 DEF EmulatorInv, AnswerInv
  <2> QED
    BY <2>1, <2>2, <2>3, <2>4 DEF EmulatorInv
<1> QED
  BY <1>3, <1>4, <1>5

\* What the session holds is replaced.
SessionMoves(t, x) ==
  /\ Shape(t) /\ t.runtime = state.runtime /\ t.handle = state.handle
  /\ t.server.epoch = state.server.epoch /\ t.server.status = state.server.status
  /\ t.setup = state.setup /\ t.written = state.written
  /\ t.session = <<x>> /\ t.session # << >> /\ t.session[1] = x
  /\ state.session # << >> /\ state.session[1].epoch = x.epoch
  /\ t.client.id = state.client.id /\ t.client.request = state.client.request

LEMMA SessionMovesRuntime ==
  ASSUME EmulatorInv(state), NEW t, NEW x, SessionMoves(t, x),
         t.server.inbox = state.server.inbox \/ state.runtime.pc # "publishing"
  PROVE  RuntimeInv(t)
BY DEF EmulatorInv, RuntimeInv, SessionMoves

LEMMA DrainKeeps ==
  ASSUME EmulatorInv(state), Emulated!Drain
  PROVE  EmulatorInv(state')
<1> DEFINE old == state.session[1]
           new == [epoch |-> old.epoch, pending |-> FALSE, response |-> << >>, input |-> << >>]
<1>1. /\ state.client.pc = "draining" /\ state.session # << >>
      /\ ~old.pending \/ old.response # << >> \/ old.input # << >>
  BY DEF Emulated!Drain, Emulated!client, Emulated!session, EmulatorInv, TokenInv
<1>3. state' = [state EXCEPT !.session = <<new>>, !.client.pc = "sending"]
  BY DEF Emulated!Drain, Emulated!Cleared, Emulated!Session, Emulated!session
<1>4. /\ new.input = << >> /\ new.response = << >> /\ new.pending = FALSE
      /\ new.epoch = old.epoch
      /\ new = [epoch |-> new.epoch, pending |-> new.pending, response |-> new.response,
                input |-> new.input]
  OBVIOUS
<1> HIDE DEF old, new
<1>5. <<new>>[1] = new /\ <<new>> # << >>
  BY OneFacts
<1>6. /\ SessionMoves(state', new) /\ state'.server = state.server
      /\ state'.client.pc = "sending" /\ state'.answer = state.answer
  BY <1>1, <1>3, <1>4, <1>5 DEF EmulatorInv, Shape, SessionMoves, old
<1>7. state.server.inbox = << >>
  BY <1>1 DEF EmulatorInv, TokenInv, IsOne, old
<1>8. TokenInv(state')
  BY <1>4, <1>6, <1>7 DEF EmulatorInv, TokenInv, SessionMoves, IsOne
<1>9. AnswerInv(state')
  BY <1>1, <1>6 DEF EmulatorInv, AnswerInv, SessionMoves
<1>10. RuntimeInv(state')
  BY <1>6, SessionMovesRuntime
<1> QED
  BY <1>6, <1>8, <1>9, <1>10 DEF EmulatorInv, SessionMoves

\* An error after which the session is gone.
LEMMA DroppedEmulator ==
  ASSUME EmulatorInv(state), state.client.pc # "idle", NEW kind,
         kind \in {"disconnected", "unexpected"}, state' = Emulated!Dropped(kind)
  PROVE  EmulatorInv(state')
<1> DEFINE answer == [kind |-> kind, id |-> state.client.id, request |-> state.client.request,
                      sent |-> << >>]
<1>1. state' = [[state EXCEPT !.answer = answer, !.client.pc = "idle"] EXCEPT !.session = << >>]
  BY DEF Emulated!Dropped, Emulated!Error, Emulated!Answered, Emulated!client
<1>2. answer.kind \in {"disconnected", "unexpected"}
  OBVIOUS
<1> HIDE DEF answer
<1>3. /\ Shape(state') /\ state'.runtime = state.runtime /\ state'.handle = state.handle
      /\ state'.server = state.server /\ state'.setup = state.setup
      /\ state'.written = state.written /\ state'.session = << >>
      /\ state'.client.pc = "idle" /\ state'.client.id = state.client.id
      /\ state'.answer = answer
  BY ZenonT(40), <1>1 DEF EmulatorInv, Shape
<1>4. AnswerInv(state')
  BY <1>2, <1>3 DEF EmulatorInv, AnswerInv
<1>5. state.client.id \in Nat
  BY DEF EmulatorInv, TokenInv
<1> QED
  BY <1>3, <1>4, <1>5, AnswersKeeps

LEMMA TimeOutKeeps ==
  ASSUME EmulatorInv(state), Emulated!TimeOut
  PROVE  EmulatorInv(state')
<1> DEFINE answer == [kind |-> "timeout", id |-> state.client.id,
                      request |-> state.client.request, sent |-> << >>]
<1>1. state' = [state EXCEPT !.answer = answer, !.client.pc = "idle"]
  BY DEF Emulated!TimeOut, Emulated!Error, Emulated!Answered, Emulated!client
<1>2. answer.kind = "timeout"
  OBVIOUS
<1> HIDE DEF answer
<1>3. /\ Shape(state') /\ state'.runtime = state.runtime /\ state'.handle = state.handle
      /\ state'.server = state.server /\ state'.setup = state.setup
      /\ state'.written = state.written /\ state'.session = state.session
      /\ state'.client.pc = "idle" /\ state'.client.id = state.client.id
      /\ state'.answer = answer
  BY <1>1 DEF EmulatorInv, Shape
<1>4. AnswerInv(state')
  BY <1>2, <1>3 DEF EmulatorInv, AnswerInv
<1>5. state.client.id \in Nat
  BY DEF EmulatorInv, TokenInv
<1> QED
  BY <1>3, <1>4, <1>5, AnswersKeeps

LEMMA DisconnectKeeps ==
  ASSUME EmulatorInv(state), Emulated!Disconnect
  PROVE  EmulatorInv(state')
<1>1. state.client.pc # "idle"
  BY DEF Emulated!Disconnect, Emulated!Waiting, Emulated!client
<1> QED
  BY <1>1, DroppedEmulator DEF Emulated!Disconnect

LEMMA SendRequestKeeps ==
  ASSUME EmulatorInv(state), Emulated!Send
  PROVE  EmulatorInv(state')
<1> DEFINE old == state.session[1]
           new == [epoch |-> old.epoch, pending |-> TRUE, response |-> old.response,
                   input |-> old.input]
           request == [request |-> state.client.request, id |-> state.client.id]
<1>1. /\ state.client.pc = "sending" /\ state.session # << >>
      /\ state.server.inbox = << >> /\ old.input = << >> /\ old.response = << >>
      /\ state.client.id \in Nat
  BY DEF Emulated!Send, Emulated!client, EmulatorInv, TokenInv
<1>2. CASE state' = Emulated!Dropped("disconnected")
  BY <1>1, <1>2, DroppedEmulator
<1>3. CASE state' = [state EXCEPT !.session = <<new>>, !.client.pc = "receiving",
                                  !.server.inbox = Append(@, request)]
  <2>2. Append(state.server.inbox, request) = <<request>>
    BY <1>1, OneFacts
  <2>3. /\ new.input = << >> /\ new.response = << >> /\ new.pending = TRUE
        /\ new.epoch = old.epoch
        /\ new = [epoch |-> new.epoch, pending |-> new.pending, response |-> new.response,
                  input |-> new.input]
    BY <1>1
  <2>4. state' = [state EXCEPT !.session = <<new>>, !.client.pc = "receiving",
                               !.server.inbox = <<request>>]
    BY <1>3, <2>2
  <2>5. request.id = state.client.id /\ request.request = state.client.request
    OBVIOUS
  <2> HIDE DEF new, request
  <2>6. /\ <<new>>[1] = new /\ <<new>> # << >>
        /\ <<request>>[1] = request /\ <<request>> # << >> /\ IsOne(<<request>>)
    BY OneFacts
  <2>7. /\ SessionMoves(state', new) /\ state'.server.inbox = <<request>>
        /\ state'.client.pc = "receiving" /\ state'.answer = state.answer
    BY <1>1, <2>3, <2>4, <2>6 DEF EmulatorInv, Shape, SessionMoves
  <2>8. RuntimeInv(state')
    <3>1. state.runtime.pc # "publishing"
      BY <1>1 DEF EmulatorInv, RuntimeInv
    <3> QED
      BY <2>7, <3>1, SessionMovesRuntime
  <2>9. TokenInv(state')
    BY <1>1, <2>3, <2>5, <2>6, <2>7 DEF EmulatorInv, TokenInv, SessionMoves, IsOne
  <2>10. AnswerInv(state')
    BY <1>1, <2>5, <2>6, <2>7 DEF EmulatorInv, AnswerInv, SessionMoves
  <2> QED
    BY <2>7, <2>8, <2>9, <2>10 DEF EmulatorInv, SessionMoves
<1> QED
  BY <1>2, <1>3 DEF Emulated!Send, Emulated!client, Emulated!Session, Emulated!session

LEMMA ReceiveKeeps ==
  ASSUME EmulatorInv(state), Emulated!Receive
  PROVE  EmulatorInv(state')
<1> DEFINE old == state.session[1]
           sent == old.input[1]
           new == [epoch |-> old.epoch, pending |-> old.pending, response |-> <<sent>>,
                   input |-> << >>]
           Answer(kind) == [kind |-> kind, id |-> state.client.id,
                            request |-> state.client.request, sent |-> sent]
<1>1. /\ state.client.pc = "receiving" /\ state.session # << >> /\ old.input # << >>
  BY DEF Emulated!Receive, Emulated!client, Emulated!session, EmulatorInv, TokenInv
<1>2. /\ old.input = <<sent>> /\ old.pending /\ state.server.inbox = << >> /\ state.client.id \in Nat
      /\ sent.to = state.client.id
      /\ sent.message.kind = "write_response" /\ state.client.request.kind = "write_request" =>
           state.client.id \in state.written
  BY <1>1 DEF EmulatorInv, Shape, TokenInv, IsOne
<1>3. Tail(old.input) = << >>
  <2>1. Tail(<<sent>>) = << >>
    BY OneFacts
  <2> QED
    BY <1>2, <2>1
<1>n. <<new>> = Emulated!Session(state.session[1].pending, <<sent>>, Tail(state.session[1].input))
  BY <1>3 DEF Emulated!Session, Emulated!session
<1> HIDE DEF new
<1>4. \/ state' = [[state EXCEPT !.session = <<new>>] EXCEPT !.client.pc = "idle",
                                                           !.answer = Answer("device")]
      \/ /\ state' = [[state EXCEPT !.session = <<new>>] EXCEPT !.client.pc = "idle",
                                                              !.answer = Answer("value")]
         /\ sent.message.kind = Emulated!ResponseKind(state.client.request)
      \/ state' = Emulated!Dropped("unexpected")
  <2>1. ASSUME NEW kind
        PROVE  Emulated!Answered(kind, sent).answer = Answer(kind)
    BY DEF Emulated!Answered, Emulated!client, EmulatorInv, Shape
  <2> QED
    BY <1>n, <2>1 DEF Emulated!Receive, Emulated!client, Emulated!session
<1>5. ASSUME NEW kind, kind \in {"device", "value"},
             kind = "value" => sent.message.kind = Emulated!ResponseKind(state.client.request),
             state' = [[state EXCEPT !.session = <<new>>] EXCEPT !.client.pc = "idle",
                                                                 !.answer = Answer(kind)]
      PROVE  EmulatorInv(state')
  <2> DEFINE answer == Answer(kind)
  <2>1. /\ new.input = << >> /\ new.response = <<sent>> /\ new.pending /\ new.epoch = old.epoch
        /\ new = [epoch |-> new.epoch, pending |-> new.pending, response |-> new.response,
                  input |-> new.input]
    BY <1>2 DEF new
  <2>2. state' = [[state EXCEPT !.session = <<new>>] EXCEPT !.client.pc = "idle",
                                                            !.answer = answer]
    BY <1>5
  <2>3. answer.kind = kind /\ answer.id = state.client.id /\ answer.sent = sent
        /\ answer.request = state.client.request
    OBVIOUS
  <2> HIDE DEF answer, old, sent
  <2>4. <<new>>[1] = new /\ <<new>> # << >>
    BY OneFacts
  <2>5. /\ SessionMoves(state', new) /\ state'.server = state.server
        /\ state'.client.pc = "idle" /\ state'.answer = answer
    BY <1>1, <2>1, <2>2, <2>4 DEF EmulatorInv, Shape, SessionMoves, old
  <2>6. RuntimeInv(state')
    BY <2>5, SessionMovesRuntime
  <2>7. TokenInv(state')
    BY <1>2, <2>1, <2>5 DEF EmulatorInv, TokenInv, SessionMoves, IsOne
  <2>8. AnswerInv(state')
    <3>1. kind = "value" /\ state.client.request.kind = "write_request" =>
            state.client.id \in state.written
      BY <1>2, <1>5 DEF Emulated!ResponseKind
    <3> QED
      BY <1>2, <1>5, <2>3, <2>5, <3>1 DEF EmulatorInv, AnswerInv, SessionMoves
  <2> QED
    BY <2>5, <2>6, <2>7, <2>8 DEF EmulatorInv, SessionMoves
<1>6. CASE state' = Emulated!Dropped("unexpected")
  BY <1>1, <1>6, DroppedEmulator
<1> QED
  BY <1>4, <1>5, <1>6

LEMMA EmulatorNext ==
  ASSUME EmulatorInv(state), Emulated!Next
  PROVE  EmulatorInv(state')
<1>1. ASSUME Emulated!Runtime PROVE EmulatorInv(state')
  BY <1>1, PollKeeps, StartCommandKeeps, StopCommandKeeps, JoinKeeps, DisconnectLocalKeeps,
     CheckSessionKeeps, LaunchKeeps, PublishKeeps DEF Emulated!Runtime
<1>2. ASSUME Emulated!Client PROVE EmulatorInv(state')
  BY <1>2, BeginKeeps, DrainKeeps, SendRequestKeeps, TimeOutKeeps, DisconnectKeeps, ReceiveKeeps
  DEF Emulated!Client
<1> QED
  BY <1>1, <1>2, ServerKeeps DEF Emulated!Next

\* The invariant, of the component that is chosen.
EmulatorSafe == component = "emulator" => EmulatorInv(state)

\* An answer of the emulator is one to the very request it is returned for: an
\* answer that came too late is drained before the next request is sent, and the
\* session is dropped where that cannot be told (the memory client and server).
THEOREM EmulatorAnswersItsRequests == Spec => []AnswersTheirRequests
<1>1. Init => EmulatorSafe
  BY EmulatorInit DEF Init, EmulatorSafe
<1>2. EmulatorSafe /\ [Next]_vars => EmulatorSafe'
  <2> SUFFICES ASSUME EmulatorSafe, [Next]_vars PROVE EmulatorSafe'
    OBVIOUS
  <2>1. CASE UNCHANGED vars
    BY <2>1 DEF vars, EmulatorSafe, EmulatorInv, Shape, RuntimeInv, TokenInv, AnswerInv
  <2>2. CASE component = "emulator" /\ Emulated!Next /\ UNCHANGED component
    BY <2>2, EmulatorNext DEF EmulatorSafe
  <2>3. CASE component # "emulator" /\ UNCHANGED component
    BY <2>3 DEF EmulatorSafe
  <2> QED
    BY <2>1, <2>2, <2>3 DEF Next
<1>3. EmulatorSafe => AnswersTheirRequests
  BY DEF EmulatorSafe, EmulatorInv, RuntimeInv, AnswerInv, AnswersTheirRequests,
         Emulated!AnswersTheirRequests, Emulated!IsLocal, Emulated!runtime, Emulated!session,
         Emulated!server
<1> QED
  BY <1>1, <1>2, <1>3, PTL DEF Spec

LEMMA NothingInEmpty == DOMAIN << >> = {}
  BY EmptySeq

(***************************************************************************)
(* Profiles.                                                               *)
(***************************************************************************)
IsProfiles(s) ==
  s = [files |-> s.files, saved |-> s.saved, phase |-> s.phase, active |-> s.active,
       candidate |-> s.candidate, settings |-> s.settings,
       console_pending |-> s.console_pending, ran |-> s.ran, edits |-> s.edits,
       launches |-> s.launches, loads |-> s.loads]

\* A path that is saved, or about to be, is that of a profile that has run.
HasRun(s) ==
  /\ \A i \in DOMAIN s.saved : s.saved[i] \in s.ran
  /\ s.phase \in {"remembering", "writing"} => s.candidate.path \in s.ran
\* The definition that runs and the one that is being tried were validated.
UsesPortsOnce(s) ==
  /\ Selection!IsConsistent(s.active.definition)
  /\ s.phase \notin {"off", "idle"} => Selection!IsConsistent(s.candidate.definition)
ProfilesInv(s) == IsProfiles(s) /\ HasRun(s) /\ UsesPortsOnce(s)

-----------------------------------------------------------------------------
LEMMA SuitableConnections ==
  ASSUME NEW table, Selection!ConnectionsParse(table),
         NEW C, C = Selection!ConnectionsOf(table)
  PROVE  /\ \A c1, c2 \in C : c1.id = c2.id \/ Lower[c1.port] = Lower[c2.port] => c1 = c2
         /\ C # {} => Selection!PRIMARY \in {c.id : c \in C}
<1> DEFINE of(name) == Selection!SerialConnection(DOMAIN table, name, table[name].value)
<1>1. C = {of(name) : name \in DOMAIN table}
  BY DEF Selection!ConnectionsOf
<1>2. \A name \in DOMAIN table :
        /\ of(name).name = name
        /\ of(name).id = Selection!ConnectionId(DOMAIN table, name)
  BY DEF Selection!SerialConnection
<1>3. \A c, d \in C : c.name = d.name \/ Selection!CanCoexist(c, d)
  BY DEF Selection!ConnectionsParse
<1>4. C = {} \/ \E name \in DOMAIN table : Lower[name] = "primary"
  BY <1>1 DEF Selection!ConnectionsParse
<1> HIDE DEF of
<1>5. \A c1, c2 \in C : c1.name = c2.name => c1 = c2
  BY <1>1, <1>2
<1>6. \A c1, c2 \in C : c1.id = c2.id \/ Lower[c1.port] = Lower[c2.port] => c1 = c2
  BY <1>3, <1>5 DEF Selection!CanCoexist
<1>7. ASSUME NEW name \in DOMAIN table, Lower[name] = "primary"
      PROVE  of(name) \in C /\ of(name).id = Selection!PRIMARY
  BY <1>1, <1>2, <1>7 DEF Selection!ConnectionId
<1>8. C # {} => Selection!PRIMARY \in {c.id : c \in C}
  BY <1>4, <1>7
<1> QED
  BY <1>6, <1>8

LEMMA DefaultIsConsistent == Selection!IsConsistent(Selection!DefaultDefinition)
BY NothingInEmpty DEF Selection!IsConsistent, Selection!DefaultDefinition

LEMMA AppliedIsConsistent ==
  ASSUME NEW root, Selection!Applies(root, Selection!DefaultDefinition)
  PROVE  Selection!IsConsistent(Selection!Applied(root, Selection!DefaultDefinition))
<1> DEFINE base == Selection!DefaultDefinition
           d == Selection!Applied(root, base)
           C == Selection!ConnectionsIn(root, base)
<1>1. base.connections = {} /\ base.emulator = << >>
  BY DEF Selection!DefaultDefinition
<1>2. d.connections = C
  BY DEF Selection!Applied
<1>3. /\ \A c1, c2 \in C : c1.id = c2.id \/ Lower[c1.port] = Lower[c2.port] => c1 = c2
      /\ C # {} => Selection!PRIMARY \in {c.id : c \in C}
  <2>1. CASE "connections" \in DOMAIN root
    <3>1. C = Selection!ConnectionsOf(Selection!Section(root, "connections"))
      BY <2>1 DEF Selection!ConnectionsIn
    <3>2. Selection!ConnectionsParse(Selection!Section(root, "connections"))
      BY <2>1 DEF Selection!Applies, Selection!Sections, Selection!SectionParses
    <3> QED
      BY <3>1, <3>2, SuitableConnections
  <2>2. CASE "connections" \notin DOMAIN root
    BY <1>1, <2>2 DEF Selection!ConnectionsIn
  <2> QED
    BY <2>1, <2>2
<1>4. \A i \in DOMAIN d.emulator : Selection!EmulatorIsValid(C, d.emulator[i])
  <2>1. CASE "emulator" \in DOMAIN root
    <3> DEFINE table == Selection!Section(root, "emulator")
    <3>1. Selection!EmulatorParses(table, C)
      BY <2>1 DEF Selection!Applies, Selection!Sections, Selection!SectionParses
    <3>2. d.emulator = <<Selection!EmulatorOf(table, C)>>
      BY <2>1 DEF Selection!Applied
    <3>3. Selection!EmulatorIsValid(C, Selection!EmulatorOf(table, C))
      BY <3>1 DEF Selection!EmulatorParses
    <3> HIDE DEF table, C, d
    <3> QED
      BY <3>2, <3>3
  <2>2. CASE "emulator" \notin DOMAIN root
    BY <1>1, <2>2 DEF Selection!Applied
  <2> QED
    BY <2>1, <2>2
<1> HIDE DEF base, d, C
<1>5. \A c \in d.connections : \A i \in DOMAIN d.emulator :
        \A p \in d.emulator[i].port : Lower[p] # Lower[c.port]
  BY <1>2, <1>4 DEF Selection!EmulatorIsValid
<1>6. \A i \in DOMAIN d.emulator : d.emulator[i].connection \subseteq {c.id : c \in d.connections}
  BY <1>2, <1>4 DEF Selection!EmulatorIsValid
<1>7. Selection!IsConsistent(d)
  BY <1>2, <1>3, <1>5, <1>6 DEF Selection!IsConsistent
<1> QED
  BY <1>7 DEF d, base

-----------------------------------------------------------------------------
LEMMA ProfilesInit == Selection!Init => ProfilesInv(state)
<1> SUFFICES ASSUME Selection!Init PROVE ProfilesInv(state)
  OBVIOUS
<1>1. /\ state.saved = << >> /\ state.phase = "off" /\ state.active = Selection!Nothing
      /\ IsProfiles(state)
  BY DEF Selection!Init, IsProfiles
<1>2. HasRun(state)
  BY <1>1, NothingInEmpty DEF HasRun
<1>3. Selection!IsConsistent(Selection!Nothing.definition)
  BY DefaultIsConsistent DEF Selection!Nothing
<1> QED
  BY <1>1, <1>2, <1>3 DEF ProfilesInv, UsesPortsOnce

LEMMA ProfilesNext == ProfilesInv(state) /\ Selection!Next => ProfilesInv(state')
<1> SUFFICES ASSUME ProfilesInv(state), Selection!Next PROVE ProfilesInv(state')
  OBVIOUS
<1> DEFINE s == state
           t == state'
<1>0. IsProfiles(s) /\ HasRun(s) /\ UsesPortsOnce(s)
  BY DEF ProfilesInv
<1>a. \A file : Selection!IsLoadable(file) => Selection!IsConsistent(Selection!Loaded(file))
  BY AppliedIsConsistent DEF Selection!IsLoadable, Selection!Loaded
\* Steps that leave what is active, remembered and replaced alone.
<1>b. ASSUME NEW update, t = [s EXCEPT !.settings = update] PROVE ProfilesInv(t)
  BY <1>0, <1>b DEF IsProfiles, ProfilesInv, HasRun, UsesPortsOnce
<1>c. ASSUME NEW path, t = [s EXCEPT !.settings = path, !.phase = "idle"] PROVE ProfilesInv(t)
  BY <1>0, <1>c DEF IsProfiles, ProfilesInv, HasRun, UsesPortsOnce
<1>1. ASSUME NEW line \in CommandLines, Selection!Launch(line) PROVE ProfilesInv(t)
  <2> DEFINE path == Selection!Discovered(line)
             file == s.files[path]
             active == [path |-> path,
                        definition |-> IF Selection!IsLoadable(file) THEN Selection!Loaded(file)
                                       ELSE Selection!DefaultDefinition]
  <2>1. t = [s EXCEPT !.phase = "idle", !.launches = @ + 1, !.settings = Selection!Fresh,
                      !.console_pending = FALSE, !.active = active]
    BY <1>1 DEF Selection!Launch
  <2>2. Selection!IsConsistent(active.definition)
    BY <1>a, DefaultIsConsistent
  <2> HIDE DEF active
  <2> QED
    BY <1>0, <2>1, <2>2 DEF IsProfiles, ProfilesInv, HasRun, UsesPortsOnce
<1>2. CASE Selection!Window
  <2>1. \E update : t = [s EXCEPT !.settings = update]
    BY <1>2 DEF Selection!Window, Selection!Settings, Selection!Select, Selection!Clear,
      Selection!Validate, Selection!BeginLoad, Selection!CancelLoad, Selection!ConfirmLoad,
      Selection!BeginReload, Selection!CancelReload, Selection!ConfirmReload
  <2> QED
    BY <2>1, <1>b
<1>3. CASE Selection!Take
  <2>1. CASE Selection!Fail
    BY <1>c, <2>1 DEF Selection!Fail
  <2>2. CASE Selection!Accepts(Selection!Target) /\ Selection!StartLoading(Selection!Target)
    <3> DEFINE candidate == [path |-> Selection!Target,
                             definition |-> Selection!Loaded(s.files[Selection!Target])]
    <3>1. t = [s EXCEPT !.phase = "retiring", !.loads = @ + 1, !.candidate = candidate]
      BY <2>2 DEF Selection!StartLoading
    <3>2. Selection!IsConsistent(candidate.definition)
      BY <2>2, <1>a DEF Selection!Accepts
    <3> HIDE DEF candidate
    <3> QED
      BY <1>0, <3>1, <3>2 DEF IsProfiles, ProfilesInv, HasRun, UsesPortsOnce
  <2> QED
    BY <1>3, <2>1, <2>2 DEF Selection!Take
<1>4. CASE Selection!Retire
  <2>1. CASE Selection!Fail
    BY <1>c, <2>1 DEF Selection!Fail
  <2>2. CASE t = [s EXCEPT !.phase = "initializing"]
    BY <1>0, <1>4, <2>2 DEF Selection!Retire, IsProfiles, ProfilesInv, HasRun, UsesPortsOnce
  <2> QED
    BY <1>4, <2>1, <2>2 DEF Selection!Retire
<1>5. CASE Selection!Initialize
  <2>1. CASE Selection!Fail
    BY <1>c, <2>1 DEF Selection!Fail
  <2>2. ASSUME NEW phase \in {"remembering", "replacing"},
               t = [s EXCEPT !.phase = phase, !.ran = @ \cup {s.candidate.path}]
        PROVE  ProfilesInv(t)
    BY <1>0, <1>5, <2>2 DEF Selection!Initialize, IsProfiles, ProfilesInv, HasRun, UsesPortsOnce
  <2>3. Selection!Fail
        \/ \E phase \in {"remembering", "replacing"} :
             t = [s EXCEPT !.phase = phase, !.ran = @ \cup {s.candidate.path}]
    BY <1>5 DEF Selection!Initialize
  <2> QED
    BY <2>1, <2>2, <2>3
<1>6. CASE Selection!Truncate
  <2>1. CASE t = [s EXCEPT !.phase = "replacing"]
    BY <1>0, <1>6, <2>1 DEF Selection!Truncate, IsProfiles, ProfilesInv, HasRun, UsesPortsOnce
  <2>2. CASE t = [s EXCEPT !.phase = "writing", !.saved = << >>]
    <3>1. t.saved = << >> /\ IsProfiles(t) /\ t.phase = "writing"
          /\ t.candidate = s.candidate /\ t.ran = s.ran /\ t.active = s.active
          /\ s.phase = "remembering"
      BY <1>0, <1>6, <2>2 DEF Selection!Truncate, IsProfiles
    <3> QED
      BY <1>0, <3>1, NothingInEmpty DEF ProfilesInv, HasRun, UsesPortsOnce
  <2> QED
    BY <1>6, <2>1, <2>2 DEF Selection!Truncate
<1>7. CASE Selection!Write
  <2>1. /\ t.saved = <<s.candidate.path>> /\ IsProfiles(t) /\ t.phase = "replacing"
        /\ t.candidate = s.candidate /\ t.ran = s.ran /\ t.active = s.active
        /\ s.phase = "writing"
    BY <1>0, <1>7 DEF Selection!Write, IsProfiles
  <2>2. DOMAIN t.saved = {1} /\ t.saved[1] = s.candidate.path
    BY <2>1
  <2> QED
    BY <1>0, <2>1, <2>2 DEF ProfilesInv, HasRun, UsesPortsOnce
<1>8. CASE Selection!Replace
  <2>1. s.phase = "replacing"
        /\ \E settings : t = [s EXCEPT !.phase = "idle", !.active = s.candidate,
                                       !.settings = settings, !.console_pending = FALSE]
    BY <1>8 DEF Selection!Replace
  <2> QED
    BY <1>0, <2>1 DEF IsProfiles, ProfilesInv, HasRun, UsesPortsOnce
<1>9. CASE Selection!Console
  BY <1>0, <1>9 DEF Selection!Console, IsProfiles, ProfilesInv, HasRun, UsesPortsOnce
<1>10. CASE Selection!End
  <2>1. /\ Selection!IsConsistent(Selection!Nothing.definition)
    BY DefaultIsConsistent DEF Selection!Nothing
  <2> QED
    BY <1>0, <1>10, <2>1 DEF Selection!End, IsProfiles, ProfilesInv, HasRun, UsesPortsOnce
<1>11. ASSUME NEW path \in Paths, NEW file \in ProfileFiles, Selection!Edit(path, file)
       PROVE  ProfilesInv(t)
  <2>1. \E files, edits : t = [s EXCEPT !.files = files, !.edits = edits]
    <3>1. t = [s EXCEPT !.files = [@ EXCEPT ![path] = file], !.edits = @ + 1]
      BY <1>11 DEF Selection!Edit
    <3> QED
      BY <3>1
  <2> QED
    BY <1>0, <2>1 DEF IsProfiles, ProfilesInv, HasRun, UsesPortsOnce
<1> QED
  BY <1>1, <1>2, <1>3, <1>4, <1>5, <1>6, <1>7, <1>8, <1>9, <1>10, <1>11
     DEF Selection!Next, Selection!Loading

ProfilesAreSound == component = "profiles" => ProfilesInv(state)

\* The inductive invariant of the profiles, whatever the files hold.
THEOREM ProfilesInvariant == Spec => []ProfilesAreSound
<1>1. Init => ProfilesAreSound
  BY ProfilesInit DEF Init, ProfilesAreSound
<1>2. ProfilesAreSound /\ [Next]_vars => ProfilesAreSound'
  <2>1. CASE UNCHANGED vars
    BY <2>1 DEF vars, ProfilesAreSound
  <2>2. CASE Next
    BY <2>2, ProfilesNext DEF Next, ProfilesAreSound
  <2> QED
    BY <2>1, <2>2
<1> QED
  BY <1>1, <1>2, PTL DEF Spec

\* Only a profile that has run is selected at the next launch
\* (app.rs, load_profile).
THEOREM OnlyRunProfilesAreRemembered == Spec => []RemembersOnlyWhatRan
<1>1. ProfilesAreSound => RemembersOnlyWhatRan
  BY DEF ProfilesAreSound, ProfilesInv, HasRun, RemembersOnlyWhatRan, Selection!RemembersOnlyWhatRan
<1> QED
  BY <1>1, ProfilesInvariant, PTL

\* No port has two users and the primary connection exists, whichever profiles
\* were loaded (ApplicationDefinition::replace_serial_connections).
THEOREM NoPortHasTwoUsers == Spec => []PortsHaveOneUser
<1>1. ProfilesAreSound => PortsHaveOneUser
  BY DEF ProfilesAreSound, ProfilesInv, UsesPortsOnce, PortsHaveOneUser,
    Selection!PortsHaveOneUser
<1> QED
  BY <1>1, ProfilesInvariant, PTL

(***************************************************************************)
(* Control panels.                                                         *)
(***************************************************************************)
\* f enumerates n numbers of S in increasing order.
Enumerates(f, S, n) ==
  f \in [1..n -> S] /\ \A i, j \in 1..n : i < j => f[i] < f[j]

LEMMA FinitePart ==
  ASSUME NEW m \in Nat, NEW T \in SUBSET (1..m)
  PROVE  IsFiniteSet(T) /\ Cardinality(T) \in Nat
<1>1. IsFiniteSet(1..m)
  BY FS_Interval
<1>2. IsFiniteSet(T)
  BY <1>1, FS_Subset
<1> QED
  BY <1>2, FS_CardinalityType

LEMMA EnumerationOf ==
  ASSUME NEW k \in Nat, NEW S \in SUBSET (1..k)
  PROVE  \E f : Enumerates(f, S, Cardinality(S))
<1> DEFINE Fails == {m \in Nat : \E T \in SUBSET (1..m) : \A f : ~Enumerates(f, T, Cardinality(T))}
<1>1. Fails = {}
  <2> SUFFICES ASSUME Fails # {} PROVE FALSE
    OBVIOUS
  <2>1. PICK m \in Fails : \A y \in Fails : m <= y
    <3>1. Fails \subseteq Nat
      OBVIOUS
    <3> HIDE DEF Fails
    <3> QED
      BY <3>1, Loops!LeastElement
  <2>2. PICK T \in SUBSET (1..m) : \A f : ~Enumerates(f, T, Cardinality(T))
    BY <2>1
  <2>3. IsFiniteSet(T) /\ Cardinality(T) \in Nat
    BY <2>1, FinitePart
  <2>4. CASE m \notin T
    <3>1. T = {} \/ (m # 0 /\ T \in SUBSET (1..(m - 1)))
      BY <2>1, <2>4
    <3>2. CASE T = {}
      <4>1. Cardinality(T) = 0
        BY <3>2, FS_EmptySet
      <4>2. Enumerates([i \in 1..0 |-> i], T, 0)
        BY DEF Enumerates
      <4> QED
        BY <4>1, <4>2, <2>2
    <3>3. CASE m # 0 /\ T \in SUBSET (1..(m - 1))
      <4>1. m - 1 \in Fails
        BY <3>3, <2>1, <2>2
      <4> QED
        BY <4>1, <2>1
    <3> QED
      BY <3>1, <3>2, <3>3
  <2>5. CASE m \in T
    <3> DEFINE U == T \ {m}
               n == Cardinality(U)
    <3>1. m \in Nat /\ m # 0 /\ U \in SUBSET (1..(m - 1))
      BY <2>1, <2>5
    <3>2. n \in Nat /\ Cardinality(T) = n + 1
      <4>1. IsFiniteSet(U) /\ n = Cardinality(T) - 1
        BY <2>3, <2>5, FS_RemoveElement
      <4>2. n \in Nat
        BY <4>1, FS_CardinalityType
      <4> QED
        BY <2>3, <4>1, <4>2
    <3>3. PICK f : Enumerates(f, U, n)
      <4>1. m - 1 \notin Fails /\ m - 1 \in Nat
        BY <2>1, <3>1
      <4> QED
        BY <4>1, <3>1
    <3> HIDE DEF U, n
    <3> DEFINE g == [i \in 1..(n + 1) |-> IF i = n + 1 THEN m ELSE f[i]]
    <3>4. g \in [1..(n + 1) -> T]
      BY <3>2, <3>3, <2>5 DEF Enumerates, U
    <3>5. ASSUME NEW i \in 1..(n + 1), NEW j \in 1..(n + 1), i < j PROVE g[i] < g[j]
      <4>0. i \in 1..n
        BY <3>2, <3>5
      <4>1. i \in 1..n /\ f[i] \in 1..(m - 1)
        BY <4>0, <3>1, <3>3 DEF Enumerates
      <4>2. CASE j = n + 1
        BY <4>1, <4>2, <3>1, <3>2
      <4>3. CASE j # n + 1
        BY <4>1, <4>3, <3>2, <3>3, <3>5 DEF Enumerates
      <4> QED
        BY <4>2, <4>3
    <3>6. Enumerates(g, T, n + 1)
      BY <3>4, <3>5 DEF Enumerates
    <3> QED
      BY <3>2, <3>6, <2>2
  <2> QED
    BY <2>4, <2>5
<1> QED
  BY <1>1

\* Such an f reaches all of S, once.
EnumeratesAll(f, S, n) ==
  /\ n \in Nat /\ f \in [1..n -> S]
  /\ \A x \in S : \E m \in 1..n : f[m] = x
  /\ \A i, j \in 1..n : f[i] = f[j] => i = j

LEMMA EnumerationIsOnto ==
  ASSUME NEW k \in Nat, NEW S \in SUBSET (1..k), NEW n, n = Cardinality(S),
         NEW f, Enumerates(f, S, n)
  PROVE  EnumeratesAll(f, S, n)
<1>1. IsFiniteSet(S) /\ n \in Nat
  BY FinitePart
<1>2. IsFiniteSet(1..n) /\ Cardinality(1..n) = n
  BY <1>1, FS_Interval
<1>3. ASSUME NEW i \in 1..n, NEW j \in 1..n, f[i] = f[j] PROVE i = j
  <2>1. i \in Nat /\ j \in Nat /\ (i < j => f[i] < f[j]) /\ (j < i => f[j] < f[i])
    BY <1>1 DEF Enumerates
  <2>2. f[i] \in Nat /\ f[j] \in Nat
    <3>1. f \in [1..n -> S]
      BY DEF Enumerates
    <3>2. f[i] \in S /\ f[j] \in S
      BY <3>1
    <3>3. \A x \in S : x \in Nat
      OBVIOUS
    <3> QED
      BY <3>2, <3>3
  <2> QED
    BY <1>3, <2>1, <2>2
<1>4. f \in Injection(1..n, S)
  BY <1>3 DEF Enumerates, Injection, IsInjective
<1>5. f \in Surjection(1..n, S)
  BY <1>1, <1>2, <1>4, FS_Injection
<1> QED
  BY <1>1, <1>3, <1>5 DEF Enumerates, EnumeratesAll, Surjection

\* What is left of the panels: those of the other scripts, once each.
KeepsOthers(kept, shown, id) ==
  /\ IsSeq(kept)
  /\ \A n \in DOMAIN kept : \E i \in DOMAIN shown : kept[n] = shown[i] /\ shown[i].script # id
  /\ \A i \in DOMAIN shown : shown[i].script # id => \E n \in DOMAIN kept : kept[n] = shown[i]

DistinctPanels(shown) ==
  \A i, k \in DOMAIN shown :
    shown[i].script = shown[k].script /\ shown[i].id = shown[k].id => i = k

LEMMA SameCount == \A S : Panels!Cardinality(S) = Cardinality(S)
BY DEF Panels!Cardinality, Cardinality

LEMMA InOrderFacts ==
  ASSUME NEW k \in Nat, NEW S \in SUBSET (1..k)
  PROVE  Enumerates(Panels!InOrder(S), S, Cardinality(S))
<1>1. PICK n : n = Cardinality(S) /\ n = Panels!Cardinality(S)
  BY SameCount
<1>2. \E f \in [1..n -> S] : \A i, j \in DOMAIN f : i < j => f[i] < f[j]
  <2>1. PICK f : Enumerates(f, S, n)
    BY <1>1, EnumerationOf
  <2> QED
    BY <2>1 DEF Enumerates
<1>3. PICK order : order = CHOOSE f \in [1..n -> S] : \A i, j \in DOMAIN f : i < j => f[i] < f[j]
  OBVIOUS
<1>4. order \in [1..n -> S] /\ \A i, j \in DOMAIN order : i < j => order[i] < order[j]
  BY <1>2, <1>3
<1>5. order = Panels!InOrder(S)
  BY <1>1, <1>3 DEF Panels!InOrder
<1>6. Enumerates(order, S, n)
  BY <1>4 DEF Enumerates
<1> QED
  BY <1>1, <1>5, <1>6

LEMMA UnregisteredKeeps ==
  ASSUME NEW shown, IsSeq(shown), NEW id, NEW rest, rest = Panels!Unregistered(shown, id)
  PROVE  KeepsOthers(rest, shown, id) /\ (DistinctPanels(shown) => DistinctPanels(rest))
<1>1. PICK S : S = {i \in DOMAIN shown : shown[i].script # id}
  OBVIOUS
<1>2. PICK count : count = Cardinality(S)
  OBVIOUS
<1>4. PICK k : k \in Nat /\ S \in SUBSET (1..k)
  BY <1>1, SeqFacts
<1>0. PICK order : order = Panels!InOrder(S)
  OBVIOUS
<1>3. Enumerates(order, S, count) /\ rest = [n \in DOMAIN order |-> shown[order[n]]]
  <2>1. Enumerates(order, S, count)
    BY <1>0, <1>2, <1>4, InOrderFacts
  <2>2. rest = [n \in DOMAIN order |-> shown[order[n]]]
    BY <1>0, <1>1 DEF Panels!Unregistered
  <2> QED
    BY <2>1, <2>2
<1>5. EnumeratesAll(order, S, count)
  BY <1>2, <1>3, <1>4, EnumerationIsOnto
<1>6. DOMAIN rest = 1..count /\ \A n \in DOMAIN rest : order[n] \in S /\ rest[n] = shown[order[n]]
  BY <1>3, <1>5 DEF EnumeratesAll
<1>7. IsSeq(rest)
  <2>1. PICK R : R = {rest[n] : n \in DOMAIN rest}
    OBVIOUS
  <2>2. rest = [n \in 1..count |-> rest[n]] /\ \A n \in 1..count : rest[n] \in R
    BY <1>3, <1>6, <2>1
  <2>3. rest \in Seq(R)
    BY <1>5, <2>2 DEF EnumeratesAll
  <2> QED
    BY <2>3, IsSeqOf
<1>8. KeepsOthers(rest, shown, id)
  BY <1>1, <1>5, <1>6, <1>7 DEF KeepsOthers, EnumeratesAll
<1>9. ASSUME DistinctPanels(shown) PROVE DistinctPanels(rest)
  BY <1>1, <1>5, <1>6, <1>9 DEF DistinctPanels, EnumeratesAll
<1> QED
  BY <1>8, <1>9

-----------------------------------------------------------------------------
LEMMA SeqIn ==
  ASSUME NEW q, IsSeq(q), NEW S, \A i \in DOMAIN q : q[i] \in S
  PROVE  q \in Seq(S)
<1>1. Len(q) \in Nat /\ DOMAIN q = 1..Len(q)
  BY SeqFacts
<1>2. q = [i \in 1..Len(q) |-> q[i]]
  BY DEF IsSeq
<1>3. [i \in 1..Len(q) |-> q[i]] \in Seq(S)
  BY <1>1
<1> QED
  BY <1>2, <1>3

\* Everything there is of two sequences one after the other.
IsConcatOf(t, q, r) ==
  /\ IsSeq(t)
  /\ \A n \in DOMAIN t : (n \in DOMAIN q /\ t[n] = q[n])
                         \/ (n - Len(q) \in DOMAIN r /\ t[n] = r[n - Len(q)] /\ n \in Nat /\ Len(q) \in Nat)
  /\ \A i \in DOMAIN q : i \in DOMAIN t /\ t[i] = q[i]
  /\ \A i \in DOMAIN r : i + Len(q) \in DOMAIN t /\ t[i + Len(q)] = r[i]

LEMMA ConcatFacts ==
  ASSUME NEW q, NEW r, IsSeq(q), IsSeq(r), NEW t, t = q \o r
  PROVE  IsConcatOf(t, q, r)
<1>1. PICK S : S = {q[i] : i \in DOMAIN q} \cup {r[i] : i \in DOMAIN r}
  OBVIOUS
<1>2. q \in Seq(S) /\ r \in Seq(S)
  BY <1>1, SeqIn
<1>3. /\ t \in Seq(S) /\ Len(t) = Len(q) + Len(r)
      /\ \A i \in 1..Len(t) : t[i] = IF i <= Len(q) THEN q[i] ELSE r[i - Len(q)]
  BY <1>2, ConcatProperties
<1>4. /\ Len(q) \in Nat /\ DOMAIN q = 1..Len(q) /\ Len(r) \in Nat /\ DOMAIN r = 1..Len(r)
      /\ DOMAIN t = 1..Len(t)
  BY <1>3, SeqFacts
<1>5. IsSeq(t)
  BY <1>3, IsSeqOf
<1>6. \A n \in DOMAIN t :
        (n \in DOMAIN q /\ t[n] = q[n])
        \/ (n - Len(q) \in DOMAIN r /\ t[n] = r[n - Len(q)] /\ n \in Nat /\ Len(q) \in Nat)
  BY <1>3, <1>4
<1>7. \A i \in DOMAIN q : i \in DOMAIN t /\ t[i] = q[i]
  BY <1>3, <1>4
<1>8. \A i \in DOMAIN r : i + Len(q) \in DOMAIN t /\ t[i + Len(q)] = r[i]
  <2> SUFFICES ASSUME NEW i \in DOMAIN r PROVE i + Len(q) \in DOMAIN t /\ t[i + Len(q)] = r[i]
    OBVIOUS
  <2>1. PICK n : n = i + Len(q)
    OBVIOUS
  <2>2. n \in 1..Len(t) /\ ~(n <= Len(q)) /\ n - Len(q) = i
    BY <1>3, <1>4, <2>1
  <2> QED
    BY <1>3, <1>4, <2>1, <2>2
<1> QED
  BY <1>5, <1>6, <1>7, <1>8 DEF IsConcatOf

-----------------------------------------------------------------------------
\* The definitions of a script's panels: in order, each id once.
AreDefinitions(definitions) ==
  /\ IsSeq(definitions)
  /\ \A i, k \in DOMAIN definitions : definitions[i].id = definitions[k].id => i = k

LEMMA RegistrationFacts ==
  ASSUME NEW script \in PanelScripts, Panels!RegistrationParses(script)
  PROVE  AreDefinitions(Panels!Panels(script))
<1>1. IsSeq(Panels!Panels(script))
  <2>1. PICK S : Panels!Panels(script) \in Seq(S)
    BY PanelTablesAreArrays DEF Panels!PanelsAreArrays
  <2> QED
    BY <2>1, IsSeqOf
<1>2. CASE "panels" \notin DOMAIN script
  <2>1. DOMAIN Panels!Panels(script) = {}
    BY <1>2, EmptyFacts DEF Panels!Panels
  <2> QED
    BY <1>1, <2>1 DEF AreDefinitions
<1>3. CASE "panels" \in DOMAIN script
  <2>1. PICK items : items = script["panels"].value.items
    OBVIOUS
  <2>2. Panels!Panels(script) = [i \in DOMAIN items |-> Panels!Panel(items[i].value)]
    BY <1>3, <2>1 DEF Panels!Panels
  <2>3. Panels!HaveDistinctIds(Panels!TablesOf(script["panels"].value))
    BY <1>3 DEF Panels!RegistrationParses
  <2>4. Panels!TablesOf(script["panels"].value) = [i \in DOMAIN items |-> items[i].value]
    BY <2>1 DEF Panels!TablesOf
  <2>5. \A i, k \in DOMAIN items : items[i].value["id"].value = items[k].value["id"].value => i = k
    BY <2>3, <2>4 DEF Panels!HaveDistinctIds
  <2>6. \A i \in DOMAIN items : Panels!Panels(script)[i].id = items[i].value["id"].value
    BY <2>2 DEF Panels!Panel
  <2> QED
    BY <1>1, <2>2, <2>5, <2>6 DEF AreDefinitions
<1> QED
  BY <1>2, <1>3

-----------------------------------------------------------------------------
(* The panels that are shown. *)
\* An edit that is not accepted yet is being made or is on its way.
SoundControl(c) ==
  /\ c = [id |-> c.id, kind |-> c.kind, value |-> c.value, draft |-> c.draft,
          pending |-> c.pending, editing |-> c.editing, enabled |-> c.enabled,
          minimum |-> c.minimum, maximum |-> c.maximum, callback |-> c.callback]
  /\ c.pending \in BOOLEAN /\ c.editing \in BOOLEAN
  /\ c.draft # c.value => c.editing \/ c.pending
SoundPanel(p) ==
  /\ p = [script |-> p.script, id |-> p.id, controls |-> p.controls]
  /\ p.controls = [j \in DOMAIN p.controls |-> p.controls[j]]
  /\ \A j \in DOMAIN p.controls : SoundControl(p.controls[j])
PlaceAt(p, j) == Panels!At(p.script, p.id, p.controls[j].id)

SoundEvent(e) ==
  /\ e.kind \in {"registered", "unregistered", "result", "value", "enabled"}
  /\ e.kind = "result" => e.succeeded \in BOOLEAN
  /\ e.kind = "registered" => AreDefinitions(e.panels)
TellsPanels(e) == e.kind \in {"registered", "unregistered"}

\* A control, or a panel, some time later: what it may lose is that it is pending.
LaterControl(d, c) == d.id = c.id /\ d.kind = c.kind /\ (d.pending => c.pending)
SamePanel(q, p) ==
  /\ q.script = p.script /\ q.id = p.id /\ DOMAIN q.controls = DOMAIN p.controls
  /\ \A j \in DOMAIN p.controls :
       q.controls[j].id = p.controls[j].id /\ q.controls[j].kind = p.controls[j].kind

LEMMA ControlAfterFacts ==
  ASSUME NEW c, SoundControl(c), NEW e, SoundEvent(e), ~TellsPanels(e), NEW d, d = Panels!ControlAfter(c, e)
  PROVE  SoundControl(d) /\ LaterControl(d, c) /\ (e.kind = "result" => ~d.pending)
<1>1. CASE e.kind = "result" /\ e.succeeded
  <2>1. d = [c EXCEPT !.value = c.draft, !.pending = FALSE]
    BY <1>1 DEF Panels!ControlAfter, Panels!CommitEdit
  <2> QED
    BY <2>1 DEF SoundControl, LaterControl
<1>2. CASE e.kind = "result" /\ ~e.succeeded
  <2>1. d = [c EXCEPT !.draft = c.value, !.pending = FALSE]
    BY <1>2 DEF Panels!ControlAfter, Panels!DiscardEdit
  <2> QED
    BY <2>1 DEF SoundControl, LaterControl
<1>3. CASE e.kind = "value"
  <2>1. d = c \/ d = [c EXCEPT !.value = e.value, !.draft = e.value]
    BY <1>3 DEF Panels!ControlAfter, Panels!SetValue
  <2> QED
    BY <1>3, <2>1 DEF SoundControl, LaterControl
<1>4. CASE e.kind = "enabled"
  <2>1. d = [c EXCEPT !.enabled = e.enabled]
    BY <1>4 DEF Panels!ControlAfter
  <2> QED
    BY <1>4, <2>1 DEF SoundControl, LaterControl
<1> QED
  BY <1>1, <1>2, <1>3, <1>4 DEF SoundEvent, TellsPanels

LEMMA PanelAfterFacts ==
  ASSUME NEW p, SoundPanel(p), NEW e, SoundEvent(e), ~TellsPanels(e), NEW q, q = Panels!PanelAfter(p, e)
  PROVE  /\ SoundPanel(q) /\ SamePanel(q, p)
         /\ \A j \in DOMAIN p.controls :
              q.controls[j].pending => p.controls[j].pending /\ ~(e.kind = "result" /\ e.at = PlaceAt(p, j))
<1>1. CASE p.script = e.at.script /\ p.id = e.at.panel
  <2>1. PICK after : after = [j \in DOMAIN p.controls |->
                                IF p.controls[j].id = e.at.control
                                THEN Panels!ControlAfter(p.controls[j], e) ELSE p.controls[j]]
    OBVIOUS
  <2>2. q = [script |-> p.script, id |-> p.id, controls |-> after]
    BY <1>1, <2>1 DEF Panels!PanelAfter, SoundPanel
  <2>3. ASSUME NEW j \in DOMAIN p.controls
        PROVE  /\ SoundControl(after[j]) /\ LaterControl(after[j], p.controls[j])
               /\ e.kind = "result" /\ e.at = PlaceAt(p, j) => ~after[j].pending
    <3>1. CASE p.controls[j].id = e.at.control
      BY <2>1, <3>1, ControlAfterFacts DEF SoundPanel
    <3>2. CASE p.controls[j].id # e.at.control
      BY <2>1, <3>2 DEF SoundPanel, PlaceAt, Panels!At, LaterControl
    <3> QED
      BY <3>1, <3>2
  <2>4. q.script = p.script /\ q.id = p.id /\ q.controls = after /\ DOMAIN after = DOMAIN p.controls
    BY <2>1, <2>2
  <2>5. SoundPanel(q)
    BY <2>1, <2>2, <2>3, <2>4 DEF SoundPanel
  <2> QED
    BY <2>3, <2>4, <2>5 DEF SamePanel, LaterControl
<1>2. CASE ~(p.script = e.at.script /\ p.id = e.at.panel)
  BY <1>2 DEF Panels!PanelAfter, SamePanel, PlaceAt, Panels!At
<1> QED
  BY <1>1, <1>2

LEMMA FreshFacts ==
  ASSUME NEW script, NEW definition, NEW p, p = Panels!Fresh(script, definition)
  PROVE  /\ SoundPanel(p) /\ p.script = script /\ p.id = definition.id
         /\ Panels!Outline(p) = Panels!Outline(definition)
         /\ \A j \in DOMAIN p.controls : ~p.controls[j].pending
<1>1. PICK controls :
        controls = [i \in DOMAIN definition.controls |->
          [id |-> definition.controls[i].id, kind |-> definition.controls[i].kind,
           value |-> definition.controls[i].initial, draft |-> definition.controls[i].initial,
           pending |-> FALSE, editing |-> FALSE, enabled |-> TRUE,
           minimum |-> definition.controls[i].minimum, maximum |-> definition.controls[i].maximum,
           callback |-> definition.controls[i].callback]]
  OBVIOUS
<1>2. p = [script |-> script, id |-> definition.id, controls |-> controls]
  BY <1>1 DEF Panels!Fresh
<1>3. p.script = script /\ p.id = definition.id /\ p.controls = controls
      /\ DOMAIN controls = DOMAIN definition.controls
  BY <1>1, <1>2
<1>4. \A j \in DOMAIN controls :
        /\ SoundControl(controls[j]) /\ ~controls[j].pending
        /\ controls[j].id = definition.controls[j].id /\ controls[j].kind = definition.controls[j].kind
  BY <1>1 DEF SoundControl
<1>5. SoundPanel(p)
  BY <1>1, <1>2, <1>3, <1>4 DEF SoundPanel
<1>6. Panels!Outline(p) = Panels!Outline(definition)
  BY <1>3, <1>4 DEF Panels!Outline
<1> QED
  BY <1>3, <1>4, <1>5, <1>6

-----------------------------------------------------------------------------
\* What is shown of a script, and what is on its way about it.
ShownIn(shown, id) ==
  {Panels!Outline(shown[i]) : i \in {k \in DOMAIN shown : shown[k].script = id}}
TellingOf(events, id) == {n \in DOMAIN events : TellsPanels(events[n]) /\ events[n].script = id}

\* The interface shows the definitions, or the last event on its way tells them.
ShowsOrTells(events, shown, definitions, id) ==
  IF TellingOf(events, id) = {} THEN ShownIn(shown, id) = Panels!Outlines(definitions)
  ELSE \A n \in TellingOf(events, id) : (\A m \in TellingOf(events, id) : m <= n) =>
         Panels!PanelsTold(events[n]) = definitions

LEMMA SameShown ==
  ASSUME NEW shown, NEW later, DOMAIN later = DOMAIN shown,
         \A i \in DOMAIN shown : SamePanel(later[i], shown[i]), NEW id
  PROVE  ShownIn(later, id) = ShownIn(shown, id)
<1>1. \A i \in DOMAIN shown : Panels!Outline(later[i]) = Panels!Outline(shown[i])
  <2> SUFFICES ASSUME NEW i \in DOMAIN shown
               PROVE  Panels!Outline(later[i]) = Panels!Outline(shown[i])
    OBVIOUS
  <2>1. SamePanel(later[i], shown[i])
    OBVIOUS
  <2> QED
    BY <2>1 DEF SamePanel, Panels!Outline
<1>2. \A i \in DOMAIN shown : later[i].script = shown[i].script
  BY DEF SamePanel
<1> QED
  BY <1>1, <1>2 DEF ShownIn

LEMMA SameDistinct ==
  ASSUME NEW shown, NEW later, DOMAIN later = DOMAIN shown,
         \A i \in DOMAIN shown : SamePanel(later[i], shown[i]), DistinctPanels(shown)
  PROVE  DistinctPanels(later)
BY DEF SamePanel, DistinctPanels

\* The events of a script's panels, and the panels themselves, after a change of them.
LEMMA TellKeeps ==
  ASSUME NEW events, IsSeq(events), NEW e, TellsPanels(e), NEW later, IsAppendOf(later, events, e),
         NEW shown, NEW before, NEW after, NEW id,
         ShowsOrTells(events, shown, before, id),
         e.script = id => after = Panels!PanelsTold(e), e.script # id => after = before
  PROVE  ShowsOrTells(later, shown, after, id)
<1>1. PICK k : k = Len(events) + 1 /\ k \in Nat /\ later[k] = e
               /\ DOMAIN later = DOMAIN events \cup {k}
               /\ \A i \in DOMAIN events : i \in Nat /\ i < k /\ later[i] = events[i]
  BY SeqFacts DEF IsAppendOf
<1>2. CASE e.script = id
  <2>1. k \in TellingOf(later, id)
    BY <1>1, <1>2 DEF TellingOf
  <2>2. \A n \in TellingOf(later, id) : (\A m \in TellingOf(later, id) : m <= n) => n = k
    BY <1>1, <2>1 DEF TellingOf
  <2> QED
    BY <1>1, <1>2, <2>1, <2>2 DEF ShowsOrTells
<1>3. CASE e.script # id
  <2>1. TellingOf(later, id) = TellingOf(events, id)
    BY <1>1, <1>3 DEF TellingOf
  <2>2. \A n \in TellingOf(events, id) : later[n] = events[n]
    BY <1>1 DEF TellingOf
  <2> QED
    BY <1>3, <2>1, <2>2 DEF ShowsOrTells
<1> QED
  BY <1>2, <1>3

\* Other events say nothing of it.
LEMMA OtherEventKeeps ==
  ASSUME NEW events, IsSeq(events), NEW e, ~TellsPanels(e), NEW later, IsAppendOf(later, events, e),
         NEW shown, NEW definitions, NEW id, ShowsOrTells(events, shown, definitions, id)
  PROVE  ShowsOrTells(later, shown, definitions, id)
<1>1. PICK k : later[k] = e /\ DOMAIN later = DOMAIN events \cup {k}
               /\ \A i \in DOMAIN events : later[i] = events[i]
  BY DEF IsAppendOf
<1>2. TellingOf(later, id) = TellingOf(events, id)
  BY <1>1 DEF TellingOf
<1>3. \A n \in TellingOf(events, id) : later[n] = events[n]
  BY <1>1 DEF TellingOf
<1> QED
  BY <1>2, <1>3 DEF ShowsOrTells

\* The first event is taken: what it tells is shown.
LEMMA TakenKeeps ==
  ASSUME NEW events, IsSeq(events), NEW later, IsTailOf(later, events),
         NEW shown, NEW after, NEW definitions, NEW id,
         ShowsOrTells(events, shown, definitions, id),
         TellsPanels(events[1]) /\ events[1].script = id =>
           ShownIn(after, id) = Panels!Outlines(Panels!PanelsTold(events[1])),
         ~(TellsPanels(events[1]) /\ events[1].script = id) => ShownIn(after, id) = ShownIn(shown, id)
  PROVE  ShowsOrTells(later, after, definitions, id)
<1>1. /\ Len(events) \in Nat /\ DOMAIN events = 1..Len(events) /\ 1 \in DOMAIN events
      /\ DOMAIN later = 1..(Len(events) - 1)
      /\ \A i \in DOMAIN later : i + 1 \in DOMAIN events /\ later[i] = events[i + 1]
                                 /\ i \in Nat /\ i # 0
  BY SeqFacts DEF IsTailOf
<1>2. \A n \in DOMAIN events : n \in Nat /\ (n = 1 \/ (n - 1 \in DOMAIN later /\ later[n - 1] = events[n]))
  <2> SUFFICES ASSUME NEW n \in DOMAIN events, n # 1
               PROVE  n \in Nat /\ n - 1 \in DOMAIN later /\ later[n - 1] = events[n]
    BY <1>1
  <2>1. PICK i : i = n - 1 /\ i \in 1..(Len(events) - 1) /\ i + 1 = n /\ n \in Nat
    BY <1>1
  <2> QED
    BY <1>1, <2>1
<1>3. \A i \in TellingOf(later, id) : i + 1 \in TellingOf(events, id) /\ i \in Nat /\ i # 0
  BY <1>1 DEF TellingOf
<1>4. \A n \in TellingOf(events, id) : n \in Nat /\ (n = 1 \/ n - 1 \in TellingOf(later, id))
  BY <1>2 DEF TellingOf
<1>5. CASE TellingOf(later, id) = {}
  <2>1. \A n \in TellingOf(events, id) : n = 1
    BY <1>4, <1>5
  <2>2. CASE 1 \in TellingOf(events, id)
    <3>1. Panels!PanelsTold(events[1]) = definitions
      BY <2>1, <2>2, <1>4 DEF ShowsOrTells
    <3>2. ShownIn(after, id) = Panels!Outlines(Panels!PanelsTold(events[1]))
      BY <2>2 DEF TellingOf
    <3> QED
      BY <3>1, <3>2, <1>5 DEF ShowsOrTells
  <2>3. CASE 1 \notin TellingOf(events, id)
    <3>1. TellingOf(events, id) = {}
      BY <2>1, <2>3
    <3>2. ShownIn(after, id) = ShownIn(shown, id)
      BY <1>1, <2>3 DEF TellingOf
    <3> QED
      BY <3>1, <3>2, <1>5 DEF ShowsOrTells
  <2> QED
    BY <2>2, <2>3
<1>6. CASE TellingOf(later, id) # {}
  <2> SUFFICES ASSUME NEW i \in TellingOf(later, id), \A m \in TellingOf(later, id) : m <= i
               PROVE  Panels!PanelsTold(later[i]) = definitions
    BY <1>6 DEF ShowsOrTells
  <2>1. PICK n : n = i + 1 /\ n \in TellingOf(events, id) /\ i \in Nat /\ i # 0 /\ n \in Nat /\ i = n - 1
    BY <1>3
  <2>2. \A m \in TellingOf(events, id) : m <= n
    <3> SUFFICES ASSUME NEW m \in TellingOf(events, id) PROVE m <= n
      OBVIOUS
    <3>1. m \in Nat /\ (m = 1 \/ m - 1 \in TellingOf(later, id))
      BY <1>4
    <3>2. m = 1 \/ m - 1 <= i
      BY <3>1
    <3> QED
      BY <2>1, <3>1, <3>2
  <2>3. Panels!PanelsTold(events[n]) = definitions
    BY <2>1, <2>2 DEF ShowsOrTells
  <2>4. later[i] = events[n]
    BY <1>1, <2>1 DEF TellingOf
  <2> QED
    BY <2>3, <2>4
<1> QED
  BY <1>5, <1>6

-----------------------------------------------------------------------------
\* What an event makes of the panels, whatever they are.
LEMMA UnregisteredFacts ==
  ASSUME NEW shown, IsSeq(shown), NEW id, NEW rest, rest = Panels!Unregistered(shown, id), NEW x
  PROVE  /\ x # id => ShownIn(rest, x) = ShownIn(shown, x)
         /\ x = id => ShownIn(rest, x) = {}
<1>1. KeepsOthers(rest, shown, id)
  BY UnregisteredKeeps
<1> QED
  BY <1>1 DEF KeepsOthers, ShownIn

\* Each panel of a sequence was shown before or is a new one of the script.
AreOldOrFresh(after, shown, id, definitions) ==
  \A n \in DOMAIN after :
    \/ \E i \in DOMAIN shown : after[n] = shown[i] /\ shown[i].script # id
    \/ \E k \in DOMAIN definitions : after[n] = Panels!Fresh(id, definitions[k])

LEMMA ReplacedFacts ==
  ASSUME NEW shown, IsSeq(shown), DistinctPanels(shown), NEW id, NEW definitions,
         AreDefinitions(definitions), NEW after, after = Panels!Replaced(shown, id, definitions)
  PROVE  /\ IsSeq(after) /\ DistinctPanels(after) /\ AreOldOrFresh(after, shown, id, definitions)
         /\ \A x : x # id => ShownIn(after, x) = ShownIn(shown, x)
         /\ ShownIn(after, id) = Panels!Outlines(definitions)
<1>1. PICK rest : rest = Panels!Unregistered(shown, id)
  OBVIOUS
<1>2. PICK fresh : fresh = [i \in DOMAIN definitions |-> Panels!Fresh(id, definitions[i])]
  OBVIOUS
<1>3. KeepsOthers(rest, shown, id) /\ DistinctPanels(rest)
  BY <1>1, UnregisteredKeeps
<1>4. IsSeq(fresh)
  <2>1. Len(definitions) \in Nat /\ DOMAIN definitions = 1..Len(definitions)
    BY SeqFacts DEF AreDefinitions
  <2>2. PICK R : R = {Panels!Fresh(id, definitions[i]) : i \in DOMAIN definitions}
    OBVIOUS
  <2>3. [i \in 1..Len(definitions) |-> Panels!Fresh(id, definitions[i])] \in Seq(R)
    BY <2>1, <2>2
  <2> QED
    BY <1>2, <2>1, <2>3, IsSeqOf
<1>5. IsConcatOf(after, rest, fresh)
  <2>1. after = rest \o fresh
    BY <1>1, <1>2 DEF Panels!Replaced
  <2> QED
    BY <1>3, <1>4, <2>1, ConcatFacts DEF KeepsOthers
<1>6. \A i \in DOMAIN definitions :
        /\ fresh[i].script = id /\ fresh[i].id = definitions[i].id
        /\ Panels!Outline(fresh[i]) = Panels!Outline(definitions[i])
  BY <1>2, FreshFacts
<1>7. DOMAIN fresh = DOMAIN definitions
  BY <1>2
<1>8. DistinctPanels(after)
  <2> SUFFICES ASSUME NEW n \in DOMAIN after, NEW m \in DOMAIN after,
                      after[n].script = after[m].script, after[n].id = after[m].id
               PROVE  n = m
    BY DEF DistinctPanels
  <2>1. \A i \in DOMAIN rest : rest[i].script # id
    BY <1>3 DEF KeepsOthers
  <2>2. \A i \in DOMAIN fresh : fresh[i].script = id
    BY <1>6, <1>7
  <2>3. CASE n \in DOMAIN rest /\ after[n] = rest[n] /\ m \in DOMAIN rest /\ after[m] = rest[m]
    BY <1>3, <2>3 DEF DistinctPanels
  <2>4. CASE /\ n - Len(rest) \in DOMAIN fresh /\ after[n] = fresh[n - Len(rest)]
             /\ m - Len(rest) \in DOMAIN fresh /\ after[m] = fresh[m - Len(rest)]
             /\ n \in Nat /\ m \in Nat /\ Len(rest) \in Nat
    <3>1. n - Len(rest) = m - Len(rest)
      BY <1>6, <1>7, <2>4 DEF AreDefinitions
    <3> QED
      BY <2>4, <3>1
  <2> QED
    BY <1>5, <2>1, <2>2, <2>3, <2>4 DEF IsConcatOf
<1>9. AreOldOrFresh(after, shown, id, definitions)
  BY <1>2, <1>3, <1>5, <1>7 DEF AreOldOrFresh, IsConcatOf, KeepsOthers
<1>10. ASSUME NEW x, x # id PROVE ShownIn(after, x) = ShownIn(shown, x)
  <2>1. ShownIn(after, x) = ShownIn(rest, x)
    BY <1>5, <1>6, <1>7, <1>10 DEF IsConcatOf, ShownIn
  <2>2. ShownIn(rest, x) = ShownIn(shown, x)
    BY <1>1, <1>10, UnregisteredFacts
  <2> QED
    BY <2>1, <2>2
<1>11. ShownIn(after, id) = Panels!Outlines(definitions)
  <2>1. \A i \in DOMAIN rest : rest[i].script # id
    BY <1>3 DEF KeepsOthers
  <2>2. \A n \in DOMAIN after : after[n].script = id =>
          \E i \in DOMAIN definitions : Panels!Outline(after[n]) = Panels!Outline(definitions[i])
    BY <1>5, <1>6, <1>7, <2>1 DEF IsConcatOf
  <2>3. \A i \in DOMAIN definitions : \E n \in DOMAIN after :
          after[n].script = id /\ Panels!Outline(after[n]) = Panels!Outline(definitions[i])
    BY <1>5, <1>6, <1>7 DEF IsConcatOf
  <2> QED
    BY <2>2, <2>3 DEF ShownIn, Panels!Outlines
<1> QED
  BY <1>5, <1>8, <1>9, <1>10, <1>11 DEF IsConcatOf

-----------------------------------------------------------------------------
\* The callback of a control is on its way, runs, or has a result on its way.
Awaited(queue, running, events, at) ==
  \/ \E n \in DOMAIN queue : queue[n].kind = "control" /\ queue[n].at = at
  \/ \E n \in DOMAIN running : running[n].kind = "control" /\ running[n].at = at
  \/ \E n \in DOMAIN events : events[n].kind = "result" /\ events[n].at = at

LEMMA AwaitedMore ==
  ASSUME NEW queue, NEW running, NEW events, NEW at, NEW laterQueue, NEW laterEvents,
         DOMAIN queue \subseteq DOMAIN laterQueue, \A n \in DOMAIN queue : laterQueue[n] = queue[n],
         DOMAIN events \subseteq DOMAIN laterEvents, \A n \in DOMAIN events : laterEvents[n] = events[n],
         Awaited(queue, running, events, at)
  PROVE  Awaited(laterQueue, running, laterEvents, at)
BY DEF Awaited

\* What the properties need of the state of the panels.
IsPanels(s) ==
  /\ s = [lua |-> s.lua, scripts |-> s.scripts, queue |-> s.queue, running |-> s.running,
          events |-> s.events, answers |-> s.answers, shown |-> s.shown,
          pending |-> s.pending, disconnected |-> s.disconnected,
          calls |-> s.calls, edits |-> s.edits, reloads |-> s.reloads]
  /\ IsSeq(s.queue) /\ IsSeq(s.events) /\ IsSeq(s.shown)
  /\ \A n \in DOMAIN s.running : n = 1
  /\ s.lua \in {"starting", "up", "down"}
IsScripts(scripts) ==
  /\ scripts = [id \in DOMAIN scripts |-> scripts[id]]
  /\ \A id \in DOMAIN scripts :
       scripts[id] = [panels |-> scripts[id].panels, functions |-> scripts[id].functions]
DefinitionsIn(scripts, id) == IF id \in DOMAIN scripts THEN scripts[id].panels ELSE << >>

EventsAreSound(events) == \A n \in DOMAIN events : SoundEvent(events[n])
PanelsAreSound(shown) == \A i \in DOMAIN shown : SoundPanel(shown[i])
PendingIsAwaited(s) ==
  s.lua # "down" =>
    \A i \in DOMAIN s.shown : \A j \in DOMAIN s.shown[i].controls :
      s.shown[i].controls[j].pending => Awaited(s.queue, s.running, s.events, PlaceAt(s.shown[i], j))

ShownWell(s) == DistinctPanels(s.shown) /\ PanelsAreSound(s.shown)
Follow(s) == \A id \in Identifiers : ShowsOrTells(s.events, s.shown, DefinitionsIn(s.scripts, id), id)
PanelsInv(s) ==
  /\ IsPanels(s) /\ IsScripts(s.scripts) /\ EventsAreSound(s.events)
  /\ ShownWell(s) /\ Follow(s) /\ PendingIsAwaited(s)

LEMMA PanelsInit == Panels!Init => PanelsInv(state)
<1> SUFFICES ASSUME Panels!Init PROVE PanelsInv(state)
  OBVIOUS
<1>1. PICK s : s = state
  OBVIOUS
<1>2. s = [lua |-> "starting", scripts |-> << >>, queue |-> << >>, running |-> << >>,
           events |-> << >>, answers |-> << >>, shown |-> << >>, pending |-> FALSE,
           disconnected |-> FALSE, calls |-> 0, edits |-> 0, reloads |-> 0]
  BY <1>1 DEF Panels!Init
<1>3. IsPanels(s)
  BY <1>2, EmptyFacts DEF IsPanels
<1>4. IsScripts(s.scripts)
  BY <1>2, EmptyFacts DEF IsScripts
<1>5. EventsAreSound(s.events) /\ ShownWell(s) /\ PendingIsAwaited(s)
  BY <1>2, EmptyFacts DEF EventsAreSound, ShownWell, DistinctPanels, PanelsAreSound, PendingIsAwaited
<1>6. Follow(s)
  BY <1>2, EmptyFacts DEF Follow, ShowsOrTells, TellingOf, ShownIn, DefinitionsIn, Panels!Outlines
<1> QED
  BY <1>1, <1>3, <1>4, <1>5, <1>6 DEF PanelsInv

\* Steps that leave the panels that are shown, and whatever awaits them.
SameShownPart(t, s) ==
  /\ t.shown = s.shown /\ (t.lua # "down" => s.lua # "down")
  /\ \A at : Awaited(s.queue, s.running, s.events, at) => Awaited(t.queue, t.running, t.events, at)

LEMMA SameShownKeeps ==
  ASSUME NEW s, NEW t, PanelsInv(s), SameShownPart(t, s)
  PROVE  ShownWell(t) /\ PendingIsAwaited(t)
BY DEF PanelsInv, SameShownPart, ShownWell, PendingIsAwaited

-----------------------------------------------------------------------------
(* Calls of the API. *)
\* A call that changes what is registered sends an event which tells that.
CallTells(t, s, scripts, e) ==
  t = [s EXCEPT !.calls = s.calls + 1, !.scripts = scripts, !.events = Append(s.events, e)]

LEMMA CallTellsKeeps ==
  ASSUME NEW s, PanelsInv(s), NEW scripts, IsScripts(scripts), NEW e, SoundEvent(e), NEW t,
         CallTells(t, s, scripts, e),
         \/ TellsPanels(e) /\ \A id : DefinitionsIn(scripts, id) =
                          IF id = e.script THEN Panels!PanelsTold(e) ELSE DefinitionsIn(s.scripts, id)
         \/ ~TellsPanels(e) /\ scripts = s.scripts
  PROVE  PanelsInv(t)
<1>1. /\ t.scripts = scripts /\ t.queue = s.queue /\ t.running = s.running /\ t.shown = s.shown
      /\ t.lua = s.lua /\ t.events = Append(s.events, e)
  BY DEF PanelsInv, IsPanels, CallTells
<1>2. IsAppendOf(t.events, s.events, e)
  BY <1>1, AppendFacts DEF PanelsInv, IsPanels
<1>3. IsPanels(t)
  BY <1>1, <1>2 DEF PanelsInv, IsPanels, CallTells, IsAppendOf
<1>4. EventsAreSound(t.events)
  BY <1>2 DEF PanelsInv, EventsAreSound, IsAppendOf
<1>5. SameShownPart(t, s)
  <2>1. DOMAIN s.events \subseteq DOMAIN t.events /\ \A n \in DOMAIN s.events : t.events[n] = s.events[n]
    BY <1>2 DEF IsAppendOf
  <2> QED
    BY <1>1, <2>1, AwaitedMore DEF SameShownPart
<1>6. Follow(t)
  <2> SUFFICES ASSUME NEW id \in Identifiers
               PROVE  ShowsOrTells(t.events, t.shown, DefinitionsIn(scripts, id), id)
    BY <1>1 DEF Follow
  <2>1. ShowsOrTells(s.events, s.shown, DefinitionsIn(s.scripts, id), id) /\ IsSeq(s.events)
    BY DEF PanelsInv, Follow, IsPanels
  <2>2. CASE TellsPanels(e) /\ \A x : DefinitionsIn(scripts, x) =
                           IF x = e.script THEN Panels!PanelsTold(e) ELSE DefinitionsIn(s.scripts, x)
    <3>1. e.script = id => DefinitionsIn(scripts, id) = Panels!PanelsTold(e)
      BY <2>2
    <3>2. e.script # id => DefinitionsIn(scripts, id) = DefinitionsIn(s.scripts, id)
      BY <2>2
    <3> QED
      BY <1>1, <1>2, <2>1, <2>2, <3>1, <3>2, TellKeeps
  <2>3. CASE ~TellsPanels(e) /\ scripts = s.scripts
    BY <1>1, <1>2, <2>1, <2>3, OtherEventKeeps
  <2> QED
    BY <2>2, <2>3
<1> QED
  BY <1>1, <1>3, <1>4, <1>5, <1>6, SameShownKeeps DEF PanelsInv

LEMMA RegisterAllowed ==
  ASSUME PanelsInv(state), NEW script \in PanelScripts, Panels!RegisterScript(script)
  PROVE  PanelsInv(state')
<1>1. PICK s, t : s = state /\ t = state'
  OBVIOUS
<1>2. PICK id, r : id = script["id"].value /\ r = Panels!Registration(script)
  OBVIOUS
<1>3. PICK scripts : scripts = [x \in DOMAIN s.scripts \cup {id} |-> IF x = id THEN r ELSE s.scripts[x]]
  OBVIOUS
<1>4. PICK e : e = [kind |-> "registered", script |-> id, panels |-> r.panels]
  OBVIOUS
<1>5. CallTells(t, s, scripts, e)
  BY <1>1, <1>2, <1>3, <1>4 DEF Panels!RegisterScript, Panels!Registered, Panels!Event, CallTells
<1>6. r = [panels |-> Panels!Panels(script), functions |-> Panels!Functions(script)]
  BY <1>2 DEF Panels!Registration
<1>7. AreDefinitions(r.panels)
  BY <1>6, RegistrationFacts DEF Panels!RegisterScript
<1>8. SoundEvent(e) /\ TellsPanels(e) /\ Panels!PanelsTold(e) = r.panels /\ e.script = id
  BY <1>4, <1>7 DEF SoundEvent, TellsPanels, Panels!PanelsTold
<1>9. IsScripts(scripts)
  BY <1>1, <1>3, <1>6 DEF IsScripts, PanelsInv
<1>10. \A x : DefinitionsIn(scripts, x) = IF x = id THEN r.panels ELSE DefinitionsIn(s.scripts, x)
  BY <1>3 DEF DefinitionsIn
<1> QED
  BY <1>1, <1>5, <1>8, <1>9, <1>10, CallTellsKeeps

LEMMA UnregisterAllowed ==
  ASSUME PanelsInv(state), NEW id, Panels!UnregisterScript(id)
  PROVE  PanelsInv(state')
<1>1. PICK s, t : s = state /\ t = state'
  OBVIOUS
<1>3. PICK scripts : scripts = [x \in DOMAIN s.scripts \ {id} |-> s.scripts[x]]
  OBVIOUS
<1>4. PICK e : e = [kind |-> "unregistered", script |-> id]
  OBVIOUS
<1>5. CallTells(t, s, scripts, e)
  BY <1>1, <1>3, <1>4 DEF Panels!UnregisterScript, Panels!Without, Panels!Registered, Panels!Event, CallTells
<1>8. SoundEvent(e) /\ TellsPanels(e) /\ Panels!PanelsTold(e) = << >> /\ e.script = id
  BY <1>4 DEF SoundEvent, TellsPanels, Panels!PanelsTold
<1>9. IsScripts(scripts)
  BY <1>1, <1>3 DEF IsScripts, PanelsInv
<1>10. \A x : DefinitionsIn(scripts, x) = IF x = id THEN << >> ELSE DefinitionsIn(s.scripts, x)
  BY <1>3 DEF DefinitionsIn
<1> QED
  BY <1>1, <1>5, <1>8, <1>9, <1>10, CallTellsKeeps

LEMMA SetControlAllowed ==
  ASSUME PanelsInv(state), NEW control, NEW e,
         SoundEvent(e), ~TellsPanels(e),
         state' = [state EXCEPT !.calls = state.calls + 1, !.events = Append(state.events, e)]
  PROVE  PanelsInv(state')
<1>1. PICK s, t : s = state /\ t = state'
  OBVIOUS
<1>2. CallTells(t, s, s.scripts, e)
  BY <1>1 DEF CallTells, PanelsInv, IsPanels
<1>3. IsScripts(s.scripts)
  BY <1>1 DEF PanelsInv
<1> QED
  BY <1>1, <1>2, <1>3, CallTellsKeeps

LEMMA ForgetAllowed ==
  ASSUME PanelsInv(state), NEW id, NEW name, Panels!ForgetFunction(id, name)
  PROVE  PanelsInv(state')
<1>1. PICK s, t : s = state /\ t = state'
  OBVIOUS
<1>2. PICK left, scripts : left = s.scripts[id].functions \ {name}
                           /\ scripts = [s.scripts EXCEPT ![id] = [s.scripts[id] EXCEPT !.functions = left]]
  OBVIOUS
<1>3. t = [s EXCEPT !.calls = s.calls + 1, !.scripts = scripts] /\ id \in DOMAIN s.scripts
  BY <1>1, <1>2 DEF Panels!ForgetFunction, Panels!Registered
<1>4. /\ t.scripts = scripts /\ t.queue = s.queue /\ t.running = s.running /\ t.shown = s.shown
      /\ t.lua = s.lua /\ t.events = s.events
  BY <1>1, <1>3 DEF PanelsInv, IsPanels
<1>5. IsPanels(t)
  BY <1>1, <1>3, <1>4 DEF PanelsInv, IsPanels
<1>6. DOMAIN scripts = DOMAIN s.scripts /\ \A x \in DOMAIN scripts : scripts[x].panels = s.scripts[x].panels
  BY <1>1, <1>2, <1>3 DEF PanelsInv, IsScripts
<1>7. IsScripts(scripts)
  BY <1>1, <1>2, <1>3 DEF PanelsInv, IsScripts
<1>8. \A x : DefinitionsIn(scripts, x) = DefinitionsIn(s.scripts, x)
  BY <1>6 DEF DefinitionsIn
<1>9. Follow(t)
  BY <1>1, <1>4, <1>8 DEF PanelsInv, Follow
<1>10. SameShownPart(t, s)
  BY <1>4 DEF SameShownPart
<1> QED
  BY <1>1, <1>4, <1>5, <1>7, <1>9, <1>10, SameShownKeeps DEF PanelsInv

LEMMA CallAllowedOfPanels ==
  ASSUME PanelsInv(state), Panels!Call
  PROVE  PanelsInv(state')
<1>1. ASSUME NEW control, NEW value, Panels!SetControl(control, value) PROVE PanelsInv(state')
  <2>1. PICK e : e = [kind |-> "value", at |-> control.at, value |-> value.value]
    OBVIOUS
  <2>2. state' = [state EXCEPT !.calls = state.calls + 1, !.events = Append(state.events, e)]
    BY <1>1, <2>1 DEF Panels!SetControl, Panels!Event
  <2>3. SoundEvent(e) /\ ~TellsPanels(e)
    BY <2>1 DEF SoundEvent, TellsPanels
  <2> QED
    BY <2>2, <2>3, SetControlAllowed
<1>2. ASSUME NEW control, NEW enabled, Panels!SetControlEnabled(control, enabled) PROVE PanelsInv(state')
  <2>1. PICK e : e = [kind |-> "enabled", at |-> control.at, enabled |-> enabled]
    OBVIOUS
  <2>2. state' = [state EXCEPT !.calls = state.calls + 1, !.events = Append(state.events, e)]
    BY <1>2, <2>1 DEF Panels!SetControlEnabled, Panels!Event
  <2>3. SoundEvent(e) /\ ~TellsPanels(e)
    BY <2>1 DEF SoundEvent, TellsPanels
  <2> QED
    BY <2>2, <2>3, SetControlAllowed
<1> QED
  BY <1>1, <1>2, RegisterAllowed, UnregisterAllowed, ForgetAllowed DEF Panels!Call

-----------------------------------------------------------------------------
(* The worker. *)
LEMMA InitializationEndsAllowed ==
  ASSUME PanelsInv(state), Panels!InitializationEnds
  PROVE  PanelsInv(state')
<1>1. PICK s, t : s = state /\ t = state'
  OBVIOUS
<1>2. PICK answers, lua, queue :
        /\ t = [s EXCEPT !.lua = lua, !.queue = queue, !.answers = answers]
        /\ \/ lua = "up" /\ queue = s.queue
           \/ lua = "down" /\ queue = << >>
        /\ s.lua = "starting"
  BY <1>1 DEF Panels!InitializationEnds
<1>3. /\ t.scripts = s.scripts /\ t.queue = queue /\ t.running = s.running /\ t.shown = s.shown
      /\ t.lua = lua /\ t.events = s.events
  BY <1>1, <1>2 DEF PanelsInv, IsPanels
<1>4. IsPanels(t)
  BY <1>1, <1>2, <1>3, EmptyFacts DEF PanelsInv, IsPanels
<1>5. ShownWell(t) /\ PendingIsAwaited(t)
  BY <1>1, <1>2, <1>3 DEF PanelsInv, ShownWell, PendingIsAwaited
<1> QED
  BY <1>1, <1>3, <1>4, <1>5 DEF PanelsInv, Follow

\* What is left in the queue, and what the worker is done with, is awaited on.
AwaitedBut(queue, running, events, command, at) ==
  Awaited(queue, running, events, at) \/ (command.kind = "control" /\ command.at = at)

LEMMA ReceivedAwaited ==
  ASSUME NEW queue, IsSeq(queue), NEW later, IsTailOf(later, queue), NEW running, NEW events, NEW at,
         Awaited(queue, running, events, at)
  PROVE  AwaitedBut(later, running, events, queue[1], at)
<1>1. \A n \in DOMAIN queue : n = 1 \/ (n - 1 \in DOMAIN later /\ later[n - 1] = queue[n])
  <2>1. /\ Len(queue) \in Nat /\ DOMAIN queue = 1..Len(queue) /\ DOMAIN later = 1..(Len(queue) - 1)
        /\ \A i \in DOMAIN later : later[i] = queue[i + 1]
    BY SeqFacts DEF IsTailOf
  <2> SUFFICES ASSUME NEW n \in DOMAIN queue, n # 1
               PROVE  n - 1 \in DOMAIN later /\ later[n - 1] = queue[n]
    OBVIOUS
  <2>2. PICK i : i = n - 1 /\ i \in 1..(Len(queue) - 1) /\ i + 1 = n
    BY <2>1
  <2> QED
    BY <2>1, <2>2
<1> QED
  BY <1>1 DEF Awaited, AwaitedBut

LEMMA TakenCommandKeeps ==
  ASSUME NEW s, PanelsInv(s), s.queue # << >>, s.running = << >>, NEW t,
         t = [s EXCEPT !.queue = Tail(s.queue), !.running = <<Head(s.queue)>>]
  PROVE  PanelsInv(t)
<1>1. /\ t.scripts = s.scripts /\ t.queue = Tail(s.queue) /\ t.running = <<Head(s.queue)>>
      /\ t.shown = s.shown /\ t.lua = s.lua /\ t.events = s.events
  BY DEF PanelsInv, IsPanels
<1>2. IsTailOf(t.queue, s.queue)
  BY <1>1, TailFacts DEF PanelsInv, IsPanels
<1>3. IsPanels(t)
  <2>1. IsSeq(t.queue)
    BY <1>2 DEF IsTailOf
  <2>2. \A n \in DOMAIN t.running : n = 1
    <3>1. PICK c : t.running = <<c>>
      BY <1>1
    <3> QED
      BY <3>1
  <2>3. IsPanels(s)
    BY DEF PanelsInv
  <2>4. /\ IsSeq(t.events) /\ IsSeq(t.shown) /\ t.lua \in {"starting", "up", "down"}
    BY <1>1, <2>3 DEF IsPanels
  <2>5. t = [lua |-> t.lua, scripts |-> t.scripts, queue |-> t.queue, running |-> t.running,
             events |-> t.events, answers |-> t.answers, shown |-> t.shown,
             pending |-> t.pending, disconnected |-> t.disconnected,
             calls |-> t.calls, edits |-> t.edits, reloads |-> t.reloads]
    BY <2>3 DEF IsPanels
  <2> QED
    BY <2>1, <2>2, <2>4, <2>5 DEF IsPanels
<1>4. SameShownPart(t, s)
  <2> SUFFICES ASSUME NEW at, Awaited(s.queue, s.running, s.events, at)
               PROVE  Awaited(t.queue, t.running, t.events, at)
    BY <1>1 DEF SameShownPart
  <2>1. AwaitedBut(t.queue, s.running, s.events, s.queue[1], at)
    BY <1>2, ReceivedAwaited DEF PanelsInv, IsPanels
  <2>2. 1 \in DOMAIN t.running /\ t.running[1] = s.queue[1]
    BY <1>1, <1>2 DEF IsTailOf
  <2> QED
    BY <1>1, <2>1, <2>2, EmptyFacts DEF AwaitedBut, Awaited
<1> QED
  BY <1>1, <1>3, <1>4, SameShownKeeps DEF PanelsInv, Follow

\* A command is answered, if anyone waits for it.
Finished(t, s, command, succeeded, queue, events, answers) ==
  /\ t = [lua |-> s.lua, scripts |-> s.scripts, queue |-> queue, running |-> << >>,
          events |-> events, answers |-> answers, shown |-> s.shown,
          pending |-> s.pending, disconnected |-> s.disconnected,
          calls |-> s.calls, edits |-> s.edits, reloads |-> s.reloads]
  /\ command.kind = "control" =>
       events = Append(s.events, [kind |-> "result", at |-> command.at, succeeded |-> succeeded])
  /\ command.kind # "control" => events = s.events
LeavesAwaited(queue, s, command) ==
  \A at : Awaited(s.queue, s.running, s.events, at) => AwaitedBut(queue, << >>, s.events, command, at)

LEMMA FinishKeeps ==
  ASSUME NEW s, PanelsInv(s), NEW command, NEW succeeded \in BOOLEAN, NEW queue, IsSeq(queue),
         LeavesAwaited(queue, s, command), NEW answers, NEW events, NEW t,
         Finished(t, s, command, succeeded, queue, events, answers)
  PROVE  PanelsInv(t)
<1>0. /\ t = [lua |-> s.lua, scripts |-> s.scripts, queue |-> queue, running |-> << >>,
              events |-> events, answers |-> answers, shown |-> s.shown,
              pending |-> s.pending, disconnected |-> s.disconnected,
              calls |-> s.calls, edits |-> s.edits, reloads |-> s.reloads]
      /\ command.kind = "control" =>
           events = Append(s.events, [kind |-> "result", at |-> command.at, succeeded |-> succeeded])
      /\ command.kind # "control" => events = s.events
  BY DEF Finished
<1>1. /\ t.scripts = s.scripts /\ t.queue = queue /\ t.running = << >>
      /\ t.shown = s.shown /\ t.lua = s.lua /\ t.events = events
  BY <1>0 DEF PanelsInv, IsPanels
<1>2. PICK e : e = [kind |-> "result", at |-> command.at, succeeded |-> succeeded]
  OBVIOUS
<1>3. SoundEvent(e) /\ ~TellsPanels(e) /\ e.kind = "result" /\ e.at = command.at
  BY <1>2 DEF SoundEvent, TellsPanels
<1>4. command.kind = "control" => IsAppendOf(events, s.events, e)
  BY <1>0, <1>2, AppendFacts DEF PanelsInv, IsPanels
<1>5. IsSeq(events) /\ EventsAreSound(events)
  BY <1>0, <1>3, <1>4 DEF PanelsInv, IsPanels, EventsAreSound, IsAppendOf
<1>6. IsPanels(t)
  BY <1>0, <1>1, <1>5, EmptyFacts DEF PanelsInv, IsPanels
<1>7. Follow(t)
  <2> SUFFICES ASSUME NEW id \in Identifiers
               PROVE  ShowsOrTells(events, s.shown, DefinitionsIn(s.scripts, id), id)
    BY <1>1 DEF Follow
  <2>1. ShowsOrTells(s.events, s.shown, DefinitionsIn(s.scripts, id), id) /\ IsSeq(s.events)
    BY DEF PanelsInv, Follow, IsPanels
  <2> QED
    BY <1>0, <1>3, <1>4, <2>1, OtherEventKeeps
<1>8. SameShownPart(t, s)
  <2> SUFFICES ASSUME NEW at, Awaited(s.queue, s.running, s.events, at)
               PROVE  Awaited(queue, << >>, events, at)
    BY <1>1 DEF SameShownPart
  <2>1. AwaitedBut(queue, << >>, s.events, command, at)
    BY DEF LeavesAwaited
  <2>2. CASE command.kind # "control"
    BY <1>0, <2>1, <2>2 DEF AwaitedBut
  <2>3. CASE command.kind = "control"
    <3>1. IsAppendOf(events, s.events, e)
      BY <1>4, <2>3
    <3>2. CASE command.at = at
      BY <1>3, <3>1, <3>2 DEF Awaited, IsAppendOf
    <3>3. CASE command.at # at
      <4>1. Awaited(queue, << >>, s.events, at)
        BY <2>1, <3>3 DEF AwaitedBut
      <4> QED
        BY <3>1, <4>1 DEF Awaited, IsAppendOf
    <3> QED
      BY <3>2, <3>3
  <2> QED
    BY <2>2, <2>3
<1> QED
  BY <1>1, <1>5, <1>6, <1>7, <1>8, SameShownKeeps DEF PanelsInv

LEMMA FinishMeans ==
  ASSUME PanelsInv(state), NEW command, NEW succeeded \in BOOLEAN, Panels!Finish(command, succeeded),
         NEW queue, queue = (IF state.running = << >> THEN Tail(state.queue) ELSE state.queue),
         IsSeq(queue), LeavesAwaited(queue, state, command)
  PROVE  PanelsInv(state')
<1>1. PICK s, t, events, answers :
        /\ s = state /\ t = state' /\ events = Panels!Result(command, succeeded)
        /\ answers = IF command.kind = "execute" THEN Append(s.answers, "executed") ELSE s.answers
  OBVIOUS
<1>2. IsPanels(s)
  BY <1>1 DEF PanelsInv
<1>3. t = [lua |-> s.lua, scripts |-> s.scripts, queue |-> queue, running |-> << >>,
           events |-> events, answers |-> answers, shown |-> s.shown,
           pending |-> s.pending, disconnected |-> s.disconnected,
           calls |-> s.calls, edits |-> s.edits, reloads |-> s.reloads]
  BY <1>1, <1>2 DEF Panels!Finish, IsPanels
<1>5. /\ command.kind = "control" =>
           events = Append(s.events, [kind |-> "result", at |-> command.at, succeeded |-> succeeded])
      /\ command.kind # "control" => events = s.events
  BY <1>1 DEF Panels!Result, Panels!Event
<1>6. Finished(t, s, command, succeeded, queue, events, answers)
  BY <1>3, <1>5 DEF Finished
<1> QED
  BY <1>1, <1>6, FinishKeeps

LEMMA ReceiveAllowed ==
  ASSUME PanelsInv(state), Panels!Receive
  PROVE  PanelsInv(state')
<1>1. PICK s, t, command : s = state /\ t = state' /\ command = Head(state.queue)
  OBVIOUS
<1>2. s.running = << >> /\ s.queue # << >> /\ IsSeq(s.queue)
  BY <1>1 DEF Panels!Receive, PanelsInv, IsPanels
<1>3. CASE Panels!Resolves(command)
  <2>1. t = [s EXCEPT !.queue = Tail(s.queue), !.running = <<Head(s.queue)>>]
    BY <1>1, <1>3 DEF Panels!Receive, Panels!Finish
  <2> QED
    BY <1>1, <1>2, <2>1, TakenCommandKeeps
<1>4. CASE ~Panels!Resolves(command)
  <2>1. Panels!Finish(command, FALSE)
    BY <1>1, <1>4 DEF Panels!Receive
  <2>2. PICK queue : queue = Tail(s.queue)
    OBVIOUS
  <2>3. IsTailOf(queue, s.queue)
    BY <1>2, <2>2, TailFacts
  <2>4. IsSeq(queue) /\ command = s.queue[1]
    BY <1>1, <2>3 DEF IsTailOf
  <2>5. LeavesAwaited(queue, s, command)
    BY <1>2, <2>3, <2>4, ReceivedAwaited DEF LeavesAwaited
  <2> QED
    BY <1>1, <1>2, <2>1, <2>2, <2>4, <2>5, FinishMeans
<1> QED
  BY <1>3, <1>4

LEMMA ReturnAllowed ==
  ASSUME PanelsInv(state), Panels!Return
  PROVE  PanelsInv(state')
<1>1. PICK s, command : s = state /\ command = state.running[1]
  OBVIOUS
<1>2. PICK succeeded \in BOOLEAN : Panels!Finish(command, succeeded)
  BY <1>1 DEF Panels!Return
<1>3. s.running # << >> /\ IsSeq(s.queue)
  BY <1>1 DEF Panels!Return, PanelsInv, IsPanels
<1>4. LeavesAwaited(s.queue, s, command)
  BY <1>1 DEF LeavesAwaited, Awaited, AwaitedBut, PanelsInv, IsPanels
<1> QED
  BY <1>1, <1>2, <1>3, <1>4, FinishMeans

-----------------------------------------------------------------------------
(* The user interface. *)
LEMMA UpdatedFacts ==
  ASSUME NEW shown, IsSeq(shown), NEW e, NEW after, after = Panels!Updated(shown, e)
  PROVE  /\ IsSeq(after) /\ DOMAIN after = DOMAIN shown
         /\ \A i \in DOMAIN shown : after[i] = Panels!PanelAfter(shown[i], e)
<1>1. Len(shown) \in Nat /\ DOMAIN shown = 1..Len(shown)
  BY SeqFacts
<1>2. after = [i \in 1..Len(shown) |-> Panels!PanelAfter(shown[i], e)]
  BY <1>1 DEF Panels!Updated
<1>3. PICK R : R = {Panels!PanelAfter(shown[i], e) : i \in DOMAIN shown}
  OBVIOUS
<1>4. [i \in 1..Len(shown) |-> Panels!PanelAfter(shown[i], e)] \in Seq(R)
  BY <1>1, <1>3
<1> QED
  BY <1>1, <1>2, <1>4, IsSeqOf

\* Each panel that is shown is one that was, or one whose controls await nothing.
AreOldOrIdle(after, shown) ==
  \A n \in DOMAIN after :
    \/ \E i \in DOMAIN shown : after[n] = shown[i]
    \/ SoundPanel(after[n]) /\ \A j \in DOMAIN after[n].controls : ~after[n].controls[j].pending

LEMMA HandledTelling ==
  ASSUME NEW shown, IsSeq(shown), DistinctPanels(shown), NEW e, SoundEvent(e), TellsPanels(e),
         NEW after, after = Panels!Handled(shown, e)
  PROVE  /\ IsSeq(after) /\ DistinctPanels(after) /\ AreOldOrIdle(after, shown)
         /\ \A x : x # e.script => ShownIn(after, x) = ShownIn(shown, x)
         /\ ShownIn(after, e.script) = Panels!Outlines(Panels!PanelsTold(e))
<1>2. CASE e.kind = "registered"
  <2>1. after = Panels!Replaced(shown, e.script, e.panels)
    BY <1>2 DEF Panels!Handled
  <2>2. AreDefinitions(e.panels) /\ Panels!PanelsTold(e) = e.panels
    BY <1>2 DEF SoundEvent, Panels!PanelsTold
  <2>3. /\ IsSeq(after) /\ DistinctPanels(after) /\ AreOldOrFresh(after, shown, e.script, e.panels)
        /\ \A x : x # e.script => ShownIn(after, x) = ShownIn(shown, x)
        /\ ShownIn(after, e.script) = Panels!Outlines(e.panels)
    BY <2>1, <2>2, ReplacedFacts
  <2>4. AreOldOrIdle(after, shown)
    BY <2>3, FreshFacts DEF AreOldOrFresh, AreOldOrIdle
  <2> QED
    BY <2>2, <2>3, <2>4
<1>3. CASE e.kind = "unregistered"
  <2>1. after = Panels!Unregistered(shown, e.script)
    BY <1>3 DEF Panels!Handled
  <2>2. KeepsOthers(after, shown, e.script) /\ DistinctPanels(after)
    BY <2>1, UnregisteredKeeps
  <2>3. AreOldOrIdle(after, shown) /\ IsSeq(after)
    BY <2>2 DEF KeepsOthers, AreOldOrIdle
  <2>4. Panels!Outlines(Panels!PanelsTold(e)) = {}
    BY <1>3, EmptyFacts DEF Panels!PanelsTold, Panels!Outlines
  <2>5. /\ \A x : x # e.script => ShownIn(after, x) = ShownIn(shown, x)
        /\ ShownIn(after, e.script) = {}
    BY <2>1, UnregisteredFacts
  <2> QED
    BY <2>2, <2>3, <2>4, <2>5
<1> QED
  BY <1>2, <1>3 DEF TellsPanels

LEMMA TakenAwaited ==
  ASSUME NEW events, IsSeq(events), NEW later, IsTailOf(later, events), NEW queue, NEW running, NEW at,
         Awaited(queue, running, events, at), ~(events[1].kind = "result" /\ events[1].at = at)
  PROVE  Awaited(queue, running, later, at)
<1>1. \A n \in DOMAIN events : n = 1 \/ (n - 1 \in DOMAIN later /\ later[n - 1] = events[n])
  <2>1. /\ Len(events) \in Nat /\ DOMAIN events = 1..Len(events)
        /\ DOMAIN later = 1..(Len(events) - 1)
        /\ \A i \in DOMAIN later : later[i] = events[i + 1]
    BY SeqFacts DEF IsTailOf
  <2> SUFFICES ASSUME NEW n \in DOMAIN events, n # 1
               PROVE  n - 1 \in DOMAIN later /\ later[n - 1] = events[n]
    OBVIOUS
  <2>2. PICK i : i = n - 1 /\ i \in 1..(Len(events) - 1) /\ i + 1 = n
    BY <2>1
  <2> QED
    BY <2>1, <2>2
<1> QED
  BY <1>1 DEF Awaited

LEMMA HandleEventAllowed ==
  ASSUME PanelsInv(state), Panels!HandleEvent
  PROVE  PanelsInv(state')
<1>1. PICK s, t, e, after, later :
        s = state /\ t = state' /\ e = Head(state.events) /\ after = Panels!Handled(state.shown, e)
        /\ later = Tail(state.events)
  OBVIOUS
<1>2. /\ t = [s EXCEPT !.shown = after, !.events = later] /\ s.events # << >>
      /\ IsPanels(s) /\ PanelsInv(s)
  BY <1>1 DEF Panels!HandleEvent, PanelsInv
<1>3. /\ t.scripts = s.scripts /\ t.queue = s.queue /\ t.running = s.running /\ t.shown = after
      /\ t.lua = s.lua /\ t.events = later
  BY <1>2 DEF IsPanels
<1>4. IsTailOf(later, s.events) /\ IsSeq(s.events) /\ IsSeq(s.shown)
  BY <1>1, <1>2, TailFacts DEF IsPanels
<1>5. e = s.events[1] /\ 1 \in DOMAIN s.events /\ SoundEvent(e)
  BY <1>1, <1>2, <1>4 DEF IsTailOf, PanelsInv, EventsAreSound
<1>6. EventsAreSound(later) /\ IsSeq(later)
  BY <1>2, <1>4 DEF IsTailOf, PanelsInv, EventsAreSound
<1>7. DistinctPanels(s.shown) /\ PanelsAreSound(s.shown)
  BY <1>2 DEF PanelsInv, ShownWell
<1>8. CASE TellsPanels(e)
  <2>1. /\ IsSeq(after) /\ DistinctPanels(after) /\ AreOldOrIdle(after, s.shown)
        /\ \A x : x # e.script => ShownIn(after, x) = ShownIn(s.shown, x)
        /\ ShownIn(after, e.script) = Panels!Outlines(Panels!PanelsTold(e))
    BY <1>1, <1>4, <1>5, <1>7, <1>8, HandledTelling
  <2>2. IsPanels(t)
    BY <1>2, <1>3, <1>6, <2>1 DEF IsPanels
  <2>3. ShownWell(t)
    BY <1>3, <1>7, <2>1 DEF ShownWell, PanelsAreSound, AreOldOrIdle
  <2>4. Follow(t)
    <3> SUFFICES ASSUME NEW id \in Identifiers
                 PROVE  ShowsOrTells(later, after, DefinitionsIn(s.scripts, id), id)
      BY <1>3 DEF Follow
    <3>1. ShowsOrTells(s.events, s.shown, DefinitionsIn(s.scripts, id), id)
      BY <1>2 DEF PanelsInv, Follow
    <3>2. TellsPanels(s.events[1]) /\ s.events[1].script = id =>
            ShownIn(after, id) = Panels!Outlines(Panels!PanelsTold(s.events[1]))
      BY <1>5, <2>1
    <3>3. ~(TellsPanels(s.events[1]) /\ s.events[1].script = id) => ShownIn(after, id) = ShownIn(s.shown, id)
      BY <1>5, <1>8, <2>1
    <3> QED
      BY <1>4, <3>1, <3>2, <3>3, TakenKeeps
  <2>5. PendingIsAwaited(t)
    <3> SUFFICES ASSUME s.lua # "down", NEW n \in DOMAIN after, NEW j \in DOMAIN after[n].controls,
                        after[n].controls[j].pending
                 PROVE  Awaited(s.queue, s.running, later, PlaceAt(after[n], j))
      BY <1>3 DEF PendingIsAwaited
    <3>1. PICK i \in DOMAIN s.shown : after[n] = s.shown[i]
      BY <2>1 DEF AreOldOrIdle
    <3>2. Awaited(s.queue, s.running, s.events, PlaceAt(after[n], j))
      BY <1>2, <3>1 DEF PanelsInv, PendingIsAwaited
    <3>3. s.events[1].kind # "result"
      BY <1>5, <1>8 DEF TellsPanels
    <3> QED
      BY <1>4, <3>2, <3>3, TakenAwaited
  <2> QED
    BY <1>1, <1>2, <1>3, <1>6, <2>2, <2>3, <2>4, <2>5 DEF PanelsInv
<1>9. CASE ~TellsPanels(e)
  <2>1. after = Panels!Updated(s.shown, e)
    BY <1>1, <1>9 DEF Panels!Handled, TellsPanels
  <2>2. /\ IsSeq(after) /\ DOMAIN after = DOMAIN s.shown
        /\ \A i \in DOMAIN s.shown : after[i] = Panels!PanelAfter(s.shown[i], e)
    BY <1>4, <2>1, UpdatedFacts
  <2>3. ASSUME NEW i \in DOMAIN s.shown
        PROVE  /\ SoundPanel(after[i]) /\ SamePanel(after[i], s.shown[i])
               /\ \A j \in DOMAIN s.shown[i].controls :
                    after[i].controls[j].pending =>
                      s.shown[i].controls[j].pending
                      /\ ~(e.kind = "result" /\ e.at = PlaceAt(s.shown[i], j))
    <3>1. SoundPanel(s.shown[i])
      BY <1>7 DEF PanelsAreSound
    <3> QED
      BY <1>5, <1>9, <2>2, <3>1, PanelAfterFacts
  <2>4. IsPanels(t)
    BY <1>2, <1>3, <1>6, <2>2 DEF IsPanels
  <2>5. ShownWell(t)
    <3>1. DistinctPanels(after)
      BY <1>7, <2>2, <2>3, SameDistinct
    <3> QED
      BY <1>3, <2>2, <2>3, <3>1 DEF ShownWell, PanelsAreSound
  <2>6. Follow(t)
    <3> SUFFICES ASSUME NEW id \in Identifiers
                 PROVE  ShowsOrTells(later, after, DefinitionsIn(s.scripts, id), id)
      BY <1>3 DEF Follow
    <3>1. ShowsOrTells(s.events, s.shown, DefinitionsIn(s.scripts, id), id)
      BY <1>2 DEF PanelsInv, Follow
    <3>2. ShownIn(after, id) = ShownIn(s.shown, id)
      BY <2>2, <2>3, SameShown
    <3> QED
      BY <1>4, <1>5, <1>9, <3>1, <3>2, TakenKeeps
  <2>7. PendingIsAwaited(t)
    <3> SUFFICES ASSUME s.lua # "down", NEW n \in DOMAIN after, NEW j \in DOMAIN after[n].controls,
                        after[n].controls[j].pending
                 PROVE  Awaited(s.queue, s.running, later, PlaceAt(after[n], j))
      BY <1>3 DEF PendingIsAwaited
    <3>1. /\ n \in DOMAIN s.shown /\ j \in DOMAIN s.shown[n].controls
          /\ PlaceAt(after[n], j) = PlaceAt(s.shown[n], j)
      BY <2>2, <2>3 DEF SamePanel, PlaceAt
    <3>2. Awaited(s.queue, s.running, s.events, PlaceAt(s.shown[n], j))
      BY <1>2, <2>3, <3>1 DEF PanelsInv, PendingIsAwaited
    <3>3. ~(s.events[1].kind = "result" /\ s.events[1].at = PlaceAt(s.shown[n], j))
      BY <1>5, <2>3, <3>1
    <3> QED
      BY <1>4, <3>1, <3>2, <3>3, TakenAwaited
  <2> QED
    BY <1>1, <1>2, <1>3, <1>6, <2>4, <2>5, <2>6, <2>7 DEF PanelsInv
<1> QED
  BY <1>8, <1>9

-----------------------------------------------------------------------------
(* The user. *)
\* What is awaited stays so while commands are added to the queue.
Longer(q, queue) == IsSeq(q) /\ DOMAIN queue \subseteq DOMAIN q /\ \A n \in DOMAIN queue : q[n] = queue[n]

LEMMA SentCommandFacts ==
  ASSUME PanelsInv(state), NEW command, NEW q, q = Panels!Sent(command)
  PROVE  /\ Longer(q, state.queue)
         /\ state.lua # "down" => \E n \in DOMAIN q : q[n] = command
<1>1. IsSeq(state.queue)
  BY DEF PanelsInv, IsPanels
<1>2. CASE state.lua = "down"
  BY <1>1, <1>2 DEF Panels!Sent, Longer
<1>3. CASE state.lua # "down"
  <2>1. IsAppendOf(q, state.queue, command)
    BY <1>1, <1>3, AppendFacts DEF Panels!Sent
  <2> QED
    BY <2>1 DEF IsAppendOf, Longer
<1> QED
  BY <1>2, <1>3

\* A step of the user: the panels, the queue and what the console shows.
UserSets(t, s, shown, queue) ==
  \E pending, disconnected, edits, answers :
    t = [lua |-> s.lua, scripts |-> s.scripts, queue |-> queue, running |-> s.running,
         events |-> s.events, answers |-> answers, shown |-> shown,
         pending |-> pending, disconnected |-> disconnected,
         calls |-> s.calls, edits |-> edits, reloads |-> s.reloads]

LEMMA UserSetsFields ==
  ASSUME NEW s, IsPanels(s), NEW shown, IsSeq(shown), NEW queue, IsSeq(queue), NEW t,
         UserSets(t, s, shown, queue)
  PROVE  /\ IsPanels(t) /\ t.scripts = s.scripts /\ t.queue = queue /\ t.running = s.running
         /\ t.shown = shown /\ t.lua = s.lua /\ t.events = s.events
BY DEF UserSets, IsPanels

LEMMA QueueKeeps ==
  ASSUME NEW s, PanelsInv(s), NEW queue, Longer(queue, s.queue), NEW t, UserSets(t, s, s.shown, queue)
  PROVE  PanelsInv(t)
<1>1. /\ IsPanels(t) /\ t.scripts = s.scripts /\ t.queue = queue /\ t.running = s.running
      /\ t.shown = s.shown /\ t.lua = s.lua /\ t.events = s.events
  <2>1. IsPanels(s) /\ IsSeq(s.shown) /\ IsSeq(queue)
    BY DEF PanelsInv, IsPanels, Longer
  <2> QED
    BY <2>1, UserSetsFields
<1>2. SameShownPart(t, s)
  BY <1>1, AwaitedMore DEF SameShownPart, Longer
<1> QED
  BY <1>1, <1>2, SameShownKeeps DEF PanelsInv, Follow

\* One control is replaced.
ChangedAt(after, shown, i, j, c) ==
  /\ IsSeq(after) /\ DOMAIN after = DOMAIN shown
  /\ \A k \in DOMAIN shown : SamePanel(after[k], shown[k]) /\ SoundPanel(after[k])
  /\ \A k \in DOMAIN shown : \A m \in DOMAIN shown[k].controls :
       after[k].controls[m] = IF k = i /\ m = j THEN c ELSE shown[k].controls[m]

LEMMA WithFacts ==
  ASSUME NEW shown, IsSeq(shown), PanelsAreSound(shown), NEW i \in DOMAIN shown,
         NEW j \in DOMAIN shown[i].controls, NEW c, SoundControl(c),
         c.id = shown[i].controls[j].id, c.kind = shown[i].controls[j].kind,
         NEW after, after = [shown EXCEPT ![i].controls[j] = c]
  PROVE  ChangedAt(after, shown, i, j, c)
<1>1. PICK p, controls : p = shown[i] /\ controls = [p.controls EXCEPT ![j] = c]
  OBVIOUS
<1>2. SoundPanel(p)
  BY <1>1 DEF PanelsAreSound
<1>3. PICK q : q = [script |-> p.script, id |-> p.id, controls |-> controls]
  OBVIOUS
<1>4. after = [shown EXCEPT ![i] = q]
  <2>1. q = [p EXCEPT !.controls = controls]
    BY <1>2, <1>3 DEF SoundPanel
  <2> QED
    BY <1>1, <2>1
<1>5. /\ DOMAIN controls = DOMAIN p.controls /\ controls = [m \in DOMAIN controls |-> controls[m]]
      /\ \A m \in DOMAIN p.controls : controls[m] = IF m = j THEN c ELSE p.controls[m]
  BY <1>1, <1>2 DEF SoundPanel
<1>6. q.script = p.script /\ q.id = p.id /\ q.controls = controls
  BY <1>3
<1>7. SoundPanel(q) /\ SamePanel(q, p)
  BY <1>1, <1>2, <1>3, <1>5, <1>6 DEF SoundPanel, SamePanel
<1>8. Len(shown) \in Nat /\ DOMAIN shown = 1..Len(shown)
  BY SeqFacts
<1>9. DOMAIN after = DOMAIN shown /\ \A k \in DOMAIN shown : after[k] = IF k = i THEN q ELSE shown[k]
  BY <1>4, <1>8
<1>10. IsSeq(after)
  <2>1. PICK R : R = {after[k] : k \in DOMAIN shown}
    OBVIOUS
  <2>2. after = [k \in 1..Len(shown) |-> after[k]]
    BY <1>4, <1>8
  <2>3. [k \in 1..Len(shown) |-> after[k]] \in Seq(R)
    BY <1>8, <2>1
  <2> QED
    BY <2>2, <2>3, IsSeqOf
<1>11. \A k \in DOMAIN shown : SamePanel(shown[k], shown[k]) /\ SoundPanel(shown[k])
  BY DEF SamePanel, PanelsAreSound
<1> QED
  BY <1>1, <1>5, <1>6, <1>7, <1>9, <1>10, <1>11 DEF ChangedAt

LEMMA EditKeeps ==
  ASSUME NEW s, PanelsInv(s), NEW i \in DOMAIN s.shown, NEW j \in DOMAIN s.shown[i].controls,
         NEW c, SoundControl(c),
         c.id = s.shown[i].controls[j].id, c.kind = s.shown[i].controls[j].kind,
         NEW after, after = [s.shown EXCEPT ![i].controls[j] = c],
         NEW queue, Longer(queue, s.queue),
         s.lua # "down" /\ c.pending =>
           Awaited(queue, s.running, s.events, PlaceAt(s.shown[i], j)),
         NEW t, UserSets(t, s, after, queue)
  PROVE  PanelsInv(t)
<1>0. IsPanels(s) /\ IsSeq(s.shown) /\ IsSeq(queue) /\ DistinctPanels(s.shown) /\ PanelsAreSound(s.shown)
  BY DEF PanelsInv, IsPanels, Longer, ShownWell
<1>1. ChangedAt(after, s.shown, i, j, c)
  BY <1>0, WithFacts
<1>2. /\ IsPanels(t) /\ t.scripts = s.scripts /\ t.queue = queue /\ t.running = s.running
      /\ t.shown = after /\ t.lua = s.lua /\ t.events = s.events
  BY <1>0, <1>1, UserSetsFields DEF ChangedAt
<1>3. ShownWell(t)
  <2>1. DistinctPanels(after)
    BY <1>0, <1>1, SameDistinct DEF ChangedAt
  <2> QED
    BY <1>1, <1>2, <2>1 DEF ShownWell, PanelsAreSound, ChangedAt
<1>4. Follow(t)
  <2> SUFFICES ASSUME NEW id \in Identifiers
               PROVE  ShowsOrTells(s.events, after, DefinitionsIn(s.scripts, id), id)
    BY <1>2 DEF Follow
  <2>1. ShownIn(after, id) = ShownIn(s.shown, id)
    BY <1>1, SameShown DEF ChangedAt
  <2> QED
    BY <2>1 DEF PanelsInv, Follow, ShowsOrTells
<1>5. PendingIsAwaited(t)
  <2> SUFFICES ASSUME s.lua # "down", NEW n \in DOMAIN after, NEW m \in DOMAIN after[n].controls,
                      after[n].controls[m].pending
               PROVE  Awaited(queue, s.running, s.events, PlaceAt(after[n], m))
    BY <1>2 DEF PendingIsAwaited
  <2>1. /\ n \in DOMAIN s.shown /\ m \in DOMAIN s.shown[n].controls
        /\ PlaceAt(after[n], m) = PlaceAt(s.shown[n], m)
        /\ after[n].controls[m] = IF n = i /\ m = j THEN c ELSE s.shown[n].controls[m]
    BY <1>1 DEF ChangedAt, SamePanel, PlaceAt
  <2>2. CASE n = i /\ m = j
    BY <2>1, <2>2
  <2>3. CASE ~(n = i /\ m = j)
    <3>1. Awaited(s.queue, s.running, s.events, PlaceAt(s.shown[n], m))
      BY <2>1, <2>3 DEF PanelsInv, PendingIsAwaited
    <3> QED
      BY <2>1, <3>1, AwaitedMore DEF Longer
  <2> QED
    BY <2>2, <2>3
<1> QED
  BY <1>2, <1>3, <1>4, <1>5 DEF PanelsInv

LEMMA ShownControl ==
  ASSUME PanelsInv(state), NEW i \in DOMAIN state.shown, NEW j \in DOMAIN state.shown[i].controls,
         NEW c, c = Panels!Shown(i, j)
  PROVE  c = state.shown[i].controls[j] /\ SoundControl(c)
BY DEF PanelsInv, ShownWell, PanelsAreSound, SoundPanel, Panels!Shown

LEMMA InvokeAllowed ==
  ASSUME PanelsInv(state), NEW i \in DOMAIN state.shown, NEW j \in DOMAIN state.shown[i].controls,
         NEW draft, Panels!Invoke(i, j, draft)
  PROVE  PanelsInv(state')
<1>1. PICK s, t, c : s = state /\ t = state' /\ c = Panels!Shown(i, j)
  OBVIOUS
<1>2. SoundControl(c) /\ c = s.shown[i].controls[j] /\ IsPanels(s)
  BY <1>1, ShownControl DEF PanelsInv
<1>3. PICK edited, submitted, command, queue, after, edits :
        /\ edited = [c EXCEPT !.draft = draft, !.editing = FALSE]
        /\ submitted = (IF s.lua = "down" THEN Panels!DiscardEdit(edited)
                        ELSE [edited EXCEPT !.pending = TRUE])
        /\ command = [kind |-> "control", at |-> Panels!Place(i, j), callback |-> edited.callback[1]]
        /\ queue = Panels!Sent(command)
        /\ after = [s.shown EXCEPT ![i].controls[j] = submitted]
        /\ edits = s.edits + 1
  OBVIOUS
<1>4. t = [s EXCEPT !.shown = after, !.edits = edits, !.queue = queue]
  BY <1>1, <1>2, <1>3 DEF Panels!Invoke, Panels!With, IsPanels
<1>5. t = [lua |-> s.lua, scripts |-> s.scripts, queue |-> queue, running |-> s.running,
           events |-> s.events, answers |-> s.answers, shown |-> after,
           pending |-> s.pending, disconnected |-> s.disconnected,
           calls |-> s.calls, edits |-> edits, reloads |-> s.reloads]
  BY <1>2, <1>4 DEF IsPanels
<1>6. UserSets(t, s, after, queue)
  BY <1>5 DEF UserSets
<1>7. /\ SoundControl(submitted) /\ submitted.id = c.id /\ submitted.kind = c.kind
      /\ s.lua = "down" => ~submitted.pending
  <2>1. edited = [id |-> c.id, kind |-> c.kind, value |-> c.value, draft |-> draft,
          pending |-> c.pending, editing |-> FALSE, enabled |-> c.enabled,
          minimum |-> c.minimum, maximum |-> c.maximum, callback |-> c.callback]
    BY <1>2, <1>3 DEF SoundControl
  <2>2. CASE s.lua = "down"
    <3>1. submitted = [edited EXCEPT !.draft = edited.value, !.pending = FALSE]
      BY <1>3, <2>2 DEF Panels!DiscardEdit
    <3> QED
      BY <1>2, <2>1, <2>2, <3>1 DEF SoundControl
  <2>3. CASE s.lua # "down"
    <3>1. submitted = [edited EXCEPT !.pending = TRUE]
      BY <1>3, <2>3
    <3> QED
      BY <1>2, <2>1, <2>3, <3>1 DEF SoundControl
  <2> QED
    BY <2>2, <2>3
<1>8. Longer(queue, s.queue) /\ (s.lua # "down" => \E n \in DOMAIN queue : queue[n] = command)
  BY <1>1, <1>3, SentCommandFacts
<1>9. command.kind = "control" /\ command.at = PlaceAt(s.shown[i], j)
  BY <1>1, <1>2, <1>3 DEF Panels!Place, PlaceAt
<1>10. s.lua # "down" => Awaited(queue, s.running, s.events, PlaceAt(s.shown[i], j))
  BY <1>8, <1>9 DEF Awaited
<1> QED
  BY <1>1, <1>2, <1>3, <1>6, <1>7, <1>8, <1>10, EditKeeps

LEMMA DraftChangeAllowed ==
  ASSUME PanelsInv(state), NEW i \in DOMAIN state.shown, NEW j \in DOMAIN state.shown[i].controls,
         NEW c, SoundControl(c), NEW b, b = Panels!Shown(i, j),
         c.id = b.id, c.kind = b.kind, c.pending => b.pending,
         state' = [state EXCEPT !.shown = Panels!With(i, j, c)]
  PROVE  PanelsInv(state')
<1>1. PICK s, t, after : s = state /\ t = state' /\ after = [s.shown EXCEPT ![i].controls[j] = c]
  OBVIOUS
<1>2. b = s.shown[i].controls[j] /\ IsPanels(s)
  BY <1>1, ShownControl DEF PanelsInv
<1>3. t = [s EXCEPT !.shown = after]
  BY <1>1 DEF Panels!With
<1>4. t = [lua |-> s.lua, scripts |-> s.scripts, queue |-> s.queue, running |-> s.running,
           events |-> s.events, answers |-> s.answers, shown |-> after,
           pending |-> s.pending, disconnected |-> s.disconnected,
           calls |-> s.calls, edits |-> s.edits, reloads |-> s.reloads]
  BY <1>2, <1>3 DEF IsPanels
<1>5. UserSets(t, s, after, s.queue)
  BY <1>4 DEF UserSets
<1>6. Longer(s.queue, s.queue)
  BY <1>2 DEF IsPanels, Longer
<1>7. s.lua # "down" /\ c.pending => Awaited(s.queue, s.running, s.events, PlaceAt(s.shown[i], j))
  BY <1>1, <1>2 DEF PanelsInv, PendingIsAwaited
<1> QED
  BY <1>1, <1>2, <1>5, <1>6, <1>7, EditKeeps

LEMMA EditNumberAllowed ==
  ASSUME PanelsInv(state), NEW i \in DOMAIN state.shown, NEW j \in DOMAIN state.shown[i].controls,
         NEW draft, Panels!EditNumber(i, j, draft)
  PROVE  PanelsInv(state')
<1>1. PICK b, c : b = Panels!Shown(i, j) /\ c = [b EXCEPT !.draft = draft, !.editing = TRUE]
  OBVIOUS
<1>2. SoundControl(b)
  BY <1>1, ShownControl
<1>3. SoundControl(c) /\ c.id = b.id /\ c.kind = b.kind /\ (c.pending => b.pending)
  BY <1>1, <1>2 DEF SoundControl
<1>4. state' = [state EXCEPT !.shown = Panels!With(i, j, c)]
  BY <1>1 DEF Panels!EditNumber
<1> QED
  BY <1>1, <1>3, <1>4, DraftChangeAllowed

LEMMA ReleaseNumberAllowed ==
  ASSUME PanelsInv(state), NEW i \in DOMAIN state.shown, NEW j \in DOMAIN state.shown[i].controls,
         Panels!ReleaseNumber(i, j)
  PROVE  PanelsInv(state')
<1>1. PICK b, c : b = Panels!Shown(i, j) /\ c = [b EXCEPT !.editing = FALSE]
  OBVIOUS
<1>2. SoundControl(b)
  BY <1>1, ShownControl
<1>3. CASE Panels!Invoke(i, j, b.draft)
  BY <1>3, InvokeAllowed
<1>4. CASE b.draft = b.value /\ state' = [state EXCEPT !.shown = Panels!With(i, j, c)]
  <2>1. SoundControl(c) /\ c.id = b.id /\ c.kind = b.kind /\ (c.pending => b.pending)
    BY <1>1, <1>2, <1>4 DEF SoundControl
  <2> QED
    BY <1>1, <1>4, <2>1, DraftChangeAllowed
<1> QED
  BY <1>1, <1>3, <1>4 DEF Panels!ReleaseNumber

LEMMA SubmitAllowed ==
  ASSUME PanelsInv(state), Panels!Submit
  PROVE  PanelsInv(state')
<1>1. PICK s, t, queue, edits, pending, disconnected :
        /\ s = state /\ t = state' /\ queue = Panels!Sent([kind |-> "execute"])
        /\ edits = s.edits + 1 /\ pending = (s.lua # "down") /\ disconnected = (s.lua = "down")
  OBVIOUS
<1>2. IsPanels(s)
  BY <1>1 DEF PanelsInv
<1>3. t = [lua |-> s.lua, scripts |-> s.scripts, queue |-> queue, running |-> s.running,
           events |-> s.events, answers |-> s.answers, shown |-> s.shown,
           pending |-> pending, disconnected |-> disconnected,
           calls |-> s.calls, edits |-> edits, reloads |-> s.reloads]
  BY <1>1, <1>2 DEF Panels!Submit, IsPanels
<1>4. UserSets(t, s, s.shown, queue)
  BY <1>3 DEF UserSets
<1>5. Longer(queue, s.queue)
  BY <1>1, SentCommandFacts
<1> QED
  BY <1>1, <1>4, <1>5, QueueKeeps

LEMMA CallScenarioAllowed ==
  ASSUME PanelsInv(state), NEW callback, Panels!CallScenario(callback)
  PROVE  PanelsInv(state')
<1>1. PICK s, t, queue, edits :
        /\ s = state /\ t = state' /\ queue = Panels!Sent([kind |-> "scenario", callback |-> callback])
        /\ edits = s.edits + 1
  OBVIOUS
<1>2. IsPanels(s)
  BY <1>1 DEF PanelsInv
<1>3. t = [lua |-> s.lua, scripts |-> s.scripts, queue |-> queue, running |-> s.running,
           events |-> s.events, answers |-> s.answers, shown |-> s.shown,
           pending |-> s.pending, disconnected |-> s.disconnected,
           calls |-> s.calls, edits |-> edits, reloads |-> s.reloads]
  BY <1>1, <1>2 DEF Panels!CallScenario, IsPanels
<1>4. UserSets(t, s, s.shown, queue)
  BY <1>3 DEF UserSets
<1>5. Longer(queue, s.queue)
  BY <1>1, SentCommandFacts
<1> QED
  BY <1>1, <1>4, <1>5, QueueKeeps

LEMMA HandleAnswersAllowed ==
  ASSUME PanelsInv(state), Panels!HandleAnswers
  PROVE  PanelsInv(state')
<1>1. PICK s, t : s = state /\ t = state'
  OBVIOUS
<1>2. IsPanels(s)
  BY <1>1 DEF PanelsInv
<1>3. PICK pending, disconnected :
        t = [s EXCEPT !.answers = << >>, !.pending = pending, !.disconnected = disconnected]
  BY <1>1 DEF Panels!HandleAnswers
<1>4. t = [lua |-> s.lua, scripts |-> s.scripts, queue |-> s.queue, running |-> s.running,
           events |-> s.events, answers |-> << >>, shown |-> s.shown,
           pending |-> pending, disconnected |-> disconnected,
           calls |-> s.calls, edits |-> s.edits, reloads |-> s.reloads]
  BY <1>2, <1>3 DEF IsPanels
<1>5. UserSets(t, s, s.shown, s.queue)
  BY <1>4 DEF UserSets
<1>6. Longer(s.queue, s.queue)
  BY <1>2 DEF IsPanels, Longer
<1> QED
  BY <1>1, <1>5, <1>6, QueueKeeps

\* The setup of the replacement registered nothing, or one script.
LEMMA ReloadAllowed ==
  ASSUME PanelsInv(state), NEW setup \in {<<script>> : script \in PanelScripts} \cup {<< >>},
         Panels!Reload(setup)
  PROVE  PanelsInv(state')
<1>1. PICK s, t, scripts, events, reloads :
        /\ s = state /\ t = state' /\ reloads = s.reloads + 1
        /\ scripts = [id \in {setup[n]["id"].value : n \in DOMAIN setup} |->
                        Panels!Registration(setup[1])]
        /\ events = [n \in DOMAIN setup |->
                       [kind |-> "registered", script |-> setup[n]["id"].value,
                        panels |-> Panels!Panels(setup[n])]]
  OBVIOUS
<1>2. IsPanels(s)
  BY <1>1 DEF PanelsInv
<1>3. t = [lua |-> "up", scripts |-> scripts, queue |-> << >>, running |-> << >>,
           events |-> events, answers |-> << >>, shown |-> << >>,
           pending |-> s.pending, disconnected |-> FALSE,
           calls |-> s.calls, edits |-> s.edits, reloads |-> reloads]
  BY <1>1, <1>2 DEF Panels!Reload, IsPanels
<1>4. /\ t.scripts = scripts /\ t.queue = << >> /\ t.running = << >> /\ t.shown = << >>
      /\ t.lua = "up" /\ t.events = events
  BY <1>3
<1>5. ShownWell(t) /\ PendingIsAwaited(t)
  BY <1>4, EmptyFacts DEF ShownWell, DistinctPanels, PanelsAreSound, PendingIsAwaited
<1>6. \A id : ShownIn(<< >>, id) = {}
  BY EmptyFacts DEF ShownIn
<1>7. CASE setup = << >>
  <2>1. DOMAIN scripts = {} /\ events = << >>
    <3>1. DOMAIN setup = {}
      BY <1>7, EmptyFacts
    <3>2. DOMAIN scripts = {} /\ DOMAIN events = {} /\ events = [n \in {} |-> n]
      BY <1>1, <3>1
    <3>3. << >> = [n \in {} |-> n]
      <4>1. << >> \in Seq({}) /\ Len(<< >>) = 0
        BY EmptySeq
      <4>2. << >> = [n \in 1..0 |-> << >>[n]]
        BY <4>1
      <4> QED
        BY <4>2
    <3> QED
      BY <3>2, <3>3
  <2>2. IsPanels(t) /\ IsScripts(scripts) /\ EventsAreSound(events)
    <3>1. IsScripts(scripts)
      BY <1>1, <2>1 DEF IsScripts
    <3>2. IsPanels(t)
      BY <1>3, <2>1, EmptyFacts DEF IsPanels
    <3> QED
      BY <2>1, <3>1, <3>2, EmptyFacts DEF EventsAreSound
  <2>3. Follow(t)
    BY <1>4, <1>6, <2>1, EmptyFacts
       DEF Follow, ShowsOrTells, TellingOf, DefinitionsIn, Panels!Outlines
  <2> QED
    BY <1>1, <1>4, <1>5, <2>2, <2>3 DEF PanelsInv
<1>8. ASSUME NEW script \in PanelScripts, setup = <<script>> PROVE PanelsInv(state')
  <2>1. DOMAIN setup = {1} /\ setup[1] = script
    BY <1>8
  <2>2. Panels!RegistrationParses(script)
    BY <2>1 DEF Panels!Reload
  <2>3. PICK id, r, e : /\ id = script["id"].value /\ r = Panels!Registration(script)
                        /\ e = [kind |-> "registered", script |-> id, panels |-> Panels!Panels(script)]
    OBVIOUS
  <2>4. r = [panels |-> Panels!Panels(script), functions |-> Panels!Functions(script)]
    BY <2>3 DEF Panels!Registration
  <2>5. scripts = [x \in {id} |-> r] /\ DOMAIN events = {1} /\ events[1] = e
    BY <1>1, <2>1, <2>3
  <2>6. IsSeq(events)
    <3>1. events = [n \in 1..1 |-> e]
      BY <1>1, <2>1, <2>3
    <3>2. [n \in 1..1 |-> e] \in Seq({e})
      OBVIOUS
    <3> QED
      BY <3>1, <3>2, IsSeqOf
  <2>7. /\ SoundEvent(e) /\ TellsPanels(e) /\ e.script = id /\ Panels!PanelsTold(e) = r.panels
    BY <2>2, <2>3, <2>4, RegistrationFacts DEF SoundEvent, TellsPanels, Panels!PanelsTold
  <2>8. IsPanels(t)
    BY <1>3, <2>6, EmptyFacts DEF IsPanels
  <2>9. IsScripts(scripts) /\ EventsAreSound(events)
    BY <2>4, <2>5, <2>7 DEF IsScripts, EventsAreSound
  <2>10. Follow(t)
    <3> SUFFICES ASSUME NEW x \in Identifiers
                 PROVE  ShowsOrTells(events, << >>, DefinitionsIn(scripts, x), x)
      BY <1>4 DEF Follow
    <3>1. CASE x = id
      <4>1. TellingOf(events, x) = {1} /\ DefinitionsIn(scripts, x) = r.panels
        BY <2>5, <2>7, <3>1 DEF TellingOf, DefinitionsIn
      <4> QED
        BY <2>5, <2>7, <4>1 DEF ShowsOrTells
    <3>2. CASE x # id
      <4>1. TellingOf(events, x) = {} /\ DefinitionsIn(scripts, x) = << >>
        BY <2>5, <2>7, <3>2 DEF TellingOf, DefinitionsIn
      <4> QED
        BY <1>6, <4>1, EmptyFacts DEF ShowsOrTells, Panels!Outlines
    <3> QED
      BY <3>1, <3>2
  <2> QED
    BY <1>1, <1>4, <1>5, <2>8, <2>9, <2>10 DEF PanelsInv
<1> QED
  BY <1>7, <1>8

LEMMA UserAllowed ==
  ASSUME PanelsInv(state), Panels!User
  PROVE  PanelsInv(state')
<1>1. ASSUME NEW i \in DOMAIN state.shown, NEW j \in DOMAIN state.shown[i].controls,
             \/ Panels!Toggle(i, j) \/ Panels!Click(i, j) \/ Panels!ReleaseNumber(i, j)
             \/ \E draft \in Panels!Drafts : Panels!EditNumber(i, j, draft)
      PROVE  PanelsInv(state')
  BY <1>1, InvokeAllowed, ReleaseNumberAllowed, EditNumberAllowed DEF Panels!Toggle, Panels!Click
<1> QED
  BY <1>1, SubmitAllowed, CallScenarioAllowed, ReloadAllowed DEF Panels!User

LEMMA PanelsNext == PanelsInv(state) /\ Panels!Next => PanelsInv(state')
BY CallAllowedOfPanels, InitializationEndsAllowed, ReceiveAllowed, ReturnAllowed, HandleEventAllowed,
   HandleAnswersAllowed, UserAllowed DEF Panels!Next

PanelsStaySound == component = "panels" => PanelsInv(state)

\* The inductive invariant of the control panels: every control that is shown
\* is well formed, every event on its way is one the interface can handle, and
\* what the two properties below say.
THEOREM PanelsInvariant == Spec => []PanelsStaySound
<1>1. Init => PanelsStaySound
  BY PanelsInit DEF Init, PanelsStaySound
<1>2. PanelsStaySound /\ [Next]_vars => PanelsStaySound'
  <2>1. CASE UNCHANGED vars
    BY <2>1 DEF vars, PanelsStaySound
  <2>2. CASE Next
    BY <2>2, PanelsNext DEF Next, PanelsStaySound
  <2> QED
    BY <2>1, <2>2
<1> QED
  BY <1>1, <1>2, PTL DEF Spec

\* The interface shows the panels of the scripts that Lua has registered, each
\* once, or the last event on its way about a script tells them
\* (ControlPanels::register_script, App::poll_lua_application_events).
THEOREM InterfaceFollowsScripts == Spec => []PanelsFollowScripts
<1>1. PanelsStaySound => PanelsFollowScripts
  <2> SUFFICES ASSUME component = "panels", PanelsInv(state) PROVE Panels!PanelsFollowScripts
    BY DEF PanelsStaySound, PanelsFollowScripts
  <2>1. \A id : /\ Panels!About(id) = TellingOf(state.events, id)
                /\ Panels!ShownOf(id) = ShownIn(state.shown, id)
                /\ Panels!PanelsOf(id) = DefinitionsIn(state.scripts, id)
    BY DEF Panels!About, TellingOf, TellsPanels, Panels!ShownOf, ShownIn, Panels!PanelsOf,
           DefinitionsIn, Panels!Registered
  <2>2. \A id \in Identifiers :
          ShowsOrTells(state.events, state.shown, DefinitionsIn(state.scripts, id), id)
    BY DEF PanelsInv, Follow
  <2>3. DistinctPanels(state.shown)
    BY DEF PanelsInv, ShownWell
  <2>4. \A id \in Identifiers :
          IF Panels!About(id) = {} THEN Panels!ShownOf(id) = Panels!Outlines(Panels!PanelsOf(id))
          ELSE \A n \in Panels!About(id) : (\A m \in Panels!About(id) : m <= n) =>
                 Panels!PanelsTold(state.events[n]) = Panels!PanelsOf(id)
    BY <2>1, <2>2 DEF ShowsOrTells
  <2> QED
    BY <2>3, <2>4 DEF Panels!PanelsFollowScripts, DistinctPanels
<1> QED
  BY <1>1, PanelsInvariant, PTL

\* A control that is pending has its callback on the way, running, or its result
\* on the way: no edit locks it for ever, whatever the script does meanwhile
\* (call_control_function, LuaApplicationEvent::ControlCallbackResult).
THEOREM NoControlStaysLocked == Spec => []EditsAreSettled
<1>1. PanelsStaySound => EditsAreSettled
  <2> SUFFICES ASSUME component = "panels", PanelsInv(state),
                      NEW i \in DOMAIN state.shown, NEW j \in DOMAIN state.shown[i].controls
               PROVE  /\ Panels!Shown(i, j).pending /\ state.lua # "down" =>
                           Panels!IsAwaited(Panels!Place(i, j))
                      /\ Panels!Shown(i, j).draft # Panels!Shown(i, j).value =>
                           Panels!Shown(i, j).editing \/ Panels!Shown(i, j).pending
    BY DEF PanelsStaySound, EditsAreSettled, Panels!EditsAreSettled
  <2>1. PICK c : c = Panels!Shown(i, j) /\ c = state.shown[i].controls[j] /\ SoundControl(c)
    BY ShownControl
  <2>2. Panels!Place(i, j) = PlaceAt(state.shown[i], j)
    BY <2>1 DEF Panels!Place, PlaceAt
  <2>3. c.pending /\ state.lua # "down" =>
          Awaited(state.queue, state.running, state.events, PlaceAt(state.shown[i], j))
    BY <2>1 DEF PanelsInv, PendingIsAwaited
  <2>4. \A at : Awaited(state.queue, state.running, state.events, at) => Panels!IsAwaited(at)
    BY DEF Awaited, Panels!IsAwaited
  <2> QED
    BY <2>1, <2>2, <2>3, <2>4 DEF SoundControl
<1> QED
  BY <1>1, PanelsInvariant, PTL

(***************************************************************************)
(* The recorder.                                                           *)
(***************************************************************************)
IsRecorder(s) ==
  s = [next |-> s.next, open |-> s.open, others |-> s.others, thread |-> s.thread,
       subscribed |-> s.subscribed, attached |-> s.attached, events |-> s.events,
       timeline |-> s.timeline, queue |-> s.queue, sent |-> s.sent,
       running |-> s.running, available |-> s.available, error |-> s.error,
       reported |-> s.reported, rows |-> s.rows, logs |-> s.logs,
       measurements |-> s.measurements, ended |-> s.ended, closed |-> s.closed,
       pending |-> s.pending, entries |-> s.entries, pushed |-> s.pushed,
       file |-> s.file, file_enabled |-> s.file_enabled]

Stages == {"events", "timeline", "sink"}
Settling == {"applied", "failed"}
Others == {"log", "measurements"}
IsBusy(x) == x = [stage |-> x.stage, record |-> x.record] /\ x.stage \in Stages
IsThread(x) == x = History!NoRecord \/ IsBusy(x)

\* The record of the runtime's thread, at one of some stages of its publication.
Publishes(s, stages, events, id) ==
  /\ s.thread["runtime"].stage \in stages
  /\ s.thread["runtime"].record.event \in events
  /\ s.thread["runtime"].record.id = id

Has(q, events, id) == \E i \in DOMAIN q : q[i].event \in events /\ q[i].id = id

ThreadInv(s) ==
  /\ DOMAIN s.thread = History!Threads
  /\ \A t \in History!Threads : IsThread(s.thread[t])
  /\ s.thread["worker"].stage \in Stages => s.thread["worker"].record.event \in Others
  /\ s.thread["runtime"].stage \in Stages =>
       LET record == s.thread["runtime"].record
       IN /\ record.event \in History!ActionEvents \cup {"log"}
          /\ record.event = "requested" => record.id \in s.open
          /\ record.event \in Settling =>
               record.id \notin s.open /\ record.id \in Nat /\ record.id < s.next
  /\ s.next \in Nat /\ \A id \in s.open : id \in Nat /\ id < s.next
  /\ s.closed => \A t \in History!Threads : s.thread[t].stage = "idle"

\* A subscriber has got the request of every action that may be settled.
HubInv(s) ==
  /\ IsSeq(s.events)
  /\ s.subscribed => s.attached
  /\ s.subscribed => \A id :
       id \in s.open \/ Publishes(s, {"events"}, Settling, id) =>
         Has(s.events, {"requested"}, id) \/ Publishes(s, {"events"}, {"requested"}, id)
  /\ \A i \in DOMAIN s.events : s.events[i].event \in Settling =>
       \E j \in DOMAIN s.events : j < i /\ s.events[j].event = "requested"
                                  /\ s.events[j].id = s.events[i].id

\* The log knows what it will be told of, and each action is settled once.
Knows(s, id) == id \in DOMAIN s.pending \/ Has(s.timeline, {"requested"}, id)
Unlogged == {"events", "timeline"}
TimelineInv(s) ==
  /\ IsSeq(s.timeline)
  /\ \A i \in DOMAIN s.timeline : s.timeline[i].event \in History!ActionEvents \cup {"log"}
  /\ \A i \in DOMAIN s.timeline : s.timeline[i].event \in Settling =>
       /\ s.timeline[i].id \notin s.open /\ s.timeline[i].id \in Nat
       /\ s.timeline[i].id < s.next
       /\ \/ s.timeline[i].id \in DOMAIN s.pending
          \/ \E j \in DOMAIN s.timeline : j < i /\ s.timeline[j].event = "requested"
                                          /\ s.timeline[j].id = s.timeline[i].id
  /\ \A i, j \in DOMAIN s.timeline :
       /\ s.timeline[i].event \in Settling /\ s.timeline[j].event \in Settling
       /\ s.timeline[i].id = s.timeline[j].id
       => i = j
  /\ \A id : Publishes(s, Unlogged, Settling, id) =>
       Knows(s, id) /\ ~Has(s.timeline, Settling, id)
  /\ \A id \in s.open : Knows(s, id) \/ Publishes(s, Unlogged, {"requested"}, id)

FileInv(s) ==
  /\ IsSeq(s.entries) /\ IsSeq(s.pushed) /\ IsSeq(s.file)
  /\ \A i \in DOMAIN s.entries : s.entries[i].named
  /\ Len(s.entries) <= MaxLogEntries
  /\ Len(s.file) <= Len(s.pushed)
  /\ \A i \in DOMAIN s.file : s.file[i] = s.pushed[i]
  /\ s.file_enabled => Len(s.file) = Len(s.pushed)

RecorderInv(s) == IsRecorder(s) /\ ThreadInv(s) /\ HubInv(s) /\ TimelineInv(s) /\ FileInv(s)

-----------------------------------------------------------------------------
(* Threads. *)
ProceedsTo(r, q, t, stage) ==
  /\ DOMAIN r = DOMAIN q
  /\ IsThread(r[t]) /\ r[t].stage = stage
  /\ stage # "idle" => r[t].record = q[t].record
  /\ \A u \in DOMAIN q : u # t => r[u] = q[u]

LEMMA NoRecordIsIdle == History!NoRecord.stage = "idle" /\ IsThread(History!NoRecord)
BY DEF History!NoRecord, IsThread

LEMMA BusyFacts ==
  ASSUME NEW x, IsThread(x), x.stage \in Stages
  PROVE  IsBusy(x)
BY DEF IsThread, IsBusy, History!NoRecord, Stages

LEMMA ProceedFacts ==
  ASSUME ThreadInv(state), NEW t \in History!Threads, state.thread[t].stage \in Stages,
         NEW stage \in Stages, NEW r, r = History!Proceed(t, stage)
  PROVE  ProceedsTo(r, state.thread, t, stage)
<1> DEFINE x == [state.thread[t] EXCEPT !.stage = stage]
<1>1. DOMAIN state.thread = History!Threads /\ IsThread(state.thread[t])
  BY DEF ThreadInv
<1>2. IsBusy(state.thread[t])
  BY <1>1, BusyFacts
<1>3. x = [stage |-> stage, record |-> state.thread[t].record]
  BY <1>2 DEF IsBusy
<1>4. x.stage = stage /\ x.record = state.thread[t].record /\ IsThread(x)
  BY <1>3 DEF IsThread, IsBusy
<1>5. r = [state.thread EXCEPT ![t] = x]
  BY DEF History!Proceed
<1> HIDE DEF x
<1> QED
  BY <1>1, <1>4, <1>5 DEF ProceedsTo

\* A thread that was idle begins to publish a record.
Begins(r, q, t, record) ==
  /\ DOMAIN r = DOMAIN q
  /\ IsThread(r[t]) /\ r[t].stage = "events" /\ r[t].record = record
  /\ \A u \in DOMAIN q : u # t => r[u] = q[u]

LEMMA BeginFacts ==
  ASSUME ThreadInv(state), NEW t \in History!Threads, NEW record,
         NEW r, r = History!Begin(t, record)
  PROVE  Begins(r, state.thread, t, record)
<1> DEFINE x == [stage |-> "events", record |-> record]
<1>1. DOMAIN state.thread = History!Threads
  BY DEF ThreadInv
<1>4. x.stage = "events" /\ x.record = record /\ IsThread(x)
  BY DEF IsThread, IsBusy, Stages
<1>5. r = [state.thread EXCEPT ![t] = x]
  BY DEF History!Begin
<1> HIDE DEF x
<1> QED
  BY <1>1, <1>4, <1>5 DEF Begins

-----------------------------------------------------------------------------
LEMMA RecorderInit == MaxLogEntries \in Nat /\ History!Init => RecorderInv(state)
<1> SUFFICES ASSUME MaxLogEntries \in Nat, History!Init PROVE RecorderInv(state)
  OBVIOUS
<1> DEFINE s == state
<1>1. /\ IsRecorder(s) /\ s.next = 1 /\ s.open = {} /\ s.attached = TRUE
      /\ s.thread = [t \in History!Threads |-> History!NoRecord]
      /\ s.events = << >> /\ s.timeline = << >> /\ s.pending = << >>
      /\ s.entries = << >> /\ s.pushed = << >> /\ s.file = << >>
  BY DEF History!Init, IsRecorder
<1>2. IsSeq(<< >>) /\ DOMAIN << >> = {} /\ Len(<< >>) = 0
  BY EmptyFacts
<1>3. /\ DOMAIN s.thread = History!Threads
      /\ \A t \in History!Threads : IsThread(s.thread[t]) /\ s.thread[t].stage = "idle"
  BY <1>1, NoRecordIsIdle
<1>4. "runtime" \in History!Threads /\ "worker" \in History!Threads
  BY DEF History!Threads
<1>5. ThreadInv(s)
  BY <1>1, <1>3, <1>4 DEF ThreadInv, Stages
<1>6. HubInv(s)
  BY <1>1, <1>2, <1>3, <1>4 DEF HubInv, Publishes
<1>7. TimelineInv(s)
  BY <1>1, <1>2, <1>3, <1>4 DEF TimelineInv, Publishes, Unlogged
<1>8. FileInv(s)
  BY <1>1, <1>2 DEF FileInv
<1> QED
  BY <1>1, <1>5, <1>6, <1>7, <1>8 DEF RecorderInv

LEMMA PublishEventKeeps ==
  ASSUME RecorderInv(state), NEW t \in History!Threads, History!PublishEvent(t)
  PROVE  RecorderInv(state')
<1> DEFINE s == state
           record == s.thread[t].record
           delivers == History!IsApplicationEvent(record) /\ s.attached
           thread == History!Proceed(t, "timeline")
           attached == IF delivers THEN s.subscribed ELSE s.attached
           events == IF delivers /\ s.subscribed THEN Append(s.events, record) ELSE s.events
<1>0. IsRecorder(s) /\ ThreadInv(s) /\ HubInv(s) /\ TimelineInv(s) /\ FileInv(s)
  BY DEF RecorderInv
<1>1. /\ s.thread[t].stage = "events"
      /\ state' = [s EXCEPT !.thread = thread, !.attached = attached, !.events = events]
  BY DEF History!PublishEvent, History!AtStage
<1>2. ProceedsTo(thread, s.thread, t, "timeline")
  BY <1>0, <1>1, ProceedFacts DEF Stages
<1>3. \/ delivers /\ s.subscribed /\ IsAppendOf(events, s.events, record)
      \/ ~(delivers /\ s.subscribed) /\ events = s.events
  BY <1>0, AppendFacts DEF HubInv
<1>4. s.subscribed => s.attached
  BY <1>0 DEF HubInv
<1>5. s.subscribed => attached
  BY <1>4
<1>6. s.subscribed /\ History!IsApplicationEvent(record) => IsAppendOf(events, s.events, record)
  BY <1>3, <1>4
<1>e. events = s.events \/ (s.subscribed /\ IsAppendOf(events, s.events, record))
  BY <1>3
<1> HIDE DEF thread, attached, events, delivers, record
<1>7. /\ IsRecorder(state') /\ state'.thread = thread /\ state'.attached = attached
      /\ state'.events = events /\ state'.open = s.open /\ state'.next = s.next
      /\ state'.subscribed = s.subscribed /\ state'.timeline = s.timeline
      /\ state'.pending = s.pending /\ state'.closed = s.closed /\ state'.entries = s.entries
      /\ state'.pushed = s.pushed /\ state'.file = s.file
      /\ state'.file_enabled = s.file_enabled
  BY <1>0, <1>1 DEF IsRecorder
<1>8. ThreadInv(state')
  BY <1>0, <1>1, <1>2, <1>7 DEF ThreadInv, ProceedsTo, Stages, History!Threads
<1>9. TimelineInv(state')
  <2>1. \A evs, id : Publishes(state', Unlogged, evs, id) <=> Publishes(s, Unlogged, evs, id)
    BY <1>0, <1>1, <1>2, <1>7 DEF ThreadInv, ProceedsTo, Publishes, Unlogged, History!Threads
  <2> QED
    BY <1>0, <1>7, <2>1 DEF TimelineInv, Knows
<1>10. HubInv(state')
  <2>0. t = "runtime" \/ t = "worker"
    BY DEF History!Threads
  <2>1. s.subscribed => \A id :
          id \in s.open \/ Publishes(state', {"events"}, Settling, id) =>
            Has(events, {"requested"}, id) \/ Publishes(state', {"events"}, {"requested"}, id)
    <3> SUFFICES ASSUME s.subscribed, NEW id,
                        id \in s.open \/ Publishes(state', {"events"}, Settling, id)
                 PROVE  Has(events, {"requested"}, id)
                        \/ Publishes(state', {"events"}, {"requested"}, id)
      OBVIOUS
    <3>1. CASE t = "worker"
      <4>1. state'.thread["runtime"] = s.thread["runtime"]
        BY <1>0, <1>2, <1>7, <3>1 DEF ThreadInv, ProceedsTo, History!Threads
      <4>2. Has(s.events, {"requested"}, id) \/ Publishes(s, {"events"}, {"requested"}, id)
        BY <1>0, <4>1 DEF HubInv, Publishes
      <4>3. Has(s.events, {"requested"}, id) => Has(events, {"requested"}, id)
        BY <1>e DEF Has, IsAppendOf
      <4> QED
        BY <4>1, <4>2, <4>3 DEF Publishes
    <3>2. CASE t = "runtime"
      <4>1. state'.thread["runtime"].stage = "timeline"
        BY <1>2, <1>7, <3>2 DEF ProceedsTo
      <4>2. id \in s.open
        BY <4>1 DEF Publishes
      <4>3. Has(s.events, {"requested"}, id) \/ Publishes(s, {"events"}, {"requested"}, id)
        BY <1>0, <4>2 DEF HubInv
      <4>4. CASE Has(s.events, {"requested"}, id)
        BY <1>e, <4>4 DEF Has, IsAppendOf
      <4>5. CASE Publishes(s, {"events"}, {"requested"}, id)
        <5>1. record.event = "requested" /\ record.id = id
          BY <3>2, <4>5 DEF Publishes, record
        <5>2. IsAppendOf(events, s.events, record)
          BY <1>6, <5>1 DEF History!IsApplicationEvent, History!ActionEvents
        <5> QED
          BY <5>1, <5>2 DEF Has, IsAppendOf
      <4> QED
        BY <4>3, <4>4, <4>5
    <3> QED
      BY <2>0, <3>1, <3>2
  <2>2. ASSUME NEW i \in DOMAIN events, events[i].event \in Settling
        PROVE  \E j \in DOMAIN events : j < i /\ events[j].event = "requested"
                                        /\ events[j].id = events[i].id
    <3>1. CASE i \in DOMAIN s.events /\ events[i] = s.events[i]
      BY <1>0, <1>e, <2>2, <3>1 DEF HubInv, IsAppendOf
    <3>2. CASE s.subscribed /\ IsAppendOf(events, s.events, record) /\ i = Len(s.events) + 1
      <4>1. record.event \in Settling /\ events[i] = record
        BY <2>2, <3>2 DEF IsAppendOf
      <4>2. t = "runtime"
        BY <1>0, <1>1, <2>0, <4>1 DEF ThreadInv, record, Others, Settling, Stages
      <4>3. Publishes(s, {"events"}, Settling, record.id)
        BY <1>1, <4>1, <4>2 DEF Publishes, record
      <4>4. Has(s.events, {"requested"}, record.id)
            \/ Publishes(s, {"events"}, {"requested"}, record.id)
        BY <1>0, <3>2, <4>3 DEF HubInv
      <4>5. ~Publishes(s, {"events"}, {"requested"}, record.id)
        BY <4>1, <4>2 DEF Publishes, record, Settling
      <4>6. PICK j \in DOMAIN s.events : s.events[j].event = "requested" /\ s.events[j].id = record.id
        BY <4>4, <4>5 DEF Has
      <4>7. j < i
        BY <1>0, <3>2, SeqFacts DEF HubInv
      <4> QED
        BY <3>2, <4>1, <4>6, <4>7 DEF IsAppendOf
    <3> QED
      BY <1>e, <3>1, <3>2 DEF IsAppendOf
  <2>3. IsSeq(events)
    BY <1>0, <1>e DEF HubInv, IsAppendOf
  <2> QED
    BY <1>5, <1>7, <2>1, <2>2, <2>3 DEF HubInv
<1>11. FileInv(state')
  BY <1>0, <1>7 DEF FileInv
<1> QED
  BY <1>7, <1>8, <1>9, <1>10, <1>11 DEF RecorderInv

LEMMA PublishTimelineKeeps ==
  ASSUME RecorderInv(state), NEW t \in History!Threads, History!PublishTimeline(t)
  PROVE  RecorderInv(state')
<1> DEFINE s == state
           record == s.thread[t].record
           thread == History!Proceed(t, "sink")
           timeline == IF History!IsTimelineEvent(record) THEN Append(s.timeline, record)
                       ELSE s.timeline
<1>0. IsRecorder(s) /\ ThreadInv(s) /\ HubInv(s) /\ TimelineInv(s) /\ FileInv(s)
  BY DEF RecorderInv
<1>1. /\ s.thread[t].stage = "timeline"
      /\ state' = [s EXCEPT !.thread = thread, !.timeline = timeline]
  BY DEF History!PublishTimeline, History!AtStage
<1>2. ProceedsTo(thread, s.thread, t, "sink")
  BY <1>0, <1>1, ProceedFacts DEF Stages
<1>3. \/ History!IsTimelineEvent(record) /\ IsAppendOf(timeline, s.timeline, record)
      \/ ~History!IsTimelineEvent(record) /\ timeline = s.timeline
  BY <1>0, AppendFacts DEF TimelineInv
<1>4. "runtime" \in History!Threads /\ "worker" \in History!Threads /\ t \in {"runtime", "worker"}
  BY DEF History!Threads
<1> HIDE DEF thread, timeline
<1>5. /\ IsRecorder(state') /\ state'.thread = thread /\ state'.attached = s.attached
      /\ state'.events = s.events /\ state'.open = s.open /\ state'.next = s.next
      /\ state'.subscribed = s.subscribed /\ state'.timeline = timeline
      /\ state'.pending = s.pending /\ state'.closed = s.closed /\ state'.entries = s.entries
      /\ state'.pushed = s.pushed /\ state'.file = s.file
      /\ state'.file_enabled = s.file_enabled
  BY <1>0, <1>1 DEF IsRecorder
<1>6. ThreadInv(state')
  BY <1>0, <1>1, <1>2, <1>5 DEF ThreadInv, ProceedsTo, Stages, History!Threads
<1>7. HubInv(state')
  <2>1. \A evs, id : Publishes(state', {"events"}, evs, id) <=> Publishes(s, {"events"}, evs, id)
    BY <1>0, <1>1, <1>2, <1>4, <1>5 DEF ThreadInv, ProceedsTo, Publishes
  <2> QED
    BY <1>0, <1>5, <2>1 DEF HubInv
<1>8. FileInv(state')
  BY <1>0, <1>5 DEF FileInv
<1>9. TimelineInv(state')
  <2> DEFINE m == Len(s.timeline) + 1
  <2>0. DOMAIN s.timeline = 1..Len(s.timeline) /\ Len(s.timeline) \in Nat
    BY <1>0, SeqFacts DEF TimelineInv
  <2>1. CASE timeline = s.timeline
    <3>1. ~(record.event \in History!ActionEvents) /\ ~(record.event \in Settling)
          /\ record.event # "requested"
      BY <1>3, <2>0, <2>1 DEF IsAppendOf, History!IsTimelineEvent, History!ActionEvents, Settling
    <3>2. \A id : /\ ~Publishes(state', Unlogged, Settling, id)
                     \/ Publishes(s, Unlogged, Settling, id)
                  /\ ~Publishes(s, Unlogged, {"requested"}, id)
                     \/ Publishes(state', Unlogged, {"requested"}, id)
      BY <1>0, <1>2, <1>4, <1>5, <3>1 DEF ThreadInv, ProceedsTo, Publishes, Unlogged
    <3> QED
      BY <1>0, <1>5, <2>1, <3>2 DEF TimelineInv, Knows
  <2>2. CASE IsAppendOf(timeline, s.timeline, record) /\ History!IsTimelineEvent(record)
    <3>1. /\ record.event \in History!ActionEvents \cup {"log"}
          /\ record.event \in History!ActionEvents => t = "runtime"
          /\ record.event \in Settling =>
               /\ record.id \notin s.open /\ record.id \in Nat /\ record.id < s.next
               /\ Knows(s, record.id) /\ ~Has(s.timeline, Settling, record.id)
      <4>1. record.event \in History!ActionEvents \cup {"log"}
        BY <2>2 DEF History!IsTimelineEvent
      <4>2. record.event \in History!ActionEvents => t = "runtime"
        BY <1>0, <1>1, <1>4 DEF ThreadInv, Stages, Others, History!ActionEvents
      <4>3. record.event \in Settling => t = "runtime"
        BY <4>2 DEF Settling, History!ActionEvents
      <4>4. record.event \in Settling => Publishes(s, Unlogged, Settling, record.id)
        BY <1>1, <4>3 DEF Publishes, Unlogged
      <4>5. record.event \in Settling =>
               record.id \notin s.open /\ record.id \in Nat /\ record.id < s.next
        BY <1>0, <1>1, <4>3 DEF ThreadInv, Stages
      <4> QED
        BY <1>0, <4>1, <4>2, <4>4, <4>5 DEF TimelineInv
    <3>2. /\ IsSeq(timeline) /\ DOMAIN timeline = DOMAIN s.timeline \cup {m} /\ timeline[m] = record
          /\ \A i \in DOMAIN s.timeline : timeline[i] = s.timeline[i] /\ i < m
      BY <2>0, <2>2 DEF IsAppendOf
    <3> HIDE DEF record, m
    <3>3. \A i \in DOMAIN timeline : timeline[i].event \in History!ActionEvents \cup {"log"}
      BY <1>0, <3>1, <3>2 DEF TimelineInv
    <3>4. ASSUME NEW i \in DOMAIN timeline, timeline[i].event \in Settling
          PROVE  /\ timeline[i].id \notin s.open /\ timeline[i].id \in Nat
                 /\ timeline[i].id < s.next
                 /\ \/ timeline[i].id \in DOMAIN s.pending
                    \/ \E j \in DOMAIN timeline : j < i /\ timeline[j].event = "requested"
                                                  /\ timeline[j].id = timeline[i].id
      <4>1. CASE i \in DOMAIN s.timeline
        BY <1>0, <3>2, <3>4, <4>1 DEF TimelineInv
      <4>2. CASE i = m
        BY <3>1, <3>2, <3>4, <4>2 DEF Knows, Has
      <4> QED
        BY <3>2, <4>1, <4>2
    <3>5. ASSUME NEW i \in DOMAIN timeline, NEW j \in DOMAIN timeline,
                 timeline[i].event \in Settling, timeline[j].event \in Settling,
                 timeline[i].id = timeline[j].id
          PROVE  i = j
      <4>1. i \in DOMAIN s.timeline => j \in DOMAIN s.timeline
        BY <3>1, <3>2, <3>5 DEF Has
      <4>2. j \in DOMAIN s.timeline => i \in DOMAIN s.timeline
        BY <3>1, <3>2, <3>5 DEF Has
      <4> QED
        BY <1>0, <3>2, <3>5, <4>1, <4>2 DEF TimelineInv
    <3>6. \A id : Knows(s, id) => Knows(state', id)
      BY <1>5, <3>2 DEF Knows, Has
    <3>7. \A id : ~Publishes(state', Unlogged, Settling, id)
                  \/ (Publishes(s, Unlogged, Settling, id) /\ t = "worker")
      BY <1>0, <1>2, <1>4, <1>5 DEF ThreadInv, ProceedsTo, Publishes, Unlogged
    <3>8. t = "worker" => \A id : ~Has(s.timeline, Settling, id) => ~Has(timeline, Settling, id)
      BY <3>1, <3>2 DEF Has, Settling, History!ActionEvents
    <3>9. ASSUME NEW id \in s.open
          PROVE  Knows(state', id) \/ Publishes(state', Unlogged, {"requested"}, id)
      <4>1. CASE Publishes(s, Unlogged, {"requested"}, id) /\ t = "runtime"
        <5>1. record.event = "requested" /\ record.id = id
          BY <4>1 DEF Publishes, record
        <5> QED
          BY <1>5, <3>2, <5>1 DEF Knows, Has
      <4>2. CASE Publishes(s, Unlogged, {"requested"}, id) /\ t = "worker"
        BY <1>0, <1>2, <1>4, <1>5, <4>2 DEF ThreadInv, ProceedsTo, Publishes
      <4> QED
        BY <1>0, <1>4, <3>6, <4>1, <4>2 DEF TimelineInv
    <3> QED
      BY <1>0, <1>5, <3>2, <3>3, <3>4, <3>5, <3>6, <3>7, <3>8, <3>9 DEF TimelineInv
  <2> QED
    BY <1>3, <2>1, <2>2
<1> QED
  BY <1>5, <1>6, <1>7, <1>8, <1>9 DEF RecorderInv

LEMMA SendKeeps ==
  ASSUME RecorderInv(state), NEW t \in History!Threads, History!Send(t)
  PROVE  RecorderInv(state')
<1> DEFINE s == state
           thread == [s.thread EXCEPT ![t] = History!NoRecord]
           queue == Append(s.queue, s.thread[t].record)
           sent == Append(s.sent, s.thread[t].record)
<1>0. IsRecorder(s) /\ ThreadInv(s) /\ HubInv(s) /\ TimelineInv(s) /\ FileInv(s)
  BY DEF RecorderInv
<1>1. /\ s.thread[t].stage = "sink"
      /\ state' = [s EXCEPT !.thread = thread, !.queue = queue, !.sent = sent]
  BY DEF History!Send, History!AtStage
<1>2. ProceedsTo(thread, s.thread, t, "idle")
  BY <1>0, NoRecordIsIdle DEF ThreadInv, ProceedsTo
<1> HIDE DEF thread, queue, sent
<1>4. "runtime" \in History!Threads /\ "worker" \in History!Threads /\ t \in {"runtime", "worker"}
  BY DEF History!Threads
<1>5. /\ IsRecorder(state') /\ state'.thread = thread /\ state'.attached = s.attached
      /\ state'.events = s.events /\ state'.open = s.open /\ state'.next = s.next
      /\ state'.subscribed = s.subscribed /\ state'.timeline = s.timeline
      /\ state'.pending = s.pending /\ state'.closed = s.closed /\ state'.entries = s.entries
      /\ state'.pushed = s.pushed /\ state'.file = s.file
      /\ state'.file_enabled = s.file_enabled
  BY <1>0, <1>1 DEF IsRecorder
<1>6. ThreadInv(state')
  BY <1>0, <1>1, <1>2, <1>5 DEF ThreadInv, ProceedsTo, Stages, History!Threads
<1>7. /\ HubInv(state') /\ TimelineInv(state')
  <2>1. \A evs, id : /\ Publishes(state', {"events"}, evs, id) <=> Publishes(s, {"events"}, evs, id)
                     /\ Publishes(state', Unlogged, evs, id) <=> Publishes(s, Unlogged, evs, id)
    BY <1>0, <1>1, <1>2, <1>4, <1>5 DEF ThreadInv, ProceedsTo, Publishes, Unlogged
  <2> QED
    BY <1>0, <1>5, <2>1 DEF HubInv, TimelineInv, Knows
<1>8. FileInv(state')
  BY <1>0, <1>5 DEF FileInv
<1> QED
  BY <1>5, <1>6, <1>7, <1>8 DEF RecorderInv

\* An idle thread begins to publish a record.
Starts(t, record) ==
  /\ Begins(state'.thread, state.thread, t, record) /\ IsRecorder(state')
  /\ state.thread[t].stage = "idle" /\ ~state.closed
  /\ state'.attached = state.attached /\ state'.events = state.events
  /\ state'.subscribed = state.subscribed /\ state'.timeline = state.timeline
  /\ state'.pending = state.pending /\ state'.closed = state.closed
  /\ state'.entries = state.entries /\ state'.pushed = state.pushed
  /\ state'.file = state.file /\ state'.file_enabled = state.file_enabled

LEMMA RequestKeeps ==
  ASSUME RecorderInv(state), NEW command, History!Request(command)
  PROVE  RecorderInv(state')
<1> DEFINE s == state
           id == s.next
           record == History!Requested(s.next, History!Resolved(command))
           thread == History!Begin("runtime", record)
           open == s.open \cup {id}
<1>0. IsRecorder(s) /\ ThreadInv(s) /\ HubInv(s) /\ TimelineInv(s) /\ FileInv(s)
  BY DEF RecorderInv
<1>1. /\ s.thread["runtime"].stage = "idle" /\ ~s.closed
      /\ state' = [s EXCEPT !.next = @ + 1, !.open = open, !.thread = thread]
  BY DEF History!Request, History!IsIdle
<1>2. "runtime" \in History!Threads /\ "worker" \in History!Threads
  BY DEF History!Threads
<1>3. Begins(thread, s.thread, "runtime", record)
  BY <1>0, <1>2, BeginFacts
<1>4. record.event = "requested" /\ record.id = id
  BY DEF History!Requested
<1> HIDE DEF thread, record, open
<1>5. /\ state'.thread = thread /\ state'.open = open /\ state'.next = s.next + 1
      /\ Starts("runtime", record)
  BY <1>0, <1>1, <1>3 DEF IsRecorder, Starts
<1>6. ThreadInv(state')
  BY <1>0, <1>2, <1>3, <1>4, <1>5 DEF ThreadInv, Begins, open, Starts, Settling, Stages, History!Threads, History!ActionEvents
<1>7. /\ \A x : Publishes(state', {"events"}, {"requested"}, x) <=> x = id
      /\ \A x : Publishes(state', Unlogged, {"requested"}, x) <=> x = id
      /\ \A x : ~Publishes(state', {"events"}, Settling, x)
      /\ \A x : ~Publishes(state', Unlogged, Settling, x)
      /\ \A x, stages, evs : stages \subseteq Stages => ~Publishes(s, stages, evs, x)
  BY <1>0, <1>1, <1>2, <1>3, <1>4, <1>5 DEF Begins, Publishes, Unlogged, Settling, Stages
<1>8. HubInv(state')
  BY <1>0, <1>5, <1>7 DEF HubInv, open, Starts, Stages
<1>9. TimelineInv(state')
  <2>1. \A i \in DOMAIN s.timeline : s.timeline[i].event \in Settling =>
          s.timeline[i].id \notin open /\ s.timeline[i].id < s.next + 1
    BY <1>0 DEF TimelineInv, ThreadInv, open
  <2>2. \A x \in open : Knows(state', x) \/ Publishes(state', Unlogged, {"requested"}, x)
    BY <1>0, <1>5, <1>7 DEF TimelineInv, open, Starts, Stages, Unlogged, Knows
  <2> QED
    BY <1>0, <1>5, <1>7, <2>1, <2>2 DEF TimelineInv, Starts
<1>10. FileInv(state')
  BY <1>0, <1>5 DEF FileInv, Starts
<1> QED
  BY <1>5, <1>6, <1>8, <1>9, <1>10 DEF RecorderInv, Starts

LEMMA SettleKeeps ==
  ASSUME RecorderInv(state), NEW record, record.event \in Settling, History!Settle(record)
  PROVE  RecorderInv(state')
<1> DEFINE s == state
           id == record.id
           thread == History!Begin("runtime", record)
           open == s.open \ {id}
<1>0. IsRecorder(s) /\ ThreadInv(s) /\ HubInv(s) /\ TimelineInv(s) /\ FileInv(s)
  BY DEF RecorderInv
<1>1. /\ s.thread["runtime"].stage = "idle" /\ ~s.closed /\ id \in s.open
      /\ state' = [s EXCEPT !.open = open, !.thread = thread]
  BY DEF History!Settle, History!IsIdle
<1>2. "runtime" \in History!Threads /\ "worker" \in History!Threads
  BY DEF History!Threads
<1>3. Begins(thread, s.thread, "runtime", record)
  BY <1>0, <1>2, BeginFacts
<1> HIDE DEF thread, open
<1>5. /\ state'.thread = thread /\ state'.open = open /\ state'.next = s.next
      /\ Starts("runtime", record)
  BY <1>0, <1>1, <1>3 DEF IsRecorder, Starts
<1>6. ThreadInv(state')
  BY <1>0, <1>1, <1>2, <1>3, <1>5 DEF ThreadInv, Begins, open, Starts, Settling, Stages, History!Threads, History!ActionEvents
<1>7. /\ \A x : Publishes(state', {"events"}, Settling, x) <=> x = id
      /\ \A x : Publishes(state', Unlogged, Settling, x) <=> x = id
      /\ \A x, stages, evs : stages \subseteq Stages => ~Publishes(s, stages, evs, x)
  BY <1>0, <1>1, <1>2, <1>3, <1>5 DEF Begins, Publishes, Unlogged, Settling, Stages
<1>8. HubInv(state')
  BY <1>0, <1>1, <1>5, <1>7 DEF HubInv, open, Starts, Stages
<1>9. TimelineInv(state')
  <2>1. Knows(s, id) /\ ~Has(s.timeline, Settling, id)
    BY <1>0, <1>1, <1>7 DEF TimelineInv, Unlogged, Stages, Has
  <2>2. \A x : Knows(state', x) <=> Knows(s, x)
    BY <1>5 DEF Starts, Knows
  <2>3. \A x \in open : Knows(s, x)
    BY <1>0, <1>7 DEF TimelineInv, open, Unlogged, Stages
  <2> QED
    BY <1>0, <1>5, <1>7, <2>1, <2>2, <2>3 DEF TimelineInv, Starts, open
<1>10. FileInv(state')
  BY <1>0, <1>5 DEF FileInv, Starts
<1> QED
  BY <1>5, <1>6, <1>8, <1>9, <1>10 DEF RecorderInv, Starts

\* A message or measurements, which no action waits for.
LEMMA StartOtherKeeps ==
  ASSUME RecorderInv(state), NEW t \in History!Threads, NEW record, record.event \in Others,
         t = "runtime" => record.event = "log",
         Starts(t, record), state'.open = state.open, state'.next = state.next
  PROVE  RecorderInv(state')
<1> DEFINE s == state
<1>0. IsRecorder(s) /\ ThreadInv(s) /\ HubInv(s) /\ TimelineInv(s) /\ FileInv(s)
  BY DEF RecorderInv
<1>2. "runtime" \in History!Threads /\ "worker" \in History!Threads /\ t \in {"runtime", "worker"}
  BY DEF History!Threads
<1>6. ThreadInv(state')
  BY <1>0, <1>2 DEF ThreadInv, Begins, Starts, Settling, Others, Stages, History!Threads, History!ActionEvents
<1>7. \A x, evs : evs \in {Settling, {"requested"}} =>
        /\ Publishes(state', {"events"}, evs, x) <=> Publishes(s, {"events"}, evs, x)
        /\ Publishes(state', Unlogged, evs, x) <=> Publishes(s, Unlogged, evs, x)
  BY <1>0, <1>2 DEF ThreadInv, Begins, Starts, Publishes, Unlogged, Settling, Others
<1>8. HubInv(state')
  BY <1>0, <1>7 DEF HubInv, Starts
<1>9. TimelineInv(state')
  <2>2. \A x : Knows(state', x) <=> Knows(s, x)
    BY DEF Starts, Knows
  <2> QED
    BY <1>0, <1>7, <2>2 DEF TimelineInv, Starts
<1>10. FileInv(state')
  BY <1>0 DEF FileInv, Starts
<1> QED
  BY <1>6, <1>8, <1>9, <1>10 DEF RecorderInv, Starts

LEMMA RecordOtherKeeps ==
  ASSUME RecorderInv(state), NEW record, record.event \in Others, History!RecordOther(record)
  PROVE  RecorderInv(state')
<1> DEFINE thread == History!Begin("worker", record)
<1>1. /\ state.thread["worker"].stage = "idle" /\ ~state.closed
      /\ state' = [state EXCEPT !.others = @ + 1, !.thread = thread]
  BY DEF History!RecordOther, History!IsIdle
<1>2. Begins(thread, state.thread, "worker", record)
  BY BeginFacts DEF RecorderInv, History!Threads
<1> HIDE DEF thread
<1>3. Starts("worker", record) /\ state'.open = state.open /\ state'.next = state.next
  BY <1>1, <1>2 DEF RecorderInv, IsRecorder, Starts
<1> QED
  BY <1>3, StartOtherKeeps DEF History!Threads

LEMMA TakeErrorKeeps ==
  ASSUME RecorderInv(state), History!TakeError
  PROVE  RecorderInv(state')
<1> DEFINE record == History!Message(0)
           thread == History!Begin("runtime", record)
<1>1. /\ state.thread["runtime"].stage = "idle" /\ ~state.closed
      /\ state' = [state EXCEPT !.error = FALSE, !.reported = TRUE, !.thread = thread]
  BY DEF History!TakeError, History!IsIdle
<1>2. Begins(thread, state.thread, "runtime", record)
  BY BeginFacts DEF RecorderInv, History!Threads
<1>4. record.event = "log"
  BY DEF History!Message
<1> HIDE DEF thread, record
<1>3. Starts("runtime", record) /\ state'.open = state.open /\ state'.next = state.next
  BY <1>1, <1>2 DEF RecorderInv, IsRecorder, Starts
<1> QED
  BY <1>3, <1>4, StartOtherKeeps DEF History!Threads, Others

\* Steps that the hub, the timeline and the log do not see.
Unseen ==
  /\ IsRecorder(state') /\ state'.next = state.next /\ state'.open = state.open
  /\ state'.thread = state.thread /\ state'.attached = state.attached
  /\ state'.events = state.events /\ state'.timeline = state.timeline
  /\ state'.pending = state.pending /\ state'.entries = state.entries
  /\ state'.pushed = state.pushed /\ state'.file = state.file
  /\ state'.file_enabled = state.file_enabled

LEMMA UnseenKeeps ==
  ASSUME RecorderInv(state), Unseen,
         state'.subscribed => state.subscribed,
         state'.closed => \A t \in History!Threads : state.thread[t].stage = "idle"
  PROVE  RecorderInv(state')
<1>1. \A stages, evs, id : Publishes(state', stages, evs, id) <=> Publishes(state, stages, evs, id)
  BY DEF Publishes, Unseen
<1>2. \A id : Knows(state', id) <=> Knows(state, id)
  BY DEF Knows, Unseen
<1>3. ThreadInv(state')
  BY DEF RecorderInv, ThreadInv, Unseen
<1>4. HubInv(state')
  BY <1>1 DEF RecorderInv, HubInv, Unseen
<1>5. TimelineInv(state')
  BY <1>1, <1>2 DEF RecorderInv, TimelineInv, Unseen
<1>6. FileInv(state')
  BY DEF RecorderInv, FileInv, Unseen
<1> QED
  BY <1>3, <1>4, <1>5, <1>6 DEF RecorderInv, Unseen

\* The log is shown with its latest entries.
LEMMA PushFacts ==
  ASSUME NEW entries, IsSeq(entries), \A i \in DOMAIN entries : entries[i].named,
         MaxLogEntries \in Nat \ {0}, Len(entries) <= MaxLogEntries,
         NEW entry, entry.named, NEW r, r = History!Pushed(entries, entry)
  PROVE  IsSeq(r) /\ Len(r) <= MaxLogEntries /\ \A i \in DOMAIN r : r[i].named
<1>1. CASE Len(entries) >= MaxLogEntries
  <2> DEFINE q == Tail(entries)
  <2>1. entries # << >>
    BY <1>1, EmptyFacts
  <2>2. IsTailOf(q, entries)
    BY <2>1, TailFacts
  <2>3. Len(entries) \in Nat
    BY SeqFacts
  <2>4. r = Append(q, entry)
    BY <1>1 DEF History!Pushed
  <2> HIDE DEF q
  <2>5. IsAppendOf(r, q, entry)
    BY <2>2, <2>4, AppendFacts DEF IsTailOf
  <2> QED
    BY <2>2, <2>3, <2>5 DEF IsAppendOf, IsTailOf
<1>2. CASE ~(Len(entries) >= MaxLogEntries)
  <2>1. r = Append(entries, entry)
    BY <1>2 DEF History!Pushed
  <2>2. IsAppendOf(r, entries, entry) /\ Len(entries) \in Nat
    BY <2>1, AppendFacts, SeqFacts
  <2> QED
    BY <1>2, <2>2 DEF IsAppendOf
<1> QED
  BY <1>1, <1>2

LEMMA PushMessageKeeps ==
  ASSUME NEW s, IsRecorder(s), FileInv(s), MaxLogEntries \in Nat \ {0},
         NEW entry, entry.named, NEW fails \in BOOLEAN,
         NEW t, t = History!PushMessage(s, entry, fails)
  PROVE  /\ IsRecorder(t) /\ FileInv(t)
         /\ t.thread = s.thread /\ t.open = s.open /\ t.next = s.next
         /\ t.attached = s.attached /\ t.events = s.events /\ t.subscribed = s.subscribed
         /\ t.timeline = s.timeline /\ t.pending = s.pending /\ t.closed = s.closed
         /\ t.queue = s.queue /\ t.sent = s.sent /\ t.running = s.running
         /\ t.available = s.available /\ t.error = s.error /\ t.reported = s.reported
         /\ t.rows = s.rows /\ t.logs = s.logs /\ t.measurements = s.measurements
         /\ t.ended = s.ended
<1> DEFINE once == History!Pushed(s.entries, entry)
           twice == History!Pushed(once, History!Disabled)
           misses == s.file_enabled /\ fails
           writes == s.file_enabled /\ ~fails
           entries == IF misses THEN twice ELSE once
           pushed == Append(s.pushed, entry)
           file == IF writes THEN Append(s.file, entry) ELSE s.file
<1>1. t = [s EXCEPT !.entries = entries, !.pushed = pushed, !.file = file,
                    !.file_enabled = writes]
  BY DEF IsRecorder, History!PushMessage
<1>2. IsSeq(once) /\ Len(once) <= MaxLogEntries /\ \A i \in DOMAIN once : once[i].named
  BY PushFacts DEF FileInv
<1>3. History!Disabled.named
  BY DEF History!Disabled
<1> HIDE DEF once
<1>4. IsSeq(twice) /\ Len(twice) <= MaxLogEntries /\ \A i \in DOMAIN twice : twice[i].named
  BY <1>2, <1>3, PushFacts
<1> HIDE DEF twice
<1>5. IsSeq(entries) /\ Len(entries) <= MaxLogEntries /\ \A i \in DOMAIN entries : entries[i].named
  BY <1>2, <1>4
<1>6. IsAppendOf(pushed, s.pushed, entry)
  BY AppendFacts DEF FileInv
<1>7. \/ writes /\ IsAppendOf(file, s.file, entry)
      \/ ~writes /\ file = s.file
  BY AppendFacts DEF FileInv
<1>8. writes => s.file_enabled
  OBVIOUS
<1> HIDE DEF entries, pushed, file, writes
<1>9. /\ IsRecorder(t) /\ t.entries = entries /\ t.pushed = pushed /\ t.file = file
      /\ t.file_enabled = writes
      /\ t.thread = s.thread /\ t.open = s.open /\ t.next = s.next
      /\ t.attached = s.attached /\ t.events = s.events /\ t.subscribed = s.subscribed
      /\ t.timeline = s.timeline /\ t.pending = s.pending /\ t.closed = s.closed
      /\ t.queue = s.queue /\ t.sent = s.sent /\ t.running = s.running
      /\ t.available = s.available /\ t.error = s.error /\ t.reported = s.reported
      /\ t.rows = s.rows /\ t.logs = s.logs /\ t.measurements = s.measurements
      /\ t.ended = s.ended
  BY ZenonT(40), <1>1 DEF IsRecorder
<1>10. Len(s.file) \in Nat /\ Len(s.pushed) \in Nat /\ DOMAIN s.file = 1..Len(s.file)
       /\ DOMAIN s.pushed = 1..Len(s.pushed)
  BY SeqFacts DEF FileInv
<1>11. Len(s.file) <= Len(s.pushed) /\ s.file_enabled => Len(s.file) = Len(s.pushed)
  BY DEF FileInv
<1>12. /\ IsSeq(file) /\ IsSeq(pushed) /\ Len(file) <= Len(pushed)
       /\ writes => Len(file) = Len(pushed)
  BY <1>6, <1>7, <1>8, <1>10 DEF FileInv, IsAppendOf
<1>13. \A i \in DOMAIN file : file[i] = pushed[i]
  BY <1>6, <1>7, <1>8, <1>10 DEF FileInv, IsAppendOf
<1> QED
  BY <1>5, <1>9, <1>12, <1>13 DEF FileInv

LEMMA LogRecordKeeps ==
  ASSUME RecorderInv(state), MaxLogEntries \in Nat \ {0}, NEW fails \in BOOLEAN,
         History!LogRecord(fails)
  PROVE  RecorderInv(state')
<1> DEFINE s == state
           record == Head(s.timeline)
           timeline == Tail(s.timeline)
           pending == IF record.event = "requested"
                      THEN [id \in DOMAIN s.pending \cup {record.id} |->
                              IF id = record.id THEN record.action ELSE s.pending[id]]
                      ELSE History!Outstanding(s.pending, record)
<1>0. IsRecorder(s) /\ ThreadInv(s) /\ HubInv(s) /\ TimelineInv(s) /\ FileInv(s)
  BY DEF RecorderInv
<1>1. s.timeline # << >> /\ IsTailOf(timeline, s.timeline)
  BY <1>0, TailFacts DEF History!LogRecord, TimelineInv
<1>t. PICK taken : taken = [s EXCEPT !.timeline = timeline, !.pending = pending]
  OBVIOUS
<1>2. \/ record.event = "requested" /\ state' = taken
      \/ /\ record.event # "requested"
         /\ state' = History!PushMessage(taken, History!Entry(record), fails)
  BY <1>0, <1>t DEF History!LogRecord, IsRecorder
<1>3. record = s.timeline[1] /\ 1 \in DOMAIN s.timeline
  BY <1>1 DEF IsTailOf
<1>4. record.event \in History!ActionEvents \cup {"log"}
  BY <1>0, <1>3 DEF TimelineInv
<1>5. record.event \in Settling => record.id \in DOMAIN s.pending
  <2>1. \A j \in DOMAIN s.timeline : ~(j < 1)
    BY <1>0, SeqFacts DEF TimelineInv
  <2> QED
    BY <1>0, <1>3, <2>1 DEF TimelineInv
<1>6. record.event # "requested" => History!Entry(record).named
  BY <1>4, <1>5 DEF History!Entry, History!IsNamed, History!ActionEvents, Settling
<1>7. DOMAIN pending = IF record.event = "requested" THEN DOMAIN s.pending \cup {record.id}
                       ELSE IF record.event = "log" THEN DOMAIN s.pending
                       ELSE DOMAIN s.pending \ {record.id}
  BY DEF History!Outstanding
<1> HIDE DEF record, timeline, pending
<1>r. IsRecorder(s)
  BY <1>0
<1>8. /\ IsRecorder(taken) /\ taken.thread = s.thread /\ taken.open = s.open
      /\ taken.next = s.next /\ taken.attached = s.attached /\ taken.events = s.events
      /\ taken.subscribed = s.subscribed /\ taken.timeline = timeline
      /\ taken.pending = pending /\ taken.closed = s.closed /\ taken.entries = s.entries
      /\ taken.pushed = s.pushed /\ taken.file = s.file /\ taken.file_enabled = s.file_enabled
  BY <1>r, <1>t DEF IsRecorder
<1>9. FileInv(taken)
  BY <1>0, <1>8 DEF FileInv
<1>10. /\ IsRecorder(state') /\ FileInv(state') /\ state'.thread = s.thread
       /\ state'.open = s.open /\ state'.next = s.next /\ state'.attached = s.attached
       /\ state'.events = s.events /\ state'.subscribed = s.subscribed
       /\ state'.timeline = timeline /\ state'.pending = pending /\ state'.closed = s.closed
  BY <1>2, <1>6, <1>8, <1>9, PushMessageKeeps
<1>11. \A stages, evs, id : Publishes(state', stages, evs, id) <=> Publishes(s, stages, evs, id)
  BY <1>10 DEF Publishes
<1>12. ThreadInv(state')
  BY <1>0, <1>10 DEF ThreadInv
<1>13. HubInv(state')
  BY <1>0, <1>10, <1>11 DEF HubInv
<1>14. TimelineInv(state')
  <2>0. \A i \in DOMAIN timeline : i + 1 \in DOMAIN s.timeline /\ timeline[i] = s.timeline[i + 1]
                                  /\ i \in Nat /\ i # 0
    BY <1>1 DEF IsTailOf
  <2>p. DOMAIN s.timeline = 1..Len(s.timeline) /\ Len(s.timeline) \in Nat
        /\ DOMAIN timeline = 1..Len(timeline) /\ Len(timeline) = Len(s.timeline) - 1
    BY <1>0, <1>1, SeqFacts DEF TimelineInv, IsTailOf
  \* What was known is known, unless it is the action that has been settled now.
  <2>1. \A id : Knows(s, id) /\ ~(record.event \in Settling /\ record.id = id) => Knows(state', id)
    <3> SUFFICES ASSUME NEW id, Knows(s, id), ~(record.event \in Settling /\ record.id = id)
                 PROVE  Knows(state', id)
      OBVIOUS
    <3>1. CASE id \in DOMAIN s.pending
      BY <1>4, <1>7, <1>10, <3>1 DEF Knows, History!ActionEvents, Settling
    <3>2. CASE Has(s.timeline, {"requested"}, id)
      <4>1. PICK i \in DOMAIN s.timeline : s.timeline[i].event = "requested" /\ s.timeline[i].id = id
        BY <3>2 DEF Has
      <4>2. CASE i = 1
        BY <1>3, <1>7, <1>10, <4>1, <4>2 DEF Knows
      <4>3. CASE i # 1
        <5>1. i - 1 \in DOMAIN timeline /\ timeline[i - 1] = s.timeline[i]
          BY <2>0, <2>p, <4>3
        <5> QED
          BY <1>10, <4>1, <5>1 DEF Knows, Has
      <4> QED
        BY <4>2, <4>3
    <3> QED
      BY <3>1, <3>2 DEF Knows
  <2>2. ASSUME NEW i \in DOMAIN timeline, timeline[i].event \in Settling
        PROVE  /\ timeline[i].id \notin s.open /\ timeline[i].id \in Nat
               /\ timeline[i].id < s.next
               /\ \/ timeline[i].id \in DOMAIN pending
                  \/ \E j \in DOMAIN timeline : j < i /\ timeline[j].event = "requested"
                                                /\ timeline[j].id = timeline[i].id
    <3>1. /\ i + 1 \in DOMAIN s.timeline /\ timeline[i] = s.timeline[i + 1] /\ i \in Nat /\ i + 1 # 1
      BY <2>0
    <3>2. ~(record.event \in Settling /\ record.id = timeline[i].id)
      BY <1>0, <1>3, <2>2, <3>1 DEF TimelineInv
    <3>3. CASE timeline[i].id \in DOMAIN s.pending
      <4>1. timeline[i].id \in DOMAIN pending
        BY <1>4, <1>7, <3>2, <3>3 DEF History!ActionEvents, Settling
      <4> QED
        BY <1>0, <2>2, <3>1, <4>1 DEF TimelineInv
    <3>4. ASSUME NEW j \in DOMAIN s.timeline, j < i + 1, s.timeline[j].event = "requested",
                 s.timeline[j].id = timeline[i].id
          PROVE  \/ timeline[i].id \in DOMAIN pending
                 \/ \E k \in DOMAIN timeline : k < i /\ timeline[k].event = "requested"
                                               /\ timeline[k].id = timeline[i].id
      <4>1. CASE j = 1
        BY <1>3, <1>7, <3>4, <4>1
      <4>2. CASE j # 1
        <5>1. j - 1 \in DOMAIN timeline /\ timeline[j - 1] = s.timeline[j] /\ j - 1 < i
          BY <2>0, <2>p, <3>1, <3>4, <4>2
        <5> QED
          BY <3>4, <5>1
      <4> QED
        BY <4>1, <4>2
    <3> QED
      BY <1>0, <2>2, <3>1, <3>3, <3>4 DEF TimelineInv
  <2>3. \A i \in DOMAIN timeline : timeline[i].event \in History!ActionEvents \cup {"log"}
    BY <1>0, <2>0 DEF TimelineInv
  <2>4. ASSUME NEW i \in DOMAIN timeline, NEW j \in DOMAIN timeline,
               timeline[i].event \in Settling, timeline[j].event \in Settling,
               timeline[i].id = timeline[j].id
        PROVE  i = j
    <3>1. i + 1 = j + 1
      BY <1>0, <2>0, <2>4 DEF TimelineInv
    <3> QED
      BY <2>0, <3>1
  <2>5. \A id : Has(timeline, Settling, id) => Has(s.timeline, Settling, id)
    BY <2>0 DEF Has
  <2>6. ASSUME NEW id, Publishes(s, Unlogged, Settling, id)
        PROVE  Knows(state', id) /\ ~Has(timeline, Settling, id)
    <3>1. Knows(s, id) /\ ~Has(s.timeline, Settling, id)
      BY <1>0, <2>6 DEF TimelineInv
    <3>2. ~(record.event \in Settling /\ record.id = id)
      BY <1>3, <3>1 DEF Has
    <3> QED
      BY <2>1, <2>5, <3>1, <3>2
  <2>7. ASSUME NEW id \in s.open
        PROVE  Knows(state', id) \/ Publishes(s, Unlogged, {"requested"}, id)
    <3>1. ~(record.event \in Settling /\ record.id = id)
      BY <1>0, <1>3 DEF TimelineInv
    <3> QED
      BY <1>0, <2>1, <3>1 DEF TimelineInv
  <2>8. IsSeq(timeline)
    BY <1>1 DEF IsTailOf
  <2> QED
    BY <1>10, <1>11, <2>2, <2>3, <2>4, <2>6, <2>7, <2>8 DEF TimelineInv
<1> QED
  BY <1>10, <1>12, <1>13, <1>14 DEF RecorderInv


LEMMA RecorderNext ==
  MaxLogEntries \in Nat \ {0} /\ RecorderInv(state) /\ History!Next => RecorderInv(state')
<1> SUFFICES ASSUME MaxLogEntries \in Nat \ {0}, RecorderInv(state), History!Next
             PROVE  RecorderInv(state')
  OBVIOUS
<1> DEFINE s == state
<1>r. IsRecorder(s)
  BY DEF RecorderInv
<1>1. ASSUME NEW t \in History!Threads,
             History!PublishEvent(t) \/ History!PublishTimeline(t) \/ History!Send(t)
      PROVE  RecorderInv(state')
  BY <1>1, PublishEventKeeps, PublishTimelineKeeps, SendKeeps
<1>2. ASSUME NEW command \in RecordedCommands, History!Request(command)
      PROVE  RecorderInv(state')
  BY <1>2, RequestKeeps
<1>3. ASSUME NEW record, record.event \in Settling, History!Settle(record)
      PROVE  RecorderInv(state')
  BY <1>3, SettleKeeps
<1>4. \A id, series : History!Failed(id).event \in Settling
                      /\ History!Applied(id, series).event \in Settling
  BY DEF History!Failed, History!Applied, Settling
<1>5. ASSUME NEW n, History!RecordOther(History!Message(n))
                    \/ History!RecordOther(History!MeasurementRecord(n))
      PROVE  RecorderInv(state')
  <2>1. History!Message(n).event \in Others /\ History!MeasurementRecord(n).event \in Others
    BY DEF History!Message, History!MeasurementRecord, Others
  <2> QED
    BY <1>5, <2>1, RecordOtherKeeps
<1>c. s.closed => \A t \in History!Threads : s.thread[t].stage = "idle"
  BY DEF RecorderInv, ThreadInv
<1>6. CASE History!Unsubscribe
  <2>1. state' = [s EXCEPT !.subscribed = FALSE]
    BY <1>6 DEF History!Unsubscribe
  <2>2. Unseen /\ ~state'.subscribed /\ state'.closed = s.closed
    BY <1>r, <2>1 DEF IsRecorder, Unseen
  <2> QED
    BY <1>c, <2>2, UnseenKeeps
<1>7. CASE History!TakeError
  BY <1>7, TakeErrorKeeps
<1>8. CASE History!Close
  <2>1. \A t \in History!Threads : s.thread[t].stage = "idle"
    BY <1>8 DEF History!Close, History!IsIdle
  <2>2. PICK queue : state' = [s EXCEPT !.closed = TRUE, !.queue = queue]
    BY <1>8 DEF History!Close
  <2>3. Unseen /\ state'.subscribed = s.subscribed
    BY <1>r, <2>2 DEF IsRecorder, Unseen
  <2> QED
    BY <2>1, <2>3, UnseenKeeps
<1>9. CASE History!Write \/ History!WriteFails \/ History!Discard \/ History!Shutdown
  <2>1. ASSUME NEW queue, NEW rows, NEW logs, NEW measurements,
               state' = [s EXCEPT !.queue = queue, !.rows = rows, !.logs = logs,
                                  !.measurements = measurements]
        PROVE  Unseen /\ state'.subscribed = s.subscribed /\ state'.closed = s.closed
    BY <1>r, <2>1 DEF IsRecorder, Unseen
  <2>2. CASE History!Write
    <3>1. state' = History!Written(Head(s.queue))
      BY <2>2 DEF History!Write
    <3>2. PICK queue, rows, logs, measurements :
            state' = [s EXCEPT !.queue = queue, !.rows = rows, !.logs = logs,
                               !.measurements = measurements]
      BY <1>r, <3>1 DEF History!Written, IsRecorder
    <3>3. Unseen /\ state'.subscribed = s.subscribed /\ state'.closed = s.closed
      BY <2>1, <3>2
    <3> QED
      BY <1>c, <3>3, UnseenKeeps
  <2>3. CASE History!WriteFails
    <3>1. PICK queue : state' = [s EXCEPT !.queue = queue, !.available = FALSE, !.error = TRUE]
      BY <2>3 DEF History!WriteFails
    <3>2. Unseen /\ state'.subscribed = s.subscribed /\ state'.closed = s.closed
      BY <1>r, <3>1 DEF IsRecorder, Unseen
    <3> QED
      BY <1>c, <3>2, UnseenKeeps
  <2>4. CASE History!Discard
    <3>1. PICK queue : state' = [s EXCEPT !.queue = queue]
      BY <2>4 DEF History!Discard
    <3>2. Unseen /\ state'.subscribed = s.subscribed /\ state'.closed = s.closed
      BY <1>r, <3>1 DEF IsRecorder, Unseen
    <3> QED
      BY <1>c, <3>2, UnseenKeeps
  <2>5. CASE History!Shutdown
    <3>1. PICK queue : state' = [s EXCEPT !.queue = queue, !.running = FALSE, !.ended = TRUE]
      BY <2>5 DEF History!Shutdown
    <3>2. Unseen /\ state'.subscribed = s.subscribed /\ state'.closed = s.closed
      BY <1>r, <3>1 DEF IsRecorder, Unseen
    <3> QED
      BY <1>c, <3>2, UnseenKeeps
  <2> QED
    BY <1>9, <2>2, <2>3, <2>4, <2>5
<1>11. ASSUME NEW fails \in BOOLEAN, History!LogRecord(fails) PROVE RecorderInv(state')
  BY <1>11, LogRecordKeeps
<1> QED
  BY <1>1, <1>2, <1>3, <1>4, <1>5, <1>6, <1>7, <1>8, <1>9, <1>11 DEF History!Next


LEMMA LogIsTold == RecorderInv(state) => History!LogTellsTheHistory
<1> SUFFICES ASSUME RecorderInv(state) PROVE History!LogTellsTheHistory
  OBVIOUS
<1> DEFINE s == state
<1>0. HubInv(s) /\ FileInv(s)
  BY DEF RecorderInv
<1>1. /\ Len(s.file) \in Nat /\ DOMAIN s.file = 1..Len(s.file) /\ IsSeq(s.file)
      /\ Len(s.pushed) \in Nat /\ DOMAIN s.pushed = 1..Len(s.pushed) /\ IsSeq(s.pushed)
  BY <1>0, SeqFacts DEF FileInv
<1>2. ASSUME NEW n \in Nat, n <= Len(s.pushed), n = Len(s.file)
      PROVE  s.file = SubSeq(s.pushed, 1, n)
  <2> DEFINE S == {s.pushed[i] : i \in DOMAIN s.pushed}
             q == SubSeq(s.pushed, 1, n)
  <2>1. s.pushed \in Seq(S)
    BY <1>1 DEF IsSeq
  <2> HIDE DEF S
  <2>2. q \in Seq(S) /\ Len(q) = n /\ \A i \in 1..n : q[i] = s.pushed[i]
    BY <1>1, <1>2, <2>1, SubSeqProperties
  <2>3. s.file \in Seq({s.file[i] : i \in DOMAIN s.file})
    BY <1>1 DEF IsSeq
  <2>4. \A i \in 1..n : s.file[i] = q[i]
    BY <1>0, <1>1, <1>2, <2>2 DEF FileInv
  <2> HIDE DEF q
  <2>5. s.file = q
    BY <1>2, <2>2, <2>3, <2>4, SeqEqual
  <2> QED
    BY <2>5 DEF q
<1>3. s.file = SubSeq(s.pushed, 1, Len(s.file))
  BY <1>0, <1>1, <1>2 DEF FileInv
<1>4. s.file_enabled => s.file = s.pushed
  <2> SUFFICES ASSUME s.file_enabled PROVE s.file = s.pushed
    OBVIOUS
  <2>1. Len(s.file) = Len(s.pushed)
    BY <1>0 DEF FileInv
  <2> QED
    BY <1>0, <1>1, <2>1, SameSeq DEF FileInv
<1>5. ASSUME NEW i \in DOMAIN s.events, s.events[i].event \in {"applied", "failed"}
      PROVE  \E j \in 1..(i - 1) : /\ s.events[j].event = "requested"
                                   /\ s.events[j].id = s.events[i].id
  <2>1. PICK j \in DOMAIN s.events : j < i /\ s.events[j].event = "requested"
                                     /\ s.events[j].id = s.events[i].id
    BY <1>0, <1>5 DEF HubInv, Settling
  <2>2. DOMAIN s.events = 1..Len(s.events) /\ Len(s.events) \in Nat
    BY <1>0, SeqFacts DEF HubInv
  <2>3. j \in 1..(i - 1)
    BY <2>1, <2>2
  <2> QED
    BY <2>1, <2>3
<1> QED
  BY <1>0, <1>3, <1>4, <1>5 DEF FileInv, History!LogTellsTheHistory

-----------------------------------------------------------------------------
(* The database, after n records. *)
IsRequest(r) == r.event = "requested"
Settles(r) == r.event \in Settling
Past(sent, n, id) == \E i \in 1..n : Settles(sent[i]) /\ sent[i].id = id
Reports(r) == r.event = "applied" /\ r.series # History!None
PlaceOf(sent, i) == Cardinality({j \in 1..i : sent[j].event = sent[i].event})
Count(sent, n, event) == Cardinality({j \in 1..n : sent[j].event = event})

\* What the runtime's thread sends: each action is requested once and then
\* settled once at most.
IsHistory(sent) ==
  /\ IsSeq(sent)
  /\ \A i \in DOMAIN sent : sent[i].event \in History!ActionEvents \cup Others
  /\ \A i, j \in DOMAIN sent : IsRequest(sent[i]) /\ IsRequest(sent[j]) /\ sent[i].id = sent[j].id => i = j
  /\ \A i, j \in DOMAIN sent : Settles(sent[i]) /\ Settles(sent[j]) /\ sent[i].id = sent[j].id => i = j
  /\ \A i \in DOMAIN sent : Settles(sent[i]) =>
       \E j \in DOMAIN sent : j < i /\ IsRequest(sent[j]) /\ sent[j].id = sent[i].id

IsDbRow(row) ==
  row = [kind |-> row.kind, of_connection |-> row.of_connection, series |-> row.series,
         status |-> row.status]

RowsAre(rows, sent, n) ==
  /\ DOMAIN rows = {sent[i].id : i \in {j \in 1..n : IsRequest(sent[j])}}
  /\ \A id \in DOMAIN rows : IsDbRow(rows[id])
  /\ \A i \in 1..n : IsRequest(sent[i]) =>
       /\ rows[sent[i].id].kind = sent[i].action.kind
       /\ ~Past(sent, n, sent[i].id) => rows[sent[i].id].status = "requested"
       /\ (\A j \in 1..n : Reports(sent[j]) => sent[j].id # sent[i].id)
          => rows[sent[i].id].series = sent[i].action.series
  /\ \A i \in 1..n : Settles(sent[i]) => rows[sent[i].id].status = sent[i].event
  /\ \A i \in 1..n : Reports(sent[i]) => rows[sent[i].id].series = sent[i].series

\* The records of a kind which are only appended to a table.
TableIs(table, event, sent, n) ==
  /\ IsSeq(table) /\ Len(table) = Count(sent, n, event)
  /\ \A i \in 1..n : sent[i].event = event =>
       PlaceOf(sent, i) \in DOMAIN table /\ table[PlaceOf(sent, i)] = sent[i].id
  /\ \A k \in DOMAIN table : \E i \in 1..n : sent[i].event = event /\ PlaceOf(sent, i) = k

DataIs(s, sent, n) ==
  /\ RowsAre(s.rows, sent, n)
  /\ TableIs(s.logs, "log", sent, n)
  /\ TableIs(s.measurements, "measurements", sent, n)

-----------------------------------------------------------------------------
LEMMA CountFacts ==
  ASSUME NEW sent, NEW n \in Nat, NEW event
  PROVE  /\ Count(sent, n, event) \in Nat
         /\ sent[n + 1].event = event => Count(sent, n + 1, event) = Count(sent, n, event) + 1
         /\ sent[n + 1].event # event => Count(sent, n + 1, event) = Count(sent, n, event)
<1> DEFINE S == {j \in 1..n : sent[j].event = event}
           T == {j \in 1..(n + 1) : sent[j].event = event}
<1>1. IsFiniteSet(S)
  <2>1. IsFiniteSet(1..n)
    BY FS_Interval
  <2> QED
    BY <2>1, FS_Subset
<1>2. sent[n + 1].event = event => T = S \cup {n + 1}
  OBVIOUS
<1>3. sent[n + 1].event # event => T = S
  OBVIOUS
<1>4. n + 1 \notin S
  OBVIOUS
<1>5. Count(sent, n, event) = Cardinality(S) /\ Count(sent, n + 1, event) = Cardinality(T)
  BY DEF Count
<1> HIDE DEF S, T
<1>6. Cardinality(S) \in Nat
  BY <1>1, FS_CardinalityType
<1>7. Cardinality(S \cup {n + 1}) = Cardinality(S) + 1
  BY <1>1, <1>4, FS_AddElement
<1> QED
  BY <1>2, <1>3, <1>5, <1>6, <1>7

LEMMA SameCardinality == \A S : History!Cardinality(S) = Cardinality(S)
  BY DEF History!Cardinality, Cardinality

LEMMA PlaceIsCount ==
  ASSUME NEW sent, NEW i
  PROVE  PlaceOf(sent, i) = Count(sent, i, sent[i].event)
BY DEF PlaceOf, Count

LEMMA NextIs1 ==
  ASSUME NEW n \in Nat
  PROVE  n + 1 \in Nat /\ \A i : i \in 1..(n + 1) <=> i \in 1..n \/ i = n + 1
OBVIOUS

\* A record of the kind is appended.
LEMMA TableGrows ==
  ASSUME NEW table, NEW event, NEW sent, NEW n \in Nat, TableIs(table, event, sent, n),
         sent[n + 1].event = event, NEW r, r = Append(table, sent[n + 1].id)
  PROVE  TableIs(r, event, sent, n + 1)
<1>1. IsSeq(table) /\ IsAppendOf(r, table, sent[n + 1].id) /\ Len(table) = Count(sent, n, event)
  BY AppendFacts DEF TableIs
<1>2. /\ Count(sent, n + 1, event) = Len(table) + 1
      /\ PlaceOf(sent, n + 1) = Len(table) + 1
  BY <1>1, CountFacts, PlaceIsCount
<1>3. ASSUME NEW i \in 1..(n + 1), sent[i].event = event
      PROVE  PlaceOf(sent, i) \in DOMAIN r /\ r[PlaceOf(sent, i)] = sent[i].id
  BY <1>1, <1>2, <1>3, NextIs1 DEF TableIs, IsAppendOf
<1>4. ASSUME NEW k \in DOMAIN r
      PROVE  \E i \in 1..(n + 1) : sent[i].event = event /\ PlaceOf(sent, i) = k
  <2>1. CASE k = Len(table) + 1
    <3>1. n + 1 \in 1..(n + 1)
      OBVIOUS
    <3> QED
      BY <1>2, <2>1, <3>1
  <2>2. CASE k \in DOMAIN table
    BY <2>2, NextIs1 DEF TableIs
  <2> QED
    BY <1>1, <2>1, <2>2 DEF IsAppendOf
<1> QED
  BY <1>1, <1>2, <1>3, <1>4 DEF TableIs, IsAppendOf

\* A record of another kind is not.
LEMMA TableStays ==
  ASSUME NEW table, NEW event, NEW sent, NEW n \in Nat, TableIs(table, event, sent, n),
         sent[n + 1].event # event
  PROVE  TableIs(table, event, sent, n + 1)
<1>1. Count(sent, n + 1, event) = Count(sent, n, event)
  BY CountFacts
<1> QED
  BY <1>1, NextIs1 DEF TableIs

LEMMA RowsStay ==
  ASSUME NEW rows, NEW sent, NEW n \in Nat, RowsAre(rows, sent, n),
         ~IsRequest(sent[n + 1]), ~Settles(sent[n + 1])
  PROVE  RowsAre(rows, sent, n + 1)
<1>1. /\ {sent[i].id : i \in {j \in 1..(n + 1) : IsRequest(sent[j])}}
         = {sent[i].id : i \in {j \in 1..n : IsRequest(sent[j])}}
      /\ \A id : Past(sent, n + 1, id) <=> Past(sent, n, id)
      /\ ~Reports(sent[n + 1])
  BY NextIs1 DEF Past, Reports, Settles, Settling
<1> QED
  BY <1>1, NextIs1 DEF RowsAre

LEMMA RowIsAdded ==
  ASSUME NEW rows, NEW sent, NEW n \in Nat, RowsAre(rows, sent, n), IsHistory(sent),
         n + 1 \in DOMAIN sent, IsRequest(sent[n + 1]),
         NEW r, r = History!RequestedRows(rows, sent[n + 1])
  PROVE  RowsAre(r, sent, n + 1)
<1> DEFINE record == sent[n + 1]
           new == History!Row(record)
<1>0. Len(sent) \in Nat /\ DOMAIN sent = 1..Len(sent)
  BY SeqFacts DEF IsHistory
<1>1. r = [id \in DOMAIN rows \cup {record.id} |-> IF id = record.id THEN new ELSE rows[id]]
  BY DEF History!RequestedRows
<1>2. /\ new.kind = record.action.kind /\ new.series = record.action.series
      /\ new.status = "requested" /\ IsDbRow(new)
  BY DEF History!Row, IsDbRow
<1>3. ~Settles(record)
  BY DEF Settles, Settling, IsRequest
<1>4. \A i \in 1..n : i \in DOMAIN sent /\ i # n + 1
  BY <1>0
<1>5. \A i \in 1..n : IsRequest(sent[i]) => sent[i].id # record.id
  BY <1>4 DEF IsHistory
<1>6. \A i \in 1..n : Settles(sent[i]) => sent[i].id # record.id
  <2> SUFFICES ASSUME NEW i \in 1..n, Settles(sent[i]), sent[i].id = record.id PROVE FALSE
    OBVIOUS
  <2>1. PICK j \in DOMAIN sent : j < i /\ IsRequest(sent[j]) /\ sent[j].id = record.id
    BY <1>4 DEF IsHistory
  <2>2. j \in 1..n
    BY <1>0, <2>1
  <2> QED
    BY <1>5, <2>1, <2>2
<1>7. /\ \A id : Past(sent, n + 1, id) <=> Past(sent, n, id)
      /\ ~Past(sent, n, record.id)
      /\ ~Reports(record)
      /\ \A i \in 1..n : Reports(sent[i]) => Settles(sent[i])
  BY <1>3, <1>6, NextIs1 DEF Past, Reports, Settles, Settling
<1>8. {sent[i].id : i \in {j \in 1..(n + 1) : IsRequest(sent[j])}}
        = {sent[i].id : i \in {j \in 1..n : IsRequest(sent[j])}} \cup {record.id}
  BY NextIs1
<1>9. DOMAIN r = DOMAIN rows \cup {record.id} /\ r[record.id] = new
      /\ \A id \in DOMAIN rows : id # record.id => r[id] = rows[id]
  BY <1>1
<1>10. \A i \in 1..n : IsRequest(sent[i]) => sent[i].id \in DOMAIN rows
  BY DEF RowsAre
<1>11. \A i \in 1..n : Settles(sent[i]) => sent[i].id \in DOMAIN rows
  <2> SUFFICES ASSUME NEW i \in 1..n, Settles(sent[i]) PROVE sent[i].id \in DOMAIN rows
    OBVIOUS
  <2>1. PICK j \in DOMAIN sent : j < i /\ IsRequest(sent[j]) /\ sent[j].id = sent[i].id
    BY <1>4 DEF IsHistory
  <2>2. j \in 1..n
    BY <1>0, <2>1
  <2> QED
    BY <1>10, <2>1, <2>2
<1> HIDE DEF new, record
<1>d. DOMAIN r = {sent[i].id : i \in {j \in 1..(n + 1) : IsRequest(sent[j])}}
      /\ \A id \in DOMAIN r : IsDbRow(r[id])
  BY <1>2, <1>8, <1>9 DEF RowsAre
<1>e. ASSUME NEW i \in 1..(n + 1), IsRequest(sent[i])
      PROVE  /\ r[sent[i].id].kind = sent[i].action.kind
             /\ ~Past(sent, n + 1, sent[i].id) => r[sent[i].id].status = "requested"
             /\ (\A j \in 1..(n + 1) : Reports(sent[j]) => sent[j].id # sent[i].id)
                => r[sent[i].id].series = sent[i].action.series
  <2>1. CASE i = n + 1
    BY <1>2, <1>9, <2>1 DEF record
  <2>2. CASE i \in 1..n
    <3>1. r[sent[i].id] = rows[sent[i].id]
      BY <1>5, <1>9, <1>10, <1>e, <2>2
    <3> QED
      BY <1>7, <1>e, <2>2, <3>1, NextIs1 DEF RowsAre
  <2> QED
    BY <2>1, <2>2, NextIs1
<1>f. ASSUME NEW i \in 1..(n + 1), Settles(sent[i])
      PROVE  /\ r[sent[i].id].status = sent[i].event
             /\ Reports(sent[i]) => r[sent[i].id].series = sent[i].series
  <2>1. i \in 1..n
    BY <1>3, <1>f, NextIs1 DEF record
  <2>2. r[sent[i].id] = rows[sent[i].id]
    BY <1>6, <1>9, <1>11, <1>f, <2>1
  <2> QED
    BY <1>f, <2>1, <2>2 DEF RowsAre
<1>g. \A i \in 1..(n + 1) : Reports(sent[i]) => Settles(sent[i])
  BY DEF Reports, Settles, Settling
<1> QED
  BY <1>d, <1>e, <1>f, <1>g DEF RowsAre

LEMMA RowIsSettled ==
  ASSUME NEW rows, NEW sent, NEW n \in Nat, RowsAre(rows, sent, n), IsHistory(sent),
         n + 1 \in DOMAIN sent, Settles(sent[n + 1]),
         NEW r, r = History!SettledRows(rows, sent[n + 1])
  PROVE  RowsAre(r, sent, n + 1)
<1>r. PICK record : record = sent[n + 1]
  OBVIOUS
<1>i. PICK id : id = record.id
  OBVIOUS
<1> DEFINE series == IF Reports(record) THEN record.series ELSE rows[id].series
           new == [kind |-> rows[id].kind, of_connection |-> rows[id].of_connection,
                   series |-> series, status |-> record.event]
<1>0. Len(sent) \in Nat /\ DOMAIN sent = 1..Len(sent)
  BY SeqFacts DEF IsHistory
<1>1. PICK q \in 1..n : IsRequest(sent[q]) /\ sent[q].id = id
  BY <1>0, <1>r, <1>i DEF IsHistory
<1>2. id \in DOMAIN rows /\ IsDbRow(rows[id])
  BY <1>1 DEF RowsAre
<1>3. ~IsRequest(record)
  BY <1>r DEF Settles, Settling, IsRequest
<1>4. \A i \in 1..n : i \in DOMAIN sent /\ i # n + 1
  BY <1>0
<1>5. \A i \in 1..n : Settles(sent[i]) => sent[i].id # id
  BY <1>4, <1>r, <1>i DEF IsHistory
<1>6. r = [rows EXCEPT ![id] = new]
  <2>1. CASE record.event = "applied"
    <3>1. r = [rows EXCEPT ![id].status = "applied", ![id].series = History!Or(record.series, @)]
      BY <1>2, <1>i, <1>r, <2>1 DEF History!SettledRows, History!HasRow
    <3>2. History!Or(record.series, rows[id].series) = series
      BY <2>1 DEF History!Or, Reports
    <3>3. [[rows[id] EXCEPT !.status = "applied"] EXCEPT !.series = series] = new
      <4>1. PICK row : row = rows[id]
        OBVIOUS
      <4>2. PICK x : x = series
        OBVIOUS
      <4>3. IsDbRow(row)
        BY <1>2, <4>1
      <4>4. [row EXCEPT !.status = "applied"]
            = [kind |-> row.kind, of_connection |-> row.of_connection, series |-> row.series,
               status |-> "applied"]
        BY <4>3 DEF IsDbRow
      <4>5. PICK y : y = [kind |-> row.kind, of_connection |-> row.of_connection,
                          series |-> row.series, status |-> "applied"]
        OBVIOUS
      <4>6. [y EXCEPT !.series = x]
            = [kind |-> row.kind, of_connection |-> row.of_connection, series |-> x,
               status |-> "applied"]
        BY <4>5
      <4>7. [[row EXCEPT !.status = "applied"] EXCEPT !.series = x] = [y EXCEPT !.series = x]
        BY <4>4, <4>5
      <4> QED
        BY <2>1, <4>1, <4>2, <4>6, <4>7
    <3> QED
      BY ZenonT(40), <1>2, <3>1, <3>2, <3>3 DEF IsDbRow
  <2>2. CASE record.event = "failed"
    <3>1. r = [rows EXCEPT ![id].status = "failed"]
      BY <1>2, <1>i, <1>r, <2>2 DEF History!SettledRows, History!HasRow
    <3>2. series = rows[id].series
      BY <2>2 DEF Reports
    <3>3. [rows[id] EXCEPT !.status = "failed"] = new
      BY <1>2, <2>2, <3>2 DEF IsDbRow
    <3> QED
      BY <3>1, <3>3
  <2> QED
    BY <1>r, <2>1, <2>2 DEF Settles, Settling
<1>7. /\ new.kind = rows[id].kind /\ new.series = series /\ new.status = record.event /\ IsDbRow(new)
  BY DEF IsDbRow
<1>s. Reports(record) => series = record.series
  OBVIOUS
<1>t. ~Reports(record) => series = rows[id].series
  OBVIOUS
<1> HIDE DEF new, series
<1>9. DOMAIN r = DOMAIN rows /\ r[id] = new
      /\ \A x \in DOMAIN rows : x # id => r[x] = rows[x]
  BY <1>2, <1>6
<1>10. {sent[i].id : i \in {j \in 1..(n + 1) : IsRequest(sent[j])}}
        = {sent[i].id : i \in {j \in 1..n : IsRequest(sent[j])}}
  BY <1>3, <1>r, NextIs1
<1>11. \A x \in 1..n : Reports(sent[x]) => Settles(sent[x])
  BY DEF Reports, Settles, Settling
<1>12. Past(sent, n + 1, id) /\ \A x : x # id => (Past(sent, n + 1, x) <=> Past(sent, n, x))
  BY <1>i, <1>r, NextIs1 DEF Past
<1>13. \A i \in 1..n : IsRequest(sent[i]) => sent[i].id \in DOMAIN rows
  BY DEF RowsAre
<1>14. \A i \in 1..n : Settles(sent[i]) => sent[i].id \in DOMAIN rows
  <2> SUFFICES ASSUME NEW i \in 1..n, Settles(sent[i]) PROVE sent[i].id \in DOMAIN rows
    OBVIOUS
  <2>1. PICK j \in DOMAIN sent : j < i /\ IsRequest(sent[j]) /\ sent[j].id = sent[i].id
    BY <1>4 DEF IsHistory
  <2>2. j \in 1..n
    BY <1>0, <2>1
  <2> QED
    BY <1>13, <2>1, <2>2
<1>d. DOMAIN r = {sent[i].id : i \in {j \in 1..(n + 1) : IsRequest(sent[j])}}
      /\ \A x \in DOMAIN r : IsDbRow(r[x])
  BY <1>7, <1>9, <1>10 DEF RowsAre
<1>e. ASSUME NEW i \in 1..(n + 1), IsRequest(sent[i])
      PROVE  /\ r[sent[i].id].kind = sent[i].action.kind
             /\ ~Past(sent, n + 1, sent[i].id) => r[sent[i].id].status = "requested"
             /\ (\A j \in 1..(n + 1) : Reports(sent[j]) => sent[j].id # sent[i].id)
                => r[sent[i].id].series = sent[i].action.series
  <2>0. i \in 1..n
    BY <1>3, <1>e, <1>r, NextIs1
  <2>1. CASE sent[i].id = id
    <3>1. r[id].kind = sent[i].action.kind
      BY <1>7, <1>9, <1>e, <2>0, <2>1 DEF RowsAre
    <3>2. (\A j \in 1..(n + 1) : Reports(sent[j]) => sent[j].id # id)
          => r[id].series = sent[i].action.series
      <4> SUFFICES ASSUME \A j \in 1..(n + 1) : Reports(sent[j]) => sent[j].id # id
                   PROVE  r[id].series = sent[i].action.series
        OBVIOUS
      <4>1. ~Reports(record) /\ \A j \in 1..n : Reports(sent[j]) => sent[j].id # id
        BY <1>i, <1>r, NextIs1
      <4>2. rows[id].series = sent[i].action.series
        BY <1>e, <2>0, <2>1, <4>1 DEF RowsAre
      <4> QED
        BY <1>7, <1>9, <1>t, <4>1, <4>2
    <3> QED
      BY <1>12, <2>1, <3>1, <3>2
  <2>2. CASE sent[i].id # id
    <3>1. r[sent[i].id] = rows[sent[i].id]
      BY <1>9, <1>13, <1>e, <2>0, <2>2
    <3> QED
      BY <1>12, <1>e, <2>0, <2>2, <3>1, NextIs1 DEF RowsAre
  <2> QED
    BY <2>1, <2>2
<1>f. ASSUME NEW i \in 1..(n + 1), Settles(sent[i])
      PROVE  /\ r[sent[i].id].status = sent[i].event
             /\ Reports(sent[i]) => r[sent[i].id].series = sent[i].series
  <2>1. CASE i = n + 1
    BY <1>7, <1>9, <1>i, <1>r, <1>s, <2>1
  <2>2. CASE i \in 1..n
    <3>1. r[sent[i].id] = rows[sent[i].id]
      BY <1>5, <1>9, <1>14, <1>f, <2>2
    <3> QED
      BY <1>f, <2>2, <3>1 DEF RowsAre
  <2> QED
    BY <2>1, <2>2, NextIs1
<1>g. \A i \in 1..(n + 1) : Reports(sent[i]) => Settles(sent[i])
  BY DEF Reports, Settles, Settling
<1> QED
  BY <1>d, <1>e, <1>f, <1>g DEF RowsAre

\* The writer takes the next record.
LEMMA DataGrows ==
  ASSUME NEW s, NEW t, NEW sent, NEW n \in Nat, DataIs(s, sent, n), IsHistory(sent),
         n + 1 \in DOMAIN sent, NEW record, record = sent[n + 1],
         t.rows = (CASE record.event = "requested" -> History!RequestedRows(s.rows, record)
                     [] record.event \in {"applied", "failed"} -> History!SettledRows(s.rows, record)
                     [] OTHER -> s.rows),
         t.logs = IF record.event = "log" THEN Append(s.logs, record.id) ELSE s.logs,
         t.measurements = IF record.event = "measurements"
                          THEN Append(s.measurements, record.id) ELSE s.measurements
  PROVE  DataIs(t, sent, n + 1)
<1>1. record.event \in {"requested", "applied", "failed", "log", "measurements"}
  BY DEF IsHistory, History!ActionEvents, Others
<1>2. RowsAre(s.rows, sent, n) /\ TableIs(s.logs, "log", sent, n)
      /\ TableIs(s.measurements, "measurements", sent, n)
  BY DEF DataIs
<1>3. RowsAre(t.rows, sent, n + 1)
  <2>1. CASE IsRequest(record)
    BY <1>2, <2>1, RowIsAdded DEF IsRequest
  <2>2. CASE Settles(record)
    <3>1. t.rows = History!SettledRows(s.rows, record)
      BY <2>2 DEF Settles, Settling
    <3> QED
      BY <1>2, <2>2, <3>1, RowIsSettled
  <2>3. CASE ~IsRequest(record) /\ ~Settles(record)
    <3>1. t.rows = s.rows
      BY <2>3 DEF Settles, Settling, IsRequest
    <3> QED
      BY <1>2, <2>3, <3>1, RowsStay
  <2> QED
    BY <2>1, <2>2, <2>3
<1>4. TableIs(t.logs, "log", sent, n + 1)
  BY <1>2, TableGrows, TableStays
<1>5. TableIs(t.measurements, "measurements", sent, n + 1)
  BY <1>2, TableGrows, TableStays
<1> QED
  BY <1>3, <1>4, <1>5 DEF DataIs

\* A record that is sent changes nothing of the first n.
LEMMA DataStays ==
  ASSUME NEW s, NEW sent, NEW n \in Nat, DataIs(s, sent, n),
         NEW after, \A i \in 1..n : after[i] = sent[i]
  PROVE  DataIs(s, after, n)
<1>1. \A event : Count(after, n, event) = Count(sent, n, event)
  <2>1. \A event : {j \in 1..n : after[j].event = event} = {j \in 1..n : sent[j].event = event}
    OBVIOUS
  <2> QED
    BY <2>1 DEF Count
<1>2. \A i \in 1..n : PlaceOf(after, i) = PlaceOf(sent, i)
  <2> SUFFICES ASSUME NEW i \in 1..n PROVE PlaceOf(after, i) = PlaceOf(sent, i)
    OBVIOUS
  <2>1. {j \in 1..i : after[j].event = after[i].event} = {j \in 1..i : sent[j].event = sent[i].event}
    OBVIOUS
  <2> QED
    BY <2>1 DEF PlaceOf
<1>3. /\ TableIs(s.logs, "log", after, n)
      /\ TableIs(s.measurements, "measurements", after, n)
  BY <1>1, <1>2 DEF DataIs, TableIs
<1>4. RowsAre(s.rows, after, n)
  <2>1. {after[i].id : i \in {j \in 1..n : IsRequest(after[j])}}
          = {sent[i].id : i \in {j \in 1..n : IsRequest(sent[j])}}
    OBVIOUS
  <2>2. \A id : Past(after, n, id) <=> Past(sent, n, id)
    BY DEF Past
  <2> QED
    BY <2>1, <2>2 DEF DataIs, RowsAre
<1> QED
  BY <1>3, <1>4 DEF DataIs

-----------------------------------------------------------------------------
\* What the database shows is the history of the records it has taken.
LEMMA DataIsHistory ==
  ASSUME NEW n \in Nat, DataIs(state, state.sent, n), IsHistory(state.sent),
         n <= Len(state.sent)
  PROVE  History!View = History!History(n)
<1> DEFINE sent == state.sent
           rows == state.rows
           ReportedOf(id) ==
             {sent[i].series : i \in {j \in 1..n : sent[j].event = "applied" /\ sent[j].id = id}}
               \ {History!None}
           RequestOf(record) ==
             CHOOSE r \in {sent[i] : i \in 1..n} : r.event = "requested" /\ r.id = record.id
           SeriesOf(request) ==
             IF ReportedOf(request.id) = {} THEN request.action.series
             ELSE CHOOSE series \in ReportedOf(request.id) : TRUE
           Told(record) ==
             <<record.event, record.id, RequestOf(record).action.kind, SeriesOf(RequestOf(record))>>
           Of(events) == {i \in 1..n : sent[i].event \in events}
           Actions == {Told(sent[i]) : i \in Of(History!ActionEvents)}
           Place(i) == History!Cardinality({j \in 1..i : sent[j].event = sent[i].event})
           Placed == {<<sent[i].event, sent[i].id, Place(i)>> : i \in Of({"log", "measurements"})}
           Records == {<<sent[i].event, sent[i].id, PlaceOf(sent, i)>> : i \in Of({"log", "measurements"})}
           Asked == {<<"requested", id, rows[id].kind, rows[id].series>> : id \in DOMAIN rows}
           Ended == {<<rows[id].status, id, rows[id].kind, rows[id].series>> :
                       id \in {i \in DOMAIN rows : rows[i].status # "requested"}}
           Logged == {<<"log", state.logs[i], i>> : i \in DOMAIN state.logs}
           Measured == {<<"measurements", state.measurements[i], i>> :
                          i \in DOMAIN state.measurements}
<1>1. /\ History!History(n) = Actions \cup Records
      /\ History!View = Asked \cup Ended \cup Logged \cup Measured
  <2>1. History!View = Asked \cup Ended \cup Logged \cup Measured
    BY DEF History!View
  <2>2. History!History(n) = Actions \cup Placed
    BY DEF History!History
  <2>3. \A i : Place(i) = PlaceOf(sent, i)
    BY SameCardinality DEF PlaceOf
  <2> HIDE DEF Place
  <2>4. Placed = Records
    BY <2>3
  <2> HIDE DEF Placed, Records, Actions
  <2> QED
    BY <2>1, <2>2, <2>4
<1>2. /\ RowsAre(rows, sent, n) /\ TableIs(state.logs, "log", sent, n)
      /\ TableIs(state.measurements, "measurements", sent, n)
  BY DEF DataIs
<1>3. DOMAIN sent = 1..Len(sent) /\ Len(sent) \in Nat /\ \A i \in 1..n : i \in DOMAIN sent
  BY SeqFacts DEF IsHistory
<1>4. ASSUME NEW q \in 1..n, IsRequest(sent[q]), NEW record, record.id = sent[q].id
      PROVE  RequestOf(record) = sent[q]
  <2>1. \A r \in {sent[i] : i \in 1..n} : r.event = "requested" /\ r.id = record.id => r = sent[q]
    BY <1>3, <1>4 DEF IsHistory, IsRequest
  <2>2. sent[q] \in {sent[i] : i \in 1..n} /\ sent[q].event = "requested" /\ sent[q].id = record.id
    BY <1>4 DEF IsRequest
  <2> QED
    BY <2>1, <2>2
<1>5. ASSUME NEW q \in 1..n, IsRequest(sent[q])
      PROVE  SeriesOf(sent[q]) = rows[sent[q].id].series
  <2> DEFINE id == sent[q].id
  <2>1. CASE ReportedOf(id) = {}
    <3>1. \A j \in 1..n : Reports(sent[j]) => sent[j].id # id
      BY <2>1 DEF Reports
    <3> QED
      BY <1>2, <1>5, <2>1, <3>1 DEF RowsAre
  <2>2. CASE ReportedOf(id) # {}
    <3>1. \A series \in ReportedOf(id) : series = rows[id].series
      BY <1>2 DEF RowsAre, Reports
    <3> HIDE DEF ReportedOf
    <3> QED
      BY <2>2, <3>1
  <2> QED
    BY <2>1, <2>2
<1>6. ASSUME NEW i \in 1..n, sent[i].event \in History!ActionEvents
      PROVE  /\ sent[i].id \in DOMAIN rows
             /\ Told(sent[i]) = <<sent[i].event, sent[i].id, rows[sent[i].id].kind,
                                  rows[sent[i].id].series>>
  <2>1. PICK q \in 1..n : IsRequest(sent[q]) /\ sent[q].id = sent[i].id
    <3>1. CASE IsRequest(sent[i])
      BY <3>1
    <3>2. CASE Settles(sent[i])
      <4>1. PICK j \in DOMAIN sent : j < i /\ IsRequest(sent[j]) /\ sent[j].id = sent[i].id
        BY <1>3, <3>2 DEF IsHistory
      <4>2. j \in 1..n
        BY <1>3, <4>1
      <4> QED
        BY <4>1, <4>2
    <3> QED
      BY <1>6, <3>1, <3>2 DEF IsRequest, Settles, Settling, History!ActionEvents
  <2>2. RequestOf(sent[i]) = sent[q]
    BY <1>4, <2>1
  <2>3. SeriesOf(sent[q]) = rows[sent[q].id].series
    BY <1>5, <2>1
  <2>4. sent[q].action.kind = rows[sent[q].id].kind /\ sent[q].id \in DOMAIN rows
    BY <1>2, <2>1 DEF RowsAre
  <2> HIDE DEF RequestOf, SeriesOf
  <2> QED
    BY <2>1, <2>2, <2>3, <2>4
<1> HIDE DEF Told
<1>7. ASSUME NEW x \in Actions PROVE x \in Asked \cup Ended
  <2>1. PICK i \in 1..n : sent[i].event \in History!ActionEvents /\ x = Told(sent[i])
    BY <1>7
  <2>2. /\ sent[i].id \in DOMAIN rows
        /\ x = <<sent[i].event, sent[i].id, rows[sent[i].id].kind, rows[sent[i].id].series>>
    BY <1>6, <2>1
  <2>3. CASE IsRequest(sent[i])
    BY <2>2, <2>3 DEF IsRequest
  <2>4. CASE Settles(sent[i])
    <3>1. rows[sent[i].id].status = sent[i].event /\ sent[i].event # "requested"
      BY <1>2, <2>4 DEF RowsAre, Settles, Settling
    <3> QED
      BY <2>2, <3>1
  <2> QED
    BY <2>1, <2>3, <2>4 DEF IsRequest, Settles, Settling, History!ActionEvents
<1>8. ASSUME NEW id \in DOMAIN rows
      PROVE  /\ <<"requested", id, rows[id].kind, rows[id].series>> \in Actions
             /\ rows[id].status # "requested" =>
                  <<rows[id].status, id, rows[id].kind, rows[id].series>> \in Actions
  <2>1. PICK q \in 1..n : IsRequest(sent[q]) /\ sent[q].id = id
    BY <1>2 DEF RowsAre
  <2>2. <<"requested", id, rows[id].kind, rows[id].series>> \in Actions
    <3>1. sent[q].event = "requested" /\ sent[q].event \in History!ActionEvents
      BY <2>1 DEF IsRequest, History!ActionEvents
    <3>2. Told(sent[q]) = <<"requested", id, rows[id].kind, rows[id].series>>
      BY <1>6, <2>1, <3>1
    <3>3. Told(sent[q]) \in Actions
      BY <3>1
    <3> QED
      BY <3>2, <3>3
  <2>3. ASSUME rows[id].status # "requested"
        PROVE  <<rows[id].status, id, rows[id].kind, rows[id].series>> \in Actions
    <3>1. Past(sent, n, id)
      BY <1>2, <2>1, <2>3 DEF RowsAre
    <3>2. PICK i \in 1..n : Settles(sent[i]) /\ sent[i].id = id
      BY <3>1 DEF Past
    <3>3. rows[id].status = sent[i].event
      BY <1>2, <3>2 DEF RowsAre
    <3>4. sent[i].event \in History!ActionEvents
      BY <3>2 DEF Settles, Settling, History!ActionEvents
    <3>5. Told(sent[i]) = <<rows[id].status, id, rows[id].kind, rows[id].series>>
      BY <1>6, <3>2, <3>3, <3>4
    <3>6. Told(sent[i]) \in Actions
      BY <3>4
    <3> QED
      BY <3>5, <3>6
  <2> QED
    BY <2>2, <2>3
<1>9. Asked \cup Ended = Actions
  <2> HIDE DEF Actions
  <2>1. Asked \cup Ended \subseteq Actions
    BY <1>8
  <2>2. Actions \subseteq Asked \cup Ended
    BY <1>7
  <2> QED
    BY <2>1, <2>2
<1>10. Logged \cup Measured = Records
  <2>1. ASSUME NEW i \in 1..n, sent[i].event \in {"log", "measurements"}
        PROVE  <<sent[i].event, sent[i].id, PlaceOf(sent, i)>> \in Logged \cup Measured
    BY <1>2, <2>1 DEF TableIs
  <2>2. ASSUME NEW k \in DOMAIN state.logs
        PROVE  <<"log", state.logs[k], k>> \in Records
    <3>1. PICK i \in 1..n : sent[i].event = "log" /\ PlaceOf(sent, i) = k
      BY <1>2 DEF TableIs
    <3>2. state.logs[k] = sent[i].id
      BY <1>2, <3>1 DEF TableIs
    <3> QED
      BY <3>1, <3>2
  <2>3. ASSUME NEW k \in DOMAIN state.measurements
        PROVE  <<"measurements", state.measurements[k], k>> \in Records
    <3>1. PICK i \in 1..n : sent[i].event = "measurements" /\ PlaceOf(sent, i) = k
      BY <1>2 DEF TableIs
    <3>2. state.measurements[k] = sent[i].id
      BY <1>2, <3>1 DEF TableIs
    <3> QED
      BY <3>1, <3>2
  <2>4. Logged \cup Measured \subseteq Records
    <3> HIDE DEF Records
    <3> QED
      BY <2>2, <2>3
  <2>5. Records \subseteq Logged \cup Measured
    <3> HIDE DEF Logged, Measured
    <3> QED
      BY <2>1
  <2> QED
    BY <2>4, <2>5
<1> HIDE DEF Actions, Records, Asked, Ended, Logged, Measured
<1> QED
  BY <1>1, <1>9, <1>10

-----------------------------------------------------------------------------
(* The writer's queue holds the last records that were sent, and what ends   *)
(* it after the recorder was closed.                                         *)
Waits(s) == IF s.closed /\ s.running THEN 1 ELSE 0
Follows(queue, sent, waits, taken) ==
  /\ IsSeq(queue) /\ taken \in 0..Len(sent)
  /\ waits \in {0, 1} /\ waits <= Len(queue) /\ taken + Len(queue) = Len(sent) + waits
  /\ \A i \in DOMAIN queue : i <= Len(queue) - waits => queue[i] = sent[taken + i]
  /\ waits = 1 => queue[Len(queue)].event = "shutdown"

SentInv(s) ==
  /\ IsHistory(s.sent)
  /\ \A i \in DOMAIN s.sent : IsRequest(s.sent[i]) \/ Settles(s.sent[i]) =>
       s.sent[i].id \in Nat /\ s.sent[i].id < s.next
  /\ \A i \in DOMAIN s.sent : Settles(s.sent[i]) => s.sent[i].id \notin s.open
  /\ \A id : Publishes(s, Stages, Settling, id) =>
       Has(s.sent, {"requested"}, id) /\ ~Has(s.sent, Settling, id)
  /\ \A id \in s.open : Has(s.sent, {"requested"}, id) \/ Publishes(s, Stages, {"requested"}, id)
  /\ \A id : Publishes(s, Stages, {"requested"}, id) => ~Has(s.sent, {"requested"}, id)

FlagsInv(s) ==
  /\ s.closed \in BOOLEAN /\ s.running \in BOOLEAN
  /\ ~s.running => s.closed /\ Len(s.queue) = 0
  /\ s.ended => ~s.running

TablesAre(s, taken) ==
  /\ s.available => DataIs(s, s.sent, taken)
  /\ ~s.available => /\ s.error \/ s.reported
                     /\ \E n \in 0..(taken - 1) : DataIs(s, s.sent, n)

WriterInv(s) ==
  \E taken \in Nat : Follows(s.queue, s.sent, Waits(s), taken) /\ TablesAre(s, taken)

DatabaseInv(s) == SentInv(s) /\ FlagsInv(s) /\ WriterInv(s)

-----------------------------------------------------------------------------
LEMMA SentFacts ==
  ASSUME NEW sent, IsHistory(sent)
  PROVE  IsSeq(sent) /\ Len(sent) \in Nat /\ DOMAIN sent = 1..Len(sent)
BY SeqFacts DEF IsHistory

LEMMA FollowsSent ==
  ASSUME NEW queue, NEW sent, IsHistory(sent), NEW taken \in Nat, Follows(queue, sent, 0, taken),
         NEW e, NEW r, r = Append(queue, e), NEW after, after = Append(sent, e)
  PROVE  Follows(r, after, 0, taken)
<1>1. IsAppendOf(after, sent, e) /\ IsAppendOf(r, queue, e)
  BY SentFacts, AppendFacts DEF Follows
<1>2. /\ Len(sent) \in Nat /\ DOMAIN sent = 1..Len(sent)
      /\ Len(queue) \in Nat /\ DOMAIN queue = 1..Len(queue)
      /\ taken + Len(queue) = Len(sent) /\ taken <= Len(sent)
  BY SentFacts, SeqFacts DEF Follows
<1>3. /\ Len(after) = Len(sent) + 1 /\ Len(r) = Len(queue) + 1 /\ IsSeq(r)
      /\ DOMAIN r = DOMAIN queue \cup {Len(queue) + 1}
  BY <1>1 DEF IsAppendOf
<1>4. ASSUME NEW i \in DOMAIN r PROVE r[i] = after[taken + i]
  <2>1. CASE i \in DOMAIN queue
    <3>1. queue[i] = sent[taken + i] /\ taken + i \in DOMAIN sent
      BY <1>2, <2>1 DEF Follows
    <3> QED
      BY <1>1, <2>1, <3>1 DEF IsAppendOf
  <2>2. CASE i = Len(queue) + 1
    <3>1. taken + i = Len(sent) + 1
      BY <1>2, <2>2
    <3> QED
      BY <1>1, <2>2, <3>1 DEF IsAppendOf
  <2> QED
    BY <1>3, <2>1, <2>2
<1> QED
  BY <1>2, <1>3, <1>4 DEF Follows

LEMMA FollowsClosed ==
  ASSUME NEW queue, NEW sent, IsHistory(sent), NEW taken \in Nat, Follows(queue, sent, 0, taken),
         NEW e, e.event = "shutdown", NEW r, r = Append(queue, e)
  PROVE  Follows(r, sent, 1, taken)
<1>1. IsAppendOf(r, queue, e)
  BY AppendFacts DEF Follows
<1>2. /\ Len(sent) \in Nat
      /\ Len(queue) \in Nat /\ DOMAIN queue = 1..Len(queue)
      /\ taken + Len(queue) = Len(sent) /\ taken <= Len(sent)
      /\ \A i \in DOMAIN queue : queue[i] = sent[taken + i]
  BY SentFacts, SeqFacts DEF Follows
<1>3. /\ Len(r) = Len(queue) + 1 /\ IsSeq(r) /\ r[Len(r)] = e
      /\ DOMAIN r = DOMAIN queue \cup {Len(queue) + 1}
      /\ \A i \in DOMAIN queue : r[i] = queue[i]
  BY <1>1 DEF IsAppendOf
<1>4. \A i \in DOMAIN r : i <= Len(r) - 1 => r[i] = sent[taken + i]
  BY <1>2, <1>3
<1> QED
  BY <1>2, <1>3, <1>4 DEF Follows

Queues(taken, sent, queue, waits) ==
  /\ taken \in Nat /\ sent \in Nat /\ queue \in Nat /\ waits \in {0, 1}
  /\ waits <= queue /\ taken + queue = sent + waits
TakesOne(taken, sent, queue, waits, rest) ==
  /\ queue = waits => waits = 1 /\ queue = 1 /\ rest = 0 /\ taken = sent
  /\ queue # waits => /\ 1 <= queue - waits /\ taken + 1 \in 1..sent /\ waits <= rest
                      /\ taken + 1 + rest = sent + waits /\ taken + 1 \in 0..sent

LEMMA TakenFacts ==
  ASSUME NEW taken, NEW sent, NEW queue, NEW rest, NEW waits,
         Queues(taken, sent, queue, waits), queue # 0, rest = queue - 1
  PROVE  TakesOne(taken, sent, queue, waits, rest)
BY DEF Queues, TakesOne

LEMMA FollowsTaken ==
  ASSUME NEW queue, NEW sent, IsHistory(sent), NEW taken \in Nat, NEW waits,
         Follows(queue, sent, waits, taken), queue # << >>,
         NEW r, r = Tail(queue)
  PROVE  \/ /\ Head(queue).event = "shutdown" /\ waits = 1 /\ taken = Len(sent)
            /\ Len(r) = 0 /\ Follows(r, sent, 0, taken)
         \/ /\ taken + 1 \in DOMAIN sent /\ Head(queue) = sent[taken + 1]
            /\ Head(queue).event # "shutdown" /\ Follows(r, sent, waits, taken + 1)
<1>1. IsTailOf(r, queue)
  BY TailFacts DEF Follows
<1>2. /\ Len(sent) \in Nat /\ DOMAIN sent = 1..Len(sent)
      /\ Len(queue) \in Nat /\ DOMAIN queue = 1..Len(queue)
      /\ waits \in {0, 1} /\ waits <= Len(queue)
      /\ taken + Len(queue) = Len(sent) + waits /\ taken <= Len(sent)
      /\ Len(queue) # 0
  BY <1>1, SentFacts, SeqFacts DEF Follows, IsTailOf
<1>3. /\ IsSeq(r) /\ Len(r) = Len(queue) - 1 /\ DOMAIN r = 1..Len(r)
      /\ Head(queue) = queue[1]
      /\ \A i \in DOMAIN r : i + 1 \in DOMAIN queue /\ r[i] = queue[i + 1]
  BY <1>1, SeqFacts DEF IsTailOf
<1>q. Queues(taken, Len(sent), Len(queue), waits)
  BY <1>2 DEF Queues
<1>a. TakesOne(taken, Len(sent), Len(queue), waits, Len(r))
  BY <1>2, <1>3, <1>q, TakenFacts
<1>4. CASE Len(queue) = waits
  <2>1. waits = 1 /\ Len(queue) = 1 /\ Len(r) = 0 /\ taken = Len(sent)
    BY <1>4, <1>a DEF TakesOne
  <2>2. Head(queue).event = "shutdown"
    BY <1>3, <2>1 DEF Follows
  <2>3. Follows(r, sent, 0, taken)
    <3>1. DOMAIN r = {}
      BY <1>3, <2>1
    <3>2. \A n \in Nat : n + 0 = n /\ n \in 0..n /\ 0 <= 0
      OBVIOUS
    <3>3. taken + Len(r) = Len(sent) + 0 /\ taken \in 0..Len(sent) /\ 0 <= Len(r)
      BY <1>2, <2>1, <3>2
    <3> QED
      BY <1>3, <3>1, <3>3 DEF Follows
  <2> QED
    BY <2>1, <2>2, <2>3
<1>5. CASE Len(queue) # waits
  <2>0. waits \in Nat
    BY <1>2
  <2>1. 1 <= Len(queue) - waits /\ taken + 1 \in DOMAIN sent
    BY <1>2, <1>5, <1>a DEF TakesOne
  <2>2. Head(queue) = sent[taken + 1]
    BY <1>2, <1>3, <2>1 DEF Follows
  <2>3. Head(queue).event # "shutdown"
    BY <2>1, <2>2 DEF IsHistory, History!ActionEvents, Others
  <2>4. waits <= Len(r) /\ taken + 1 + Len(r) = Len(sent) + waits /\ taken + 1 \in 0..Len(sent)
    BY <1>5, <1>a DEF TakesOne
  <2>5. \A i \in DOMAIN r : i <= Len(r) - waits => r[i] = sent[taken + 1 + i]
    <3> SUFFICES ASSUME NEW i \in DOMAIN r, i <= Len(r) - waits PROVE r[i] = sent[taken + 1 + i]
      OBVIOUS
    <3>1. i + 1 \in DOMAIN queue /\ r[i] = queue[i + 1] /\ i + 1 <= Len(queue) - waits
      BY <1>2, <1>3, <2>0
    <3>2. queue[i + 1] = sent[taken + (i + 1)]
      BY <3>1 DEF Follows
    <3>3. taken + (i + 1) = taken + 1 + i
      BY <1>3
    <3> QED
      BY <3>1, <3>2, <3>3
  <2>6. waits = 1 => r[Len(r)].event = "shutdown"
    <3> SUFFICES ASSUME waits = 1 PROVE r[Len(r)].event = "shutdown"
      OBVIOUS
    <3>1. Len(r) \in DOMAIN r /\ Len(r) + 1 = Len(queue)
      BY <1>2, <1>3, <1>5
    <3>2. r[Len(r)] = queue[Len(queue)]
      BY <1>3, <3>1
    <3> QED
      BY <3>2 DEF Follows
  <2>7. Follows(r, sent, waits, taken + 1)
    BY <1>2, <1>3, <2>4, <2>5, <2>6 DEF Follows
  <2> QED
    BY <2>1, <2>2, <2>3, <2>7
<1> QED
  BY <1>4, <1>5

-----------------------------------------------------------------------------
LEMMA DatabaseInit == History!Init => DatabaseInv(state)
<1> SUFFICES ASSUME History!Init PROVE DatabaseInv(state)
  OBVIOUS
<1> DEFINE s == state
<1>1. /\ s.open = {} /\ s.thread = [t \in History!Threads |-> History!NoRecord]
      /\ s.sent = << >> /\ s.queue = << >> /\ s.rows = << >> /\ s.logs = << >>
      /\ s.measurements = << >> /\ s.closed = FALSE /\ s.running = TRUE /\ s.ended = FALSE
      /\ s.available = TRUE
  BY DEF History!Init
<1>2. IsSeq(<< >>) /\ DOMAIN << >> = {} /\ Len(<< >>) = 0
  BY EmptyFacts
<1>3. s.thread["runtime"].stage = "idle"
  BY <1>1, NoRecordIsIdle DEF History!Threads
<1>4. \A evs, id : ~Publishes(s, Stages, evs, id)
  BY <1>3 DEF Publishes, Stages
<1>5. SentInv(s)
  BY <1>1, <1>2, <1>4 DEF SentInv, IsHistory
<1>6. Waits(s) = 0
  BY <1>1 DEF Waits
<1>7. FlagsInv(s) /\ Follows(s.queue, s.sent, Waits(s), 0)
  <2>1. FlagsInv(s)
    BY <1>1 DEF FlagsInv
  <2>2. 0 \in 0..Len(<< >>) /\ 0 + Len(<< >>) = Len(<< >>) + 0 /\ 0 <= Len(<< >>)
    BY <1>2
  <2>3. Follows(<< >>, << >>, 0, 0)
    BY <1>2, <2>2 DEF Follows
  <2> QED
    BY <1>1, <1>6, <2>1, <2>3
<1>8. \A event : Count(s.sent, 0, event) = 0
  <2>1. \A event : {j \in 1..0 : s.sent[j].event = event} = {}
    OBVIOUS
  <2> QED
    BY <2>1, FS_EmptySet DEF Count
<1>9. DataIs(s, s.sent, 0)
  <2>1. RowsAre(s.rows, s.sent, 0)
    <3>1. DOMAIN s.rows = {}
      BY <1>1, <1>2
    <3> QED
      BY <3>1 DEF RowsAre
  <2>2. \A event : TableIs(<< >>, event, s.sent, 0)
    BY <1>2, <1>8 DEF TableIs
  <2> QED
    BY <1>1, <2>1, <2>2 DEF DataIs
<1> QED
  BY <1>1, <1>5, <1>7, <1>9 DEF DatabaseInv, WriterInv, TablesAre

\* Steps that neither send a record nor take one.
KeepsData ==
  /\ state'.sent = state.sent /\ state'.queue = state.queue /\ state'.running = state.running
  /\ state'.closed = state.closed /\ state'.available = state.available
  /\ state'.rows = state.rows /\ state'.logs = state.logs
  /\ state'.measurements = state.measurements /\ state'.ended = state.ended
  /\ state.error \/ state.reported => state'.error \/ state'.reported

LEMMA KeepsDataKeeps ==
  ASSUME DatabaseInv(state), KeepsData, SentInv(state')
  PROVE  DatabaseInv(state')
<1>1. Waits(state') = Waits(state) /\ FlagsInv(state')
  BY DEF KeepsData, Waits, DatabaseInv, FlagsInv
<1>2. PICK taken \in Nat : Follows(state.queue, state.sent, Waits(state), taken)
                           /\ TablesAre(state, taken)
  BY DEF DatabaseInv, WriterInv
<1>3. \A n : DataIs(state', state.sent, n) <=> DataIs(state, state.sent, n)
  BY DEF KeepsData, DataIs
<1>4. TablesAre(state', taken)
  BY <1>2, <1>3 DEF TablesAre, KeepsData
<1>5. WriterInv(state')
  BY <1>1, <1>2, <1>4 DEF WriterInv, KeepsData
<1> QED
  BY <1>1, <1>5 DEF DatabaseInv

\* What the runtime's thread publishes has not changed.
LEMMA SentStays ==
  ASSUME DatabaseInv(state), state'.sent = state.sent, state'.next = state.next,
         state'.open = state.open,
         \A evs, id : evs \in {Settling, {"requested"}} =>
           (Publishes(state', Stages, evs, id) <=> Publishes(state, Stages, evs, id))
  PROVE  SentInv(state')
BY DEF DatabaseInv, SentInv

LEMMA PublishKeepsData ==
  ASSUME RecorderInv(state), DatabaseInv(state), NEW t \in History!Threads,
         History!PublishEvent(t) \/ History!PublishTimeline(t)
  PROVE  DatabaseInv(state')
<1>1. PICK stage, attached, events, timeline :
        /\ stage \in {"timeline", "sink"} /\ state.thread[t].stage \in Stages
        /\ state' = [state EXCEPT !.thread = History!Proceed(t, stage), !.attached = attached,
                                  !.events = events, !.timeline = timeline]
  <2>1. CASE History!PublishEvent(t)
    <3>1. state.thread[t].stage \in Stages
      BY <2>1 DEF History!PublishEvent, History!AtStage, Stages
    <3>2. PICK attached, events :
            state' = [state EXCEPT !.thread = History!Proceed(t, "timeline"),
                                   !.attached = attached, !.events = events]
      BY <2>1 DEF History!PublishEvent
    <3>3. state' = [state EXCEPT !.thread = History!Proceed(t, "timeline"),
                                 !.attached = attached, !.events = events,
                                 !.timeline = state.timeline]
      BY <3>2 DEF RecorderInv, IsRecorder
    <3> QED
      BY <3>1, <3>3
  <2>2. CASE History!PublishTimeline(t)
    <3>1. state.thread[t].stage \in Stages
      BY <2>2 DEF History!PublishTimeline, History!AtStage, Stages
    <3>2. PICK timeline :
            state' = [state EXCEPT !.thread = History!Proceed(t, "sink"), !.timeline = timeline]
      BY <2>2 DEF History!PublishTimeline
    <3>3. state' = [state EXCEPT !.thread = History!Proceed(t, "sink"),
                                 !.attached = state.attached, !.events = state.events,
                                 !.timeline = timeline]
      BY <3>2 DEF RecorderInv, IsRecorder
    <3> QED
      BY <3>1, <3>3
  <2> QED
    BY <2>1, <2>2
<1>2. PICK thread : thread = History!Proceed(t, stage)
  OBVIOUS
<1>3. ProceedsTo(thread, state.thread, t, stage)
  BY <1>1, <1>2, ProceedFacts DEF RecorderInv, Stages
<1>4. KeepsData /\ state'.thread = thread /\ state'.next = state.next /\ state'.open = state.open
  BY <1>1, <1>2 DEF RecorderInv, IsRecorder, KeepsData
<1>5. "runtime" \in DOMAIN state.thread
  BY DEF RecorderInv, ThreadInv, History!Threads
<1>6. \A evs, id : Publishes(state', Stages, evs, id) <=> Publishes(state, Stages, evs, id)
  BY <1>1, <1>3, <1>4, <1>5 DEF ProceedsTo, Publishes, Stages
<1>7. SentInv(state')
  BY <1>4, <1>6, SentStays DEF KeepsData
<1> QED
  BY <1>4, <1>7, KeepsDataKeeps

LEMMA SendKeepsData ==
  ASSUME RecorderInv(state), DatabaseInv(state), NEW t \in History!Threads, History!Send(t)
  PROVE  DatabaseInv(state')
<1> DEFINE s == state
           record == s.thread[t].record
<1>0. SentInv(s) /\ FlagsInv(s) /\ WriterInv(s) /\ ThreadInv(s) /\ IsRecorder(s)
  BY DEF DatabaseInv, RecorderInv
<1>1. PICK thread, queue, sent :
        /\ thread = [s.thread EXCEPT ![t] = History!NoRecord]
        /\ queue = Append(s.queue, record) /\ sent = Append(s.sent, record)
        /\ s.thread[t].stage = "sink"
        /\ state' = [s EXCEPT !.thread = thread, !.queue = queue, !.sent = sent]
  BY DEF History!Send, History!AtStage
<1>2. /\ state'.thread = thread /\ state'.queue = queue /\ state'.sent = sent
      /\ state'.next = s.next /\ state'.open = s.open /\ state'.closed = s.closed
      /\ state'.running = s.running /\ state'.ended = s.ended
      /\ state'.available = s.available /\ state'.error = s.error
      /\ state'.reported = s.reported /\ state'.rows = s.rows /\ state'.logs = s.logs
      /\ state'.measurements = s.measurements
  BY <1>0, <1>1 DEF IsRecorder
<1>3. IsSeq(s.sent) /\ Len(s.sent) \in Nat /\ DOMAIN s.sent = 1..Len(s.sent)
  BY <1>0, SentFacts DEF SentInv
<1>4. IsAppendOf(sent, s.sent, record)
  BY <1>1, <1>3, AppendFacts
<1>5. t \in {"runtime", "worker"} /\ "runtime" \in History!Threads /\ "worker" \in History!Threads
  BY DEF History!Threads
<1>6. /\ t = "runtime" => \A evs, id : ~Publishes(state', Stages, evs, id)
      /\ t = "worker" => \A evs, id : Publishes(state', Stages, evs, id) <=> Publishes(s, Stages, evs, id)
  BY <1>0, <1>1, <1>2, <1>5, NoRecordIsIdle DEF ThreadInv, Publishes, Stages
<1>7. /\ IsRequest(record) => t = "runtime" /\ record.id \in s.open
                              /\ Publishes(s, Stages, {"requested"}, record.id)
      /\ Settles(record) => t = "runtime" /\ record.id \notin s.open
                            /\ record.id \in Nat /\ record.id < s.next
                            /\ Publishes(s, Stages, Settling, record.id)
      /\ record.event \in History!ActionEvents \cup Others
      /\ t = "worker" => record.event \in Others
      /\ s.next \in Nat /\ \A id \in s.open : id \in Nat /\ id < s.next
  BY <1>0, <1>1, <1>5 DEF ThreadInv, Publishes, Stages, IsRequest, Settles, Settling, Others, History!ActionEvents
<1>8. /\ t = "runtime" => \A id : /\ Publishes(s, Stages, {"requested"}, id) => IsRequest(record) /\ record.id = id
                                  /\ Publishes(s, Stages, Settling, id) => Settles(record) /\ record.id = id
  BY DEF Publishes, IsRequest, Settles
<1>9. /\ DOMAIN sent = DOMAIN s.sent \cup {Len(s.sent) + 1} /\ Len(s.sent) + 1 \notin DOMAIN s.sent
      /\ \A i \in DOMAIN s.sent : sent[i] = s.sent[i] /\ i < Len(s.sent) + 1
      /\ sent[Len(s.sent) + 1] = record /\ IsSeq(sent) /\ Len(sent) = Len(s.sent) + 1
  BY <1>3, <1>4 DEF IsAppendOf
<1> HIDE DEF record
<1>10. IsHistory(sent)
  <2>1. \A i \in DOMAIN sent : sent[i].event \in History!ActionEvents \cup Others
    BY <1>0, <1>7, <1>9 DEF SentInv, IsHistory
  <2>2. \A i \in DOMAIN s.sent : IsRequest(s.sent[i]) /\ IsRequest(record) => s.sent[i].id # record.id
    BY <1>0, <1>7 DEF SentInv, Has, IsRequest
  <2>3. \A i \in DOMAIN s.sent : Settles(s.sent[i]) /\ Settles(record) => s.sent[i].id # record.id
    BY <1>0, <1>7 DEF SentInv, Has, Settles
  <2>4. Settles(record) => \E j \in DOMAIN s.sent : IsRequest(s.sent[j]) /\ s.sent[j].id = record.id
    BY <1>0, <1>7 DEF SentInv, Has, IsRequest
  <2>5. \A i, j \in DOMAIN sent : IsRequest(sent[i]) /\ IsRequest(sent[j]) /\ sent[i].id = sent[j].id => i = j
    BY <1>0, <1>9, <2>2 DEF SentInv, IsHistory
  <2>6. \A i, j \in DOMAIN sent : Settles(sent[i]) /\ Settles(sent[j]) /\ sent[i].id = sent[j].id => i = j
    BY <1>0, <1>9, <2>3 DEF SentInv, IsHistory
  <2>7. \A i \in DOMAIN sent : Settles(sent[i]) =>
          \E j \in DOMAIN sent : j < i /\ IsRequest(sent[j]) /\ sent[j].id = sent[i].id
    <3> SUFFICES ASSUME NEW i \in DOMAIN sent, Settles(sent[i])
                 PROVE  \E j \in DOMAIN sent : j < i /\ IsRequest(sent[j]) /\ sent[j].id = sent[i].id
      OBVIOUS
    <3>1. CASE i \in DOMAIN s.sent
      BY <1>0, <1>9, <3>1 DEF SentInv, IsHistory
    <3>2. CASE i = Len(s.sent) + 1
      BY <1>9, <2>4, <3>2
    <3> QED
      BY <1>9, <3>1, <3>2
  <2> QED
    BY <1>9, <2>1, <2>5, <2>6, <2>7 DEF IsHistory
<1>11. SentInv(state')
  <2>1. \A i \in DOMAIN sent : IsRequest(sent[i]) \/ Settles(sent[i]) =>
          sent[i].id \in Nat /\ sent[i].id < s.next
    BY <1>0, <1>7, <1>9 DEF SentInv
  <2>2. \A i \in DOMAIN sent : Settles(sent[i]) => sent[i].id \notin s.open
    BY <1>0, <1>7, <1>9 DEF SentInv
  <2>3. \A evs, id : Has(s.sent, evs, id) => Has(sent, evs, id)
    BY <1>9 DEF Has
  <2>4. t = "worker" => \A id : /\ Has(sent, {"requested"}, id) => Has(s.sent, {"requested"}, id)
                                /\ Has(sent, Settling, id) => Has(s.sent, Settling, id)
    BY <1>7, <1>9 DEF Has, Others, Settling
  <2>5. \A id \in s.open : Has(sent, {"requested"}, id) \/ Publishes(state', Stages, {"requested"}, id)
    <3> SUFFICES ASSUME NEW id \in s.open
                 PROVE  Has(sent, {"requested"}, id) \/ Publishes(state', Stages, {"requested"}, id)
      OBVIOUS
    <3>1. CASE Has(s.sent, {"requested"}, id)
      BY <2>3, <3>1
    <3>2. CASE Publishes(s, Stages, {"requested"}, id) /\ t = "runtime"
      BY <1>8, <1>9, <3>2 DEF Has, IsRequest
    <3>3. CASE Publishes(s, Stages, {"requested"}, id) /\ t = "worker"
      BY <1>6, <3>3
    <3> QED
      BY <1>0, <1>5, <3>1, <3>2, <3>3 DEF SentInv
  <2>6. \A id : Publishes(state', Stages, Settling, id) =>
          Has(sent, {"requested"}, id) /\ ~Has(sent, Settling, id)
    BY <1>0, <1>5, <1>6, <2>3, <2>4 DEF SentInv
  <2>7. \A id : Publishes(state', Stages, {"requested"}, id) => ~Has(sent, {"requested"}, id)
    BY <1>0, <1>5, <1>6, <2>4 DEF SentInv
  <2> QED
    BY <1>2, <1>10, <2>1, <2>2, <2>5, <2>6, <2>7 DEF SentInv
<1>12. s.closed = FALSE /\ s.running = TRUE
  <2>1. s.closed = FALSE
    BY <1>0, <1>1 DEF ThreadInv, FlagsInv
  <2> QED
    BY <1>0, <2>1 DEF FlagsInv
<1>13. Waits(s) = 0 /\ Waits(state') = 0 /\ FlagsInv(state')
  BY <1>0, <1>2, <1>12 DEF Waits, FlagsInv
<1>14. PICK taken \in Nat : Follows(s.queue, s.sent, 0, taken) /\ TablesAre(s, taken)
  BY <1>0, <1>13 DEF WriterInv
<1>15. Follows(queue, sent, 0, taken)
  BY <1>0, <1>1, <1>14, FollowsSent DEF SentInv
<1>16. ASSUME NEW n \in 0..Len(s.sent), DataIs(s, s.sent, n) PROVE DataIs(state', sent, n)
  <2>1. \A i \in 1..n : sent[i] = s.sent[i]
    BY <1>3, <1>9
  <2>2. DataIs(s, sent, n)
    BY <1>16, <2>1, DataStays
  <2> QED
    BY <1>2, <2>2 DEF DataIs
<1>17. TablesAre(state', taken)
  <2>1. taken \in 0..Len(s.sent) /\ \A n \in 0..(taken - 1) : n \in 0..Len(s.sent)
    BY <1>3, <1>14 DEF Follows
  <2> QED
    BY <1>2, <1>14, <1>16, <2>1 DEF TablesAre
<1>18. WriterInv(state')
  BY <1>2, <1>13, <1>15, <1>17 DEF WriterInv
<1> QED
  BY <1>11, <1>13, <1>18 DEF DatabaseInv

LEMMA RequestKeepsData ==
  ASSUME RecorderInv(state), DatabaseInv(state), NEW command, History!Request(command)
  PROVE  DatabaseInv(state')
<1> DEFINE s == state
           id == s.next
           record == History!Requested(s.next, History!Resolved(command))
           thread == History!Begin("runtime", record)
           open == s.open \cup {id}
<1>0. SentInv(s) /\ ThreadInv(s) /\ IsRecorder(s)
  BY DEF DatabaseInv, RecorderInv
<1>1. /\ s.thread["runtime"].stage = "idle"
      /\ state' = [s EXCEPT !.next = @ + 1, !.open = open, !.thread = thread]
  BY DEF History!Request, History!IsIdle
<1>2. Begins(thread, s.thread, "runtime", record)
  BY <1>0, BeginFacts DEF History!Threads
<1>3. record.event = "requested" /\ record.id = id
  BY DEF History!Requested
<1> HIDE DEF thread, record, open
<1>4. KeepsData /\ state'.thread = thread /\ state'.open = open /\ state'.next = s.next + 1
  BY <1>0, <1>1 DEF IsRecorder, KeepsData
<1>5. /\ \A x : Publishes(state', Stages, {"requested"}, x) <=> x = id
      /\ \A x : ~Publishes(state', Stages, Settling, x)
      /\ \A evs, x : ~Publishes(s, Stages, evs, x)
  BY <1>1, <1>2, <1>3, <1>4 DEF Begins, Publishes, Settling, Stages
<1>6. s.next \in Nat /\ \A x \in s.open : x \in Nat /\ x < s.next
  BY <1>0 DEF ThreadInv
<1>7. \A i \in DOMAIN s.sent : IsRequest(s.sent[i]) \/ Settles(s.sent[i]) =>
        s.sent[i].id \in Nat /\ s.sent[i].id < s.next + 1 /\ s.sent[i].id # id
  BY <1>0, <1>6 DEF SentInv
<1>8. ~Has(s.sent, {"requested"}, id)
  BY <1>7 DEF Has, IsRequest
<1>9. \A x \in open : Has(s.sent, {"requested"}, x) \/ Publishes(state', Stages, {"requested"}, x)
  BY <1>0, <1>5 DEF SentInv, open
<1>10. SentInv(state')
  BY <1>0, <1>4, <1>5, <1>7, <1>8, <1>9 DEF SentInv, KeepsData, open
<1> QED
  BY <1>4, <1>10, KeepsDataKeeps

LEMMA SettleKeepsData ==
  ASSUME RecorderInv(state), DatabaseInv(state), NEW record, record.event \in Settling,
         History!Settle(record)
  PROVE  DatabaseInv(state')
<1> DEFINE s == state
           id == record.id
           thread == History!Begin("runtime", record)
           open == s.open \ {id}
<1>0. SentInv(s) /\ ThreadInv(s) /\ IsRecorder(s)
  BY DEF DatabaseInv, RecorderInv
<1>1. /\ s.thread["runtime"].stage = "idle" /\ id \in s.open
      /\ state' = [s EXCEPT !.open = open, !.thread = thread]
  BY DEF History!Settle, History!IsIdle
<1>2. Begins(thread, s.thread, "runtime", record)
  BY <1>0, BeginFacts DEF History!Threads
<1> HIDE DEF thread, open
<1>4. KeepsData /\ state'.thread = thread /\ state'.open = open /\ state'.next = s.next
  BY <1>0, <1>1 DEF IsRecorder, KeepsData
<1>5. /\ \A x : ~Publishes(state', Stages, {"requested"}, x)
      /\ \A x : Publishes(state', Stages, Settling, x) <=> x = id
      /\ \A evs, x : ~Publishes(s, Stages, evs, x)
  BY <1>1, <1>2, <1>4 DEF Begins, Publishes, Settling, Stages
<1>6. Has(s.sent, {"requested"}, id)
  BY <1>0, <1>1, <1>5 DEF SentInv
<1>7. ~Has(s.sent, Settling, id)
  BY <1>0, <1>1 DEF SentInv, Has, Settles
<1>8. SentInv(state')
  BY <1>0, <1>4, <1>5, <1>6, <1>7 DEF SentInv, KeepsData, open
<1> QED
  BY <1>4, <1>8, KeepsDataKeeps

LEMMA OtherKeepsData ==
  ASSUME RecorderInv(state), DatabaseInv(state), NEW t \in History!Threads, NEW record,
         record.event \in Others, state.thread[t].stage = "idle",
         Begins(state'.thread, state.thread, t, record), KeepsData,
         state'.open = state.open, state'.next = state.next
  PROVE  DatabaseInv(state')
<1>1. t \in {"runtime", "worker"} /\ "runtime" \in DOMAIN state.thread
  BY DEF History!Threads, RecorderInv, ThreadInv
<1>2. \A evs, id : evs \in {Settling, {"requested"}} =>
        (Publishes(state', Stages, evs, id) <=> Publishes(state, Stages, evs, id))
  <2>1. CASE t = "runtime"
    BY <2>1 DEF Begins, Publishes, Stages, Settling, Others
  <2>2. CASE t = "worker"
    BY <1>1, <2>2 DEF Begins, Publishes
  <2> QED
    BY <1>1, <2>1, <2>2
<1>3. SentInv(state')
  BY <1>2, SentStays DEF KeepsData
<1> QED
  BY <1>3, KeepsDataKeeps

LEMMA RecordOtherKeepsData ==
  ASSUME RecorderInv(state), DatabaseInv(state), NEW record, record.event \in Others,
         History!RecordOther(record)
  PROVE  DatabaseInv(state')
<1> DEFINE thread == History!Begin("worker", record)
<1>1. /\ state.thread["worker"].stage = "idle"
      /\ state' = [state EXCEPT !.others = @ + 1, !.thread = thread]
  BY DEF History!RecordOther, History!IsIdle
<1>2. Begins(thread, state.thread, "worker", record)
  BY BeginFacts DEF RecorderInv, History!Threads
<1> HIDE DEF thread
<1>3. /\ state'.thread = thread /\ KeepsData /\ state'.open = state.open
      /\ state'.next = state.next
  BY <1>1 DEF RecorderInv, IsRecorder, KeepsData
<1> QED
  BY <1>1, <1>2, <1>3, OtherKeepsData DEF History!Threads

LEMMA TakeErrorKeepsData ==
  ASSUME RecorderInv(state), DatabaseInv(state), History!TakeError
  PROVE  DatabaseInv(state')
<1> DEFINE record == History!Message(0)
           thread == History!Begin("runtime", record)
<1>1. /\ state.thread["runtime"].stage = "idle"
      /\ state' = [state EXCEPT !.error = FALSE, !.reported = TRUE, !.thread = thread]
  BY DEF History!TakeError, History!IsIdle
<1>2. Begins(thread, state.thread, "runtime", record)
  BY BeginFacts DEF RecorderInv, History!Threads
<1>3. record.event \in Others
  BY DEF History!Message, Others
<1> HIDE DEF thread, record
<1>4. /\ state'.thread = thread /\ KeepsData /\ state'.open = state.open
      /\ state'.next = state.next
  BY <1>1 DEF RecorderInv, IsRecorder, KeepsData
<1> QED
  BY <1>1, <1>2, <1>3, <1>4, OtherKeepsData DEF History!Threads

\* The threads do not move, and the tables stay.
LEMMA LogKeepsData ==
  ASSUME DatabaseInv(state), KeepsData, state'.thread = state.thread,
         state'.open = state.open, state'.next = state.next
  PROVE  DatabaseInv(state')
<1>1. \A evs, id : Publishes(state', Stages, evs, id) <=> Publishes(state, Stages, evs, id)
  BY DEF Publishes
<1>2. SentInv(state')
  BY <1>1, SentStays DEF KeepsData
<1> QED
  BY <1>2, KeepsDataKeeps

LEMMA LogRecordKeepsData ==
  ASSUME RecorderInv(state), DatabaseInv(state), MaxLogEntries \in Nat \ {0},
         NEW fails \in BOOLEAN, History!LogRecord(fails)
  PROVE  DatabaseInv(state')
<1> DEFINE s == state
           record == Head(s.timeline)
           timeline == Tail(s.timeline)
           pending == IF record.event = "requested"
                      THEN [id \in DOMAIN s.pending \cup {record.id} |->
                              IF id = record.id THEN record.action ELSE s.pending[id]]
                      ELSE History!Outstanding(s.pending, record)
           KeepsAll(t) ==
             /\ t.thread = s.thread /\ t.open = s.open /\ t.next = s.next
             /\ t.queue = s.queue /\ t.sent = s.sent /\ t.running = s.running
             /\ t.available = s.available /\ t.error = s.error /\ t.reported = s.reported
             /\ t.rows = s.rows /\ t.logs = s.logs /\ t.measurements = s.measurements
             /\ t.ended = s.ended /\ t.closed = s.closed
<1>0. IsRecorder(s) /\ ThreadInv(s) /\ TimelineInv(s) /\ FileInv(s)
  BY DEF RecorderInv
<1>1. s.timeline # << >> /\ IsTailOf(timeline, s.timeline)
  BY <1>0, TailFacts DEF History!LogRecord, TimelineInv
<1>t. PICK taken : taken = [s EXCEPT !.timeline = timeline, !.pending = pending]
  OBVIOUS
<1>2. \/ state' = taken
      \/ record.event # "requested" /\ state' = History!PushMessage(taken, History!Entry(record), fails)
  BY <1>0, <1>t DEF History!LogRecord, IsRecorder
<1>3. record = s.timeline[1] /\ 1 \in DOMAIN s.timeline
  BY <1>1 DEF IsTailOf
<1>4. record.event \in History!ActionEvents \cup {"log"}
  BY <1>0, <1>3 DEF TimelineInv
<1>5. record.event \in Settling => record.id \in DOMAIN s.pending
  <2>1. \A j \in DOMAIN s.timeline : ~(j < 1)
    BY <1>0, SeqFacts DEF TimelineInv
  <2> QED
    BY <1>0, <1>3, <2>1 DEF TimelineInv
<1>6. record.event # "requested" => History!Entry(record).named
  BY <1>4, <1>5 DEF History!Entry, History!IsNamed, History!ActionEvents, Settling
<1> HIDE DEF record, timeline, pending
<1>7. /\ IsRecorder(taken) /\ KeepsAll(taken) /\ taken.entries = s.entries
      /\ taken.pushed = s.pushed /\ taken.file = s.file /\ taken.file_enabled = s.file_enabled
  BY <1>0, <1>t DEF IsRecorder
<1>8. FileInv(taken)
  BY <1>0, <1>7 DEF FileInv
<1>9. KeepsAll(state')
  <2>1. CASE state' = taken
    BY <1>7, <2>1
  <2>2. CASE record.event # "requested" /\ state' = History!PushMessage(taken, History!Entry(record), fails)
    <3>1. PICK entry : entry = History!Entry(record) /\ entry.named
      BY <1>6, <2>2
    <3>2. /\ state'.thread = taken.thread /\ state'.open = taken.open /\ state'.next = taken.next
          /\ state'.queue = taken.queue /\ state'.sent = taken.sent
          /\ state'.running = taken.running /\ state'.available = taken.available
          /\ state'.error = taken.error /\ state'.reported = taken.reported
          /\ state'.rows = taken.rows /\ state'.logs = taken.logs
          /\ state'.measurements = taken.measurements /\ state'.ended = taken.ended
          /\ state'.closed = taken.closed
      BY <1>7, <1>8, <2>2, <3>1, PushMessageKeeps
    <3> QED
      BY <1>7, <3>2
  <2> QED
    BY <1>2, <2>1, <2>2
<1>10. KeepsData
  BY <1>9 DEF KeepsData
<1> QED
  BY <1>9, <1>10, LogKeepsData

-----------------------------------------------------------------------------
(* The writer. *)
LEMMA CloseKeepsData ==
  ASSUME RecorderInv(state), DatabaseInv(state), History!Close
  PROVE  DatabaseInv(state')
<1> DEFINE s == state
<1>0. SentInv(s) /\ FlagsInv(s) /\ WriterInv(s) /\ IsRecorder(s)
  BY DEF DatabaseInv, RecorderInv
<1>1. PICK e, queue :
        /\ e = [event |-> "shutdown"] /\ queue = Append(s.queue, e) /\ ~s.closed
        /\ state' = [s EXCEPT !.closed = TRUE, !.queue = queue]
  BY DEF History!Close
<1>2. /\ state'.thread = s.thread /\ state'.queue = queue /\ state'.sent = s.sent
      /\ state'.next = s.next /\ state'.open = s.open /\ state'.closed = TRUE
      /\ state'.running = s.running /\ state'.ended = s.ended
      /\ state'.available = s.available /\ state'.error = s.error
      /\ state'.reported = s.reported /\ state'.rows = s.rows /\ state'.logs = s.logs
      /\ state'.measurements = s.measurements
  BY <1>0, <1>1 DEF IsRecorder
<1>3. s.running = TRUE
  BY <1>0, <1>1 DEF FlagsInv
<1>4. Waits(s) = 0 /\ Waits(state') = 1 /\ FlagsInv(state')
  BY <1>0, <1>1, <1>2, <1>3 DEF Waits, FlagsInv
<1>5. \A evs, id : Publishes(state', Stages, evs, id) <=> Publishes(s, Stages, evs, id)
  BY <1>2 DEF Publishes
<1>6. SentInv(state')
  BY <1>2, <1>5, SentStays
<1>7. PICK taken \in Nat : Follows(s.queue, s.sent, 0, taken) /\ TablesAre(s, taken)
  BY <1>0, <1>4 DEF WriterInv
<1>8. Follows(queue, s.sent, 1, taken)
  BY <1>0, <1>1, <1>7, FollowsClosed DEF SentInv
<1>9. \A n : DataIs(state', s.sent, n) <=> DataIs(s, s.sent, n)
  BY <1>2 DEF DataIs
<1>10. TablesAre(state', taken)
  BY <1>2, <1>7, <1>9 DEF TablesAre
<1> QED
  BY <1>2, <1>4, <1>6, <1>8, <1>10 DEF DatabaseInv, WriterInv

\* The writer takes a record, and its tables are of one more or none of it.
Takes(taken) ==
  /\ state'.thread = state.thread /\ state'.sent = state.sent
  /\ state'.next = state.next /\ state'.open = state.open
  /\ state'.closed = state.closed /\ state'.running = state.running
  /\ state'.ended = state.ended
  /\ Follows(state'.queue, state.sent, Waits(state), taken)
  /\ TablesAre(state', taken)

LEMMA TakesKeepsData ==
  ASSUME DatabaseInv(state), state.running, NEW taken \in Nat, Takes(taken)
  PROVE  DatabaseInv(state')
<1>1. FlagsInv(state') /\ Waits(state') = Waits(state)
  BY DEF DatabaseInv, FlagsInv, Waits, Takes
<1>2. \A evs, id : Publishes(state', Stages, evs, id) <=> Publishes(state, Stages, evs, id)
  BY DEF Publishes, Takes
<1>3. SentInv(state')
  BY <1>2, SentStays DEF Takes
<1>4. WriterInv(state')
  BY <1>1 DEF WriterInv, Takes
<1> QED
  BY <1>1, <1>3, <1>4 DEF DatabaseInv

LEMMA WriterKeepsData ==
  ASSUME RecorderInv(state), DatabaseInv(state),
         History!Write \/ History!WriteFails \/ History!Discard
  PROVE  DatabaseInv(state')
<1> DEFINE s == state
<1>0. SentInv(s) /\ FlagsInv(s) /\ IsRecorder(s) /\ IsHistory(s.sent)
  BY DEF DatabaseInv, RecorderInv, SentInv
<1>1. s.running /\ s.queue # << >> /\ Head(s.queue).event # "shutdown"
  BY DEF History!Write, History!WriteFails, History!Discard, History!NextIs
<1>2. PICK taken \in Nat : Follows(s.queue, s.sent, Waits(s), taken) /\ TablesAre(s, taken)
  BY DEF DatabaseInv, WriterInv
<1>3. PICK record, queue : record = Head(s.queue) /\ queue = Tail(s.queue)
  OBVIOUS
<1>4. /\ taken + 1 \in DOMAIN s.sent /\ record = s.sent[taken + 1]
      /\ Follows(queue, s.sent, Waits(s), taken + 1)
  BY <1>0, <1>1, <1>2, <1>3, FollowsTaken
<1>5. taken \in 0..(taken + 1 - 1) /\ \A n \in 0..(taken - 1) : n \in 0..(taken + 1 - 1)
  OBVIOUS
<1>6. CASE History!Write
  <2>1. s.available /\ state' = History!Written(record)
    BY <1>3, <1>6 DEF History!Write
  <2>2. PICK rows, logs, measurements :
          /\ rows = (CASE record.event = "requested" -> History!RequestedRows(s.rows, record)
                       [] record.event \in {"applied", "failed"} ->
                            History!SettledRows(s.rows, record)
                       [] OTHER -> s.rows)
          /\ logs = IF record.event = "log" THEN Append(s.logs, record.id) ELSE s.logs
          /\ measurements = IF record.event = "measurements"
                            THEN Append(s.measurements, record.id) ELSE s.measurements
    OBVIOUS
  <2>3. state' = [s EXCEPT !.queue = queue, !.rows = rows, !.logs = logs,
                           !.measurements = measurements]
    BY <1>0, <1>3, <2>1, <2>2 DEF History!Written, IsRecorder
  <2>4. /\ state'.queue = queue /\ state'.rows = rows /\ state'.logs = logs
        /\ state'.measurements = measurements /\ state'.available = s.available
        /\ state'.thread = s.thread /\ state'.sent = s.sent
        /\ state'.next = s.next /\ state'.open = s.open
        /\ state'.closed = s.closed /\ state'.running = s.running /\ state'.ended = s.ended
    BY <1>0, <2>3 DEF IsRecorder
  <2>5. DataIs(s, s.sent, taken)
    BY <1>2, <2>1 DEF TablesAre
  <2>6. PICK t : t = state'
    OBVIOUS
  <2>7. DataIs(t, s.sent, taken + 1)
    BY <1>0, <1>4, <2>2, <2>4, <2>5, <2>6, DataGrows
  <2>8. TablesAre(state', taken + 1)
    BY <2>1, <2>4, <2>6, <2>7 DEF TablesAre
  <2>9. Takes(taken + 1)
    BY <1>4, <2>4, <2>8 DEF Takes
  <2> QED
    BY <1>1, <2>9, TakesKeepsData
<1>7. CASE History!WriteFails
  <2>1. s.available /\ state' = [s EXCEPT !.queue = queue, !.available = FALSE, !.error = TRUE]
    BY <1>3, <1>7 DEF History!WriteFails
  <2>2. /\ state'.queue = queue /\ state'.rows = s.rows /\ state'.logs = s.logs
        /\ state'.measurements = s.measurements /\ state'.available = FALSE
        /\ state'.error = TRUE /\ state'.thread = s.thread /\ state'.sent = s.sent
        /\ state'.next = s.next /\ state'.open = s.open
        /\ state'.closed = s.closed /\ state'.running = s.running /\ state'.ended = s.ended
    BY <1>0, <2>1 DEF IsRecorder
  <2>3. DataIs(state', s.sent, taken)
    BY <1>2, <2>1, <2>2 DEF TablesAre, DataIs
  <2>4. TablesAre(state', taken + 1)
    BY <1>5, <2>2, <2>3 DEF TablesAre
  <2>5. Takes(taken + 1)
    BY <1>4, <2>2, <2>4 DEF Takes
  <2> QED
    BY <1>1, <2>5, TakesKeepsData
<1>8. CASE History!Discard
  <2>1. ~s.available /\ state' = [s EXCEPT !.queue = queue]
    BY <1>3, <1>8 DEF History!Discard
  <2>2. /\ state'.queue = queue /\ state'.rows = s.rows /\ state'.logs = s.logs
        /\ state'.measurements = s.measurements /\ state'.available = s.available
        /\ state'.error = s.error /\ state'.reported = s.reported
        /\ state'.thread = s.thread /\ state'.sent = s.sent
        /\ state'.next = s.next /\ state'.open = s.open
        /\ state'.closed = s.closed /\ state'.running = s.running /\ state'.ended = s.ended
    BY <1>0, <2>1 DEF IsRecorder
  <2>3. PICK n \in 0..(taken - 1) : DataIs(s, s.sent, n)
    BY <1>2, <2>1 DEF TablesAre
  <2>4. DataIs(state', state'.sent, n) /\ n \in 0..(taken + 1 - 1)
    BY <1>5, <2>2, <2>3 DEF DataIs
  <2>5. TablesAre(state', taken + 1)
    BY <1>2, <2>1, <2>2, <2>4 DEF TablesAre
  <2>6. Takes(taken + 1)
    BY <1>4, <2>2, <2>5 DEF Takes
  <2> QED
    BY <1>1, <2>6, TakesKeepsData
<1> QED
  BY <1>6, <1>7, <1>8

LEMMA ShutdownKeepsData ==
  ASSUME RecorderInv(state), DatabaseInv(state), History!Shutdown
  PROVE  DatabaseInv(state')
<1> DEFINE s == state
<1>0. SentInv(s) /\ FlagsInv(s) /\ IsRecorder(s) /\ IsHistory(s.sent)
  BY DEF DatabaseInv, RecorderInv, SentInv
<1>1. s.running /\ s.queue # << >> /\ Head(s.queue).event = "shutdown"
  BY DEF History!Shutdown, History!NextIs
<1>2. PICK taken \in Nat : Follows(s.queue, s.sent, Waits(s), taken) /\ TablesAre(s, taken)
  BY DEF DatabaseInv, WriterInv
<1>3. PICK queue : queue = Tail(s.queue) /\ state' = [s EXCEPT !.queue = queue, !.running = FALSE, !.ended = TRUE]
  BY DEF History!Shutdown
<1>4. Waits(s) = 1 /\ taken = Len(s.sent) /\ Len(queue) = 0 /\ Follows(queue, s.sent, 0, taken)
  <2>1. PICK waits : waits = Waits(s)
    OBVIOUS
  <2>2. \/ waits = 1 /\ taken = Len(s.sent) /\ Len(queue) = 0 /\ Follows(queue, s.sent, 0, taken)
        \/ Head(s.queue).event # "shutdown"
    <3>1. Follows(s.queue, s.sent, waits, taken) /\ queue = Tail(s.queue)
      BY <1>2, <1>3, <2>1
    <3>2. PICK pending : pending = s.queue /\ pending # << >>
      BY <1>1
    <3>3. PICK sent : sent = s.sent /\ IsHistory(sent)
      BY <1>0
    <3>4. Follows(pending, sent, waits, taken) /\ queue = Tail(pending)
      BY <3>1, <3>2, <3>3
    <3>5. \/ waits = 1 /\ taken = Len(sent) /\ Len(queue) = 0 /\ Follows(queue, sent, 0, taken)
          \/ Head(pending).event # "shutdown"
      BY ZenonT(40), <3>2, <3>3, <3>4, FollowsTaken
    <3> QED
      BY <3>2, <3>3, <3>5
  <2> QED
    BY <1>1, <2>1, <2>2
<1>5. s.closed = TRUE
  BY <1>0, <1>4 DEF Waits, FlagsInv
<1>6. /\ state'.thread = s.thread /\ state'.queue = queue /\ state'.sent = s.sent
      /\ state'.next = s.next /\ state'.open = s.open /\ state'.closed = s.closed
      /\ state'.running = FALSE /\ state'.ended = TRUE
      /\ state'.available = s.available /\ state'.error = s.error
      /\ state'.reported = s.reported /\ state'.rows = s.rows /\ state'.logs = s.logs
      /\ state'.measurements = s.measurements
  BY <1>0, <1>3 DEF IsRecorder
<1>7. FlagsInv(state') /\ Waits(state') = 0
  BY <1>4, <1>5, <1>6 DEF FlagsInv, Waits
<1>8. \A evs, id : Publishes(state', Stages, evs, id) <=> Publishes(s, Stages, evs, id)
  BY <1>6 DEF Publishes
<1>9. SentInv(state')
  BY <1>6, <1>8, SentStays
<1>10. \A n : DataIs(state', s.sent, n) <=> DataIs(s, s.sent, n)
  BY <1>6 DEF DataIs
<1>11. TablesAre(state', taken)
  BY <1>2, <1>6, <1>10 DEF TablesAre
<1> QED
  BY <1>4, <1>6, <1>7, <1>9, <1>11 DEF DatabaseInv, WriterInv

LEMMA DatabaseNext ==
  ASSUME MaxLogEntries \in Nat \ {0}, RecorderInv(state), DatabaseInv(state), History!Next
  PROVE  DatabaseInv(state')
<1>1. ASSUME NEW t \in History!Threads,
             History!PublishEvent(t) \/ History!PublishTimeline(t) \/ History!Send(t)
      PROVE  DatabaseInv(state')
  BY <1>1, PublishKeepsData, SendKeepsData
<1>2. ASSUME NEW command, History!Request(command)
      PROVE  DatabaseInv(state')
  BY <1>2, RequestKeepsData
<1>3. ASSUME NEW record, record.event \in Settling, History!Settle(record)
      PROVE  DatabaseInv(state')
  BY <1>3, SettleKeepsData
<1>4. \A id, series : History!Failed(id).event \in Settling
                      /\ History!Applied(id, series).event \in Settling
  BY DEF History!Failed, History!Applied, Settling
<1>5. ASSUME NEW n, History!RecordOther(History!Message(n))
                    \/ History!RecordOther(History!MeasurementRecord(n))
      PROVE  DatabaseInv(state')
  <2>1. History!Message(n).event \in Others /\ History!MeasurementRecord(n).event \in Others
    BY DEF History!Message, History!MeasurementRecord, Others
  <2> QED
    BY <1>5, <2>1, RecordOtherKeepsData
<1>6. CASE History!Unsubscribe
  <2>1. state' = [state EXCEPT !.subscribed = FALSE]
    BY <1>6 DEF History!Unsubscribe
  <2>2. /\ KeepsData /\ state'.thread = state.thread /\ state'.open = state.open
        /\ state'.next = state.next
    BY <2>1 DEF RecorderInv, IsRecorder, KeepsData
  <2> QED
    BY <2>2, LogKeepsData
<1>7. CASE History!TakeError \/ History!Close \/ History!Shutdown
  BY <1>7, TakeErrorKeepsData, CloseKeepsData, ShutdownKeepsData
<1>8. CASE History!Write \/ History!WriteFails \/ History!Discard
  BY <1>8, WriterKeepsData
<1>9. ASSUME NEW fails \in BOOLEAN, History!LogRecord(fails) PROVE DatabaseInv(state')
  BY <1>9, LogRecordKeepsData
<1> QED
  BY <1>1, <1>2, <1>3, <1>4, <1>5, <1>6, <1>7, <1>8, <1>9 DEF History!Next

-----------------------------------------------------------------------------
\* The records that are queued are those sent and not taken.
LEMMA QueuedFacts ==
  ASSUME NEW queue, NEW sent, IsHistory(sent), NEW waits, NEW taken, Follows(queue, sent, waits, taken),
         NEW queued, queued = {i \in DOMAIN queue : queue[i].event # "shutdown"}
  PROVE  Len(sent) - Cardinality(queued) = taken
<1>1. /\ Len(sent) \in Nat /\ DOMAIN sent = 1..Len(sent)
      /\ Len(queue) \in Nat /\ DOMAIN queue = 1..Len(queue)
      /\ waits \in {0, 1} /\ taken + Len(queue) = Len(sent) + waits /\ taken \in Nat
      /\ waits <= Len(queue)
  BY SentFacts, SeqFacts DEF Follows
<1>q. PICK q \in Nat : q = Len(queue)
  BY <1>1
<1>n. PICK n \in Nat : n = Len(sent)
  BY <1>1
<1>w. PICK w \in Nat : w = waits
  BY <1>1
<1>2. q = Len(queue) /\ n = Len(sent) /\ w = waits
  BY <1>q, <1>n, <1>w
<1>3. ASSUME NEW i \in DOMAIN queue, i <= q - w PROVE queue[i].event # "shutdown"
  <2>1. taken + i \in DOMAIN sent
    <3>1. i \in 1..q /\ taken + q = n + w
      BY <1>1, <1>2
    <3>2. taken + i \in 1..n
      BY <1>1, <1>3, <3>1
    <3> QED
      BY <1>1, <1>2, <3>2
  <2>2. queue[i] = sent[taken + i]
    BY <1>2, <1>3 DEF Follows
  <2> QED
    BY <2>1, <2>2 DEF IsHistory, History!ActionEvents, Others
<1>4. ASSUME NEW i \in DOMAIN queue, ~(i <= q - w) PROVE queue[i].event = "shutdown"
  <2>1. i \in 1..q /\ w \in {0, 1}
    BY <1>1, <1>2
  <2>2. w = 1 /\ i = q
    BY <1>4, <2>1
  <2> QED
    BY <1>2, <2>2 DEF Follows
<1>5. queued = 1..(q - w)
  <2>1. DOMAIN queue = 1..q /\ w <= q
    BY <1>1, <1>2
  <2>2. \A i \in DOMAIN queue : queue[i].event # "shutdown" <=> i <= q - w
    BY <1>3, <1>4
  <2>3. \A i : i \in queued <=> i \in 1..q /\ i <= q - w
    BY <2>1, <2>2
  <2>4. \A i : i \in 1..(q - w) <=> i \in 1..q /\ i <= q - w
    OBVIOUS
  <2> QED
    BY <2>3, <2>4
<1>6. q - w \in Nat /\ Cardinality(1..(q - w)) = q - w
  <2>1. q - w \in Nat
    BY <1>1, <1>2
  <2>2. Cardinality(1..(q - w)) = IF 1 > q - w THEN 0 ELSE q - w - 1 + 1
    BY <2>1, FS_Interval
  <2> QED
    BY <2>1, <2>2
<1>7. taken + q = n + w
  BY <1>1, <1>2
<1>8. n - (q - w) = taken
  BY <1>1, <1>7
<1> QED
  BY <1>2, <1>5, <1>6, <1>8

LEMMA DatabaseIsWhole == RecorderInv(state) /\ DatabaseInv(state) => History!HistoryHasNoHoles
<1> SUFFICES ASSUME RecorderInv(state), DatabaseInv(state) PROVE History!HistoryHasNoHoles
  OBVIOUS
<1> DEFINE s == state
           queued == {i \in DOMAIN s.queue : s.queue[i].event # "shutdown"}
<1>0. SentInv(s) /\ FlagsInv(s) /\ IsHistory(s.sent)
  BY DEF DatabaseInv, SentInv
<1>1. PICK taken \in Nat : Follows(s.queue, s.sent, Waits(s), taken) /\ TablesAre(s, taken)
  BY DEF DatabaseInv, WriterInv
<1>2. Len(s.sent) - History!Cardinality(queued) = taken
  <2>1. Len(s.sent) - Cardinality(queued) = taken
    BY <1>0, <1>1, QueuedFacts
  <2>2. History!Cardinality(queued) = Cardinality(queued)
    BY SameCardinality
  <2> QED
    BY <2>1, <2>2
<1>3. Len(s.sent) \in Nat /\ taken <= Len(s.sent)
  BY <1>0, <1>1, SentFacts DEF Follows
<1>4. s.available => History!View = History!History(taken)
  BY <1>0, <1>1, <1>3, DataIsHistory DEF TablesAre
<1>5. ~s.available => /\ s.error \/ s.reported
                      /\ \E n \in 0..(taken - 1) : History!View = History!History(n)
  <2> SUFFICES ASSUME ~s.available
               PROVE  /\ s.error \/ s.reported
                      /\ \E n \in 0..(taken - 1) : History!View = History!History(n)
    OBVIOUS
  <2>1. s.error \/ s.reported
    BY <1>1 DEF TablesAre
  <2>2. PICK n \in 0..(taken - 1) : DataIs(s, s.sent, n)
    BY <1>1 DEF TablesAre
  <2>3. n \in Nat /\ n <= Len(s.sent)
    BY <1>3
  <2>4. History!View = History!History(n)
    BY <1>0, <2>2, <2>3, DataIsHistory
  <2> QED
    BY <2>1, <2>4
<1>6. s.ended => taken = Len(s.sent)
  <2> SUFFICES ASSUME s.ended PROVE taken = Len(s.sent)
    OBVIOUS
  <2>1. Len(s.queue) = 0 /\ Waits(s) = 0
    BY <1>0 DEF FlagsInv, Waits
  <2>2. taken + 0 = Len(s.sent) + 0
    BY <1>1, <2>1 DEF Follows
  <2> QED
    BY <1>3, <2>2
<1> HIDE DEF queued
<1>7. \A view, n : n = taken => History!History(n) = History!History(taken)
  OBVIOUS
<1> QED
  BY <1>2, <1>4, <1>5, <1>6 DEF History!HistoryHasNoHoles, queued

RecorderSafe == component = "history" => RecorderInv(state) /\ DatabaseInv(state)

LEMMA RecorderAlways == Spec => []RecorderSafe
<1>1. Init => RecorderSafe
  BY RecorderInit, DatabaseInit, LogKeepsEntries DEF Init, RecorderSafe
<1>2. RecorderSafe /\ [Next]_vars => RecorderSafe'
  <2> SUFFICES ASSUME RecorderSafe, [Next]_vars PROVE RecorderSafe'
    OBVIOUS
  <2>1. CASE UNCHANGED vars
    <3>1. state' = state /\ component' = component
      BY <2>1 DEF vars
    <3>2. PICK t : t = state'
      OBVIOUS
    <3>3. component = "history" => RecorderInv(t) /\ DatabaseInv(t)
      BY <3>1, <3>2 DEF RecorderSafe
    <3> QED
      BY <3>1, <3>2, <3>3 DEF RecorderSafe
  <2>2. CASE component = "history" /\ History!Next /\ UNCHANGED component
    BY <2>2, RecorderNext, DatabaseNext, LogKeepsEntries DEF RecorderSafe
  <2>3. CASE component # "history" /\ UNCHANGED component
    BY <2>3 DEF RecorderSafe
  <2> QED
    BY <2>1, <2>2, <2>3 DEF Next
<1> QED
  BY <1>1, <1>2, PTL DEF Spec

\* The log names every action it reports, its file has no hole and the
\* subscribers of the hub see a request before its outcome, however the records
\* of two threads overlap (ApplicationEventHub::publish, LogModel::poll).
THEOREM LogAlwaysTellsTheHistory == Spec => []LogTellsTheHistory
<1>1. RecorderSafe => LogTellsTheHistory
  BY LogIsTold DEF RecorderSafe, LogTellsTheHistory
<1> QED
  BY <1>1, RecorderAlways, PTL

\* The database is the history of the session up to some moment, without a hole:
\* all that was taken until the writer fails, which is reported, and nothing
\* after (the channel and the thread of process_recorder.rs).
THEOREM HistoryNeverHasHoles == Spec => []HistoryHasNoHoles
<1>1. RecorderSafe => HistoryHasNoHoles
  BY DatabaseIsWhole DEF RecorderSafe, HistoryHasNoHoles
<1> QED
  BY <1>1, RecorderAlways, PTL

(***************************************************************************)
(* Requests of scripts.                                                    *)
(***************************************************************************)
IsLua(s) ==
  s = [series |-> s.series, loops |-> s.loops, held |-> s.held, queue |-> s.queue,
       underway |-> s.underway, script |-> s.script, latest |-> s.latest, open |-> s.open,
       sent |-> s.sent]
IsExecution(x) ==
  x = [status |-> x.status, run |-> x.run, call |-> x.call, step |-> x.step,
       request |-> x.request, reply |-> x.reply]
IsRow(row) == row = [run |-> row.run, fate |-> row.fate, told |-> row.told]

\* What is queued or at a worker is a request of its own, whose fate says so.
QueueInv(queue, sent) ==
  /\ IsSeq(queue)
  /\ \A i \in DOMAIN queue : /\ queue[i].id \in DOMAIN sent
                             /\ sent[queue[i].id].fate = "queued"
                             /\ queue[i].run = sent[queue[i].id].run
  /\ \A i, j \in DOMAIN queue : queue[i].id = queue[j].id => i = j
UnderwayInv(underway, sent) ==
  /\ \A m \in underway : m.id \in DOMAIN sent /\ sent[m.id].fate = "underway"
  /\ \A m, n \in underway : m.id = n.id => m = n

\* The script waits for a request it has not been told of, and a reply that has
\* come says what became of it.
ScriptInv(script, sent) ==
  script.status = "waiting" =>
    /\ script.request \in DOMAIN sent
    /\ sent[script.request].told = "waiting"
    /\ script.reply # << >> =>
         /\ script.reply[1].told \in DOMAIN Scripting!Means
         /\ sent[script.request].fate = Scripting!Means[script.reply[1].told]

Truthful(sent) ==
  \A i \in DOMAIN sent : sent[i].told \in DOMAIN Scripting!Means => sent[i].fate = Scripting!Means[sent[i].told]

RequestsInv(s) ==
  /\ IsLua(s) /\ IsExecution(s.script)
  /\ IsSeq(s.sent) /\ \A i \in DOMAIN s.sent : IsRow(s.sent[i])
  /\ QueueInv(s.queue, s.sent)
  /\ UnderwayInv(s.underway, s.sent)
  /\ ScriptInv(s.script, s.sent)
  /\ Truthful(s.sent)

\* What became of a request changed in a step, which was not to lose it.
Touched(s, t) ==
  {i \in DOMAIN s.sent : s.sent[i].fate = "queued" /\ t.sent[i].fate \notin {"queued", "dropped"}}

LEMMA MeansFacts ==
  /\ DOMAIN Scripting!Means = {"ok", "failed", "disconnected"}
  /\ Scripting!Means.ok = "executed" /\ Scripting!Means.failed = "failed" /\ Scripting!Means.disconnected = "dropped"
  /\ Scripting!Means["ok"] = "executed" /\ Scripting!Means["failed"] = "failed" /\ Scripting!Means["disconnected"] = "dropped"
BY DEF Scripting!Means

\* The fate of one request is set.
LEMMA FateFacts ==
  ASSUME NEW q, IsSeq(q), \A i \in DOMAIN q : IsRow(q[i]),
         NEW id \in DOMAIN q, NEW f, NEW r, r = [q EXCEPT ![id].fate = f]
  PROVE  /\ IsSeq(r) /\ DOMAIN r = DOMAIN q
         /\ \A i \in DOMAIN r : IsRow(r[i]) /\ r[i].run = q[i].run /\ r[i].told = q[i].told
         /\ r[id].fate = f
         /\ \A i \in DOMAIN r : i # id => r[i] = q[i]
<1> DEFINE e == [q[id] EXCEPT !.fate = f]
           S == {q[i] : i \in DOMAIN q} \cup {e}
<1>1. q \in Seq(S) /\ e \in S /\ r = [q EXCEPT ![id] = e]
  BY DEF IsSeq
<1>2. IsRow(e) /\ e.run = q[id].run /\ e.told = q[id].told /\ e.fate = f
  BY DEF IsRow
<1> HIDE DEF S, e
<1>3. DOMAIN q = 1..Len(q)
  BY SeqFacts
<1>4. IsSeq(r)
  BY <1>1, <1>3, ExceptSeq, IsSeqOf
<1>5. DOMAIN r = DOMAIN q /\ r[id] = e /\ \A i \in DOMAIN r : i # id => r[i] = q[i]
  BY <1>1
<1> QED
  BY <1>2, <1>4, <1>5

TellsOne(r, q, id, told) ==
  /\ IsSeq(r) /\ DOMAIN r = DOMAIN q /\ Len(r) = Len(q)
  /\ \A i \in DOMAIN r : IsRow(r[i]) /\ r[i].run = q[i].run /\ r[i].fate = q[i].fate
  /\ r[id].told = told
  /\ \A i \in DOMAIN r : i # id => r[i] = q[i]

\* What the script was told of one request is set.
LEMMA ToldFacts ==
  ASSUME NEW q, IsSeq(q), \A i \in DOMAIN q : IsRow(q[i]),
         NEW id \in DOMAIN q, NEW f, NEW r, r = [q EXCEPT ![id].told = f]
  PROVE  TellsOne(r, q, id, f)
<1> DEFINE e == [q[id] EXCEPT !.told = f]
           S == {q[i] : i \in DOMAIN q} \cup {e}
<1>1. q \in Seq(S) /\ e \in S /\ r = [q EXCEPT ![id] = e]
  BY DEF IsSeq
<1>2. IsRow(e) /\ e.run = q[id].run /\ e.fate = q[id].fate /\ e.told = f
  BY DEF IsRow
<1> HIDE DEF S, e
<1>3. DOMAIN q = 1..Len(q)
  BY SeqFacts
<1>4. r \in Seq(S) /\ Len(r) = Len(q)
  BY <1>1, <1>3, ExceptSeq
<1>6. IsSeq(r)
  BY <1>4, IsSeqOf
<1>5. DOMAIN r = DOMAIN q /\ r[id] = e /\ \A i \in DOMAIN r : i # id => r[i] = q[i]
  BY <1>1
<1> QED
  BY <1>2, <1>4, <1>5, <1>6 DEF TellsOne

\* A request that was queued or at a worker is settled, and is in neither after.
CanSettle(after, id) ==
  /\ IsLua(after) /\ after.script = state.script /\ after.sent = state.sent
  /\ QueueInv(after.queue, state.sent) /\ UnderwayInv(after.underway, state.sent)
  /\ id \in DOMAIN state.sent /\ state.sent[id].fate \in {"queued", "underway"}
  /\ \A i \in DOMAIN after.queue : after.queue[i].id # id
  /\ \A m \in after.underway : m.id # id
Tells(told, fate) == told \in DOMAIN Scripting!Means /\ fate = Scripting!Means[told]

LEMMA SettledKeeps ==
  ASSUME RequestsInv(state),
         NEW after, NEW id, CanSettle(after, id),
         NEW told, NEW fate, Tells(told, fate), NEW found,
         NEW t, t = Scripting!Settled(after, id, fate, told, found)
  PROVE  RequestsInv(t) /\ Touched(state, t) \subseteq {id}
<1> DEFINE sent == [state.sent EXCEPT ![id].fate = fate]
           reply == IF Scripting!ListensTo(id) THEN <<[told |-> told, found |-> found]>>
                    ELSE state.script.reply
           script == [state.script EXCEPT !.reply = reply]
<1>0. /\ IsLua(after) /\ after.script = state.script /\ after.sent = state.sent
      /\ QueueInv(after.queue, state.sent) /\ UnderwayInv(after.underway, state.sent)
      /\ id \in DOMAIN state.sent /\ state.sent[id].fate \in {"queued", "underway"}
      /\ \A i \in DOMAIN after.queue : after.queue[i].id # id
      /\ \A m \in after.underway : m.id # id
      /\ told \in DOMAIN Scripting!Means /\ fate = Scripting!Means[told]
  BY DEF CanSettle, Tells
<1>1. t = [after EXCEPT !.sent = sent, !.script = script]
  BY <1>0 DEF RequestsInv, IsLua, IsExecution, Scripting!Settled
<1>2. /\ IsLua(t) /\ t.sent = sent /\ t.script = script
      /\ t.queue = after.queue /\ t.underway = after.underway
  BY <1>0, <1>1 DEF IsLua
<1>3. /\ IsExecution(script) /\ script.status = state.script.status
      /\ script.request = state.script.request /\ script.reply = reply
  BY DEF RequestsInv, IsExecution
<1> HIDE DEF sent, script
<1>4. /\ IsSeq(sent) /\ DOMAIN sent = DOMAIN state.sent
      /\ \A i \in DOMAIN sent : /\ IsRow(sent[i]) /\ sent[i].run = state.sent[i].run
                                /\ sent[i].told = state.sent[i].told
      /\ sent[id].fate = fate
      /\ \A i \in DOMAIN sent : i # id => sent[i] = state.sent[i]
  BY <1>0, FateFacts DEF RequestsInv, sent
<1>5. QueueInv(t.queue, sent)
  BY <1>0, <1>2, <1>4 DEF QueueInv
<1>6. UnderwayInv(t.underway, sent)
  BY <1>0, <1>2, <1>4 DEF UnderwayInv
<1>7. ScriptInv(script, sent)
  <2> SUFFICES ASSUME script.status = "waiting" PROVE ScriptInv(script, sent)
    BY DEF ScriptInv
  <2>1. /\ script.request \in DOMAIN sent /\ sent[script.request].told = "waiting"
    BY <1>3, <1>4 DEF RequestsInv, ScriptInv
  <2>2. CASE script.request = id
    <3>1. script.reply = <<[told |-> told, found |-> found]>>
      BY <2>2, <1>3 DEF Scripting!ListensTo
    <3> QED
      BY <1>0, <2>1, <2>2, <3>1, <1>4 DEF ScriptInv
  <2>3. CASE script.request # id
    <3>1. script.reply = state.script.reply /\ sent[script.request] = state.sent[script.request]
      BY <2>1, <2>3, <1>3, <1>4 DEF Scripting!ListensTo
    <3> QED
      BY <2>1, <3>1, <1>3, <1>4 DEF RequestsInv, ScriptInv
  <2> QED
    BY <2>2, <2>3
<1>8. Truthful(sent)
  BY <1>0, <1>4, MeansFacts DEF RequestsInv, Truthful
<1>9. Touched(state, t) \subseteq {id}
  BY <1>2, <1>4 DEF Touched
<1> QED
  BY <1>2, <1>3, <1>4, <1>5, <1>6, <1>7, <1>8, <1>9 DEF RequestsInv

\* The oldest command is taken and settled.
TakesHead(after) ==
  /\ IsLua(after) /\ after.script = state.script /\ after.sent = state.sent
  /\ after.queue = Tail(state.queue) /\ after.underway = state.underway

LEMMA HeadSettledKeeps ==
  ASSUME RequestsInv(state), state.queue # << >>,
         NEW after, TakesHead(after),
         NEW told, NEW fate, Tells(told, fate), NEW found,
         NEW t, t = Scripting!Settled(after, Head(state.queue).id, fate, told, found)
  PROVE  /\ RequestsInv(t) /\ Touched(state, t) \subseteq {Head(state.queue).id}
<1> DEFINE queue == Tail(state.queue)
           id == Head(state.queue).id
<1>0. IsSeq(state.queue)
  BY DEF RequestsInv, QueueInv
<1>q. queue = Tail(state.queue)
  OBVIOUS
<1> HIDE DEF queue, id
<1>1. IsTailOf(queue, state.queue)
  BY <1>0, <1>q, TailFacts
<1>2. id \in DOMAIN state.sent /\ state.sent[id].fate = "queued"
  BY <1>1 DEF RequestsInv, QueueInv, id, IsTailOf
<1>3. \A i \in DOMAIN queue : queue[i].id # id
  <2> SUFFICES ASSUME NEW i \in DOMAIN queue, queue[i].id = id PROVE FALSE
    OBVIOUS
  <2>1. i + 1 = 1
    BY <1>1 DEF RequestsInv, QueueInv, id, IsTailOf
  <2> QED
    BY <2>1, <1>1 DEF IsTailOf
<1>4. QueueInv(queue, state.sent)
  <2>1. ASSUME NEW i \in DOMAIN queue, NEW j \in DOMAIN queue, queue[i].id = queue[j].id
        PROVE  i = j
    <3>1. i + 1 = j + 1
      BY <1>1, <2>1 DEF RequestsInv, QueueInv, IsTailOf
    <3> QED
      BY <1>1, <3>1 DEF IsTailOf
  <2>2. \A i \in DOMAIN queue : /\ queue[i].id \in DOMAIN state.sent
                                /\ state.sent[queue[i].id].fate = "queued"
                                /\ queue[i].run = state.sent[queue[i].id].run
    BY <1>1 DEF RequestsInv, QueueInv, IsTailOf
  <2> QED
    BY <1>1, <2>1, <2>2 DEF QueueInv, IsTailOf
<1>5. \A m \in state.underway : m.id # id
  BY <1>2 DEF RequestsInv, UnderwayInv
<1>6. UnderwayInv(state.underway, state.sent)
  BY DEF RequestsInv
<1>7. /\ after.queue = queue /\ id = Head(state.queue).id
      /\ t = Scripting!Settled(after, id, fate, told, found)
  BY DEF queue, id, TakesHead
<1>8. CanSettle(after, id)
  BY <1>2, <1>3, <1>4, <1>5, <1>6, <1>7 DEF CanSettle, TakesHead
<1>9. RequestsInv(t) /\ Touched(state, t) \subseteq {id}
  BY <1>7, <1>8, SettledKeeps
<1> QED
  BY <1>7, <1>9

\* A request at a worker is taken from it and settled.
LEMMA UnderwaySettledKeeps ==
  ASSUME RequestsInv(state), NEW m \in state.underway,
         NEW after, after = [state EXCEPT !.underway = @ \ {m}],
         NEW told, NEW fate, Tells(told, fate), NEW found,
         NEW t, t = Scripting!Settled(after, m.id, fate, told, found)
  PROVE  RequestsInv(t) /\ Touched(state, t) = {}
<1>1. /\ IsLua(after) /\ after.script = state.script /\ after.sent = state.sent
      /\ after.queue = state.queue /\ after.underway = state.underway \ {m}
  BY DEF RequestsInv, IsLua
<1>2. m.id \in DOMAIN state.sent /\ state.sent[m.id].fate = "underway"
  BY DEF RequestsInv, UnderwayInv
<1>3. QueueInv(after.queue, state.sent)
  BY <1>1 DEF RequestsInv
<1>4. UnderwayInv(after.underway, state.sent) /\ \A n \in after.underway : n.id # m.id
  BY <1>1 DEF RequestsInv, UnderwayInv
<1>5. \A i \in DOMAIN after.queue : after.queue[i].id # m.id
  BY <1>1, <1>2 DEF RequestsInv, QueueInv
<1>6. CanSettle(after, m.id)
  BY <1>1, <1>2, <1>3, <1>4, <1>5 DEF CanSettle
<1>7. RequestsInv(t) /\ Touched(state, t) \subseteq {m.id}
  BY <1>6, SettledKeeps
<1>8. m.id \notin Touched(state, t)
  BY <1>2 DEF Touched
<1> QED
  BY <1>7, <1>8

LEMMA AnsweredKeeps ==
  ASSUME NEW after, NEW id, NEW error, NEW found, NEW t,
         t = Scripting!Answered(after, id, error, found)
  PROVE  \E told, fate, f : Tells(told, fate) /\ t = Scripting!Settled(after, id, fate, told, f)
<1>1. Tells("ok", "executed") /\ Tells("failed", "failed")
  BY MeansFacts DEF Tells
<1> QED
  BY <1>1 DEF Scripting!Answered

LEMMA DroppedKeeps ==
  ASSUME NEW after, NEW m, NEW t, t = Scripting!Dropped(after, m)
  PROVE  \E f : /\ Tells("disconnected", "dropped")
                /\ t = Scripting!Settled(after, m.id, "dropped", "disconnected", f)
BY MeansFacts DEF Tells, Scripting!Dropped

\* What was sent is the same but for what the script was told.
SameRequests(after) ==
  /\ IsLua(after) /\ after.queue = state.queue /\ after.underway = state.underway
  /\ IsSeq(after.sent) /\ DOMAIN after.sent = DOMAIN state.sent
  /\ Len(after.sent) = Len(state.sent)
  /\ \A i \in DOMAIN after.sent : /\ IsRow(after.sent[i])
                                  /\ after.sent[i].run = state.sent[i].run
                                  /\ after.sent[i].fate = state.sent[i].fate
  /\ Truthful(after.sent)

LEMMA SameIsSame ==
  ASSUME RequestsInv(state)
  PROVE  SameRequests(state)
BY DEF RequestsInv, SameRequests

LEMMA ToldSame ==
  ASSUME RequestsInv(state), state.script.status = "waiting",
         NEW told,
         told \in DOMAIN Scripting!Means => state.sent[state.script.request].fate = Scripting!Means[told]
  PROVE  SameRequests(Scripting!Told(told)) /\ Scripting!Told(told).script = state.script
<1> DEFINE id == state.script.request
           sent == [state.sent EXCEPT ![id].told = told]
           t == Scripting!Told(told)
<1>1. t = [state EXCEPT !.sent = sent]
  BY DEF Scripting!Told, RequestsInv, IsLua
<1>2. /\ IsLua(t) /\ t.sent = sent /\ t.queue = state.queue /\ t.underway = state.underway
      /\ t.script = state.script
  BY <1>1 DEF RequestsInv, IsLua
<1>3. id \in DOMAIN state.sent
  BY DEF RequestsInv, ScriptInv
<1> HIDE DEF sent, t
<1>a. IsSeq(state.sent) /\ \A i \in DOMAIN state.sent : IsRow(state.sent[i])
  BY DEF RequestsInv
<1>b. sent = [state.sent EXCEPT ![id].told = told]
  BY DEF sent
<1>c. TellsOne(sent, state.sent, id, told)
  BY <1>3, <1>a, <1>b, ToldFacts
<1>4. /\ IsSeq(sent) /\ DOMAIN sent = DOMAIN state.sent /\ Len(sent) = Len(state.sent)
      /\ \A i \in DOMAIN sent : /\ IsRow(sent[i]) /\ sent[i].run = state.sent[i].run
                                /\ sent[i].fate = state.sent[i].fate
      /\ sent[id].told = told
      /\ \A i \in DOMAIN sent : i # id => sent[i] = state.sent[i]
  BY <1>c DEF TellsOne
<1>5. Truthful(sent)
  <2> SUFFICES ASSUME NEW i \in DOMAIN sent, sent[i].told \in DOMAIN Scripting!Means
               PROVE  sent[i].fate = Scripting!Means[sent[i].told]
    BY DEF Truthful
  <2>1. CASE i = id
    BY <2>1, <1>4
  <2>2. CASE i # id
    BY <2>2, <1>4 DEF RequestsInv, Truthful
  <2> QED
    BY <2>1, <2>2
<1> QED
  BY <1>2, <1>4, <1>5 DEF SameRequests, t

LEMMA SameSent ==
  ASSUME RequestsInv(state), NEW after, SameRequests(after)
  PROVE  /\ QueueInv(after.queue, after.sent) /\ UnderwayInv(after.underway, after.sent)
         /\ Touched(state, after) = {}
<1>1. QueueInv(after.queue, after.sent)
  BY DEF RequestsInv, SameRequests, QueueInv
<1>2. UnderwayInv(after.underway, after.sent)
  BY DEF RequestsInv, SameRequests, UnderwayInv
<1>3. Touched(state, after) = {}
  BY DEF SameRequests, Touched
<1> QED
  BY <1>1, <1>2, <1>3

\* The script runs on.
LEMMA RunningFacts ==
  IsExecution(Scripting!Running) /\ Scripting!Running.status = "running"
  /\ Scripting!Running.run = state.script.run
BY DEF Scripting!Running, Scripting!Idle, Scripting!NoReply, IsExecution

LEMMA ResumedKeeps ==
  ASSUME RequestsInv(state), NEW after, SameRequests(after),
         NEW t, IsLua(t), t.queue = after.queue, t.underway = after.underway,
         t.sent = after.sent, IsExecution(t.script), t.script.status = "running"
  PROVE  RequestsInv(t) /\ Touched(state, t) = {}
<1>1. /\ QueueInv(t.queue, t.sent) /\ UnderwayInv(t.underway, t.sent)
      /\ Touched(state, after) = {}
  BY SameSent
<1>2. ScriptInv(t.script, t.sent)
  BY DEF ScriptInv
<1>3. Touched(state, t) = {}
  BY <1>1 DEF Touched
<1> QED
  BY <1>1, <1>2, <1>3 DEF RequestsInv, SameRequests

\* A command is sent: it is the last of the queue, with an id of its own.
LEMMA CommandFacts ==
  ASSUME NEW c, NEW step
  PROVE  /\ Scripting!Command(c, step).id = Len(state.sent) + 1
         /\ Scripting!Command(c, step).run = state.script.run
BY DEF Scripting!Command, Scripting!Tag

Enqueues(t, after, m, row) ==
  /\ IsLua(t) /\ t.queue = Append(after.queue, m) /\ t.sent = Append(after.sent, row)
  /\ t.underway = after.underway
  /\ m.id = Len(after.sent) + 1 /\ m.run = row.run
  /\ IsRow(row) /\ row.fate = "queued" /\ row.told \in {"sent", "waiting"}
  /\ IsExecution(t.script)
  /\ \/ t.script.status = "running"
     \/ row.told = "waiting" /\ t.script.request = m.id /\ t.script.reply = << >>

LEMMA EnqueuedKeeps ==
  ASSUME RequestsInv(state), NEW after, SameRequests(after),
         NEW t, NEW m, NEW row, Enqueues(t, after, m, row)
  PROVE  RequestsInv(t) /\ Touched(state, t) = {}
<1> DEFINE id == Len(after.sent) + 1
<1>1. /\ QueueInv(after.queue, after.sent) /\ UnderwayInv(after.underway, after.sent)
      /\ IsSeq(after.sent) /\ IsSeq(after.queue)
      /\ \A i \in DOMAIN after.sent : IsRow(after.sent[i]) /\ Truthful(after.sent)
  BY SameSent DEF SameRequests, QueueInv
<1>2. /\ IsLua(t) /\ t.queue = Append(after.queue, m) /\ t.sent = Append(after.sent, row)
      /\ t.underway = after.underway /\ m.id = id /\ m.run = row.run
      /\ IsRow(row) /\ row.fate = "queued" /\ row.told \in {"sent", "waiting"}
      /\ IsExecution(t.script)
      /\ \/ t.script.status = "running"
         \/ row.told = "waiting" /\ t.script.request = m.id /\ t.script.reply = << >>
  BY DEF Enqueues
<1>3. /\ IsSeq(t.sent) /\ DOMAIN t.sent = DOMAIN after.sent \cup {id} /\ t.sent[id] = row
      /\ \A i \in DOMAIN after.sent : t.sent[i] = after.sent[i]
      /\ id \notin DOMAIN after.sent
  <2>1. DOMAIN after.sent = 1..Len(after.sent) /\ Len(after.sent) \in Nat
    BY <1>1, SeqFacts
  <2>2. IsAppendOf(t.sent, after.sent, row)
    BY <1>1, <1>2, AppendFacts
  <2> QED
    BY <2>1, <2>2 DEF IsAppendOf
<1> HIDE DEF id
<1>4. QueueInv(t.queue, t.sent)
  <2> DEFINE n == Len(after.queue) + 1
  <2>1. /\ IsSeq(t.queue) /\ DOMAIN t.queue = DOMAIN after.queue \cup {n}
        /\ t.queue[n] = m /\ \A i \in DOMAIN after.queue : t.queue[i] = after.queue[i]
    <3>1. IsAppendOf(t.queue, after.queue, m)
      BY <1>1, <1>2, AppendFacts
    <3> QED
      BY <3>1 DEF IsAppendOf
  <2> HIDE DEF n
  <2>2. \A i \in DOMAIN after.queue : /\ t.queue[i].id \in DOMAIN after.sent
                                      /\ t.sent[t.queue[i].id] = after.sent[t.queue[i].id]
    BY <2>1, <1>1, <1>3 DEF QueueInv
  <2>3. ASSUME NEW i \in DOMAIN t.queue
        PROVE  /\ t.queue[i].id \in DOMAIN t.sent
               /\ t.sent[t.queue[i].id].fate = "queued"
               /\ t.queue[i].run = t.sent[t.queue[i].id].run
    <3>1. CASE i = n
      BY <3>1, <2>1, <1>2, <1>3
    <3>2. CASE i \in DOMAIN after.queue
      BY <3>2, <2>1, <2>2, <1>1, <1>3 DEF QueueInv
    <3> QED
      BY <3>1, <3>2, <2>1
  <2>4. ASSUME NEW i \in DOMAIN t.queue, NEW j \in DOMAIN t.queue, t.queue[i].id = t.queue[j].id
        PROVE  i = j
    <3>1. CASE i \in DOMAIN after.queue /\ j \in DOMAIN after.queue
      BY <3>1, <2>1, <2>4, <1>1 DEF QueueInv
    <3>2. CASE i = n /\ j = n
      BY <3>2
    <3>3. CASE i = n /\ j \in DOMAIN after.queue
      BY <3>3, <2>1, <2>2, <2>4, <1>2, <1>3
    <3>4. CASE j = n /\ i \in DOMAIN after.queue
      BY <3>4, <2>1, <2>2, <2>4, <1>2, <1>3
    <3> QED
      BY <3>1, <3>2, <3>3, <3>4, <2>1
  <2> QED
    BY <2>1, <2>3, <2>4 DEF QueueInv
<1>5. UnderwayInv(t.underway, t.sent)
  BY <1>1, <1>2, <1>3 DEF UnderwayInv
<1>6. ScriptInv(t.script, t.sent)
  BY <1>2, <1>3 DEF ScriptInv
<1>7. Truthful(t.sent)
  <2> SUFFICES ASSUME NEW i \in DOMAIN t.sent, t.sent[i].told \in DOMAIN Scripting!Means
               PROVE  t.sent[i].fate = Scripting!Means[t.sent[i].told]
    BY DEF Truthful
  <2>1. i \in DOMAIN after.sent
    BY <1>2, <1>3, MeansFacts
  <2> QED
    BY <2>1, <1>1, <1>3 DEF Truthful
<1>8. Touched(state, t) = {}
  BY <1>3 DEF Touched, SameRequests
<1>9. \A i \in DOMAIN t.sent : IsRow(t.sent[i])
  BY <1>1, <1>2, <1>3
<1> QED
  BY <1>2, <1>3, <1>4, <1>5, <1>6, <1>7, <1>8, <1>9 DEF RequestsInv

LEMMA SendingKeeps ==
  ASSUME RequestsInv(state), NEW after, SameRequests(after),
         NEW i, NEW step, NEW t, t = Scripting!Sending(after, i, step)
  PROVE  RequestsInv(t) /\ Touched(state, t) = {}
<1> DEFINE c == RequestCalls[i]
           m == Scripting!Command(c, step)
           waits == Scripting!Waits(c, step)
           row == [run |-> state.script.run, fate |-> "queued",
                   told |-> IF waits THEN "waiting" ELSE "sent"]
           held == IF c.op \in Scripting!LoopKinds
                   THEN Scripting!Holding(after.held, c, [on |-> "loop",
                                                          name |-> Scripting!Defined(c).name])
                   ELSE after.held
           script == IF waits
                     THEN [Scripting!Running EXCEPT !.status = "waiting", !.call = i,
                                                    !.step = step, !.request = m.id]
                     ELSE Scripting!Running
<1>1. t = [after EXCEPT !.queue = Append(after.queue, m), !.sent = Append(after.sent, row),
                        !.held = held, !.script = script]
  BY DEF Scripting!Sending, SameRequests, IsLua
<1>2. /\ m.id = Len(state.sent) + 1 /\ m.run = state.script.run
  BY CommandFacts
<1>3. /\ IsRow(row) /\ row.run = state.script.run /\ row.fate = "queued"
      /\ row.told = IF waits THEN "waiting" ELSE "sent"
  BY DEF IsRow
<1>4. /\ IsExecution(script)
      /\ waits => script.status = "waiting" /\ script.request = m.id /\ script.reply = << >>
      /\ ~waits => script.status = "running"
  BY DEF Scripting!Running, Scripting!Idle, Scripting!NoReply, IsExecution
<1> HIDE DEF m, waits, row, held, script
<1>5. /\ IsLua(t) /\ t.queue = Append(after.queue, m) /\ t.sent = Append(after.sent, row)
      /\ t.underway = after.underway /\ t.script = script
  BY <1>1 DEF SameRequests, IsLua
<1>6. Len(after.sent) = Len(state.sent)
  BY DEF SameRequests
<1>7. Enqueues(t, after, m, row)
  BY <1>2, <1>3, <1>4, <1>5, <1>6 DEF Enqueues
<1> QED
  BY <1>7, EnqueuedKeeps

\* A step keeps the invariant, and executes nothing for a run that is over.
MayRun(run) == run = 0 \/ (run = state.latest /\ state.open)
Allowed(t) == RequestsInv(t) /\ \A i \in Touched(state, t) : MayRun(state.sent[i].run)

LEMMA HeadAnsweredAllowed ==
  ASSUME RequestsInv(state), Scripting!Accepted, NEW after, TakesHead(after),
         NEW error, NEW found, NEW t, t = Scripting!Answered(after, Scripting!Oldest.id, error, found)
  PROVE  Allowed(t)
<1>1. state.queue # << >> /\ Scripting!Oldest = Head(state.queue)
  BY DEF Scripting!Accepted, Scripting!Oldest
<1>2. PICK told, fate, f : /\ Tells(told, fate)
                           /\ t = Scripting!Settled(after, Head(state.queue).id, fate, told, f)
  BY <1>1, AnsweredKeeps
<1>3. RequestsInv(t) /\ Touched(state, t) \subseteq {Head(state.queue).id}
  BY <1>1, <1>2, HeadSettledKeeps
<1>4. MayRun(state.sent[Head(state.queue).id].run)
  <2>1. IsSeq(state.queue)
    BY DEF RequestsInv, QueueInv
  <2>2. IsTailOf(Tail(state.queue), state.queue)
    BY <2>1, <1>1, TailFacts
  <2>3. Head(state.queue).run = state.sent[Head(state.queue).id].run
    BY <2>2 DEF IsTailOf, RequestsInv, QueueInv
  <2> QED
    BY <2>3 DEF Scripting!Accepted, Scripting!Oldest, Scripting!AcceptsStep, MayRun
<1> QED
  BY <1>3, <1>4 DEF Allowed

LEMMA BeginAllowed ==
  ASSUME RequestsInv(state), NEW run, Scripting!Begin(run)
  PROVE  Allowed(state')
<1>1. state' = [state EXCEPT !.script = [state.script EXCEPT !.run = run]]
  BY DEF Scripting!Begin, RequestsInv, IsLua
<1>2. /\ IsLua(state') /\ state'.queue = state.queue /\ state'.underway = state.underway
      /\ state'.sent = state.sent /\ IsExecution(state'.script)
      /\ state'.script.status = state.script.status
  BY <1>1 DEF RequestsInv, IsLua, IsExecution
<1>3. state'.script.status = "running"
  BY <1>2 DEF Scripting!Begin
<1> QED
  BY <1>2, <1>3, SameIsSame, ResumedKeeps DEF Allowed

LEMMA CreateMetakonAllowed ==
  ASSUME RequestsInv(state), NEW i, Scripting!CreateMetakon(i)
  PROVE  Allowed(state')
<1>1. PICK held : state' = [state EXCEPT !.held = held]
  BY DEF Scripting!CreateMetakon
<1>2. /\ IsLua(state') /\ state'.queue = state.queue /\ state'.underway = state.underway
      /\ state'.sent = state.sent /\ state'.script = state.script
  BY <1>1 DEF RequestsInv, IsLua
<1>3. state.script.status = "running" /\ IsExecution(state.script)
  BY DEF Scripting!CreateMetakon, RequestsInv
<1> QED
  BY <1>2, <1>3, SameIsSame, ResumedKeeps DEF Allowed

LEMMA CallAllowed ==
  ASSUME RequestsInv(state), NEW i, Scripting!Call(i)
  PROVE  Allowed(state')
<1>1. state' = Scripting!Sending(state, i, 1)
  BY DEF Scripting!Call
<1> QED
  BY <1>1, SameIsSame, SendingKeeps DEF Allowed

\* The answer that is there is about the request the script waits for.
LEMMA ReplyFacts ==
  ASSUME RequestsInv(state), Scripting!Replied
  PROVE  /\ state.script.status = "waiting"
         /\ Scripting!Reply.told \in DOMAIN Scripting!Means
         /\ state.sent[state.script.request].fate = Scripting!Means[Scripting!Reply.told]
BY DEF RequestsInv, ScriptInv, Scripting!Replied, Scripting!Reply, Scripting!NoReply

LEMMA ResumesAllowed ==
  ASSUME RequestsInv(state), NEW told, SameRequests(Scripting!Told(told)),
         NEW held, NEW t,
         \/ t = Scripting!Resumes(Scripting!Told(told))
         \/ t = [Scripting!Resumes(Scripting!Told(told)) EXCEPT !.held = held]
  PROVE  Allowed(t)
<1> DEFINE after == Scripting!Told(told)
           resumed == [after EXCEPT !.script = Scripting!Running]
<1>1. IsLua(after)
  BY DEF SameRequests
<1>2. IsLua(resumed) /\ resumed.queue = after.queue /\ resumed.underway = after.underway
      /\ resumed.sent = after.sent /\ resumed.script = Scripting!Running
  BY <1>1 DEF IsLua
<1>3. t = resumed \/ t = [resumed EXCEPT !.held = held]
  BY DEF Scripting!Resumes
<1> HIDE DEF resumed, after
<1>4. IsLua(t) /\ t.queue = after.queue /\ t.underway = after.underway
      /\ t.sent = after.sent /\ t.script = Scripting!Running
  BY <1>2, <1>3 DEF IsLua
<1>5. SameRequests(after)
  BY DEF after
<1>6. IsExecution(t.script) /\ t.script.status = "running"
  BY <1>4, RunningFacts
<1> QED
  BY <1>4, <1>5, <1>6, ResumedKeeps DEF Allowed

LEMMA TakeAnswerAllowed ==
  ASSUME RequestsInv(state), Scripting!TakeAnswer
  PROVE  Allowed(state')
<1>1. SameRequests(Scripting!Told(Scripting!Reply.told))
  BY ReplyFacts, ToldSame DEF Scripting!TakeAnswer
<1>2. PICK held : state' = [Scripting!Resumes(Scripting!Told(Scripting!Reply.told)) EXCEPT !.held = held]
  BY DEF Scripting!TakeAnswer
<1> QED
  BY <1>1, <1>2, ResumesAllowed

LEMMA TakeDiscoveryAllowed ==
  ASSUME RequestsInv(state), Scripting!TakeDiscovery
  PROVE  Allowed(state')
<1>1. Scripting!Reply.told = "ok"
  BY DEF Scripting!TakeDiscovery, Scripting!Discovered
<1>2. SameRequests(Scripting!Told("ok"))
  BY <1>1, ReplyFacts, ToldSame DEF Scripting!TakeDiscovery
<1>3. CASE state' = Scripting!Sending(Scripting!Told("ok"), state.script.call, 2)
  BY <1>2, <1>3, SendingKeeps DEF Allowed
<1>4. CASE state' = Scripting!Resumes(Scripting!Told("ok"))
  BY <1>2, <1>4, ResumesAllowed
<1> QED
  BY <1>3, <1>4 DEF Scripting!TakeDiscovery

LEMMA TimeOutAllowed ==
  ASSUME RequestsInv(state), Scripting!TimeOut
  PROVE  Allowed(state')
<1>1. "timeout" \notin DOMAIN Scripting!Means
  BY MeansFacts
<1>2. SameRequests(Scripting!Told("timeout"))
  BY <1>1, ToldSame DEF Scripting!TimeOut
<1>3. state' = Scripting!Resumes(Scripting!Told("timeout"))
  BY DEF Scripting!TimeOut
<1> QED
  BY <1>2, <1>3, ResumesAllowed

\* What taking the oldest command leaves, with any loops.
LEMMA DequeuedFacts ==
  ASSUME RequestsInv(state)
  PROVE  /\ TakesHead(Scripting!Dequeued)
         /\ \A loops : TakesHead([Scripting!Dequeued EXCEPT !.loops = loops])
<1> DEFINE d == Scripting!Dequeued
<1>1. /\ IsLua(d) /\ d.script = state.script /\ d.sent = state.sent
      /\ d.queue = Tail(state.queue) /\ d.underway = state.underway
  <2>1. PICK queue : d = [state EXCEPT !.queue = queue] /\ queue = Tail(state.queue)
    BY DEF Scripting!Dequeued
  <2> HIDE DEF d
  <2> QED
    BY <2>1 DEF RequestsInv, IsLua
<1> HIDE DEF d
<1>2. ASSUME NEW loops PROVE TakesHead([d EXCEPT !.loops = loops])
  <2> DEFINE e == [d EXCEPT !.loops = loops]
  <2>1. /\ IsLua(e) /\ e.script = d.script /\ e.sent = d.sent /\ e.queue = d.queue
        /\ e.underway = d.underway
    BY <1>1 DEF IsLua
  <2> QED
    BY <1>1, <2>1 DEF TakesHead
<1> QED
  BY <1>1, <1>2 DEF TakesHead, d

LEMMA WithLoopFacts ==
  ASSUME RequestsInv(state), NEW name, NEW loop
  PROVE  TakesHead(Scripting!WithLoop(Scripting!Dequeued, name, loop))
<1>1. PICK loops : Scripting!WithLoop(Scripting!Dequeued, name, loop)
                   = [Scripting!Dequeued EXCEPT !.loops = loops]
  BY DEF Scripting!WithLoop
<1> QED
  BY <1>1, DequeuedFacts

LEMMA DropAllowed ==
  ASSUME RequestsInv(state), Scripting!Drop
  PROVE  Allowed(state')
<1>1. state.queue # << >>
  BY DEF Scripting!Drop
<1>2. state' = Scripting!Dropped(Scripting!Dequeued, Head(state.queue))
  BY DEF Scripting!Drop, Scripting!Dequeued
<1>3. PICK f : /\ Tells("disconnected", "dropped")
               /\ state' = Scripting!Settled(Scripting!Dequeued, Head(state.queue).id, "dropped",
                                             "disconnected", f)
  BY <1>2, DroppedKeeps
<1>4. RequestsInv(state') /\ Touched(state, state') \subseteq {Head(state.queue).id}
  BY <1>1, <1>3, DequeuedFacts, HeadSettledKeeps
<1>5. Head(state.queue).id \notin Touched(state, state')
  <2> DEFINE id == Head(state.queue).id
             sent == [state.sent EXCEPT ![id].fate = "dropped"]
  <2>1. PICK reply : state' = [Scripting!Dequeued EXCEPT !.sent[id].fate = "dropped",
                                                         !.script.reply = reply]
    BY <1>3 DEF Scripting!Settled
  <2>2. state'.sent = sent
    BY <2>1 DEF RequestsInv, IsLua, Scripting!Dequeued
  <2>3. id \in DOMAIN state.sent => sent[id].fate = "dropped"
    <3> HIDE DEF id
    <3> QED
      BY FateFacts DEF RequestsInv
  <2> HIDE DEF id, sent
  <2> QED
    BY <2>2, <2>3 DEF Touched, id
<1> QED
  BY <1>4, <1>5 DEF Allowed

LEMMA ExecuteOnLoopAllowed ==
  ASSUME RequestsInv(state), Scripting!ExecuteOnLoop
  PROVE  Allowed(state')
<1> DEFINE m == Scripting!Oldest
           Answers == \E after, error, found :
                        TakesHead(after) /\ state' = Scripting!Answered(after, m.id, error, found)
<1>1. ASSUME Answers PROVE Allowed(state')
  BY <1>1, HeadAnsweredAllowed DEF Scripting!ExecuteOnLoop
<1>2. ASSUME NEW loop, Scripting!QueryLoop(m, loop) PROVE Answers
  BY <1>2, DequeuedFacts DEF Scripting!QueryLoop
<1>3. ASSUME NEW loop, Scripting!ChangeLoop(m, loop) PROVE Answers
  BY <1>3, WithLoopFacts DEF Scripting!ChangeLoop
<1>4. ASSUME NEW loop, Scripting!RemoveLoop(m, loop) PROVE Answers
  <2>1. CASE state' = Scripting!Answered([Scripting!Dequeued EXCEPT
                                            !.loops = Scripting!Without(@, {m.to.name})],
                                         m.id, "none", Scripting!NothingFound)
    BY <2>1, DequeuedFacts
  <2>2. CASE state' = Scripting!Answered(Scripting!WithLoop(Scripting!Dequeued, m.to.name,
                                                            [loop EXCEPT !.running = FALSE]),
                                         m.id, "Output", Scripting!NothingFound)
    BY <2>2, WithLoopFacts
  <2> QED
    BY <1>4, <2>1, <2>2 DEF Scripting!RemoveLoop
<1>5. ASSUME Scripting!AddDiagnostic(m) PROVE Answers
  BY <1>5, DequeuedFacts DEF Scripting!AddDiagnostic
<1>6. CASE m.to.name \notin DOMAIN state.loops
  <2>1. state' = Scripting!Answered(Scripting!Dequeued, m.id, "NotFound", Scripting!NothingFound)
    BY <1>6 DEF Scripting!ExecuteOnLoop
  <2> QED
    BY <2>1, <1>1, DequeuedFacts
<1>7. CASE m.to.name \in DOMAIN state.loops
  <2> DEFINE loop == state.loops[m.to.name]
  <2>1. \/ Scripting!QueryLoop(m, loop) \/ Scripting!RemoveLoop(m, loop)
        \/ Scripting!AddDiagnostic(m) \/ Scripting!ChangeLoop(m, loop)
    BY <1>7 DEF Scripting!ExecuteOnLoop
  <2> QED
    BY <2>1, <1>1, <1>2, <1>3, <1>4, <1>5
<1> QED
  BY <1>6, <1>7

LEMMA InstallLoopAllowed ==
  ASSUME RequestsInv(state), Scripting!InstallLoop
  PROVE  Allowed(state')
<1>1. PICK after, error, found :
        /\ TakesHead(after)
        /\ state' = Scripting!Answered(after, Scripting!Oldest.id, error, found)
  BY DequeuedFacts, WithLoopFacts DEF Scripting!InstallLoop
<1> QED
  BY <1>1, HeadAnsweredAllowed DEF Scripting!InstallLoop

LEMMA ExecuteElsewhereAllowed ==
  ASSUME RequestsInv(state), Scripting!ExecuteElsewhere
  PROVE  Allowed(state')
BY DequeuedFacts, HeadAnsweredAllowed DEF Scripting!ExecuteElsewhere

LEMMA WorkerAnswersAllowed ==
  ASSUME RequestsInv(state), NEW m \in state.underway, Scripting!WorkerAnswers(m)
  PROVE  Allowed(state')
<1>1. PICK error, found :
        state' = Scripting!Answered([state EXCEPT !.underway = @ \ {m}], m.id, error, found)
  BY DEF Scripting!WorkerAnswers
<1>2. PICK told, fate, f :
        /\ Tells(told, fate)
        /\ state' = Scripting!Settled([state EXCEPT !.underway = @ \ {m}], m.id, fate, told, f)
  BY <1>1, AnsweredKeeps
<1> QED
  BY <1>2, UnderwaySettledKeeps DEF Allowed

LEMMA WorkerDropsAllowed ==
  ASSUME RequestsInv(state), NEW m \in state.underway, Scripting!WorkerDrops(m)
  PROVE  Allowed(state')
<1>1. PICK f :
        /\ Tells("disconnected", "dropped")
        /\ state' = Scripting!Settled([state EXCEPT !.underway = @ \ {m}], m.id, "dropped",
                                      "disconnected", f)
  BY DroppedKeeps DEF Scripting!WorkerDrops
<1> QED
  BY <1>1, UnderwaySettledKeeps DEF Allowed

\* Neither the runs nor the series are about requests.
LEMMA OtherAllowed ==
  ASSUME RequestsInv(state),
         \/ Scripting!OpenRun \/ Scripting!CloseRun
         \/ \E series \in state.series : Scripting!LoseSeries(series)
  PROVE  Allowed(state')
<1>1. /\ IsLua(state') /\ state'.queue = state.queue /\ state'.underway = state.underway
      /\ state'.sent = state.sent /\ state'.script = state.script
  BY DEF RequestsInv, IsLua, Scripting!OpenRun, Scripting!CloseRun, Scripting!LoseSeries
<1>2. RequestsInv(state')
  BY <1>1 DEF RequestsInv
<1>3. Touched(state, state') = {}
  BY <1>1 DEF Touched
<1> QED
  BY <1>2, <1>3 DEF Allowed

\* A command goes to the workers.
LEMMA DispatchAllowed ==
  ASSUME RequestsInv(state), Scripting!Dispatch
  PROVE  Allowed(state')
<1> DEFINE m == Scripting!Oldest
           id == m.id
           queue == Tail(state.queue)
           sent == [state.sent EXCEPT ![id].fate = "underway"]
           underway == state.underway \cup {m}
<1>1. CASE state' = Scripting!Answered(Scripting!Dequeued, m.id, "Request", Scripting!NothingFound)
  BY <1>1, DequeuedFacts, HeadAnsweredAllowed DEF Scripting!Dispatch
<1>2. CASE state' = [Scripting!Dequeued EXCEPT !.underway = @ \cup {m},
                                               !.sent[id].fate = "underway"]
  <2>1. /\ IsLua(state') /\ state'.queue = queue /\ state'.underway = underway
        /\ state'.sent = sent /\ state'.script = state.script
    BY <1>2 DEF RequestsInv, IsLua, Scripting!Dequeued
  <2>2. IsTailOf(queue, state.queue)
    BY TailFacts DEF RequestsInv, QueueInv, Scripting!Dispatch, Scripting!Accepted
  <2>3. m = state.queue[1] /\ 1 \in DOMAIN state.queue
    BY <2>2 DEF IsTailOf, Scripting!Oldest
  <2> HIDE DEF m, id, queue, underway
  <2>4. id \in DOMAIN state.sent /\ state.sent[id].fate = "queued" /\ id = m.id
        /\ m.run = state.sent[id].run
    BY <2>3 DEF RequestsInv, QueueInv, id
  <2> HIDE DEF sent
  <2>5. /\ IsSeq(sent) /\ DOMAIN sent = DOMAIN state.sent
        /\ \A i \in DOMAIN sent : /\ IsRow(sent[i]) /\ sent[i].run = state.sent[i].run
                                  /\ sent[i].told = state.sent[i].told
        /\ sent[id].fate = "underway"
        /\ \A i \in DOMAIN sent : i # id => sent[i] = state.sent[i]
    BY <2>4, FateFacts DEF RequestsInv, sent
  <2>6. \A i \in DOMAIN queue : queue[i].id # id
    <3> SUFFICES ASSUME NEW i \in DOMAIN queue, queue[i].id = id PROVE FALSE
      OBVIOUS
    <3>1. i + 1 = 1
      BY <2>2, <2>3, <2>4 DEF RequestsInv, QueueInv, IsTailOf
    <3> QED
      BY <3>1, <2>2 DEF IsTailOf
  <2>7. QueueInv(queue, sent)
    <3>1. ASSUME NEW i \in DOMAIN queue, NEW j \in DOMAIN queue, queue[i].id = queue[j].id
          PROVE  i = j
      <4>1. i + 1 = j + 1
        BY <2>2, <3>1 DEF RequestsInv, QueueInv, IsTailOf
      <4> QED
        BY <2>2, <4>1 DEF IsTailOf
    <3>2. \A i \in DOMAIN queue : /\ queue[i].id \in DOMAIN state.sent
                                  /\ state.sent[queue[i].id].fate = "queued"
                                  /\ queue[i].run = state.sent[queue[i].id].run
      BY <2>2 DEF RequestsInv, QueueInv, IsTailOf
    <3> QED
      BY <2>2, <2>5, <2>6, <3>1, <3>2 DEF QueueInv, IsTailOf
  <2>8. UnderwayInv(underway, sent)
    <3>1. \A n \in state.underway : /\ n.id \in DOMAIN sent /\ n.id # id
                                    /\ sent[n.id].fate = "underway"
      BY <2>4, <2>5 DEF RequestsInv, UnderwayInv
    <3> QED
      BY <3>1, <2>4, <2>5 DEF RequestsInv, UnderwayInv, underway
  <2>9. ScriptInv(state.script, sent)
    <3> SUFFICES ASSUME state.script.status = "waiting" PROVE ScriptInv(state.script, sent)
      BY DEF ScriptInv
    <3>1. CASE state.script.request = id
      BY <3>1, <2>4, <2>5, MeansFacts DEF RequestsInv, ScriptInv
    <3>2. CASE state.script.request # id
      BY <3>2, <2>5 DEF RequestsInv, ScriptInv
    <3> QED
      BY <3>1, <3>2
  <2>10. Truthful(sent)
    BY <2>4, <2>5, MeansFacts DEF RequestsInv, Truthful
  <2>11. Touched(state, state') \subseteq {id} /\ MayRun(state.sent[id].run)
    <3>1. Touched(state, state') \subseteq {id}
      BY <2>1, <2>5 DEF Touched
    <3>2. MayRun(m.run)
      BY DEF Scripting!Dispatch, Scripting!Accepted, Scripting!AcceptsStep, MayRun, m
    <3> QED
      BY <3>1, <3>2, <2>4
  <2> QED
    BY <2>1, <2>5, <2>7, <2>8, <2>9, <2>10, <2>11 DEF RequestsInv, Allowed
<1> QED
  BY <1>1, <1>2 DEF Scripting!Dispatch

LEMMA RequestsInit ==
  ASSUME Scripting!Init
  PROVE  RequestsInv(state)
<1>1. /\ IsLua(state) /\ IsExecution(state.script) /\ state.script.status = "running"
      /\ state.queue = << >> /\ state.underway = {} /\ state.sent = << >>
  BY DEF Scripting!Init, Scripting!Idle, Scripting!NoReply, IsLua, IsExecution
<1>2. IsSeq(<< >>) /\ DOMAIN << >> = {}
  BY DEF IsSeq
<1> QED
  BY <1>1, <1>2 DEF RequestsInv, QueueInv, UnderwayInv, ScriptInv, Truthful

LEMMA RequestsNext ==
  ASSUME RequestsInv(state), Scripting!Next
  PROVE  Allowed(state')
<1>1. CASE \E run \in 0..state.latest : Scripting!Begin(run)
  BY <1>1, BeginAllowed
<1>2. CASE \E i \in DOMAIN RequestCalls : Scripting!CreateMetakon(i) \/ Scripting!Call(i)
  BY <1>2, CreateMetakonAllowed, CallAllowed
<1>3. CASE Scripting!TakeAnswer
  BY <1>3, TakeAnswerAllowed
<1>4. CASE Scripting!TakeDiscovery
  BY <1>4, TakeDiscoveryAllowed
<1>5. CASE Scripting!TimeOut
  BY <1>5, TimeOutAllowed
<1>6. CASE Scripting!Drop
  BY <1>6, DropAllowed
<1>7. CASE Scripting!ExecuteOnLoop
  BY <1>7, ExecuteOnLoopAllowed
<1>8. CASE Scripting!InstallLoop
  BY <1>8, InstallLoopAllowed
<1>9. CASE Scripting!Dispatch
  BY <1>9, DispatchAllowed
<1>10. CASE \E m \in state.underway : Scripting!WorkerAnswers(m) \/ Scripting!WorkerDrops(m)
  BY <1>10, WorkerAnswersAllowed, WorkerDropsAllowed
<1>11. CASE Scripting!ExecuteElsewhere
  BY <1>11, ExecuteElsewhereAllowed
<1>12. CASE \/ Scripting!OpenRun \/ Scripting!CloseRun
            \/ \E series \in state.series : Scripting!LoseSeries(series)
  BY <1>12, OtherAllowed
<1> QED
  BY <1>1, <1>2, <1>3, <1>4, <1>5, <1>6, <1>7, <1>8, <1>9, <1>10, <1>11, <1>12
  DEF Scripting!Next

RequestsSafe == component = "requests" => RequestsInv(state)

LEMMA RequestsStep ==
  ASSUME RequestsSafe, [Next]_vars
  PROVE  RequestsSafe' /\ (component = "requests" => Allowed(state') \/ state' = state)
<1>1. CASE UNCHANGED vars
  BY <1>1 DEF vars, RequestsSafe, RequestsInv
<1>2. CASE component = "requests" /\ Scripting!Next /\ UNCHANGED component
  BY <1>2, RequestsNext DEF RequestsSafe, Allowed
<1>3. CASE component # "requests" /\ UNCHANGED component
  BY <1>3 DEF RequestsSafe
<1> QED
  BY <1>1, <1>2, <1>3 DEF Next

LEMMA RequestsAlways == Spec => []RequestsSafe
<1>1. Init => RequestsSafe
  BY RequestsInit DEF Init, RequestsSafe
<1>2. RequestsSafe /\ [Next]_vars => RequestsSafe'
  BY RequestsStep
<1> QED
  BY <1>1, <1>2, PTL DEF Spec

\* What a script is told of a request is what became of that very request: a
\* reply is awaited by the one that sent the command, and by nobody once it has
\* been given up (lua_api/mod.rs, send_application_command).
THEOREM ScriptsAreToldTheTruth == Spec => []OutcomesAreTruthful
<1>1. RequestsSafe => OutcomesAreTruthful
  BY DEF RequestsSafe, RequestsInv, Truthful, OutcomesAreTruthful, Scripting!OutcomesAreTruthful
<1> QED
  BY <1>1, RequestsAlways, PTL

\* A command of a callback is executed only while the run it belongs to is not
\* over (application_runtime.rs, execute_scenario_step).
THEOREM EndedRunsTouchNothing == Spec => StaleRunsTouchNothing
<1>1. ASSUME RequestsSafe, [Next]_vars
      PROVE  [component = "requests" => Scripting!StaleRunsTouchNothing]_vars
  <2> SUFFICES ASSUME component = "requests" PROVE Scripting!StaleRunsTouchNothing
    OBVIOUS
  <2>1. CASE Allowed(state')
    BY <2>1 DEF Allowed, Touched, MayRun, Scripting!StaleRunsTouchNothing
  <2>2. CASE state' = state
    BY <2>2 DEF Scripting!StaleRunsTouchNothing
  <2> QED
    BY <1>1, <2>1, <2>2, RequestsStep
<1> QED
  BY <1>1, RequestsAlways, PTL DEF Spec, StaleRunsTouchNothing
=============================================================================
