------------------------------ MODULE Emulator ------------------------------
(* The device emulator and its local client: the service on the runtime      *)
(* thread that starts, stops and polls it, the server thread that runs the   *)
(* model, and the worker thread that exchanges requests with it over a pair  *)
(* of memory endpoints without request ids.  An exchange holds the session   *)
(* from its first step to its last, so the runtime waits for it whenever it  *)
(* publishes or drops a session.  Ids and epochs of messages are ghosts.     *)
EXTENDS Integers, Sequences, FiniteSets

CONSTANTS
  NotFinite, Keys, LongTexts, MaxPayload,   \* as in VirtualCatalog
  Scripts,          \* what the model's file may hold when it is loaded
  Setups,           \* configured transports, files and ports
  Requests,         \* what the worker is asked for
  MaxStarts,        \* bound on servers started
  MaxRequests       \* bound on requests

VARIABLE emulator

INSTANCE VirtualCatalog

runtime == emulator.runtime
server == emulator.server
client == emulator.client
session == emulator.session

NoServer == [epoch |-> 0, status |-> "off", catalog |-> << >>, returns |-> {},
             stop |-> FALSE, inbox |-> << >>]
NoAnswer == [kind |-> "none", id |-> 0, request |-> << >>, sent |-> << >>]

Init ==
  \E setup \in Setups :
    emulator = [setup |-> setup,
                runtime |-> [pc |-> "idle", next |-> "idle"],
                handle |-> 0,
                server |-> NoServer,
                session |-> << >>,
                client |-> [pc |-> "idle", request |-> << >>, id |-> 0],
                written |-> {},
                answer |-> NoAnswer,
                result |-> "none"]

IsLocal == emulator.setup.transport = "memory"
SessionIsFree == client.pc = "idle"

\* The server drops its endpoint when its thread ends, the client when the session goes.
ServerListens == server.status \in {"checking", "reading"} /\ session[1].epoch = server.epoch
ClientListens == session # << >> /\ session[1].epoch = server.epoch

-----------------------------------------------------------------------------
(* The runtime thread.  "next" is what it goes on with once a server is      *)
(* stopped: the rest of a start, the end of a stop, or nothing after a poll. *)

At(pc, next) == [pc |-> pc, next |-> next]
Idle == At("idle", "idle")
GoesOn(next) ==
  IF next \in {"applied", "failed"}
  THEN [emulator EXCEPT !.runtime = Idle, !.result = next]
  ELSE [emulator EXCEPT !.runtime = At(next, "idle")]

ServerFinished == emulator.handle # 0 /\ server.status = "done"

\* Takes the handle of a finished server, joins it and drops its session.
Reap(next) ==
  emulator' = [emulator EXCEPT !.handle = 0, !.runtime = At("disconnecting", next)]

Poll ==
  /\ runtime.pc = "idle"
  /\ ServerFinished
  /\ Reap("idle")

\* Without a configured client port a serial emulator is not even polled.
StartCommand ==
  /\ runtime.pc = "idle"
  /\ server.epoch < MaxStarts
  /\ IF ~IsLocal /\ emulator.setup.client_port = "" THEN emulator' = GoesOn("failed")
     ELSE IF ServerFinished THEN Reap("checking")
     ELSE emulator' = GoesOn("checking")

\* Stopping without a server leaves everything as it is.
Stop(next) ==
  emulator' = IF emulator.handle = 0 THEN GoesOn(next)
              ELSE [emulator EXCEPT !.handle = 0, !.server.stop = TRUE,
                                    !.runtime = At("joining", next)]

StopCommand == runtime.pc = "idle" /\ Stop("applied")

Join ==
  /\ runtime.pc = "joining"
  /\ server.status = "done"
  /\ emulator' = [emulator EXCEPT !.runtime.pc = "disconnecting"]

DisconnectLocal ==
  /\ runtime.pc = "disconnecting"
  /\ SessionIsFree
  /\ emulator' = [GoesOn(runtime.next) EXCEPT !.session = << >>]

\* A session that a failed exchange dropped: its server is joined first.
CheckSession ==
  /\ runtime.pc = "checking"
  /\ IsLocal => SessionIsFree
  /\ IF IsLocal /\ session = << >> THEN Stop("starting")
     ELSE emulator' = GoesOn("starting")

\* A serial server needs ports that differ and can be opened.
PortIsUsable(opens) ==
  /\ emulator.setup.port # ""
  /\ emulator.setup.port # emulator.setup.client_port
  /\ opens

CanStart(script, opens) ==
  /\ emulator.setup.has_script
  /\ ~IsLocal => PortIsUsable(opens)
  /\ Loads(script)

\* A server that is there already serves the start as well.
Launch(script, opens) ==
  /\ runtime.pc = "starting"
  /\ emulator' =
       IF emulator.handle # 0 THEN GoesOn("applied")
       ELSE IF ~CanStart(script, opens) THEN GoesOn("failed")
       ELSE [GoesOn(IF IsLocal THEN "publishing" ELSE "applied") EXCEPT
              !.server = [epoch |-> server.epoch + 1, status |-> "checking",
                          catalog |-> Catalog(script), returns |-> script.returns,
                          stop |-> FALSE, inbox |-> << >>],
              !.handle = IF IsLocal THEN 0 ELSE server.epoch + 1]

Publish ==
  /\ runtime.pc = "publishing"
  /\ SessionIsFree
  /\ emulator' = [GoesOn("applied") EXCEPT
       !.session = <<[epoch |-> server.epoch, pending |-> FALSE,
                      response |-> << >>, input |-> << >>]>>,
       !.handle = server.epoch]

Runtime ==
  \/ Poll \/ StartCommand \/ StopCommand \/ Join \/ DisconnectLocal \/ CheckSession
  \/ \E script \in Scripts, opens \in BOOLEAN : Launch(script, opens)
  \/ Publish

-----------------------------------------------------------------------------
(* The server thread: it looks for a stop between two reads. *)

CheckStop ==
  /\ server.status = "checking"
  /\ emulator' = [emulator EXCEPT !.server.status = IF server.stop THEN "done" ELSE "reading"]

ReadTimesOut ==
  /\ server.status = "reading"
  /\ server.inbox = << >>
  /\ IsLocal => ClientListens \/ runtime.pc = "publishing"
  /\ emulator' = [emulator EXCEPT !.server.status = "checking"]

\* The server ends at the first message it cannot read, answer or deliver; a serial
\* line may fail at any time.
Fail ==
  /\ server.status = "reading"
  /\ IsLocal => server.inbox = << >> /\ ~ClientListens /\ runtime.pc # "publishing"
  /\ emulator' = [emulator EXCEPT !.server.status = "done"]

Serve(returned) ==
  LET id == server.inbox[1].id
      request == server.inbox[1].request
      response == Response(server.catalog, request, returned)
      sent == [message |-> response, to |-> id, epoch |-> server.epoch]
      executes == request.kind = "write_request" /\ response.kind = "write_response"
      done == [emulator EXCEPT
                !.server.inbox = Tail(@),
                !.written = IF executes THEN @ \cup {id} ELSE @]
  IN /\ server.status = "reading"
     /\ server.inbox # << >>
     /\ emulator' =
          IF Decodes(request) /\ Encodes(response) /\ ClientListens
          THEN [done EXCEPT !.server.status = "checking",
                            !.session[1].input = Append(@, sent)]
          ELSE [done EXCEPT !.server.status = "done"]

Server ==
  \/ CheckStop \/ ReadTimesOut \/ Fail
  \/ \E returned \in server.returns : Serve(returned)

-----------------------------------------------------------------------------
(* The worker thread: one exchange at a time. *)

IsVirtual(request) == request.kind # "serial_request"

Answered(kind, sent) ==
  [emulator EXCEPT !.answer = [kind |-> kind, id |-> client.id, request |-> client.request,
                               sent |-> sent],
                   !.client.pc = "idle"]
Error(kind) == Answered(kind, << >>)

\* An error after which a late answer could be taken for another request's.
Dropped(kind) == [Error(kind) EXCEPT !.session = << >>]

\* Only a source that does not know the request passes it on.
Begin(request) ==
  LET id == client.id + 1
      begun == [emulator EXCEPT !.client = [pc |-> "draining", request |-> request, id |-> id]]
      Unsent(kind) == [begun EXCEPT !.client.pc = "idle",
                                    !.answer = [kind |-> kind, id |-> id, request |-> request,
                                                sent |-> << >>]]
  IN /\ client.pc = "idle"
     /\ client.id < MaxRequests
     /\ emulator' =
          IF ~IsVirtual(request) \/ ~IsLocal
          THEN Unsent("serial")
          ELSE IF session = << >> THEN Unsent("stopped")
          ELSE begun

Session(pending, response, input) ==
  <<[epoch |-> session[1].epoch, pending |-> pending, response |-> response, input |-> input]>>

Cleared ==
  [emulator EXCEPT !.session = Session(FALSE, << >>, << >>), !.client.pc = "sending"]

\* Mutant: what is there is dropped without waiting for the answer still owed.
DrainWithoutWaiting ==
  /\ client.pc = "draining"
  /\ emulator' = Cleared

\* The answer still owed to the request before is read to its end first.
Drain ==
  /\ client.pc = "draining"
  /\ ~session[1].pending \/ session[1].response # << >> \/ session[1].input # << >>
  /\ emulator' = Cleared

Send ==
  /\ client.pc = "sending"
  /\ emulator' =
       IF ServerListens
       THEN [emulator EXCEPT !.session = Session(TRUE, session[1].response, session[1].input),
                         !.client.pc = "receiving",
                         !.server.inbox = Append(@, [request |-> client.request, id |-> client.id])]
       ELSE Dropped("disconnected")

Waiting ==
  /\ session # << >>
  /\ session[1].input = << >>
  /\ \/ client.pc = "receiving"
     \/ client.pc = "draining" /\ session[1].pending /\ session[1].response = << >>

TimeOut == Waiting /\ ServerListens /\ emulator' = Error("timeout")
Disconnect == Waiting /\ ~ServerListens /\ emulator' = Dropped("disconnected")

Receive ==
  LET sent == session[1].input[1]
      read == [emulator EXCEPT !.session = Session(session[1].pending, <<sent>>,
                                                    Tail(session[1].input))]
      message == sent.message
  IN /\ client.pc = "receiving"
     /\ session[1].input # << >>
     /\ emulator' =
          IF message.kind = "error_response"
          THEN [read EXCEPT !.client.pc = "idle", !.answer = Answered("device", sent).answer]
          ELSE IF message.kind = ResponseKind(client.request)
          THEN [read EXCEPT !.client.pc = "idle", !.answer = Answered("value", sent).answer]
          ELSE Dropped("unexpected")

Client ==
  \/ \E request \in Requests : Begin(request)
  \/ Drain \/ Send \/ TimeOut \/ Disconnect \/ Receive

Next == Runtime \/ Server \/ Client

-----------------------------------------------------------------------------
(* What the emulator has to get right. *)

\* A value or a device error that the worker returns is the answer to the very
\* request it sent, although answers carry no id and those of requests that timed
\* out arrive later; it comes from the session the request was sent over, a write
\* that is confirmed was made and one refused for want of a session was not, and no
\* failed request of a local model goes on to the serial line.  Between two
\* commands of the runtime the session, when there is one, is that of the server in
\* charge, and without one no server runs.
AnswersTheirRequests ==
  LET answer == emulator.answer
  IN /\ answer.kind \in {"value", "device"} => answer.sent.to = answer.id
     /\ answer.kind = "value" /\ answer.request.kind = "write_request" =>
          answer.id \in emulator.written
     /\ answer.kind = "stopped" => answer.id \notin emulator.written
     /\ answer.kind = "serial" => ~IsVirtual(answer.request) \/ ~IsLocal
     /\ runtime.pc = "idle" =>
          /\ session # << >> => session[1].epoch = emulator.handle
          /\ emulator.handle = 0 => session = << >> /\ server.status \in {"off", "done"}
=============================================================================
