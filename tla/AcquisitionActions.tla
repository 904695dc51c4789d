------------------------- MODULE AcquisitionActions -------------------------
(***************************************************************************)
(* Start and Stop of the acquisition as actions over every connection: the *)
(* handler that sends the command to each worker, the workers that execute *)
(* it, and the dispatcher that counts their acknowledgements into one      *)
(* result of the action and rolls a failed Start back.                     *)
(*                                                                         *)
(* The runtime thread accepts commands and handles events; each worker is  *)
(* a thread of its own.  A worker is the ConnectionWorker of this project  *)
(* reduced to what an acquisition action sees of it.                       *)
(***************************************************************************)
EXTENDS Integers, FiniteSets, Sequences

CONSTANTS
  Connections,  \* the connections of the profile, numbers: BTreeMap order
  MaxActions,   \* bound of the model: actions accepted
  Faulty,       \* connections whose source may fail to start or to stop
  MaxFailures   \* bound of the model: polls that end an acquisition

ASSUME AcquisitionAssumption ==
  /\ Connections \subseteq Nat /\ Connections # {}
  /\ IsFiniteSet(Connections)
  /\ MaxActions \in Nat /\ MaxFailures \in Nat
  /\ Faulty \subseteq Connections

VARIABLES
  queue,    \* the command channel of each worker
  running,  \* the flag each worker publishes: its source is open
  events,   \* the channel of the workers' events
  pending,  \* pending_acquisition_actions
  result,   \* the results recorded of each action, oldest first
  accepted, \* history: the kind of each action accepted, oldest first
  reading,  \* the handler of a Start reading the flags, None otherwise
  failures, \* history: acquisitions ended by a failed poll
  rolled    \* history: actions accepted before the latest rollback, 0 if none

acquisitionVars ==
  <<queue, running, events, pending, result, accepted, reading, failures, rolled>>

None == [none |-> TRUE]
NoAction == 0
Actions == 1 .. MaxActions

Command == [kind : {"Start", "Stop"}, id : Actions \cup {NoAction}]
Event ==
  [connection : Connections, id : Actions \cup {NoAction},
   event : {"AcquisitionStarted", "AcquisitionStartFailed",
            "AcquisitionStopped", "AcquisitionStopFailed",
            "AcquisitionFailed"}]
Pending ==
  [kind : {"Start", "Stop"}, responded : SUBSET Connections,
   rollback : SUBSET Connections]
Reading ==
  [id : Actions, unread : SUBSET Connections, stopped : SUBSET Connections]

AcquisitionTypeOK ==
  /\ queue \in [Connections -> Seq(Command)]
  /\ running \in [Connections -> BOOLEAN]
  /\ events \in Seq(Event)
  /\ pending \in [Actions -> Pending \cup {None}]
  /\ result \in [Actions -> Seq({"Applied", "Failed"})]
  /\ accepted \in Seq({"Start", "Stop"}) /\ Len(accepted) <= MaxActions
  /\ reading \in Reading \cup {None}
  /\ failures \in 0 .. MaxFailures
  /\ rolled \in 0 .. MaxActions

AcquisitionInit ==
  /\ queue = [c \in Connections |-> <<>>]
  /\ running = [c \in Connections |-> FALSE]
  /\ events = <<>>
  /\ pending = [a \in Actions |-> None]
  /\ result = [a \in Actions |-> <<>>]
  /\ accepted = <<>> /\ reading = None /\ failures = 0 /\ rolled = 0

-----------------------------------------------------------------------------
(***************************************************************************)
(* The runtime thread: accepting a command.                                *)
(***************************************************************************)
SendToAll(kind, id) ==
  queue' = [c \in Connections |-> Append(queue[c], [kind |-> kind, id |-> id])]

NewPending(kind, rollback) ==
  [kind |-> kind, responded |-> {}, rollback |-> rollback]

\* The action is recorded, then the flags of the workers are read one by one
\* while these go on.
AcceptStart ==
  /\ Len(accepted) < MaxActions /\ reading = None
  /\ accepted' = Append(accepted, "Start")
  /\ reading' = [id |-> Len(accepted) + 1, unread |-> Connections, stopped |-> {}]
  /\ UNCHANGED <<queue, running, events, pending, result, failures, rolled>>

ReadFlag ==
  /\ reading # None
  /\ \E c \in reading.unread :
       /\ \A d \in reading.unread : c <= d
       /\ reading' = [reading EXCEPT !.unread = @ \ {c},
                                     !.stopped = IF running[c] THEN @ ELSE @ \cup {c}]
  /\ UNCHANGED <<queue, running, events, pending, result, accepted, failures, rolled>>

RollbackOf == reading.stopped

SubmitStart ==
  /\ reading # None /\ reading.unread = {}
  /\ pending' = [pending EXCEPT ![reading.id] = NewPending("Start", RollbackOf)]
  /\ SendToAll("Start", reading.id)
  /\ reading' = None
  /\ UNCHANGED <<running, events, result, accepted, failures, rolled>>

AcceptStop ==
  /\ Len(accepted) < MaxActions /\ reading = None
  /\ accepted' = Append(accepted, "Stop")
  /\ pending' = [pending EXCEPT ![Len(accepted) + 1] = NewPending("Stop", {})]
  /\ SendToAll("Stop", Len(accepted) + 1)
  /\ UNCHANGED <<running, events, result, reading, failures, rolled>>

-----------------------------------------------------------------------------
(***************************************************************************)
(* The worker of connection c.                                             *)
(***************************************************************************)
Emit(c, id, event) ==
  events' = Append(events, [connection |-> c, id |-> id, event |-> event])

Take(c, kind) ==
  /\ queue[c] # <<>> /\ Head(queue[c]).kind = kind
  /\ queue' = [queue EXCEPT ![c] = Tail(@)]
  /\ UNCHANGED <<pending, result, accepted, reading, failures, rolled>>

WorkerStart(c) ==
  /\ Take(c, "Start")
  /\ \/ /\ running' = [running EXCEPT ![c] = TRUE]
        /\ Emit(c, Head(queue[c]).id, "AcquisitionStarted")
     \/ /\ c \in Faulty /\ ~running[c]
        /\ Emit(c, Head(queue[c]).id, "AcquisitionStartFailed")
        /\ UNCHANGED running

\* The flag is cleared after the source has been closed, also when that fails.
WorkerStop(c) ==
  /\ Take(c, "Stop")
  /\ running' = [running EXCEPT ![c] = FALSE]
  /\ \/ Emit(c, Head(queue[c]).id, "AcquisitionStopped")
     \/ /\ c \in Faulty /\ running[c]
        /\ Emit(c, Head(queue[c]).id, "AcquisitionStopFailed")

\* The samples of a poll cannot be stored.
WorkerFails(c) ==
  /\ running[c] /\ failures < MaxFailures
  /\ running' = [running EXCEPT ![c] = FALSE]
  /\ failures' = failures + 1
  /\ Emit(c, NoAction, "AcquisitionFailed")
  /\ UNCHANGED <<queue, pending, result, accepted, reading, rolled>>

Worker(c) == WorkerStart(c) \/ WorkerStop(c) \/ WorkerFails(c)

-----------------------------------------------------------------------------
(***************************************************************************)
(* The runtime thread: handling an event.                                  *)
(***************************************************************************)
\* Mutant: the failure of a Stop is not an acknowledgement.
RelevantButStopFailures(event, p) ==
  /\ p # None
  /\ event.connection \notin p.responded
  /\ event.event \in IF p.kind = "Start"
                     THEN {"AcquisitionStarted", "AcquisitionStartFailed"}
                     ELSE {"AcquisitionStopped"}
\* The event is the first acknowledgement of its connection for a waiting action.
Relevant(event, p) ==
  /\ p # None
  /\ event.connection \notin p.responded
  /\ event.event \in IF p.kind = "Start"
                     THEN {"AcquisitionStarted", "AcquisitionStartFailed"}
                     ELSE {"AcquisitionStopped", "AcquisitionStopFailed"}

IsFailure(event) ==
  event.event \in {"AcquisitionStartFailed", "AcquisitionStopFailed"}

\* Mutant: the first acknowledgement completes the action.
CompletedByFirst(responded) == responded # {}
Completed(responded) == Cardinality(responded) = Cardinality(Connections)

\* A Stop without an action: no one waits for it.
Rollback(connections) ==
  /\ queue' = [c \in Connections |->
                 IF c \in connections
                 THEN Append(queue[c], [kind |-> "Stop", id |-> NoAction])
                 ELSE queue[c]]
  /\ rolled' = IF connections = {} THEN rolled ELSE Len(accepted)

Resolve(id, outcome) ==
  /\ pending' = [pending EXCEPT ![id] = None]
  /\ result' = [result EXCEPT ![id] = Append(@, outcome)]

IgnoreEvent == UNCHANGED <<queue, pending, result, rolled>>

PollEvent ==
  /\ events # <<>> /\ reading = None
  /\ LET event == Head(events)
         id == event.id
         p == IF id = NoAction THEN None ELSE pending[id]
         responded == p.responded \cup {event.connection}
     IN  \/ /\ ~Relevant(event, p)
            /\ IgnoreEvent
         \/ /\ Relevant(event, p) /\ IsFailure(event)
            /\ Rollback(p.rollback)
            /\ Resolve(id, "Failed")
         \/ /\ Relevant(event, p) /\ ~IsFailure(event) /\ Completed(responded)
            /\ Resolve(id, "Applied")
            /\ UNCHANGED <<queue, rolled>>
         \/ /\ Relevant(event, p) /\ ~IsFailure(event) /\ ~Completed(responded)
            /\ pending' = [pending EXCEPT ![id].responded = responded]
            /\ UNCHANGED <<queue, result, rolled>>
  /\ events' = Tail(events)
  /\ UNCHANGED <<running, accepted, reading, failures>>

-----------------------------------------------------------------------------
(***************************************************************************)
(* Properties.                                                             *)
(***************************************************************************)
LatestIs(kind) ==
  /\ accepted # <<>> /\ accepted[Len(accepted)] = kind
  /\ result[Len(accepted)] = <<"Applied">>

\* The latest action, once applied, holds on every connection: a Stop leaves
\* all of them stopped, and neither an earlier Start still queued nor an
\* acknowledgement of another action can make it appear applied too early; a
\* Start leaves all of them running, unless a poll failed or an earlier failed
\* Start was rolled back after it was accepted: the rollback Stop carries no
\* action and stops what the later Start has started.
AppliedActionsHold ==
  /\ LatestIs("Stop") => \A c \in Connections : ~running[c]
  /\ LatestIs("Start") /\ failures = 0 /\ rolled # Len(accepted) =>
       \A c \in Connections : running[c]

\* Each action gets exactly one result: never a second one, from the
\* acknowledgements that come after its failure, and none is left without one
\* when every command has been executed and every event handled.
EveryActionIsAnswered ==
  /\ \A a \in Actions : Len(result[a]) <= 1
  /\ /\ \A c \in Connections : queue[c] = <<>>
     /\ events = <<>> /\ reading = None
     => \A a \in 1 .. Len(accepted) : Len(result[a]) = 1

=============================================================================
