----------------------- MODULE RuntimeLifecycle_proofs -----------------------
(***************************************************************************)
(* Proofs about AcquisitionActions and RuntimeLifecycle, for every finite  *)
(* set of connections, every set of controllers and commands and every     *)
(* value of the bounds: the inductive invariant and the theorems.          *)
(***************************************************************************)
EXTENDS RuntimeLifecycle, SequenceTheorems, FiniteSetTheorems, TLAPS

-----------------------------------------------------------------------------
(***************************************************************************)
(* The invariant of the acquisition actions.                               *)
(***************************************************************************)
\* The actions whose command has been sent to the workers.
Submitted == {a \in 1 .. Len(accepted) : reading = None \/ reading.id # a}
Latest == Len(accepted)

InQueue(a, c) == \E i \in 1 .. Len(queue[c]) : queue[c][i].id = a
InEvents(a, c) ==
  \E i \in 1 .. Len(events) : events[i].connection = c /\ events[i].id = a
FailedToStart(a, c) ==
  \E i \in 1 .. Len(events) :
    /\ events[i].connection = c /\ events[i].id = a
    /\ events[i].event = "AcquisitionStartFailed"

Answers(kind) ==
  IF kind = "Start" THEN {"AcquisitionStarted", "AcquisitionStartFailed"}
  ELSE {"AcquisitionStopped", "AcquisitionStopFailed"}

\* The handler reads the flags for the action accepted last.
ReadingIsLatest ==
  reading # None => /\ accepted # <<>> /\ accepted[Latest] = "Start"
                    /\ reading.id = Latest

\* An action that was sent waits for an acknowledgement or has its one result.
ActionsAwaitOrEnd ==
  \A a \in Actions :
    /\ a \notin Submitted => pending[a] = None /\ result[a] = <<>>
    /\ a \in Submitted =>
         \/ pending[a] = None /\ Len(result[a]) = 1
         \/ /\ pending[a] # None /\ result[a] = <<>>
            /\ pending[a].kind = accepted[a]
            /\ pending[a].responded # Connections

\* Commands reach a worker in the order of their actions, a rollback's Stop
\* anywhere between them.
CommandsInOrder ==
  \A c \in Connections : \A i \in 1 .. Len(queue[c]) :
    /\ queue[c][i].id = NoAction => queue[c][i].kind = "Stop"
    /\ queue[c][i].id # NoAction =>
         /\ queue[c][i].id \in Submitted
         /\ queue[c][i].kind = accepted[queue[c][i].id]
         /\ \A j \in 1 .. Len(queue[c]) :
              i < j /\ queue[c][j].id # NoAction => queue[c][i].id < queue[c][j].id

\* A worker acknowledges an action once, in the way of its kind.
EventsAreAnswers ==
  \A i \in 1 .. Len(events) : events[i].id # NoAction =>
    /\ events[i].id \in Submitted
    /\ events[i].event \in Answers(accepted[events[i].id])
    /\ \A j \in 1 .. Len(events) :
         events[j].id = events[i].id /\ events[j].connection = events[i].connection
         => i = j

\* Where the acknowledgement of c is: to come, on its way or counted.
OneAnswer ==
  \A a \in Submitted : \A c \in Connections :
    /\ InQueue(a, c) => ~InEvents(a, c)
    /\ pending[a] # None =>
         (c \in pending[a].responded <=> ~InQueue(a, c) /\ ~InEvents(a, c))
    /\ result[a] = <<"Applied">> => ~InQueue(a, c) /\ ~InEvents(a, c)

\* A worker that has executed the latest Stop stays stopped.
StoppedByLatest ==
  accepted # <<>> /\ accepted[Latest] = "Stop" =>
    \A c \in Connections :
      \/ InQueue(Latest, c)
      \/ /\ ~running[c]
         /\ \A i \in 1 .. Len(queue[c]) : queue[c][i].kind = "Stop"

\* One that has executed the latest Start runs, or its failure is known.
StartedByLatest ==
  /\ accepted # <<>> /\ accepted[Latest] = "Start"
  /\ reading = None /\ failures = 0 /\ rolled # Latest
  => \A c \in Connections :
       \/ queue[c] # <<>> /\ queue[c][Len(queue[c])].id = Latest
       \/ /\ queue[c] = <<>>
          /\ running[c] \/ FailedToStart(Latest, c) \/ result[Latest] = <<"Failed">>

ActionsInv ==
  /\ ReadingIsLatest /\ ActionsAwaitOrEnd /\ CommandsInOrder /\ EventsAreAnswers
  /\ OneAnswer /\ StoppedByLatest /\ StartedByLatest

-----------------------------------------------------------------------------
(***************************************************************************)
(* The invariant of the life of the runtime.                               *)
(***************************************************************************)
\* The flags are read only while the runtime is polled.
ReadsWhilePolled == reading # None => phase = "polled"

\* After the barrier nothing is accepted until the runtime is polled again.
BarrierIsLatest ==
  phase \in {"waiting", "building", "retired", "destroying", "destroyed"} =>
    /\ accepted # <<>> /\ barrier = Latest /\ accepted[Latest] = "Stop"

\* A replacement exists only behind a barrier that was applied.
Replacing ==
  \/ phase \in {"building", "retired"}
  \/ phase \in {"destroying", "destroyed"} /\ ~leaving

ReplacementIsBarred ==
  /\ Replacing => result[barrier] = <<"Applied">>
  /\ replacement => Replacing

\* The retirement pauses one controller after another.
PausedSoFar ==
  /\ phase = "pausing" => Controllers \ unpaused \subseteq paused
  /\ phase \in {"stopping", "waiting", "building", "retired", "destroying"} =>
       paused = Controllers

IInv ==
  /\ TypeOK /\ ActionsInv
  /\ ReadsWhilePolled /\ BarrierIsLatest /\ ReplacementIsBarred /\ PausedSoFar

-----------------------------------------------------------------------------
(***************************************************************************)
(* What the operators on the channels do.                                  *)
(***************************************************************************)
LEMMA NoneIsNoRecord ==
  /\ None \notin Pending /\ None \notin Reading
  /\ {None} \cap Pending = {} /\ {None} \cap Reading = {}
BY DEF None, Pending, Reading

\* One more command at the end of each channel.
LEMMA SendFacts ==
  ASSUME AcquisitionTypeOK, NEW kind \in {"Start", "Stop"}, NEW id \in Actions,
         SendToAll(kind, id)
  PROVE  /\ queue' \in [Connections -> Seq(Command)]
         /\ \A c \in Connections :
              /\ Len(queue'[c]) = Len(queue[c]) + 1
              /\ \A i \in 1 .. Len(queue[c]) : queue'[c][i] = queue[c][i]
              /\ queue'[c][Len(queue[c]) + 1] = [kind |-> kind, id |-> id]
<1>1. [kind |-> kind, id |-> id] \in Command
  BY DEF Command
<1>2. ASSUME NEW c \in Connections
      PROVE  /\ queue'[c] \in Seq(Command)
             /\ Len(queue'[c]) = Len(queue[c]) + 1
             /\ \A i \in 1 .. Len(queue[c]) : queue'[c][i] = queue[c][i]
             /\ queue'[c][Len(queue[c]) + 1] = [kind |-> kind, id |-> id]
  <2>1. queue[c] \in Seq(Command)
    BY DEF AcquisitionTypeOK
  <2>2. queue'[c] = Append(queue[c], [kind |-> kind, id |-> id])
    BY DEF SendToAll
  <2> QED
    BY <1>1, <2>1, <2>2, AppendProperties
<1>3. queue' = [c \in Connections |-> queue'[c]]
  BY DEF SendToAll
<1> QED
  BY <1>2, <1>3

\* The rollback sends a Stop of no action to some of them.
LEMMA RollbackFacts ==
  ASSUME AcquisitionTypeOK, NEW connections \in SUBSET Connections,
         Rollback(connections)
  PROVE  /\ queue' \in [Connections -> Seq(Command)]
         /\ \A c \in Connections \ connections : queue'[c] = queue[c]
         /\ \A c \in connections :
              /\ Len(queue'[c]) = Len(queue[c]) + 1
              /\ \A i \in 1 .. Len(queue[c]) : queue'[c][i] = queue[c][i]
              /\ queue'[c][Len(queue[c]) + 1] = [kind |-> "Stop", id |-> NoAction]
         /\ rolled' \in 0 .. MaxActions
<1> DEFINE stop == [kind |-> "Stop", id |-> NoAction]
<1>1. stop \in Command
  BY DEF Command
<1>2. ASSUME NEW c \in Connections
      PROVE  /\ queue'[c] \in Seq(Command)
             /\ c \notin connections => queue'[c] = queue[c]
             /\ c \in connections =>
                  /\ Len(queue'[c]) = Len(queue[c]) + 1
                  /\ \A i \in 1 .. Len(queue[c]) : queue'[c][i] = queue[c][i]
                  /\ queue'[c][Len(queue[c]) + 1] = stop
  <2>1. queue[c] \in Seq(Command)
    BY DEF AcquisitionTypeOK
  <2>2. queue'[c] = IF c \in connections THEN Append(queue[c], stop) ELSE queue[c]
    BY DEF Rollback
  <2> HIDE DEF stop
  <2> QED
    BY <1>1, <2>1, <2>2, AppendProperties
<1>3. queue' = [c \in Connections |-> queue'[c]]
  BY DEF Rollback
<1>4. rolled' \in 0 .. MaxActions
  BY AcquisitionAssumption, LenProperties DEF Rollback, AcquisitionTypeOK
<1> QED
  BY <1>2, <1>3, <1>4

\* The worker of c takes its oldest command.
LEMMA TakeFacts ==
  ASSUME AcquisitionTypeOK, NEW c \in Connections, NEW kind, Take(c, kind)
  PROVE  /\ queue' \in [Connections -> Seq(Command)]
         /\ Len(queue[c]) \in Nat /\ Len(queue[c]) > 0
         /\ Head(queue[c]) = queue[c][1] /\ queue[c][1].kind = kind
         /\ queue[c][1] \in Command
         /\ \A d \in Connections \ {c} : queue'[d] = queue[d]
         /\ Len(queue'[c]) = Len(queue[c]) - 1
         /\ \A i \in 1 .. Len(queue[c]) - 1 : queue'[c][i] = queue[c][i + 1]
<1>1. queue[c] \in Seq(Command) /\ queue[c] # <<>>
  BY DEF AcquisitionTypeOK, Take
<1>2. queue' = [queue EXCEPT ![c] = Tail(queue[c])]
  BY DEF Take
<1>3. /\ Tail(queue[c]) \in Seq(Command)
      /\ Len(Tail(queue[c])) = Len(queue[c]) - 1
      /\ \A i \in 1 .. Len(queue[c]) - 1 : Tail(queue[c])[i] = queue[c][i + 1]
      /\ Len(queue[c]) \in Nat /\ Len(queue[c]) > 0
      /\ Head(queue[c]) = queue[c][1] /\ queue[c][1] \in Command
  BY <1>1, HeadTailProperties, LenProperties, EmptySeq
<1> QED
  BY <1>1, <1>2, <1>3 DEF AcquisitionTypeOK, Take

\* A worker's event is the last of the channel.
LEMMA EmitFacts ==
  ASSUME AcquisitionTypeOK, NEW c \in Connections, NEW id \in Actions \cup {NoAction},
         NEW event \in {"AcquisitionStarted", "AcquisitionStartFailed",
                        "AcquisitionStopped", "AcquisitionStopFailed",
                        "AcquisitionFailed"},
         Emit(c, id, event)
  PROVE  /\ events' \in Seq(Event)
         /\ Len(events) \in Nat
         /\ Len(events') = Len(events) + 1
         /\ \A i \in 1 .. Len(events) : events'[i] = events[i]
         /\ events'[Len(events) + 1].connection = c
         /\ events'[Len(events) + 1].id = id
         /\ events'[Len(events) + 1].event = event
<1> DEFINE e == [connection |-> c, id |-> id, event |-> event]
<1>1. e \in Event
  BY DEF Event
<1>2. events \in Seq(Event) /\ events' = Append(events, e)
  BY DEF AcquisitionTypeOK, Emit
<1>3. e.connection = c /\ e.id = id /\ e.event = event
  OBVIOUS
<1> HIDE DEF e
<1> QED
  BY <1>1, <1>2, <1>3, AppendProperties, LenProperties

\* The first event is taken.
LEMMA EventFacts ==
  ASSUME AcquisitionTypeOK, events # <<>>, events' = Tail(events)
  PROVE  /\ events' \in Seq(Event)
         /\ Len(events) \in Nat /\ Len(events) > 0
         /\ Head(events) = events[1] /\ events[1] \in Event
         /\ Len(events') = Len(events) - 1
         /\ \A i \in 1 .. Len(events) - 1 : events'[i] = events[i + 1]
BY HeadTailProperties, LenProperties, EmptySeq DEF AcquisitionTypeOK

LEMMA AcceptedFacts ==
  ASSUME AcquisitionTypeOK, NEW kind \in {"Start", "Stop"},
         Len(accepted) < MaxActions, accepted' = Append(accepted, kind)
  PROVE  /\ accepted' \in Seq({"Start", "Stop"}) /\ accepted' # <<>>
         /\ Len(accepted) \in Nat
         /\ Len(accepted') = Len(accepted) + 1 /\ Len(accepted') \in Actions
         /\ \A a \in 1 .. Len(accepted) : accepted'[a] = accepted[a]
         /\ accepted'[Len(accepted) + 1] = kind
<1>1. accepted \in Seq({"Start", "Stop"})
  BY DEF AcquisitionTypeOK
<1>2. Len(accepted) \in Nat
  BY <1>1, LenProperties
<1>3. Len(accepted) + 1 \in Actions
  BY <1>2, AcquisitionAssumption DEF Actions
<1> QED
  BY <1>1, <1>2, <1>3, AppendProperties

-----------------------------------------------------------------------------
(***************************************************************************)
(* The runtime thread accepts.                                             *)
(***************************************************************************)
LEMMA AcceptStartStep ==
  ASSUME AcquisitionTypeOK, ActionsInv, AcceptStart
  PROVE  AcquisitionTypeOK' /\ ActionsInv'
<1> DEFINE n == Len(accepted) + 1
<1>1. /\ accepted' \in Seq({"Start", "Stop"}) /\ accepted' # <<>>
      /\ Len(accepted) \in Nat /\ n = Len(accepted') /\ n \in Actions
      /\ \A a \in 1 .. Len(accepted) : accepted'[a] = accepted[a]
      /\ accepted'[n] = "Start"
  BY AcceptedFacts DEF AcceptStart
<1>2. /\ reading = None /\ reading' \in Reading
      /\ reading'.id = n /\ reading'.unread = Connections /\ reading'.stopped = {}
      /\ UNCHANGED <<queue, running, events, pending, result, failures, rolled>>
  BY <1>1 DEF AcceptStart, Reading
<1>3. reading' # None
  BY <1>2, NoneIsNoRecord
<1>4. Submitted = 1 .. Len(accepted) /\ Submitted' = 1 .. Len(accepted)
  BY <1>1, <1>2, <1>3 DEF Submitted
<1>5. AcquisitionTypeOK'
  <2>1. Len(accepted') <= MaxActions
    BY <1>1, AcquisitionAssumption DEF Actions
  <2> QED
    BY <1>1, <1>2, <2>1 DEF AcquisitionTypeOK
<1>6. \A a \in Actions : \A c \in Connections :
        /\ InQueue(a, c)' <=> InQueue(a, c)
        /\ InEvents(a, c)' <=> InEvents(a, c)
  BY <1>2 DEF InQueue, InEvents
<1>7. ReadingIsLatest'
  BY <1>1, <1>2 DEF ReadingIsLatest, Latest
<1>8. ActionsAwaitOrEnd'
  BY <1>1, <1>2, <1>4 DEF ActionsAwaitOrEnd, ActionsInv
<1>9. CommandsInOrder'
  BY <1>1, <1>2, <1>4 DEF CommandsInOrder, ActionsInv
<1>10. EventsAreAnswers'
  BY <1>1, <1>2, <1>4 DEF EventsAreAnswers, ActionsInv
<1>11. OneAnswer'
  <2>1. 1 .. Len(accepted) \subseteq Actions
    BY <1>1, AcquisitionAssumption DEF Actions
  <2> QED
    BY <1>1, <1>2, <1>4, <1>6, <2>1 DEF OneAnswer, ActionsInv
<1>12. StoppedByLatest'
  BY <1>1 DEF StoppedByLatest, Latest
<1>13. StartedByLatest'
  BY <1>3 DEF StartedByLatest
<1> QED
  BY <1>5, <1>7, <1>8, <1>9, <1>10, <1>11, <1>12, <1>13 DEF ActionsInv

LEMMA ReadFlagStep ==
  ASSUME AcquisitionTypeOK, ActionsInv, ReadFlag
  PROVE  AcquisitionTypeOK' /\ ActionsInv'
<1>1. PICK c \in reading.unread :
        reading' = [reading EXCEPT !.unread = @ \ {c},
                                   !.stopped = IF running[c] THEN @ ELSE @ \cup {c}]
  BY DEF ReadFlag
<1>2. reading \in Reading /\ reading # None
  BY DEF ReadFlag, AcquisitionTypeOK
<1>3. reading' \in Reading /\ reading'.id = reading.id
  BY <1>1, <1>2 DEF Reading
<1>4. reading' # None
  BY <1>3, NoneIsNoRecord
<1>5. UNCHANGED <<queue, running, events, pending, result, accepted, failures, rolled>>
  BY DEF ReadFlag
<1>6. Submitted' = Submitted /\ Latest' = Latest
  BY <1>2, <1>3, <1>4, <1>5 DEF Submitted, Latest
<1>7. AcquisitionTypeOK'
  BY <1>3, <1>5 DEF AcquisitionTypeOK
<1>8. ReadingIsLatest' /\ StartedByLatest'
  BY <1>2, <1>3, <1>4, <1>5, <1>6 DEF ActionsInv, ReadingIsLatest, StartedByLatest
<1>9. ActionsAwaitOrEnd' /\ CommandsInOrder' /\ EventsAreAnswers'
  BY <1>5, <1>6
  DEF ActionsInv, ActionsAwaitOrEnd, CommandsInOrder, EventsAreAnswers
<1>10. OneAnswer' /\ StoppedByLatest'
  BY <1>5, <1>6 DEF ActionsInv, OneAnswer, StoppedByLatest, InQueue, InEvents
<1> QED
  BY <1>7, <1>8, <1>9, <1>10 DEF ActionsInv

\* What sending a new action a to every worker does to the channels.
LEMMA SubmissionStep ==
  ASSUME AcquisitionTypeOK, ActionsInv,
         NEW kind \in {"Start", "Stop"}, NEW rollback \in SUBSET Connections,
         NEW a \in Actions, a \notin Submitted, Submitted \subseteq 1 .. a,
         SendToAll(kind, a),
         pending' = [pending EXCEPT ![a] = NewPending(kind, rollback)],
         accepted' \in Seq({"Start", "Stop"}), Len(accepted') = a, accepted'[a] = kind,
         \A b \in Submitted : accepted'[b] = accepted[b],
         Submitted' = Submitted \cup {a},
         reading' = None,
         UNCHANGED <<running, events, result, failures, rolled>>
  PROVE  AcquisitionTypeOK' /\ ActionsInv'
<1>1. /\ queue' \in [Connections -> Seq(Command)]
      /\ \A c \in Connections :
           /\ Len(queue'[c]) = Len(queue[c]) + 1
           /\ \A i \in 1 .. Len(queue[c]) : queue'[c][i] = queue[c][i]
           /\ queue'[c][Len(queue[c]) + 1] = [kind |-> kind, id |-> a]
  BY SendFacts
<1>2. a \in Nat /\ a # NoAction /\ a <= MaxActions
  BY AcquisitionAssumption DEF Actions, NoAction
<1>3. NewPending(kind, rollback) \in Pending /\ NewPending(kind, rollback) # None
  BY NoneIsNoRecord DEF NewPending, Pending
<1>4. /\ pending' \in [Actions -> Pending \cup {None}]
      /\ pending'[a] = NewPending(kind, rollback)
      /\ \A b \in Actions \ {a} : pending'[b] = pending[b]
  BY <1>3 DEF AcquisitionTypeOK
<1>5. Submitted \subseteq Actions
  BY <1>2, AcquisitionAssumption DEF Actions
<1>6. \A c \in Connections : Len(queue[c]) \in Nat
  BY LenProperties DEF AcquisitionTypeOK
<1>7. AcquisitionTypeOK'
  BY <1>1, <1>2, <1>4 DEF AcquisitionTypeOK
<1>8. \A c \in Connections : InQueue(a, c)'
  BY <1>1, <1>6 DEF InQueue
<1>9. \A b \in Submitted : \A c \in Connections : InQueue(b, c)' <=> InQueue(b, c)
  <2> SUFFICES ASSUME NEW b \in Submitted, NEW c \in Connections
               PROVE  InQueue(b, c)' <=> InQueue(b, c)
    OBVIOUS
  <2>1. b # a
    OBVIOUS
  <2>2. ASSUME InQueue(b, c) PROVE InQueue(b, c)'
    <3>1. PICK i \in 1 .. Len(queue[c]) : queue[c][i].id = b
      BY <2>2 DEF InQueue
    <3>2. i \in 1 .. Len(queue'[c]) /\ queue'[c][i].id = b
      BY <1>1, <1>6, <3>1
    <3> QED
      BY <3>2 DEF InQueue
  <2>3. ASSUME InQueue(b, c)' PROVE InQueue(b, c)
    <3>1. PICK i \in 1 .. Len(queue'[c]) : queue'[c][i].id = b
      BY <2>3 DEF InQueue
    <3>2. i # Len(queue[c]) + 1
      BY <1>1, <2>1, <3>1
    <3>3. i \in 1 .. Len(queue[c]) /\ queue[c][i].id = b
      BY <1>1, <1>6, <3>1, <3>2
    <3> QED
      BY <3>3 DEF InQueue
  <2> QED
    BY <2>2, <2>3
<1>10. \A b \in Actions : \A c \in Connections : InEvents(b, c)' <=> InEvents(b, c)
  BY DEF InEvents
<1>11. \A c \in Connections : ~InEvents(a, c)
  BY <1>2 DEF InEvents, ActionsInv, EventsAreAnswers
<1>12. result[a] = <<>>
  BY DEF ActionsInv, ActionsAwaitOrEnd
<1>13. ReadingIsLatest'
  BY DEF ReadingIsLatest
<1>14. ActionsAwaitOrEnd'
  <2> SUFFICES ASSUME NEW b \in Actions
               PROVE  /\ b \notin Submitted' => pending'[b] = None /\ result'[b] = <<>>
                      /\ b \in Submitted' =>
                           \/ pending'[b] = None /\ Len(result'[b]) = 1
                           \/ /\ pending'[b] # None /\ result'[b] = <<>>
                              /\ pending'[b].kind = accepted'[b]
                              /\ pending'[b].responded # Connections
    BY DEF ActionsAwaitOrEnd
  <2>1. CASE b = a
    BY <1>3, <1>4, <1>12, <2>1, AcquisitionAssumption DEF NewPending
  <2>2. CASE b # a
    BY <1>4, <2>2 DEF ActionsInv, ActionsAwaitOrEnd
  <2> QED
    BY <2>1, <2>2
<1>15. CommandsInOrder'
  <2> SUFFICES ASSUME NEW c \in Connections, NEW i \in 1 .. Len(queue'[c])
               PROVE  /\ queue'[c][i].id = NoAction => queue'[c][i].kind = "Stop"
                      /\ queue'[c][i].id # NoAction =>
                           /\ queue'[c][i].id \in Submitted'
                           /\ queue'[c][i].kind = accepted'[queue'[c][i].id]
                           /\ \A j \in 1 .. Len(queue'[c]) :
                                i < j /\ queue'[c][j].id # NoAction =>
                                  queue'[c][i].id < queue'[c][j].id
    BY DEF CommandsInOrder
  <2>1. CASE i = Len(queue[c]) + 1
    BY <1>1, <1>2, <1>6, <2>1
  <2>2. CASE i # Len(queue[c]) + 1
    <3>1. i \in 1 .. Len(queue[c]) /\ queue'[c][i] = queue[c][i]
      BY <1>1, <1>6, <2>2
    <3>2. ASSUME queue[c][i].id # NoAction
          PROVE  /\ queue[c][i].id \in Submitted
                 /\ queue[c][i].id \in Nat /\ queue[c][i].id < a
                 /\ queue[c][i].kind = accepted[queue[c][i].id]
      <4>1. /\ queue[c][i].id \in Submitted
            /\ queue[c][i].kind = accepted[queue[c][i].id]
        BY <3>1, <3>2 DEF ActionsInv, CommandsInOrder
      <4>2. queue[c][i].id \in 1 .. a /\ queue[c][i].id # a
        BY <4>1
      <4> QED
        BY <1>2, <4>1, <4>2
    <3>3. ASSUME queue[c][i].id # NoAction, NEW j \in 1 .. Len(queue'[c]),
                 i < j, queue'[c][j].id # NoAction
          PROVE  queue'[c][i].id < queue'[c][j].id
      <4>1. CASE j = Len(queue[c]) + 1
        BY <1>1, <3>1, <3>2, <3>3, <4>1
      <4>2. CASE j # Len(queue[c]) + 1
        <5>1. j \in 1 .. Len(queue[c]) /\ queue'[c][j] = queue[c][j]
          BY <1>1, <1>6, <4>2
        <5> QED
          BY <3>1, <3>3, <5>1 DEF ActionsInv, CommandsInOrder
      <4> QED
        BY <4>1, <4>2
    <3> QED
      BY <3>1, <3>2, <3>3 DEF ActionsInv, CommandsInOrder
  <2> QED
    BY <2>1, <2>2
<1>16. EventsAreAnswers'
  BY DEF ActionsInv, EventsAreAnswers
<1>17. OneAnswer'
  <2> SUFFICES ASSUME NEW b \in Submitted', NEW c \in Connections
               PROVE  /\ InQueue(b, c)' => ~InEvents(b, c)'
                      /\ pending'[b] # None =>
                           (c \in pending'[b].responded
                              <=> ~InQueue(b, c)' /\ ~InEvents(b, c)')
                      /\ result'[b] = <<"Applied">> => ~InQueue(b, c)' /\ ~InEvents(b, c)'
    BY DEF OneAnswer
  <2>1. CASE b = a
    BY <1>4, <1>8, <1>10, <1>11, <1>12, <2>1 DEF NewPending
  <2>2. CASE b # a
    BY <1>4, <1>5, <1>9, <1>10, <2>2 DEF ActionsInv, OneAnswer
  <2> QED
    BY <2>1, <2>2
<1>18. StoppedByLatest'
  BY <1>8 DEF StoppedByLatest, Latest
<1>19. StartedByLatest'
  <2> SUFFICES ASSUME NEW c \in Connections
               PROVE  queue'[c] # <<>> /\ queue'[c][Len(queue'[c])].id = a
    BY DEF StartedByLatest, Latest
  <2>1. Len(queue'[c]) # 0
    BY <1>1, <1>6
  <2> QED
    BY <1>1, <1>6, <2>1
<1> QED
  BY <1>7, <1>13, <1>14, <1>15, <1>16, <1>17, <1>18, <1>19 DEF ActionsInv

LEMMA SubmitStartStep ==
  ASSUME AcquisitionTypeOK, ActionsInv, SubmitStart
  PROVE  AcquisitionTypeOK' /\ ActionsInv'
<1> DEFINE a == reading.id
<1>1. reading # None /\ reading \in Reading
  BY DEF SubmitStart, AcquisitionTypeOK
<1>2. a \in Actions /\ RollbackOf \in SUBSET Connections
  BY <1>1 DEF Reading, RollbackOf
<1>3. /\ accepted \in Seq({"Start", "Stop"}) /\ accepted # <<>>
      /\ a = Len(accepted) /\ accepted[a] = "Start"
  BY <1>1 DEF ActionsInv, ReadingIsLatest, Latest, AcquisitionTypeOK
<1>4. Submitted = (1 .. a) \ {a} /\ Submitted' = 1 .. a
  BY <1>1, <1>3 DEF SubmitStart, Submitted
<1>5. /\ a \notin Submitted /\ Submitted \subseteq 1 .. a
      /\ Submitted' = Submitted \cup {a}
  BY <1>2, <1>4, AcquisitionAssumption DEF Actions
<1>6. /\ SendToAll("Start", a)
      /\ pending' = [pending EXCEPT ![a] = NewPending("Start", RollbackOf)]
      /\ accepted' = accepted /\ reading' = None
      /\ UNCHANGED <<running, events, result, failures, rolled>>
  BY DEF SubmitStart
<1> HIDE DEF a
<1> QED
  BY <1>2, <1>3, <1>5, <1>6, SubmissionStep

LEMMA AcceptStopStep ==
  ASSUME AcquisitionTypeOK, ActionsInv, AcceptStop
  PROVE  AcquisitionTypeOK' /\ ActionsInv'
<1> DEFINE a == Len(accepted) + 1
<1>1. /\ accepted' \in Seq({"Start", "Stop"})
      /\ Len(accepted) \in Nat /\ Len(accepted') = a /\ a \in Actions
      /\ \A b \in 1 .. Len(accepted) : accepted'[b] = accepted[b]
      /\ accepted'[a] = "Stop"
  BY AcceptedFacts DEF AcceptStop
<1>2. /\ reading = None /\ reading' = None
      /\ SendToAll("Stop", a)
      /\ pending' = [pending EXCEPT ![a] = NewPending("Stop", {})]
      /\ UNCHANGED <<running, events, result, failures, rolled>>
  BY DEF AcceptStop
<1>3. Submitted = 1 .. Len(accepted) /\ Submitted' = 1 .. a
  BY <1>1, <1>2 DEF Submitted
<1>4. /\ a \notin Submitted /\ Submitted \subseteq 1 .. a
      /\ Submitted' = Submitted \cup {a}
      /\ \A b \in Submitted : accepted'[b] = accepted[b]
  BY <1>1, <1>3
<1>5. {} \in SUBSET Connections
  OBVIOUS
<1> HIDE DEF a
<1> QED
  BY <1>1, <1>2, <1>4, <1>5, SubmissionStep

-----------------------------------------------------------------------------
(***************************************************************************)
(* The workers.                                                            *)
(***************************************************************************)
LEMMA SubmittedFacts ==
  ASSUME AcquisitionTypeOK
  PROVE  /\ Latest \in Nat
         /\ Submitted \subseteq 1 .. Latest /\ Submitted \subseteq Actions
         /\ NoAction \notin Submitted /\ Submitted \subseteq Nat
         /\ \A a \in Submitted : accepted[a] \in {"Start", "Stop"}
<1>1. accepted \in Seq({"Start", "Stop"}) /\ Len(accepted) <= MaxActions
  BY DEF AcquisitionTypeOK
<1>2. Latest \in Nat /\ Latest <= MaxActions
  BY <1>1, LenProperties DEF Latest
<1>3. Submitted \subseteq 1 .. Latest
  BY DEF Submitted, Latest
<1>4. \A a \in 1 .. Latest : accepted[a] \in {"Start", "Stop"}
  BY <1>1, ElementOfSeq DEF Latest
<1> QED
  BY <1>2, <1>3, <1>4, AcquisitionAssumption DEF Actions, NoAction

\* Executing a command moves its acknowledgement from the queue to the events.
LEMMA ExecutionFacts ==
  ASSUME AcquisitionTypeOK, ActionsInv, NEW c \in Connections,
         NEW kind \in {"Start", "Stop"}, Take(c, kind),
         NEW event \in Answers(kind), Emit(c, Head(queue[c]).id, event)
  PROVE  /\ queue' \in [Connections -> Seq(Command)] /\ events' \in Seq(Event)
         /\ \A b \in Submitted : \A d \in Connections :
              /\ InQueue(b, d)' <=> InQueue(b, d) /\ ~(b = queue[c][1].id /\ d = c)
              /\ InEvents(b, d)' <=> InEvents(b, d) \/ (b = queue[c][1].id /\ d = c)
         /\ UNCHANGED <<Submitted, Latest>>
         /\ ReadingIsLatest' /\ ActionsAwaitOrEnd' /\ CommandsInOrder'
         /\ EventsAreAnswers' /\ OneAnswer'
<1> DEFINE id == queue[c][1].id
<1>1. /\ queue' \in [Connections -> Seq(Command)]
      /\ Len(queue[c]) \in Nat /\ Len(queue[c]) > 0
      /\ Head(queue[c]) = queue[c][1] /\ queue[c][1].kind = kind
      /\ queue[c][1] \in Command
      /\ \A d \in Connections \ {c} : queue'[d] = queue[d]
      /\ Len(queue'[c]) = Len(queue[c]) - 1
      /\ \A i \in 1 .. Len(queue[c]) - 1 : queue'[c][i] = queue[c][i + 1]
  BY TakeFacts
<1>2. id \in Actions \cup {NoAction}
  BY <1>1 DEF Command
<1>3. /\ events' \in Seq(Event)
      /\ Len(events) \in Nat /\ Len(events') = Len(events) + 1
      /\ \A i \in 1 .. Len(events) : events'[i] = events[i]
      /\ events'[Len(events) + 1].connection = c
      /\ events'[Len(events) + 1].id = id
      /\ events'[Len(events) + 1].event = event
  BY <1>1, <1>2, EmitFacts DEF Answers
<1>4. UNCHANGED <<pending, result, accepted, reading, failures, rolled>>
  BY DEF Take
<1>5. UNCHANGED <<Submitted, Latest>>
  BY <1>4 DEF Submitted, Latest
<1>6. NoAction \notin Submitted /\ Submitted \subseteq Nat
  BY SubmittedFacts
<1>7. \A i \in 2 .. Len(queue[c]) : queue[c][i].id # NoAction /\ id # NoAction =>
                                      id < queue[c][i].id
  BY <1>1 DEF ActionsInv, CommandsInOrder
<1> HIDE DEF id
<1>8. ASSUME NEW b \in Submitted, NEW d \in Connections
      PROVE  InQueue(b, d)' <=> InQueue(b, d) /\ ~(b = id /\ d = c)
  <2>1. CASE d # c
    BY <1>1, <2>1 DEF InQueue
  <2>2. ASSUME d = c, InQueue(b, c)'
        PROVE  InQueue(b, c) /\ b # id
    <3>1. PICK i \in 1 .. Len(queue'[c]) : queue'[c][i].id = b
      BY <2>2 DEF InQueue
    <3>2. i + 1 \in 2 .. Len(queue[c]) /\ queue[c][i + 1].id = b
      BY <1>1, <3>1
    <3>3. b # id
      BY <1>6, <1>7, <3>2
    <3>4. i + 1 \in 1 .. Len(queue[c])
      BY <3>2
    <3> QED
      BY <3>2, <3>3, <3>4 DEF InQueue
  <2>3. ASSUME d = c, InQueue(b, c), b # id
        PROVE  InQueue(b, c)'
    <3>1. PICK i \in 1 .. Len(queue[c]) : queue[c][i].id = b
      BY <2>3 DEF InQueue
    <3>2. i # 1
      BY <2>3, <3>1 DEF id
    <3>3. i - 1 \in 1 .. Len(queue'[c]) /\ queue'[c][i - 1] = queue[c][i]
      BY <1>1, <3>1, <3>2
    <3> QED
      BY <3>1, <3>3 DEF InQueue
  <2> QED
    BY <2>1, <2>2, <2>3
<1>9. ASSUME NEW b \in Submitted, NEW d \in Connections
      PROVE  InEvents(b, d)' <=> InEvents(b, d) \/ (b = id /\ d = c)
  <2>1. ASSUME InEvents(b, d)' PROVE InEvents(b, d) \/ (b = id /\ d = c)
    <3>1. PICK i \in 1 .. Len(events') : events'[i].connection = d /\ events'[i].id = b
      BY <2>1 DEF InEvents
    <3>2. CASE i = Len(events) + 1
      BY <1>3, <3>1, <3>2
    <3>3. CASE i # Len(events) + 1
      <4>1. i \in 1 .. Len(events) /\ events'[i] = events[i]
        BY <1>3, <3>1, <3>3
      <4> QED
        BY <3>1, <4>1 DEF InEvents
    <3> QED
      BY <3>2, <3>3
  <2>2. ASSUME InEvents(b, d) PROVE InEvents(b, d)'
    <3>1. PICK i \in 1 .. Len(events) : events[i].connection = d /\ events[i].id = b
      BY <2>2 DEF InEvents
    <3>2. i \in 1 .. Len(events') /\ events'[i] = events[i]
      BY <1>3, <3>1
    <3> QED
      BY <3>1, <3>2 DEF InEvents
  <2>3. ASSUME b = id, d = c PROVE InEvents(b, d)'
    <3>1. Len(events) + 1 \in 1 .. Len(events')
      BY <1>3
    <3> QED
      BY <1>3, <2>3, <3>1 DEF InEvents
  <2> QED
    BY <2>1, <2>2, <2>3
<1>10. id # NoAction => id \in Submitted /\ accepted[id] = kind /\ InQueue(id, c)
  BY <1>1 DEF id, ActionsInv, CommandsInOrder, InQueue
<1>11. ReadingIsLatest'
  BY <1>4, <1>5 DEF ActionsInv, ReadingIsLatest
<1>12. ActionsAwaitOrEnd'
  BY <1>4, <1>5 DEF ActionsInv, ActionsAwaitOrEnd
<1>13. CommandsInOrder'
  <2> SUFFICES ASSUME NEW d \in Connections, NEW i \in 1 .. Len(queue'[d])
               PROVE  /\ queue'[d][i].id = NoAction => queue'[d][i].kind = "Stop"
                      /\ queue'[d][i].id # NoAction =>
                           /\ queue'[d][i].id \in Submitted
                           /\ queue'[d][i].kind = accepted[queue'[d][i].id]
                           /\ \A j \in 1 .. Len(queue'[d]) :
                                i < j /\ queue'[d][j].id # NoAction =>
                                  queue'[d][i].id < queue'[d][j].id
    BY <1>4, <1>5 DEF CommandsInOrder
  <2>1. CASE d # c
    BY <1>1, <2>1 DEF ActionsInv, CommandsInOrder
  <2>2. CASE d = c
    <3>1. /\ i + 1 \in 1 .. Len(queue[c]) /\ queue'[c][i] = queue[c][i + 1]
          /\ \A j \in 1 .. Len(queue'[c]) :
               /\ j + 1 \in 1 .. Len(queue[c]) /\ queue'[c][j] = queue[c][j + 1]
               /\ i < j => i + 1 < j + 1
      BY <1>1, <2>2
    <3>2. /\ queue[c][i + 1].id = NoAction => queue[c][i + 1].kind = "Stop"
          /\ queue[c][i + 1].id # NoAction =>
               /\ queue[c][i + 1].id \in Submitted
               /\ queue[c][i + 1].kind = accepted[queue[c][i + 1].id]
               /\ \A j \in 1 .. Len(queue[c]) :
                    i + 1 < j /\ queue[c][j].id # NoAction =>
                      queue[c][i + 1].id < queue[c][j].id
      BY <3>1 DEF ActionsInv, CommandsInOrder
    <3>3. ASSUME NEW j \in 1 .. Len(queue'[c]), queue'[c][i].id # NoAction,
                 i < j, queue'[c][j].id # NoAction
          PROVE  queue'[c][i].id < queue'[c][j].id
      BY <3>1, <3>2, <3>3
    <3> QED
      BY <2>2, <3>1, <3>2, <3>3
  <2> QED
    BY <2>1, <2>2
<1>14. EventsAreAnswers'
  <2>1. ASSUME id # NoAction PROVE ~InEvents(id, c)
    BY <1>10, <2>1 DEF ActionsInv, OneAnswer
  <2> SUFFICES ASSUME NEW i \in 1 .. Len(events'), events'[i].id # NoAction
               PROVE  /\ events'[i].id \in Submitted
                      /\ events'[i].event \in Answers(accepted[events'[i].id])
                      /\ \A j \in 1 .. Len(events') :
                           events'[j].id = events'[i].id
                           /\ events'[j].connection = events'[i].connection => i = j
    BY <1>4, <1>5 DEF EventsAreAnswers
  <2>2. \A j \in 1 .. Len(events') :
          j = Len(events) + 1 \/ (j \in 1 .. Len(events) /\ events'[j] = events[j])
    BY <1>3
  <2>3. CASE i = Len(events) + 1
    BY <1>3, <1>10, <2>1, <2>2, <2>3 DEF InEvents
  <2>4. CASE i # Len(events) + 1
    <3>1. i \in 1 .. Len(events) /\ events'[i] = events[i]
      BY <2>2, <2>4
    <3>2. /\ events[i].id \in Submitted
          /\ events[i].event \in Answers(accepted[events[i].id])
          /\ \A j \in 1 .. Len(events) :
               events[j].id = events[i].id /\ events[j].connection = events[i].connection
               => i = j
      BY <3>1 DEF ActionsInv, EventsAreAnswers
    <3>3. ~(events[i].id = id /\ events[i].connection = c)
      BY <2>1, <3>1 DEF InEvents
    <3> QED
      BY <1>3, <2>2, <3>1, <3>2, <3>3
  <2> QED
    BY <2>3, <2>4
<1>15. OneAnswer'
  <2>1. id # NoAction /\ pending[id] # None => c \notin pending[id].responded
    BY <1>10 DEF ActionsInv, OneAnswer
  <2>2. id # NoAction => result[id] # <<"Applied">> /\ ~InEvents(id, c)
    BY <1>10 DEF ActionsInv, OneAnswer
  <2>3. ASSUME NEW b \in Submitted, NEW d \in Connections
        PROVE  /\ InQueue(b, d)' => ~InEvents(b, d)'
               /\ pending[b] # None =>
                    (d \in pending[b].responded <=> ~InQueue(b, d)' /\ ~InEvents(b, d)')
               /\ result[b] = <<"Applied">> => ~InQueue(b, d)' /\ ~InEvents(b, d)'
    <3>1. CASE b = id /\ d = c
      BY <1>6, <1>8, <1>9, <2>1, <2>2, <3>1
    <3>2. CASE ~(b = id /\ d = c)
      BY <1>8, <1>9, <3>2 DEF ActionsInv, OneAnswer
    <3> QED
      BY <3>1, <3>2
  <2> QED
    BY <1>4, <1>5, <2>3 DEF OneAnswer
<1> QED
  BY <1>1, <1>3, <1>5, <1>8, <1>9, <1>11, <1>12, <1>13, <1>14, <1>15 DEF id

\* Stated apart for the prover.
LEMMA OneLess == \A m \in Nat : m > 0 /\ m # 1 => m - 1 > 0
OBVIOUS

\* An event appended forgets no failure.
LEMMA FailuresStay ==
  ASSUME AcquisitionTypeOK, NEW c \in Connections, NEW id, NEW event, Emit(c, id, event),
         NEW a, NEW d, FailedToStart(a, d)
  PROVE  FailedToStart(a, d)'
<1> DEFINE e == [connection |-> c, id |-> id, event |-> event]
<1>1. PICK i \in 1 .. Len(events) :
        /\ events[i].connection = d /\ events[i].id = a
        /\ events[i].event = "AcquisitionStartFailed"
  BY DEF FailedToStart
<1>2. events \in Seq(Event \cup {e})
  BY SeqMonotonic DEF AcquisitionTypeOK
<1>3. i \in 1 .. Len(events') /\ events'[i] = events[i]
  <2>1. events' = Append(events, e) /\ e \in Event \cup {e}
    BY DEF Emit
  <2> HIDE DEF e
  <2> QED
    BY <1>2, <2>1, AppendProperties, LenProperties
<1> QED
  BY <1>1, <1>3 DEF FailedToStart

LEMMA WorkerStartStep ==
  ASSUME AcquisitionTypeOK, ActionsInv, NEW c \in Connections, WorkerStart(c)
  PROVE  AcquisitionTypeOK' /\ ActionsInv'
<1> DEFINE id == queue[c][1].id
<1>1. Take(c, "Start")
  BY DEF WorkerStart
<1>2. /\ Len(queue[c]) \in Nat /\ Len(queue[c]) > 0
      /\ Head(queue[c]) = queue[c][1] /\ queue[c][1].kind = "Start"
      /\ queue[c][1] \in Command
      /\ \A d \in Connections \ {c} : queue'[d] = queue[d]
      /\ Len(queue'[c]) = Len(queue[c]) - 1
      /\ \A i \in 1 .. Len(queue[c]) - 1 : queue'[c][i] = queue[c][i + 1]
  BY <1>1, TakeFacts
<1>3. PICK event \in Answers("Start") :
        /\ Emit(c, id, event)
        /\ \/ running' = [running EXCEPT ![c] = TRUE]
           \/ running' = running /\ event = "AcquisitionStartFailed"
  BY <1>2 DEF WorkerStart, Answers
<1>4. /\ queue' \in [Connections -> Seq(Command)] /\ events' \in Seq(Event)
      /\ \A b \in Submitted : \A d \in Connections :
           InQueue(b, d)' <=> InQueue(b, d) /\ ~(b = id /\ d = c)
      /\ UNCHANGED <<Submitted, Latest>>
      /\ ReadingIsLatest' /\ ActionsAwaitOrEnd' /\ CommandsInOrder'
      /\ EventsAreAnswers' /\ OneAnswer'
  BY <1>1, <1>2, <1>3, ExecutionFacts
<1>5. UNCHANGED <<pending, result, accepted, reading, failures, rolled>>
  BY <1>1 DEF Take
<1>6. id \in Submitted /\ accepted[id] = "Start"
  BY <1>2 DEF ActionsInv, CommandsInOrder
<1>7. running' \in [Connections -> BOOLEAN]
      /\ \A d \in Connections \ {c} : running'[d] = running[d]
  BY <1>3 DEF AcquisitionTypeOK
<1>8. AcquisitionTypeOK'
  BY <1>4, <1>5, <1>7 DEF AcquisitionTypeOK
<1>9. StoppedByLatest'
  <2> SUFFICES ASSUME accepted # <<>>, accepted[Latest] = "Stop",
                      NEW d \in Connections
               PROVE  \/ InQueue(Latest, d)'
                      \/ /\ ~running'[d]
                         /\ \A i \in 1 .. Len(queue'[d]) : queue'[d][i].kind = "Stop"
    BY <1>4, <1>5 DEF StoppedByLatest
  <2>1. \/ InQueue(Latest, d)
        \/ ~running[d] /\ \A i \in 1 .. Len(queue[d]) : queue[d][i].kind = "Stop"
    BY DEF ActionsInv, StoppedByLatest
  <2>2. CASE d = c
    <3>1. InQueue(Latest, c)
      BY <1>2, <2>1, <2>2
    <3>2. PICK i \in 1 .. Len(queue[c]) : queue[c][i].id = Latest
      BY <3>1 DEF InQueue
    <3>3. i # 1
      BY <1>6, <3>2
    <3>4. i - 1 \in 1 .. Len(queue'[c]) /\ queue'[c][i - 1].id = Latest
      BY SMTT(30), <1>2, <3>2, <3>3
    <3> QED
      BY <1>4, <2>2, <3>4 DEF InQueue
  <2>3. CASE d # c
    BY <1>2, <1>4, <1>7, <2>1, <2>3 DEF InQueue
  <2> QED
    BY <2>2, <2>3
<1>10. StartedByLatest'
  <2> SUFFICES ASSUME accepted # <<>>, accepted[Latest] = "Start",
                      reading = None, failures = 0, rolled # Latest,
                      NEW d \in Connections
               PROVE  \/ queue'[d] # <<>> /\ queue'[d][Len(queue'[d])].id = Latest
                      \/ /\ queue'[d] = <<>>
                         /\ \/ running'[d] \/ FailedToStart(Latest, d)'
                            \/ result[Latest] = <<"Failed">>
    BY <1>4, <1>5 DEF StartedByLatest
  <2>1. \/ queue[d] # <<>> /\ queue[d][Len(queue[d])].id = Latest
        \/ /\ queue[d] = <<>>
           /\ running[d] \/ FailedToStart(Latest, d) \/ result[Latest] = <<"Failed">>
    BY DEF ActionsInv, StartedByLatest
  <2>2. CASE d # c
    <3>1. queue'[d] = queue[d] /\ running'[d] = running[d]
      BY <1>2, <1>7, <2>2
    <3>2. FailedToStart(Latest, d) => FailedToStart(Latest, d)'
      BY <1>3, <1>4, FailuresStay
    <3> QED
      BY <2>1, <3>1, <3>2
  <2>3. CASE d = c
    <3>1. queue[c][Len(queue[c])].id = Latest
      BY <1>1, <2>1, <2>3 DEF Take
    <3>2. CASE Len(queue[c]) = 1
      <4>1. queue'[c] = <<>>
        BY <1>2, <1>4, <3>2, EmptySeq
      <4>2. running'[c] \/ FailedToStart(Latest, c)'
        <5>1. CASE running' = [running EXCEPT ![c] = TRUE]
          BY <5>1 DEF AcquisitionTypeOK
        <5>2. CASE Emit(c, id, "AcquisitionStartFailed")
          <6>1. /\ Len(events) \in Nat /\ Len(events') = Len(events) + 1
                /\ events'[Len(events) + 1].connection = c
                /\ events'[Len(events) + 1].id = id
                /\ events'[Len(events) + 1].event = "AcquisitionStartFailed"
            BY <1>6, <5>2, EmitFacts, SubmittedFacts
          <6>2. Len(events) + 1 \in 1 .. Len(events')
            BY <6>1
          <6> QED
            BY <1>4, <3>1, <3>2, <6>1, <6>2 DEF FailedToStart
        <5> QED
          BY <1>3, <5>1, <5>2
      <4> QED
        BY <2>3, <4>1, <4>2
    <3>3. CASE Len(queue[c]) # 1
      <4>0. Len(queue[c]) \in Nat /\ Len(queue[c]) > 0 /\ Len(queue'[c]) = Len(queue[c]) - 1
        BY <1>2
      <4>1. Len(queue'[c]) = Len(queue[c]) - 1 /\ Len(queue'[c]) > 0
        BY <3>3, <4>0, OneLess, Zenon
      <4>2. queue'[c] # <<>> /\ queue'[c][Len(queue'[c])] = queue[c][Len(queue[c])]
        BY <1>2, <4>1
      <4> QED
        BY <2>3, <3>1, <4>2
    <3> QED
      BY <3>2, <3>3
  <2> QED
    BY <2>2, <2>3
<1> QED
  BY <1>4, <1>8, <1>9, <1>10 DEF ActionsInv

LEMMA WorkerStopStep ==
  ASSUME AcquisitionTypeOK, ActionsInv, NEW c \in Connections, WorkerStop(c)
  PROVE  AcquisitionTypeOK' /\ ActionsInv'
<1> DEFINE id == queue[c][1].id
<1>1. Take(c, "Stop") /\ running' = [running EXCEPT ![c] = FALSE]
  BY DEF WorkerStop
<1>2. /\ Len(queue[c]) \in Nat /\ Len(queue[c]) > 0
      /\ Head(queue[c]) = queue[c][1] /\ queue[c][1].kind = "Stop"
      /\ queue[c][1] \in Command
      /\ \A d \in Connections \ {c} : queue'[d] = queue[d]
      /\ Len(queue'[c]) = Len(queue[c]) - 1
      /\ \A i \in 1 .. Len(queue[c]) - 1 : queue'[c][i] = queue[c][i + 1]
  BY <1>1, TakeFacts
<1>3. PICK event \in Answers("Stop") : Emit(c, id, event)
  BY <1>2 DEF WorkerStop, Answers
<1>4. /\ queue' \in [Connections -> Seq(Command)] /\ events' \in Seq(Event)
      /\ UNCHANGED <<Submitted, Latest>>
      /\ ReadingIsLatest' /\ ActionsAwaitOrEnd' /\ CommandsInOrder'
      /\ EventsAreAnswers' /\ OneAnswer'
  BY <1>1, <1>2, <1>3, ExecutionFacts
<1>5. UNCHANGED <<pending, result, accepted, reading, failures, rolled>>
  BY <1>1 DEF Take
<1>6. /\ running' \in [Connections -> BOOLEAN] /\ ~running'[c]
      /\ \A d \in Connections \ {c} : running'[d] = running[d]
  BY <1>1 DEF AcquisitionTypeOK
<1>7. AcquisitionTypeOK'
  BY <1>4, <1>5, <1>6 DEF AcquisitionTypeOK
<1>8. StoppedByLatest'
  <2> SUFFICES ASSUME accepted # <<>>, accepted[Latest] = "Stop",
                      NEW d \in Connections
               PROVE  \/ InQueue(Latest, d)'
                      \/ /\ ~running'[d]
                         /\ \A i \in 1 .. Len(queue'[d]) : queue'[d][i].kind = "Stop"
    BY <1>4, <1>5 DEF StoppedByLatest
  <2>1. \/ InQueue(Latest, d)
        \/ ~running[d] /\ \A i \in 1 .. Len(queue[d]) : queue[d][i].kind = "Stop"
    BY DEF ActionsInv, StoppedByLatest
  <2>2. CASE d # c
    BY <1>2, <1>4, <1>6, <2>1, <2>2 DEF InQueue
  <2>3. CASE d = c /\ InQueue(Latest, c)
    <3>1. PICK i \in 1 .. Len(queue[c]) : queue[c][i].id = Latest
      BY <2>3 DEF InQueue
    <3>2. CASE i # 1
      <4>1. i - 1 \in 1 .. Len(queue'[c]) /\ queue'[c][i - 1].id = Latest
        BY <1>2, <3>1, <3>2
      <4> QED
        BY <1>4, <2>3, <4>1 DEF InQueue
    <3>3. CASE i = 1
      <4>1. Latest # NoAction
        <5>1. Len(accepted) # 0
          BY DEF AcquisitionTypeOK
        <5> QED
          BY <5>1 DEF Latest, NoAction
      <4>2. ASSUME NEW j \in 2 .. Len(queue[c]) PROVE queue[c][j].kind = "Stop"
        <5>1. j \in 1 .. Len(queue[c]) /\ 1 \in 1 .. Len(queue[c]) /\ 1 < j
          BY <1>2
        <5>2. queue[c][j].id # NoAction =>
                queue[c][j].id \in Submitted /\ Latest < queue[c][j].id
          BY <3>1, <3>3, <4>1, <5>1 DEF ActionsInv, CommandsInOrder
        <5>3. queue[c][j].id = NoAction
          BY <5>2, SubmittedFacts
        <5> QED
          BY <5>1, <5>3 DEF ActionsInv, CommandsInOrder
      <4>3. \A j \in 1 .. Len(queue'[c]) : queue'[c][j].kind = "Stop"
        BY <1>2, <4>2
      <4> QED
        BY <1>6, <2>3, <4>3
    <3> QED
      BY <3>2, <3>3
  <2>4. CASE d = c /\ ~InQueue(Latest, c)
    BY SMTT(30), <1>2, <1>6, <2>1, <2>4
  <2> QED
    BY <2>2, <2>3, <2>4
<1>9. StartedByLatest'
  <2> SUFFICES ASSUME accepted # <<>>, accepted[Latest] = "Start",
                      reading = None, failures = 0, rolled # Latest,
                      NEW d \in Connections
               PROVE  \/ queue'[d] # <<>> /\ queue'[d][Len(queue'[d])].id = Latest
                      \/ /\ queue'[d] = <<>>
                         /\ \/ running'[d] \/ FailedToStart(Latest, d)'
                            \/ result[Latest] = <<"Failed">>
    BY <1>4, <1>5 DEF StartedByLatest
  <2>1. \/ queue[d] # <<>> /\ queue[d][Len(queue[d])].id = Latest
        \/ /\ queue[d] = <<>>
           /\ running[d] \/ FailedToStart(Latest, d) \/ result[Latest] = <<"Failed">>
    BY DEF ActionsInv, StartedByLatest
  <2>2. CASE d # c
    <3>1. queue'[d] = queue[d] /\ running'[d] = running[d]
      BY <1>2, <1>6, <2>2
    <3>2. FailedToStart(Latest, d) => FailedToStart(Latest, d)'
      BY <1>3, <1>4, FailuresStay
    <3> QED
      BY <2>1, <3>1, <3>2
  <2>3. CASE d = c
    <3>1. queue[c][Len(queue[c])].id = Latest
      BY <1>1, <2>1, <2>3 DEF Take
    <3>2. Latest # NoAction
      <4>1. Len(accepted) # 0
        BY DEF AcquisitionTypeOK
      <4> QED
        BY <4>1 DEF Latest, NoAction
    <3>3. Len(queue[c]) \in 1 .. Len(queue[c])
      BY <1>2
    <3>4. queue[c][Len(queue[c])].kind = "Start"
      BY <3>1, <3>2, <3>3 DEF ActionsInv, CommandsInOrder
    <3>5. Len(queue[c]) # 1
      BY <1>2, <3>4
    <3>6. Len(queue[c]) \in Nat /\ Len(queue[c]) > 0 /\ Len(queue'[c]) = Len(queue[c]) - 1
      BY <1>2
    <3>7. Len(queue'[c]) = Len(queue[c]) - 1 /\ Len(queue'[c]) > 0
      BY <3>5, <3>6, OneLess, Zenon
    <3>8. queue'[c] # <<>> /\ queue'[c][Len(queue'[c])] = queue[c][Len(queue[c])]
      BY <1>2, <3>7
    <3> QED
      BY <2>3, <3>1, <3>8
  <2> QED
    BY <2>2, <2>3
<1> QED
  BY <1>4, <1>7, <1>8, <1>9 DEF ActionsInv

LEMMA WorkerFailsStep ==
  ASSUME AcquisitionTypeOK, ActionsInv, NEW c \in Connections, WorkerFails(c)
  PROVE  AcquisitionTypeOK' /\ ActionsInv'
<1>1. /\ running' = [running EXCEPT ![c] = FALSE]
      /\ failures \in Nat /\ failures < MaxFailures /\ failures' = failures + 1
      /\ Emit(c, NoAction, "AcquisitionFailed")
      /\ UNCHANGED <<queue, pending, result, accepted, reading, rolled>>
  BY DEF WorkerFails, AcquisitionTypeOK
<1>2. /\ events' \in Seq(Event)
      /\ Len(events) \in Nat /\ Len(events') = Len(events) + 1
      /\ \A i \in 1 .. Len(events) : events'[i] = events[i]
      /\ events'[Len(events) + 1].id = NoAction
  BY <1>1, EmitFacts
<1>3. AcquisitionTypeOK'
  BY <1>1, <1>2, AcquisitionAssumption DEF AcquisitionTypeOK
<1>4. UNCHANGED <<Submitted, Latest>>
  BY <1>1 DEF Submitted, Latest
<1>5. \A j \in 1 .. Len(events') : events'[j].id # NoAction =>
        j \in 1 .. Len(events) /\ events'[j] = events[j]
  BY <1>2
<1>6. \A j \in 1 .. Len(events) : j \in 1 .. Len(events')
  BY <1>2
<1>7. \A b \in Submitted : \A d \in Connections :
        InEvents(b, d)' <=> InEvents(b, d)
  BY <1>2, <1>5, <1>6, SubmittedFacts DEF InEvents
<1>8. ReadingIsLatest' /\ ActionsAwaitOrEnd' /\ CommandsInOrder'
  BY <1>1, <1>4 DEF ActionsInv, ReadingIsLatest, ActionsAwaitOrEnd, CommandsInOrder
<1>9. EventsAreAnswers'
  BY <1>1, <1>4, <1>5 DEF ActionsInv, EventsAreAnswers
<1>10. OneAnswer'
  BY <1>1, <1>4, <1>7 DEF ActionsInv, OneAnswer, InQueue
<1>11. StoppedByLatest'
  BY <1>1, <1>4 DEF ActionsInv, StoppedByLatest, InQueue, AcquisitionTypeOK
<1>12. StartedByLatest'
  BY <1>1 DEF StartedByLatest
<1> QED
  BY <1>3, <1>8, <1>9, <1>10, <1>11, <1>12 DEF ActionsInv

-----------------------------------------------------------------------------
(***************************************************************************)
(* The runtime thread handles an event.                                    *)
(***************************************************************************)
\* Taking the oldest event takes its acknowledgement, and no other.
LEMMA HandlingFacts ==
  ASSUME AcquisitionTypeOK, ActionsInv, events # <<>>, events' = Tail(events),
         UNCHANGED <<accepted, reading>>
  PROVE  /\ events' \in Seq(Event) /\ events[1] = Head(events)
         /\ events[1] \in Event /\ 1 \in 1 .. Len(events)
         /\ UNCHANGED <<Submitted, Latest>>
         /\ \A b \in Submitted : \A d \in Connections :
              InEvents(b, d)' <=>
                InEvents(b, d) /\ ~(b = events[1].id /\ d = events[1].connection)
         /\ \A b, d : FailedToStart(b, d) =>
              \/ FailedToStart(b, d)'
              \/ /\ b = events[1].id /\ d = events[1].connection
                 /\ events[1].event = "AcquisitionStartFailed"
         /\ EventsAreAnswers'
<1>1. /\ events' \in Seq(Event)
      /\ Len(events) \in Nat /\ Len(events) > 0
      /\ Head(events) = events[1] /\ events[1] \in Event
      /\ Len(events') = Len(events) - 1
      /\ \A i \in 1 .. Len(events) - 1 : events'[i] = events[i + 1]
  BY EventFacts
<1>2. UNCHANGED <<Submitted, Latest>>
  BY DEF Submitted, Latest
<1>3. 1 \in 1 .. Len(events)
  BY <1>1
<1>4. \A i \in 1 .. Len(events') :
        i + 1 \in 1 .. Len(events) /\ i + 1 # 1 /\ events'[i] = events[i + 1]
  BY <1>1
<1>5. \A i \in 1 .. Len(events) : i # 1 =>
        i - 1 \in 1 .. Len(events') /\ events'[i - 1] = events[i]
  BY <1>1
<1>6. NoAction \notin Submitted
  BY SubmittedFacts
<1>7. ASSUME NEW b \in Submitted, NEW d \in Connections
      PROVE  InEvents(b, d)' <=>
               InEvents(b, d) /\ ~(b = events[1].id /\ d = events[1].connection)
  <2>1. ASSUME InEvents(b, d)'
        PROVE  InEvents(b, d) /\ ~(b = events[1].id /\ d = events[1].connection)
    <3>1. PICK i \in 1 .. Len(events') : events'[i].connection = d /\ events'[i].id = b
      BY <2>1 DEF InEvents
    <3>2. /\ i + 1 \in 1 .. Len(events) /\ i + 1 # 1
          /\ events[i + 1].connection = d /\ events[i + 1].id = b
      BY <1>4, <3>1
    <3>3. \A j \in 1 .. Len(events) :
            events[j].id = b /\ events[j].connection = d => i + 1 = j
      BY <1>6, <3>2 DEF ActionsInv, EventsAreAnswers
    <3> QED
      BY <1>3, <3>2, <3>3 DEF InEvents
  <2>2. ASSUME InEvents(b, d), ~(b = events[1].id /\ d = events[1].connection)
        PROVE  InEvents(b, d)'
    <3>1. PICK i \in 1 .. Len(events) : events[i].connection = d /\ events[i].id = b
      BY <2>2 DEF InEvents
    <3>2. i - 1 \in 1 .. Len(events') /\ events'[i - 1] = events[i]
      BY <1>5, <2>2, <3>1
    <3> QED
      BY <3>1, <3>2 DEF InEvents
  <2> QED
    BY <2>1, <2>2
<1>8. ASSUME NEW b, NEW d, FailedToStart(b, d)
      PROVE  \/ FailedToStart(b, d)'
             \/ /\ b = events[1].id /\ d = events[1].connection
                /\ events[1].event = "AcquisitionStartFailed"
  <2>1. PICK i \in 1 .. Len(events) :
          /\ events[i].connection = d /\ events[i].id = b
          /\ events[i].event = "AcquisitionStartFailed"
    BY <1>8 DEF FailedToStart
  <2>2. CASE i = 1
    BY <2>1, <2>2
  <2>3. CASE i # 1
    BY <1>5, <2>1, <2>3 DEF FailedToStart
  <2> QED
    BY <2>2, <2>3
<1>9. EventsAreAnswers'
  <2> SUFFICES ASSUME NEW i \in 1 .. Len(events'), events'[i].id # NoAction
               PROVE  /\ events'[i].id \in Submitted
                      /\ events'[i].event \in Answers(accepted[events'[i].id])
                      /\ \A j \in 1 .. Len(events') :
                           events'[j].id = events'[i].id
                           /\ events'[j].connection = events'[i].connection => i = j
    BY <1>2 DEF EventsAreAnswers
  <2>1. /\ events[i + 1].id \in Submitted
        /\ events[i + 1].event \in Answers(accepted[events[i + 1].id])
        /\ \A j \in 1 .. Len(events) :
             events[j].id = events[i + 1].id
             /\ events[j].connection = events[i + 1].connection => i + 1 = j
    BY <1>4 DEF ActionsInv, EventsAreAnswers
  <2> QED
    BY <1>4, <2>1
<1> QED
  BY <1>1, <1>2, <1>3, <1>7, <1>8, <1>9

\* The one result of an action is one of two.
LEMMA OneResult ==
  ASSUME NEW r \in Seq({"Applied", "Failed"}), Len(r) = 1
  PROVE  r \in {<<"Applied">>, <<"Failed">>}
<1>1. r[1] \in {"Applied", "Failed"}
  BY ElementOfSeq
<1>2. r = <<r[1]>>
  <2>1. <<r[1]>> \in Seq({"Applied", "Failed"}) /\ Len(<<r[1]>>) = 1
    BY <1>1
  <2>2. \A i \in 1 .. 1 : r[i] = <<r[1]>>[i]
    OBVIOUS
  <2> QED
    BY <2>1, <2>2, SeqEqual
<1> QED
  BY <1>1, <1>2

\* An acknowledgement nobody waits for belongs to an action that has failed.
LEMMA IgnoredStep ==
  ASSUME AcquisitionTypeOK, ActionsInv, events # <<>>, events' = Tail(events),
         NEW p, p = (IF events[1].id = NoAction THEN None ELSE pending[events[1].id]),
         ~Relevant(events[1], p),
         UNCHANGED <<queue, running, pending, result, accepted, reading, failures, rolled>>
  PROVE  AcquisitionTypeOK' /\ ActionsInv'
<1> DEFINE e == events[1]
<1>1. /\ events' \in Seq(Event) /\ e \in Event /\ 1 \in 1 .. Len(events)
      /\ UNCHANGED <<Submitted, Latest>>
      /\ \A b \in Submitted : \A d \in Connections :
           InEvents(b, d)' <=> InEvents(b, d) /\ ~(b = e.id /\ d = e.connection)
      /\ \A b, d : FailedToStart(b, d) =>
           \/ FailedToStart(b, d)'
           \/ b = e.id /\ d = e.connection /\ e.event = "AcquisitionStartFailed"
      /\ EventsAreAnswers'
  BY HandlingFacts
<1>2. AcquisitionTypeOK'
  BY <1>1 DEF AcquisitionTypeOK
<1>3. ASSUME e.id # NoAction
      PROVE  /\ e.id \in Submitted /\ e.connection \in Connections
             /\ InEvents(e.id, e.connection) /\ pending[e.id] = None
             /\ result[e.id] \in {<<"Applied">>, <<"Failed">>}
  <2>1. e.id \in Submitted /\ e.event \in Answers(accepted[e.id])
    BY <1>1, <1>3 DEF ActionsInv, EventsAreAnswers
  <2>2. e.connection \in Connections /\ InEvents(e.id, e.connection)
    BY <1>1 DEF InEvents, Event
  <2>3. e.id \in Actions
    BY <2>1, SubmittedFacts
  <2>4. pending[e.id] = None
    <3> SUFFICES ASSUME pending[e.id] # None PROVE FALSE
      OBVIOUS
    <3>1. pending[e.id].kind = accepted[e.id]
      BY <2>1, <2>3 DEF ActionsInv, ActionsAwaitOrEnd
    <3>2. e.connection \notin pending[e.id].responded
      BY <2>1, <2>2 DEF ActionsInv, OneAnswer
    <3> QED
      BY <1>3, <2>1, <3>1, <3>2 DEF Relevant, Answers
  <2>5. Len(result[e.id]) = 1 /\ result[e.id] \in Seq({"Applied", "Failed"})
    BY <2>1, <2>3, <2>4 DEF ActionsInv, ActionsAwaitOrEnd, AcquisitionTypeOK
  <2>6. result[e.id] \in {<<"Applied">>, <<"Failed">>}
    BY <2>5, OneResult
  <2> QED
    BY <2>1, <2>2, <2>4, <2>6
<1>4. ReadingIsLatest' /\ ActionsAwaitOrEnd' /\ CommandsInOrder' /\ StoppedByLatest'
  BY <1>1
  DEF ActionsInv, ReadingIsLatest, ActionsAwaitOrEnd, CommandsInOrder, StoppedByLatest,
      InQueue
<1>5. OneAnswer'
  <2>1. ASSUME NEW b \in Submitted, NEW d \in Connections
        PROVE  /\ InQueue(b, d) => ~InEvents(b, d)'
               /\ pending[b] # None =>
                    (d \in pending[b].responded <=> ~InQueue(b, d) /\ ~InEvents(b, d)')
               /\ result[b] = <<"Applied">> => ~InQueue(b, d) /\ ~InEvents(b, d)'
    <3>1. e.id = b => e.id # NoAction
      BY SubmittedFacts
    <3> QED
      BY <1>1, <1>3, <3>1 DEF ActionsInv, OneAnswer
  <2>2. \A b, d : InQueue(b, d)' <=> InQueue(b, d)
    BY DEF InQueue
  <2> QED
    BY <1>1, <2>1, <2>2 DEF OneAnswer
<1>6. StartedByLatest'
  <2> SUFFICES ASSUME accepted # <<>>, accepted[Latest] = "Start",
                      reading = None, failures = 0, rolled # Latest,
                      NEW d \in Connections
               PROVE  \/ queue[d] # <<>> /\ queue[d][Len(queue[d])].id = Latest
                      \/ /\ queue[d] = <<>>
                         /\ \/ running[d] \/ FailedToStart(Latest, d)'
                            \/ result[Latest] = <<"Failed">>
    BY <1>1 DEF StartedByLatest
  <2>1. \/ queue[d] # <<>> /\ queue[d][Len(queue[d])].id = Latest
        \/ /\ queue[d] = <<>>
           /\ running[d] \/ FailedToStart(Latest, d) \/ result[Latest] = <<"Failed">>
    BY DEF ActionsInv, StartedByLatest
  <2>2. Latest # NoAction
    <3>1. Len(accepted) # 0
      BY DEF AcquisitionTypeOK
    <3> QED
      BY <3>1 DEF Latest, NoAction
  <2>3. e.id = Latest => result[Latest] = <<"Failed">>
    BY <1>3, <2>2 DEF ActionsInv, OneAnswer
  <2> QED
    BY <1>1, <2>1, <2>3
<1> QED
  BY <1>1, <1>2, <1>4, <1>5, <1>6 DEF ActionsInv

\* What the three outcomes of a relevant acknowledgement have in common.
LEMMA RelevantFacts ==
  ASSUME AcquisitionTypeOK, ActionsInv, events # <<>>,
         NEW p, p = (IF events[1].id = NoAction THEN None ELSE pending[events[1].id]),
         Relevant(events[1], p)
  PROVE  /\ events[1].id \in Submitted /\ events[1].id \in Actions
         /\ p = pending[events[1].id] /\ p \in Pending /\ p # None
         /\ events[1].connection \in Connections
         /\ InEvents(events[1].id, events[1].connection)
         /\ result[events[1].id] = <<>>
<1>1. p # None /\ events[1].id # NoAction /\ p = pending[events[1].id]
  BY DEF Relevant
<1>2. 1 \in 1 .. Len(events) /\ events[1] \in Event
  BY LenProperties, EmptySeq DEF AcquisitionTypeOK
<1>3. events[1].id \in Submitted
  BY <1>1, <1>2 DEF ActionsInv, EventsAreAnswers
<1>4. events[1].id \in Actions
  BY <1>3, SubmittedFacts
<1>5. p \in Pending
  BY <1>1, <1>4 DEF AcquisitionTypeOK
<1>6. events[1].connection \in Connections /\ InEvents(events[1].id, events[1].connection)
  BY <1>2 DEF InEvents, Event
<1>7. result[events[1].id] = <<>>
  BY <1>1, <1>3, <1>4 DEF ActionsInv, ActionsAwaitOrEnd
<1> QED
  BY <1>1, <1>3, <1>4, <1>5, <1>6, <1>7

LEMMA ResolveFacts ==
  ASSUME AcquisitionTypeOK, NEW id \in Actions, result[id] = <<>>,
         NEW outcome \in {"Applied", "Failed"}, Resolve(id, outcome)
  PROVE  /\ pending' \in [Actions -> Pending \cup {None}] /\ pending'[id] = None
         /\ result' \in [Actions -> Seq({"Applied", "Failed"})]
         /\ result'[id] = <<outcome>>
         /\ \A b \in Actions \ {id} : pending'[b] = pending[b] /\ result'[b] = result[b]
<1>1. Append(result[id], outcome) = <<outcome>>
  OBVIOUS
<1>2. <<outcome>> \in Seq({"Applied", "Failed"})
  OBVIOUS
<1> QED
  BY <1>1, <1>2 DEF Resolve, AcquisitionTypeOK

LEMMA AppliedStep ==
  ASSUME AcquisitionTypeOK, ActionsInv, events # <<>>, events' = Tail(events),
         NEW p, p = (IF events[1].id = NoAction THEN None ELSE pending[events[1].id]),
         Relevant(events[1], p), ~IsFailure(events[1]),
         Completed(p.responded \cup {events[1].connection}),
         Resolve(events[1].id, "Applied"),
         UNCHANGED <<queue, running, accepted, reading, failures, rolled>>
  PROVE  AcquisitionTypeOK' /\ ActionsInv'
<1> DEFINE e == events[1]
<1>1. /\ events' \in Seq(Event)
      /\ UNCHANGED <<Submitted, Latest>>
      /\ \A b \in Submitted : \A d \in Connections :
           InEvents(b, d)' <=> InEvents(b, d) /\ ~(b = e.id /\ d = e.connection)
      /\ \A b, d : FailedToStart(b, d) =>
           \/ FailedToStart(b, d)'
           \/ b = e.id /\ d = e.connection /\ e.event = "AcquisitionStartFailed"
      /\ EventsAreAnswers'
  BY HandlingFacts
<1>2. /\ e.id \in Submitted /\ e.id \in Actions
      /\ p = pending[e.id] /\ p \in Pending /\ p # None
      /\ e.connection \in Connections /\ InEvents(e.id, e.connection)
      /\ result[e.id] = <<>>
  BY RelevantFacts
<1>3. /\ pending' \in [Actions -> Pending \cup {None}] /\ pending'[e.id] = None
      /\ result' \in [Actions -> Seq({"Applied", "Failed"})]
      /\ result'[e.id] = <<"Applied">>
      /\ \A b \in Actions \ {e.id} : pending'[b] = pending[b] /\ result'[b] = result[b]
  BY <1>2, ResolveFacts
<1>4. p.responded \cup {e.connection} = Connections
  <2>1. p.responded \cup {e.connection} \in SUBSET Connections
    BY <1>2 DEF Pending
  <2> QED
    BY <2>1, FS_Subset, AcquisitionAssumption DEF Completed
<1>5. AcquisitionTypeOK'
  BY <1>1, <1>3 DEF AcquisitionTypeOK
<1>6. ReadingIsLatest' /\ CommandsInOrder' /\ StoppedByLatest'
  BY <1>1 DEF ActionsInv, ReadingIsLatest, CommandsInOrder, StoppedByLatest, InQueue
<1>7. ActionsAwaitOrEnd'
  <2> SUFFICES ASSUME NEW b \in Actions
               PROVE  /\ b \notin Submitted => pending'[b] = None /\ result'[b] = <<>>
                      /\ b \in Submitted =>
                           \/ pending'[b] = None /\ Len(result'[b]) = 1
                           \/ /\ pending'[b] # None /\ result'[b] = <<>>
                              /\ pending'[b].kind = accepted[b]
                              /\ pending'[b].responded # Connections
    BY <1>1 DEF ActionsAwaitOrEnd
  <2>1. CASE b = e.id
    BY <1>2, <1>3, <2>1
  <2>2. CASE b # e.id
    BY <1>3, <2>2 DEF ActionsInv, ActionsAwaitOrEnd
  <2> QED
    BY <2>1, <2>2
<1>8. OneAnswer'
  <2>1. ASSUME NEW b \in Submitted, NEW d \in Connections
        PROVE  /\ InQueue(b, d) => ~InEvents(b, d)'
               /\ pending'[b] # None =>
                    (d \in pending'[b].responded <=> ~InQueue(b, d) /\ ~InEvents(b, d)')
               /\ result'[b] = <<"Applied">> => ~InQueue(b, d) /\ ~InEvents(b, d)'
    <3>1. b \in Actions
      BY SubmittedFacts
    <3>2. CASE b # e.id
      BY <1>1, <1>3, <3>1, <3>2 DEF ActionsInv, OneAnswer
    <3>3. CASE b = e.id
      <4>1. d \in p.responded \/ d = e.connection
        BY <1>4
      <4>2. ~InQueue(b, d) /\ ~InEvents(b, d)'
        BY <1>1, <1>2, <3>3, <4>1 DEF ActionsInv, OneAnswer
      <4> QED
        BY <1>3, <3>3, <4>2
    <3> QED
      BY <3>2, <3>3
  <2>2. \A b, d : InQueue(b, d)' <=> InQueue(b, d)
    BY DEF InQueue
  <2> QED
    BY <1>1, <2>1, <2>2 DEF OneAnswer
<1>9. StartedByLatest'
  <2> SUFFICES ASSUME accepted # <<>>, accepted[Latest] = "Start",
                      reading = None, failures = 0, rolled # Latest,
                      NEW d \in Connections
               PROVE  \/ queue[d] # <<>> /\ queue[d][Len(queue[d])].id = Latest
                      \/ /\ queue[d] = <<>>
                         /\ \/ running[d] \/ FailedToStart(Latest, d)'
                            \/ result'[Latest] = <<"Failed">>
    BY <1>1 DEF StartedByLatest
  <2>1. \/ queue[d] # <<>> /\ queue[d][Len(queue[d])].id = Latest
        \/ /\ queue[d] = <<>>
           /\ running[d] \/ FailedToStart(Latest, d) \/ result[Latest] = <<"Failed">>
    BY DEF ActionsInv, StartedByLatest
  <2>2. FailedToStart(Latest, d) => FailedToStart(Latest, d)'
    BY <1>1 DEF IsFailure
  <2>3. Latest \in Actions
    <3>1. accepted \in Seq({"Start", "Stop"}) /\ Len(accepted) <= MaxActions
      BY DEF AcquisitionTypeOK
    <3>2. Len(accepted) \in Nat /\ Len(accepted) # 0
      BY <3>1, LenProperties
    <3> QED
      BY <3>1, <3>2, AcquisitionAssumption DEF Actions, Latest
  <2>4. result[Latest] = <<"Failed">> => result'[Latest] = <<"Failed">>
    BY <1>2, <1>3, <2>3
  <2> QED
    BY <2>1, <2>2, <2>4
<1> QED
  BY <1>1, <1>5, <1>6, <1>7, <1>8, <1>9 DEF ActionsInv

LEMMA CountedStep ==
  ASSUME AcquisitionTypeOK, ActionsInv, events # <<>>, events' = Tail(events),
         NEW p, p = (IF events[1].id = NoAction THEN None ELSE pending[events[1].id]),
         Relevant(events[1], p), ~IsFailure(events[1]),
         NEW responded, responded = p.responded \cup {events[1].connection},
         ~Completed(responded),
         pending' = [pending EXCEPT ![events[1].id].responded = responded],
         UNCHANGED <<queue, running, result, accepted, reading, failures, rolled>>
  PROVE  AcquisitionTypeOK' /\ ActionsInv'
<1> DEFINE e == events[1]
<1>1. /\ events' \in Seq(Event)
      /\ UNCHANGED <<Submitted, Latest>>
      /\ \A b \in Submitted : \A d \in Connections :
           InEvents(b, d)' <=> InEvents(b, d) /\ ~(b = e.id /\ d = e.connection)
      /\ \A b, d : FailedToStart(b, d) =>
           \/ FailedToStart(b, d)'
           \/ b = e.id /\ d = e.connection /\ e.event = "AcquisitionStartFailed"
      /\ EventsAreAnswers'
  BY HandlingFacts
<1>2. /\ e.id \in Submitted /\ e.id \in Actions
      /\ p = pending[e.id] /\ p \in Pending /\ p # None
      /\ e.connection \in Connections /\ InEvents(e.id, e.connection)
      /\ result[e.id] = <<>>
  BY RelevantFacts
<1>3. responded \subseteq Connections /\ responded # Connections
  BY <1>2 DEF Pending, Completed
<1>4. /\ pending' \in [Actions -> Pending \cup {None}]
      /\ pending'[e.id] \in Pending
      /\ pending'[e.id].kind = p.kind /\ pending'[e.id].responded = responded
      /\ \A b \in Actions \ {e.id} : pending'[b] = pending[b]
  <2>1. pending' = [pending EXCEPT ![e.id] = [p EXCEPT !.responded = responded]]
    BY <1>2 DEF AcquisitionTypeOK
  <2>2. /\ [p EXCEPT !.responded = responded] \in Pending
        /\ [p EXCEPT !.responded = responded].kind = p.kind
        /\ [p EXCEPT !.responded = responded].responded = responded
    BY <1>2, <1>3 DEF Pending
  <2> QED
    BY ZenonT(30), <1>2, <2>1, <2>2 DEF AcquisitionTypeOK
<1>5. pending'[e.id] # None
  BY <1>4, NoneIsNoRecord
<1>6. AcquisitionTypeOK'
  BY <1>1, <1>4 DEF AcquisitionTypeOK
<1>7. ReadingIsLatest' /\ CommandsInOrder' /\ StoppedByLatest'
  BY <1>1 DEF ActionsInv, ReadingIsLatest, CommandsInOrder, StoppedByLatest, InQueue
<1>8. ActionsAwaitOrEnd'
  <2> SUFFICES ASSUME NEW b \in Actions
               PROVE  /\ b \notin Submitted => pending'[b] = None /\ result[b] = <<>>
                      /\ b \in Submitted =>
                           \/ pending'[b] = None /\ Len(result[b]) = 1
                           \/ /\ pending'[b] # None /\ result[b] = <<>>
                              /\ pending'[b].kind = accepted[b]
                              /\ pending'[b].responded # Connections
    BY <1>1 DEF ActionsAwaitOrEnd
  <2>1. CASE b = e.id
    BY <1>2, <1>3, <1>4, <1>5, <2>1 DEF ActionsInv, ActionsAwaitOrEnd
  <2>2. CASE b # e.id
    BY <1>4, <2>2 DEF ActionsInv, ActionsAwaitOrEnd
  <2> QED
    BY <2>1, <2>2
<1>9. OneAnswer'
  <2>1. ASSUME NEW b \in Submitted, NEW d \in Connections
        PROVE  /\ InQueue(b, d) => ~InEvents(b, d)'
               /\ pending'[b] # None =>
                    (d \in pending'[b].responded <=> ~InQueue(b, d) /\ ~InEvents(b, d)')
               /\ result[b] = <<"Applied">> => ~InQueue(b, d) /\ ~InEvents(b, d)'
    <3>1. b \in Actions
      BY SubmittedFacts
    <3>2. CASE b # e.id
      BY <1>1, <1>4, <3>1, <3>2 DEF ActionsInv, OneAnswer
    <3>3. CASE b = e.id /\ d = e.connection
      BY SMTT(30), <1>1, <1>2, <1>4, <3>3 DEF ActionsInv, OneAnswer
    <3>4. CASE b = e.id /\ d # e.connection
      BY <1>1, <1>2, <1>4, <3>4 DEF ActionsInv, OneAnswer
    <3> QED
      BY <3>2, <3>3, <3>4
  <2>2. \A b, d : InQueue(b, d)' <=> InQueue(b, d)
    BY DEF InQueue
  <2> QED
    BY <1>1, <2>1, <2>2 DEF OneAnswer
<1>10. StartedByLatest'
  <2>1. \A d : FailedToStart(Latest, d) => FailedToStart(Latest, d)'
    BY <1>1 DEF IsFailure
  <2> QED
    BY <1>1, <2>1 DEF ActionsInv, StartedByLatest
<1> QED
  BY <1>1, <1>6, <1>7, <1>8, <1>9, <1>10 DEF ActionsInv

LEMMA FailedStep ==
  ASSUME AcquisitionTypeOK, ActionsInv, events # <<>>, events' = Tail(events),
         NEW p, p = (IF events[1].id = NoAction THEN None ELSE pending[events[1].id]),
         Relevant(events[1], p),
         Rollback(p.rollback), Resolve(events[1].id, "Failed"),
         UNCHANGED <<running, accepted, reading, failures>>
  PROVE  AcquisitionTypeOK' /\ ActionsInv'
<1> DEFINE e == events[1]
<1>1. /\ events' \in Seq(Event)
      /\ UNCHANGED <<Submitted, Latest>>
      /\ \A b \in Submitted : \A d \in Connections :
           InEvents(b, d)' <=> InEvents(b, d) /\ ~(b = e.id /\ d = e.connection)
      /\ \A b, d : FailedToStart(b, d) =>
           \/ FailedToStart(b, d)'
           \/ b = e.id /\ d = e.connection /\ e.event = "AcquisitionStartFailed"
      /\ EventsAreAnswers'
  BY HandlingFacts
<1>2. /\ e.id \in Submitted /\ e.id \in Actions
      /\ p = pending[e.id] /\ p \in Pending /\ p # None
      /\ result[e.id] = <<>>
  BY RelevantFacts
<1>3. /\ pending' \in [Actions -> Pending \cup {None}] /\ pending'[e.id] = None
      /\ result' \in [Actions -> Seq({"Applied", "Failed"})]
      /\ result'[e.id] = <<"Failed">>
      /\ \A b \in Actions \ {e.id} : pending'[b] = pending[b] /\ result'[b] = result[b]
  BY <1>2, ResolveFacts
<1>4. p.rollback \in SUBSET Connections
  BY <1>2 DEF Pending
<1>5. /\ queue' \in [Connections -> Seq(Command)]
      /\ \A c \in Connections \ p.rollback : queue'[c] = queue[c]
      /\ \A c \in p.rollback :
           /\ Len(queue'[c]) = Len(queue[c]) + 1
           /\ \A i \in 1 .. Len(queue[c]) : queue'[c][i] = queue[c][i]
           /\ queue'[c][Len(queue[c]) + 1] = [kind |-> "Stop", id |-> NoAction]
      /\ rolled' \in 0 .. MaxActions
  BY <1>4, RollbackFacts
<1>6. \A c \in Connections : Len(queue[c]) \in Nat
  BY LenProperties DEF AcquisitionTypeOK
<1>7. NoAction \notin Submitted
  BY SubmittedFacts
<1>8. ASSUME NEW c \in Connections
      PROVE  /\ \A i \in 1 .. Len(queue'[c]) :
                  \/ queue'[c][i].id = NoAction /\ queue'[c][i].kind = "Stop"
                  \/ i \in 1 .. Len(queue[c]) /\ queue'[c][i] = queue[c][i]
             /\ \A i \in 1 .. Len(queue[c]) :
                  i \in 1 .. Len(queue'[c]) /\ queue'[c][i] = queue[c][i]
  <2>1. CASE c \in p.rollback
    <3>1. \A i \in 1 .. Len(queue'[c]) :
            i = Len(queue[c]) + 1 \/ i \in 1 .. Len(queue[c])
      BY <1>5, <1>6, <2>1
    <3>2. \A i \in 1 .. Len(queue[c]) : i \in 1 .. Len(queue'[c])
      BY <1>5, <1>6, <2>1
    <3>3. /\ queue'[c][Len(queue[c]) + 1].id = NoAction
          /\ queue'[c][Len(queue[c]) + 1].kind = "Stop"
      BY <1>5, <2>1
    <3> QED
      BY <1>5, <2>1, <3>1, <3>2, <3>3
  <2>2. CASE c \notin p.rollback
    BY <1>5, <2>2
  <2> QED
    BY <2>1, <2>2
<1>9. \A b \in Submitted : \A d \in Connections : InQueue(b, d)' <=> InQueue(b, d)
  BY <1>7, <1>8 DEF InQueue
<1>10. AcquisitionTypeOK'
  BY <1>1, <1>3, <1>5 DEF AcquisitionTypeOK
<1>11. ReadingIsLatest'
  BY <1>1 DEF ActionsInv, ReadingIsLatest
<1>12. ActionsAwaitOrEnd'
  <2> SUFFICES ASSUME NEW b \in Actions
               PROVE  /\ b \notin Submitted => pending'[b] = None /\ result'[b] = <<>>
                      /\ b \in Submitted =>
                           \/ pending'[b] = None /\ Len(result'[b]) = 1
                           \/ /\ pending'[b] # None /\ result'[b] = <<>>
                              /\ pending'[b].kind = accepted[b]
                              /\ pending'[b].responded # Connections
    BY <1>1 DEF ActionsAwaitOrEnd
  <2>1. CASE b = e.id
    BY <1>2, <1>3, <2>1
  <2>2. CASE b # e.id
    BY <1>3, <2>2 DEF ActionsInv, ActionsAwaitOrEnd
  <2> QED
    BY <2>1, <2>2
<1>13. CommandsInOrder'
  <2> SUFFICES ASSUME NEW c \in Connections, NEW i \in 1 .. Len(queue'[c])
               PROVE  /\ queue'[c][i].id = NoAction => queue'[c][i].kind = "Stop"
                      /\ queue'[c][i].id # NoAction =>
                           /\ queue'[c][i].id \in Submitted
                           /\ queue'[c][i].kind = accepted[queue'[c][i].id]
                           /\ \A j \in 1 .. Len(queue'[c]) :
                                i < j /\ queue'[c][j].id # NoAction =>
                                  queue'[c][i].id < queue'[c][j].id
    BY <1>1 DEF CommandsInOrder
  <2>1. CASE queue'[c][i].id = NoAction /\ queue'[c][i].kind = "Stop"
    BY <2>1
  <2>2. CASE i \in 1 .. Len(queue[c]) /\ queue'[c][i] = queue[c][i]
    <3>1. /\ queue[c][i].id = NoAction => queue[c][i].kind = "Stop"
          /\ queue[c][i].id # NoAction =>
               /\ queue[c][i].id \in Submitted
               /\ queue[c][i].kind = accepted[queue[c][i].id]
               /\ \A j \in 1 .. Len(queue[c]) :
                    i < j /\ queue[c][j].id # NoAction => queue[c][i].id < queue[c][j].id
      BY <2>2 DEF ActionsInv, CommandsInOrder
    <3>2. ASSUME NEW j \in 1 .. Len(queue'[c]), queue'[c][i].id # NoAction,
                 i < j, queue'[c][j].id # NoAction
          PROVE  queue'[c][i].id < queue'[c][j].id
      <4>1. j \in 1 .. Len(queue[c]) /\ queue'[c][j] = queue[c][j]
        BY <1>8, <3>2
      <4> QED
        BY <2>2, <3>1, <3>2, <4>1
    <3> QED
      BY <2>2, <3>1, <3>2
  <2> QED
    BY <1>8, <2>1, <2>2
<1>14. OneAnswer'
  <2>1. ASSUME NEW b \in Submitted, NEW d \in Connections
        PROVE  /\ InQueue(b, d)' => ~InEvents(b, d)'
               /\ pending'[b] # None =>
                    (d \in pending'[b].responded <=> ~InQueue(b, d)' /\ ~InEvents(b, d)')
               /\ result'[b] = <<"Applied">> => ~InQueue(b, d)' /\ ~InEvents(b, d)'
    <3>1. b \in Actions
      BY SubmittedFacts
    <3>2. CASE b # e.id
      BY <1>1, <1>3, <1>9, <3>1, <3>2 DEF ActionsInv, OneAnswer
    <3>3. CASE b = e.id
      BY <1>1, <1>3, <1>9, <3>3 DEF ActionsInv, OneAnswer
    <3> QED
      BY <3>2, <3>3
  <2> QED
    BY <1>1, <2>1 DEF OneAnswer
<1>15. StoppedByLatest'
  <2> SUFFICES ASSUME accepted # <<>>, accepted[Latest] = "Stop",
                      NEW d \in Connections
               PROVE  \/ InQueue(Latest, d)'
                      \/ /\ ~running[d]
                         /\ \A i \in 1 .. Len(queue'[d]) : queue'[d][i].kind = "Stop"
    BY <1>1 DEF StoppedByLatest
  <2>1. \/ InQueue(Latest, d)
        \/ ~running[d] /\ \A i \in 1 .. Len(queue[d]) : queue[d][i].kind = "Stop"
    BY DEF ActionsInv, StoppedByLatest
  <2>2. CASE InQueue(Latest, d)
    BY <1>1, <1>8, <2>2 DEF InQueue
  <2>3. CASE ~running[d] /\ \A i \in 1 .. Len(queue[d]) : queue[d][i].kind = "Stop"
    BY <1>8, <2>3
  <2> QED
    BY <2>1, <2>2, <2>3
<1>16. StartedByLatest'
  <2> SUFFICES ASSUME accepted # <<>>, accepted[Latest] = "Start",
                      reading = None, failures = 0, rolled' # Latest,
                      NEW d \in Connections
               PROVE  \/ queue'[d] # <<>> /\ queue'[d][Len(queue'[d])].id = Latest
                      \/ /\ queue'[d] = <<>>
                         /\ \/ running[d] \/ FailedToStart(Latest, d)'
                            \/ result'[Latest] = <<"Failed">>
    BY <1>1 DEF StartedByLatest
  <2>1. p.rollback = {} /\ rolled' = rolled
    BY DEF Rollback, Latest
  <2>2. queue'[d] = queue[d]
    BY <1>5, <2>1
  <2>3. \/ queue[d] # <<>> /\ queue[d][Len(queue[d])].id = Latest
        \/ /\ queue[d] = <<>>
           /\ running[d] \/ FailedToStart(Latest, d) \/ result[Latest] = <<"Failed">>
    BY <2>1 DEF ActionsInv, StartedByLatest
  <2>4. Latest \in Actions
    <3>1. accepted \in Seq({"Start", "Stop"}) /\ Len(accepted) <= MaxActions
      BY DEF AcquisitionTypeOK
    <3>2. Len(accepted) \in Nat /\ Len(accepted) # 0
      BY <3>1, LenProperties
    <3> QED
      BY <3>1, <3>2, AcquisitionAssumption DEF Actions, Latest
  <2>5. /\ FailedToStart(Latest, d) => FailedToStart(Latest, d)' \/ Latest = e.id
        /\ result[Latest] = <<"Failed">> => result'[Latest] = <<"Failed">>
    BY <1>1, <1>2, <1>3, <2>4
  <2> QED
    BY <1>3, <2>2, <2>3, <2>5
<1> QED
  BY <1>1, <1>10, <1>11, <1>12, <1>13, <1>14, <1>15, <1>16 DEF ActionsInv

LEMMA PollEventStep ==
  ASSUME AcquisitionTypeOK, ActionsInv, PollEvent
  PROVE  AcquisitionTypeOK' /\ ActionsInv'
<1> DEFINE e == events[1]
           p == IF e.id = NoAction THEN None ELSE pending[e.id]
<1>1. /\ events # <<>> /\ events' = Tail(events) /\ Head(events) = e
      /\ UNCHANGED <<running, accepted, reading, failures>>
  BY HeadTailProperties DEF PollEvent, AcquisitionTypeOK
<1>2. CASE ~Relevant(e, p) /\ IgnoreEvent
  BY <1>1, <1>2, IgnoredStep DEF IgnoreEvent
<1>3. CASE Relevant(e, p) /\ Rollback(p.rollback) /\ Resolve(e.id, "Failed")
  BY <1>1, <1>3, FailedStep
<1>4. CASE /\ Relevant(e, p) /\ ~IsFailure(e)
           /\ Completed(p.responded \cup {e.connection})
           /\ Resolve(e.id, "Applied") /\ UNCHANGED <<queue, rolled>>
  BY <1>1, <1>4, AppliedStep
<1>5. CASE /\ Relevant(e, p) /\ ~IsFailure(e)
           /\ ~Completed(p.responded \cup {e.connection})
           /\ pending' = [pending EXCEPT ![e.id].responded =
                                           p.responded \cup {e.connection}]
           /\ UNCHANGED <<queue, result, rolled>>
  BY <1>1, <1>5, CountedStep
<1> QED
  BY <1>1, <1>2, <1>3, <1>4, <1>5 DEF PollEvent

-----------------------------------------------------------------------------
(***************************************************************************)
(* The life of the runtime.                                                *)
(***************************************************************************)
LEMMA InitIsInvariant == Init => IInv
<1> SUFFICES ASSUME Init PROVE IInv
  OBVIOUS
<1> USE DEF Init, AcquisitionInit
<1>1. TypeOK
  <2>1. <<>> \in Seq(LuaCommands) /\ <<>> \in Seq(Command) /\ <<>> \in Seq(Event)
        /\ <<>> \in Seq({"Start", "Stop"}) /\ <<>> \in Seq({"Applied", "Failed"})
    OBVIOUS
  <2>2. AcquisitionTypeOK
    <3>1. Len(accepted) <= MaxActions /\ failures \in 0 .. MaxFailures
          /\ rolled \in 0 .. MaxActions
      BY AcquisitionAssumption
    <3>2. /\ queue \in [Connections -> Seq(Command)]
          /\ running \in [Connections -> BOOLEAN]
          /\ pending \in [Actions -> Pending \cup {None}]
          /\ result \in [Actions -> Seq({"Applied", "Failed"})]
      BY <2>1
    <3> QED
      BY <2>1, <3>1, <3>2 DEF AcquisitionTypeOK
  <2>3. commands \in Seq(LuaCommands) /\ queued \in 0 .. MaxCommands
    BY <2>1, LifecycleAssumption
  <2>4. phase \in Phase /\ leaving = FALSE
    BY DEF Phase
  <2> QED
    BY <2>2, <2>3, <2>4 DEF TypeOK
<1>2. Submitted = {} /\ reading = None
  BY DEF Submitted
<1>3. ReadingIsLatest /\ ActionsAwaitOrEnd /\ CommandsInOrder /\ EventsAreAnswers
  BY <1>2 DEF ReadingIsLatest, ActionsAwaitOrEnd, CommandsInOrder, EventsAreAnswers
<1>4. OneAnswer /\ StoppedByLatest /\ StartedByLatest
  BY <1>2 DEF OneAnswer, StoppedByLatest, StartedByLatest
<1>5. ReadsWhilePolled /\ BarrierIsLatest /\ ReplacementIsBarred /\ PausedSoFar
  BY DEF ReadsWhilePolled, BarrierIsLatest, ReplacementIsBarred, Replacing, PausedSoFar
<1> QED
  BY <1>1, <1>3, <1>4, <1>5 DEF IInv, ActionsInv

LEMMA AcquisitionRests ==
  ASSUME AcquisitionTypeOK, ActionsInv, UNCHANGED acquisitionVars
  PROVE  AcquisitionTypeOK' /\ ActionsInv'
<1> USE DEF acquisitionVars
<1>1. UNCHANGED <<Submitted, Latest>>
  BY DEF Submitted, Latest
<1>2. AcquisitionTypeOK'
  BY DEF AcquisitionTypeOK
<1>3. ReadingIsLatest' /\ ActionsAwaitOrEnd' /\ CommandsInOrder' /\ EventsAreAnswers'
  BY <1>1
  DEF ActionsInv, ReadingIsLatest, ActionsAwaitOrEnd, CommandsInOrder, EventsAreAnswers
<1>4. OneAnswer'
  BY <1>1 DEF ActionsInv, OneAnswer, InQueue, InEvents
<1>5. StoppedByLatest' /\ StartedByLatest'
  BY <1>1 DEF ActionsInv, StoppedByLatest, StartedByLatest, InQueue, FailedToStart
<1> QED
  BY <1>2, <1>3, <1>4, <1>5 DEF ActionsInv

\* What the runtime knows while it is polled: no barrier, no replacement.
LEMMA PolledStep ==
  ASSUME IInv, Polled, phase' = "polled",
         AcquisitionTypeOK', ActionsInv', TypeOK', UNCHANGED replacement
  PROVE  IInv'
<1>1. ~replacement
  BY DEF IInv, Polled, ReplacementIsBarred, Replacing
<1> QED
  BY <1>1
  DEF IInv, ReadsWhilePolled, BarrierIsLatest, ReplacementIsBarred, Replacing, PausedSoFar

\* The other threads and the handling of events leave the life as it is.
LEMMA LifeRests ==
  ASSUME IInv, UNCHANGED <<lifecycleVars, accepted, reading>>,
         \A a \in Actions : result[a] = <<"Applied">> => result'[a] = <<"Applied">>,
         AcquisitionTypeOK', ActionsInv'
  PROVE  IInv'
<1> USE DEF lifecycleVars
<1>1. TypeOK'
  BY DEF IInv, TypeOK
<1>2. ReadsWhilePolled' /\ PausedSoFar'
  BY DEF IInv, ReadsWhilePolled, PausedSoFar
<1>3. BarrierIsLatest'
  BY DEF IInv, BarrierIsLatest, Latest
<1>4. ReplacementIsBarred'
  <2>1. Replacing' = Replacing
    BY DEF Replacing
  <2>2. Replacing => barrier \in Actions
    <3>1. accepted \in Seq({"Start", "Stop"}) /\ Len(accepted) <= MaxActions
      BY DEF IInv, TypeOK, AcquisitionTypeOK
    <3>2. accepted # <<>> => Len(accepted) \in Actions
      BY <3>1, EmptySeq, LenProperties, AcquisitionAssumption DEF Actions
    <3> QED
      BY <3>2 DEF IInv, BarrierIsLatest, Replacing, Latest
  <2> QED
    BY <2>1, <2>2 DEF IInv, ReplacementIsBarred
<1> QED
  BY <1>1, <1>2, <1>3, <1>4 DEF IInv

LEMMA LuaStep ==
  ASSUME IInv, NEW command \in LuaCommands, Lua(command)
  PROVE  IInv'
<1>1. AcquisitionTypeOK' /\ ActionsInv'
  BY AcquisitionRests DEF Lua, IInv, TypeOK
<1>2. TypeOK'
  <2>1. queued' \in 0 .. MaxCommands
    BY LifecycleAssumption DEF Lua, IInv, TypeOK
  <2>2. commands' \in Seq(LuaCommands)
    BY AppendProperties DEF Lua, IInv, TypeOK
  <2> QED
    BY <1>1, <2>1, <2>2 DEF Lua, IInv, TypeOK
<1> QED
  BY <1>1, <1>2
  DEF Lua, IInv, acquisitionVars, ReadsWhilePolled, BarrierIsLatest, ReplacementIsBarred,
      Replacing, PausedSoFar, Latest

LEMMA WorkersStep ==
  ASSUME IInv, Workers
  PROVE  IInv'
<1>1. PICK c \in Connections : Worker(c)
  BY DEF Workers
<1>2. AcquisitionTypeOK' /\ ActionsInv'
  BY <1>1, WorkerStartStep, WorkerStopStep, WorkerFailsStep DEF Worker, IInv, TypeOK
<1>3. UNCHANGED <<accepted, reading, result>>
  BY <1>1 DEF Worker, WorkerStart, WorkerStop, WorkerFails, Take
<1> QED
  BY <1>2, <1>3, LifeRests DEF Workers

LEMMA DrainEventsStep ==
  ASSUME IInv, DrainEvents
  PROVE  IInv'
<1>1. AcquisitionTypeOK' /\ ActionsInv'
  BY PollEventStep DEF DrainEvents, IInv, TypeOK
<1>2. /\ UNCHANGED <<lifecycleVars, accepted, reading>>
      /\ phase \in {"polled", "waiting"}
  BY DEF DrainEvents, PollEvent
<1> USE DEF lifecycleVars
<1>3. TypeOK'
  BY <1>1, <1>2 DEF IInv, TypeOK
<1>4. ReplacementIsBarred'
  BY <1>2 DEF IInv, ReplacementIsBarred, Replacing
<1> QED
  BY <1>1, <1>2, <1>3, <1>4
  DEF IInv, ReadsWhilePolled, BarrierIsLatest, PausedSoFar, Latest

LEMMA PerformFacts ==
  ASSUME IInv, NEW command, Perform(command)
  PROVE  AcquisitionTypeOK' /\ ActionsInv' /\ paused' \subseteq Controllers
<1>1. CASE AcceptStart /\ UNCHANGED paused
  BY <1>1, AcceptStartStep DEF IInv, TypeOK
<1>2. CASE AcceptStop /\ UNCHANGED paused
  BY <1>2, AcceptStopStep DEF IInv, TypeOK
<1>3. CASE (\E c \in Controllers : paused' = paused \ {c}) /\ UNCHANGED acquisitionVars
  BY <1>3, AcquisitionRests DEF IInv, TypeOK
<1> QED
  BY <1>1, <1>2, <1>3 DEF Perform

LEMMA ExecuteStep ==
  ASSUME IInv, NEW command \in UserCommands, Execute(command)
  PROVE  IInv'
<1>1. AcquisitionTypeOK' /\ ActionsInv' /\ paused' \subseteq Controllers
  BY PerformFacts DEF Execute
<1>2. TypeOK'
  BY <1>1 DEF Execute, IInv, TypeOK
<1> QED
  BY <1>1, <1>2, PolledStep DEF Execute, Polled

LEMMA ExecuteLuaStep ==
  ASSUME IInv, ExecuteLua
  PROVE  IInv'
<1>1. AcquisitionTypeOK' /\ ActionsInv' /\ paused' \subseteq Controllers
  BY PerformFacts DEF ExecuteLua
<1>2. TypeOK'
  <2>1. commands' \in Seq(LuaCommands)
    BY HeadTailProperties DEF ExecuteLua, IInv, TypeOK
  <2> QED
    BY <1>1, <2>1 DEF ExecuteLua, IInv, TypeOK
<1> QED
  BY <1>1, <1>2, PolledStep DEF ExecuteLua, Polled

LEMMA ContinueStep ==
  ASSUME IInv, Continue
  PROVE  IInv'
<1>1. reading # None /\ (ReadFlag \/ SubmitStart) /\ UNCHANGED lifecycleVars
  BY DEF Continue, ReadFlag, SubmitStart
<1>2. Polled
  BY <1>1 DEF IInv, ReadsWhilePolled, Polled
<1>3. AcquisitionTypeOK' /\ ActionsInv'
  BY <1>1, ReadFlagStep, SubmitStartStep DEF IInv, TypeOK
<1>4. TypeOK'
  BY <1>1, <1>3 DEF IInv, TypeOK, lifecycleVars
<1> QED
  BY <1>1, <1>2, <1>3, <1>4, PolledStep DEF Polled, lifecycleVars

-----------------------------------------------------------------------------
(***************************************************************************)
(* Retirement and replacement.                                             *)
(***************************************************************************)
LEMMA RetireStep ==
  ASSUME IInv, NEW destructor \in BOOLEAN, Retire(destructor)
  PROVE  IInv'
<1> USE DEF Retire, BeginRetirement
<1>1. AcquisitionTypeOK' /\ ActionsInv'
  BY AcquisitionRests DEF IInv, TypeOK
<1>2. TypeOK'
  BY <1>1 DEF IInv, TypeOK, Phase
<1>3. reading = None /\ reading' = None
  BY DEF acquisitionVars
<1>4. ~replacement
  BY DEF IInv, ReplacementIsBarred, Replacing
<1> QED
  BY <1>1, <1>2, <1>3, <1>4
  DEF IInv, ReadsWhilePolled, BarrierIsLatest, ReplacementIsBarred, Replacing, PausedSoFar

LEMMA PauseControllerStep ==
  ASSUME IInv, NEW c \in Controllers, PauseController(c)
  PROVE  IInv'
<1> USE DEF PauseController
<1>1. AcquisitionTypeOK' /\ ActionsInv'
  BY AcquisitionRests DEF IInv, TypeOK
<1>2. TypeOK'
  BY <1>1 DEF IInv, TypeOK
<1>3. PausedSoFar'
  BY DEF IInv, PausedSoFar
<1> QED
  BY <1>1, <1>2, <1>3
  DEF IInv, ReadsWhilePolled, BarrierIsLatest, ReplacementIsBarred, Replacing,
      acquisitionVars

LEMMA PausedStep ==
  ASSUME IInv, Paused
  PROVE  IInv'
<1> USE DEF Paused
<1>1. AcquisitionTypeOK' /\ ActionsInv'
  BY AcquisitionRests DEF IInv, TypeOK
<1>2. phase' \in {"polled", "stopping"} /\ (phase' = "polled" => ~leaving)
  OBVIOUS
<1>3. TypeOK'
  BY <1>1, <1>2 DEF IInv, TypeOK, Phase
<1>4. PausedSoFar'
  BY <1>2 DEF IInv, TypeOK, PausedSoFar
<1>5. ReadsWhilePolled' /\ BarrierIsLatest' /\ ReplacementIsBarred'
  BY <1>2
  DEF IInv, ReadsWhilePolled, BarrierIsLatest, ReplacementIsBarred, Replacing,
      acquisitionVars
<1> QED
  BY <1>1, <1>3, <1>4, <1>5 DEF IInv

\* The Stop of the retirement is the latest action until the runtime is
\* polled again.
LEMMA StopActiveOperationsStep ==
  ASSUME IInv, StopActiveOperations
  PROVE  IInv'
<1> USE DEF StopActiveOperations
<1>1. AcquisitionTypeOK' /\ ActionsInv'
  BY AcceptStopStep DEF IInv, TypeOK
<1>2. /\ accepted' # <<>> /\ Len(accepted') \in Actions
      /\ accepted'[Len(accepted')] = "Stop"
  BY AcceptedFacts DEF AcceptStop, IInv, TypeOK
<1>3. reading' = None
  BY DEF AcceptStop
<1>4. TypeOK'
  BY <1>1, <1>2 DEF IInv, TypeOK, Phase
<1>5. ReadsWhilePolled' /\ BarrierIsLatest' /\ ReplacementIsBarred' /\ PausedSoFar'
  BY <1>2, <1>3
  DEF IInv, ReadsWhilePolled, BarrierIsLatest, ReplacementIsBarred, Replacing,
      PausedSoFar, Latest
<1> QED
  BY <1>1, <1>4, <1>5 DEF IInv

\* What follows the wait for the barrier.
LEMMA AfterStopFacts ==
  ASSUME IInv, NEW stopped \in BOOLEAN, phase = "waiting",
         stopped => result[barrier] = <<"Applied">>, phase' = AfterStop(stopped),
         UNCHANGED <<acquisitionVars, leaving, unpaused, pauseFailed, barrier, commands,
                     queued, paused, replacement>>
  PROVE  IInv'
<1>1. AcquisitionTypeOK' /\ ActionsInv'
  BY AcquisitionRests DEF IInv, TypeOK
<1>2. CASE leaving
  <2>1. phase' = "destroying"
    BY <1>2 DEF AfterStop
  <2>2. TypeOK'
    BY <1>1, <1>2, <2>1 DEF IInv, TypeOK, Phase
  <2> QED
    BY <1>1, <1>2, <2>1, <2>2
    DEF IInv, acquisitionVars, ReadsWhilePolled, BarrierIsLatest, ReplacementIsBarred,
        Replacing, PausedSoFar, Latest
<1>3. CASE ~leaving /\ stopped
  <2>1. phase' = "building"
    BY <1>3 DEF AfterStop
  <2>2. TypeOK'
    BY <1>1, <1>3, <2>1 DEF IInv, TypeOK, Phase
  <2> QED
    BY <1>1, <1>3, <2>1, <2>2
    DEF IInv, acquisitionVars, ReadsWhilePolled, BarrierIsLatest, ReplacementIsBarred,
        Replacing, PausedSoFar, Latest
<1>4. CASE ~leaving /\ ~stopped
  <2>1. phase' = "polled"
    BY <1>4 DEF AfterStop
  <2>2. TypeOK'
    BY <1>1, <1>4, <2>1 DEF IInv, TypeOK, Phase
  <2> QED
    BY <1>1, <1>4, <2>1, <2>2
    DEF IInv, acquisitionVars, ReadsWhilePolled, BarrierIsLatest, ReplacementIsBarred,
        Replacing, PausedSoFar, Latest
<1> QED
  BY <1>2, <1>3, <1>4

LEMMA StoppedStep ==
  ASSUME IInv, Stopped \/ StopFails
  PROVE  IInv'
<1>1. CASE Stopped
  BY <1>1, AfterStopFacts DEF Stopped, BarrierApplied
<1>2. CASE StopFails
  BY <1>2, AfterStopFacts DEF StopFails
<1> QED
  BY <1>1, <1>2

LEMMA ReplacementStep ==
  ASSUME IInv,
         \/ ReplacementOpens \/ InitializationFails \/ InitializationSucceeds
         \/ ReplaceRuntime
  PROVE  IInv'
<1>1. AcquisitionTypeOK' /\ ActionsInv'
  BY AcquisitionRests
  DEF IInv, TypeOK, ReplacementOpens, InitializationFails, InitializationSucceeds,
      ReplaceRuntime, DropRetired
<1>2. /\ UNCHANGED <<acquisitionVars, leaving, unpaused, pauseFailed, barrier, commands,
                     queued, paused>>
      /\ replacement' \in BOOLEAN
  BY DEF IInv, TypeOK, ReplacementOpens, InitializationFails, InitializationSucceeds,
         ReplaceRuntime, DropRetired
<1>3. CASE ReplacementOpens
  <2>1. phase' = phase /\ phase \in {"building", "retired", "destroying"} /\ ~leaving
    BY <1>3 DEF ReplacementOpens
  <2>2. TypeOK'
    BY <1>1, <1>2, <2>1 DEF IInv, TypeOK
  <2> QED
    BY <1>1, <1>2, <2>1, <2>2
    DEF IInv, acquisitionVars, ReadsWhilePolled, BarrierIsLatest, ReplacementIsBarred,
        Replacing, PausedSoFar, Latest
<1>4. CASE InitializationFails
  <2>1. phase = "building" /\ phase' = "polled" /\ replacement' = FALSE
    BY <1>4 DEF InitializationFails
  <2>2. TypeOK'
    BY <1>1, <1>2, <2>1 DEF IInv, TypeOK, Phase
  <2> QED
    BY <1>1, <1>2, <2>1, <2>2
    DEF IInv, acquisitionVars, ReadsWhilePolled, BarrierIsLatest, ReplacementIsBarred,
        Replacing, PausedSoFar, Latest
<1>5. CASE InitializationSucceeds \/ ReplaceRuntime
  <2>1. /\ replacement' = replacement
        /\ \/ phase = "building" /\ phase' = "retired"
           \/ phase = "retired" /\ phase' = "destroying"
    BY <1>5 DEF InitializationSucceeds, ReplaceRuntime, DropRetired
  <2>2. ~leaving
    BY <2>1 DEF IInv, TypeOK
  <2>3. TypeOK'
    BY <1>1, <1>2, <2>1, <2>2 DEF IInv, TypeOK, Phase
  <2> QED
    BY <1>1, <1>2, <2>1, <2>2, <2>3
    DEF IInv, acquisitionVars, ReadsWhilePolled, BarrierIsLatest, ReplacementIsBarred,
        Replacing, PausedSoFar, Latest
<1> QED
  BY <1>3, <1>4, <1>5

\* The workers are joined when they have executed everything: the Stop of the
\* retirement is the latest action, and nothing runs after it.
LEMMA DropFieldsStep ==
  ASSUME IInv, DropFields
  PROVE  IInv'
<1>1. /\ phase = "destroying" /\ phase' = "destroyed"
      /\ running' = [c \in Connections |-> FALSE]
      /\ UNCHANGED <<queue, events, pending, result, accepted, reading, failures, rolled,
                     leaving, unpaused, pauseFailed, barrier, commands, queued, paused,
                     replacement>>
  BY DEF DropFields
<1>2. accepted # <<>> /\ accepted[Latest] = "Stop" /\ barrier = Latest
  BY <1>1 DEF IInv, BarrierIsLatest
<1>3. UNCHANGED <<Submitted, Latest>>
  BY <1>1 DEF Submitted, Latest
<1>4. AcquisitionTypeOK'
  BY <1>1 DEF IInv, TypeOK, AcquisitionTypeOK
<1>5. TypeOK'
  BY <1>1, <1>4 DEF IInv, TypeOK, Phase
<1>6. ReadingIsLatest' /\ ActionsAwaitOrEnd' /\ CommandsInOrder' /\ EventsAreAnswers'
  BY <1>1, <1>3
  DEF IInv, ActionsInv, ReadingIsLatest, ActionsAwaitOrEnd, CommandsInOrder,
      EventsAreAnswers
<1>7. OneAnswer'
  BY <1>1, <1>3 DEF IInv, ActionsInv, OneAnswer, InQueue, InEvents
<1>8. StoppedByLatest'
  BY <1>1, <1>3 DEF IInv, ActionsInv, StoppedByLatest, InQueue
<1>9. StartedByLatest'
  BY <1>1, <1>2, <1>3 DEF StartedByLatest
<1>10. ReadsWhilePolled' /\ BarrierIsLatest' /\ ReplacementIsBarred' /\ PausedSoFar'
  BY <1>1, <1>2, <1>3
  DEF IInv, ReadsWhilePolled, BarrierIsLatest, ReplacementIsBarred, Replacing, PausedSoFar
<1> QED
  BY <1>5, <1>6, <1>7, <1>8, <1>9, <1>10 DEF IInv, ActionsInv

LEMMA IInvIsInductive == IInv /\ [Next]_vars => IInv'
<1> SUFFICES ASSUME IInv, [Next]_vars PROVE IInv'
  OBVIOUS
<1>1. CASE \E command \in LuaCommands : Lua(command)
  BY <1>1, LuaStep
<1>2. CASE \E command \in UserCommands : Execute(command)
  BY <1>2, ExecuteStep
<1>3. CASE Workers
  BY <1>3, WorkersStep
<1>4. CASE Runtime
  <2>1. CASE DrainEvents
    BY <2>1, DrainEventsStep
  <2>2. CASE ExecuteLua
    BY <2>2, ExecuteLuaStep
  <2>3. CASE Continue
    BY <2>3, ContinueStep
  <2>4. CASE \E c \in Controllers : PauseController(c)
    BY <2>4, PauseControllerStep
  <2>5. CASE Paused
    BY <2>5, PausedStep
  <2>6. CASE StopActiveOperations
    BY <2>6, StopActiveOperationsStep
  <2>7. CASE Stopped
    BY <2>7, StoppedStep
  <2>8. CASE DropFields
    BY <2>8, DropFieldsStep
  <2> QED
    BY <1>4, <2>1, <2>2, <2>3, <2>4, <2>5, <2>6, <2>7, <2>8 DEF Runtime
<1>5. CASE Rebuild \/ Drop
  BY <1>5, RetireStep DEF Rebuild, Drop
<1>6. CASE StopFails
  BY <1>6, StoppedStep
<1>7. CASE \/ ReplacementOpens \/ InitializationFails \/ InitializationSucceeds
           \/ ReplaceRuntime
  BY <1>7, ReplacementStep
<1>8. CASE UNCHANGED vars
  BY <1>8, LifeRests, AcquisitionRests DEF vars, acquisitionVars, IInv, TypeOK
<1> QED
  BY <1>1, <1>2, <1>3, <1>4, <1>5, <1>6, <1>7, <1>8 DEF Next, Destroyed

LEMMA Invariance == Spec => []IInv
BY InitIsInvariant, IInvIsInductive, PTL DEF Spec

-----------------------------------------------------------------------------
(***************************************************************************)
(* The theorems.                                                           *)
(***************************************************************************)
\* Every variable keeps its type in every behaviour.
THEOREM TypeCorrect == Spec => []TypeOK
<1>1. IInv => TypeOK
  BY DEF IInv
<1> QED
  BY <1>1, Invariance, PTL

\* Each accepted Start or Stop has at most one result, and exactly one when
\* the workers have executed their commands and the events are handled.
LEMMA AnsweredByInvariant == IInv => EveryActionIsAnswered
<1> SUFFICES ASSUME IInv PROVE EveryActionIsAnswered
  OBVIOUS
<1>1. AcquisitionTypeOK /\ ActionsAwaitOrEnd /\ OneAnswer
  BY DEF IInv, TypeOK, ActionsInv
<1>2. ASSUME NEW a \in Actions PROVE Len(result[a]) <= 1
  <2>1. result[a] = <<>> \/ Len(result[a]) = 1
    BY <1>1 DEF ActionsAwaitOrEnd
  <2>2. CASE result[a] = <<>>
    BY <2>2
  <2>3. CASE Len(result[a]) = 1
    BY <2>3
  <2> QED
    BY <2>1, <2>2, <2>3
<1>3. ASSUME \A c \in Connections : queue[c] = <<>>, events = <<>>, reading = None,
             NEW a \in 1 .. Len(accepted)
      PROVE  Len(result[a]) = 1
  <2>1. a \in Submitted /\ a \in Actions
    BY <1>1, <1>3, SubmittedFacts DEF Submitted
  <2>2. \A c \in Connections : ~InQueue(a, c) /\ ~InEvents(a, c)
    BY <1>3 DEF InQueue, InEvents
  <2>3. ASSUME pending[a] # None PROVE FALSE
    <3>1. Connections \subseteq pending[a].responded
      BY <1>1, <2>1, <2>2, <2>3 DEF OneAnswer
    <3>2. pending[a].responded \subseteq Connections
      BY <1>1, <2>1, <2>3 DEF AcquisitionTypeOK, Pending
    <3>3. pending[a].responded # Connections
      BY <1>1, <2>1, <2>3 DEF ActionsAwaitOrEnd
    <3> QED
      BY <3>1, <3>2, <3>3
  <2> QED
    BY <1>1, <2>1, <2>3 DEF ActionsAwaitOrEnd
<1> QED
  BY <1>2, <1>3 DEF EveryActionIsAnswered

\* EveryActionIsAnswered, for any number of connections, actions and failures:
\* the acknowledgements that come late never give an action a second result,
\* and none waits for one that nobody will send.
THEOREM EveryActionGetsOneAnswer == Spec => []EveryActionIsAnswered
BY AnsweredByInvariant, Invariance, PTL

\* The action accepted last, if there is one.
LEMMA LatestFacts ==
  ASSUME IInv, accepted # <<>>
  PROVE  Latest \in Actions /\ (reading = None => Latest \in Submitted)
<1>1. accepted \in Seq({"Start", "Stop"}) /\ Len(accepted) <= MaxActions
  BY DEF IInv, TypeOK, AcquisitionTypeOK
<1>2. Len(accepted) \in Nat /\ Len(accepted) # 0
  BY <1>1, LenProperties, EmptySeq
<1> QED
  BY <1>1, <1>2, AcquisitionAssumption DEF Actions, Latest, Submitted

LEMMA AppliedByInvariant == IInv => AppliedActionsHold
<1> SUFFICES ASSUME IInv PROVE AppliedActionsHold
  OBVIOUS
<1>1. ActionsInv
  BY DEF IInv
<1>2. ASSUME LatestIs("Stop") \/ LatestIs("Start")
      PROVE  /\ accepted # <<>> /\ reading = None
             /\ \A c \in Connections : ~InQueue(Latest, c) /\ ~InEvents(Latest, c)
  <2>1. accepted # <<>> /\ result[Latest] = <<"Applied">>
    BY <1>2 DEF LatestIs, Latest
  <2>2. Latest \in Actions
    BY <2>1, LatestFacts
  <2>3. reading = None
    <3> SUFFICES ASSUME reading # None PROVE FALSE
      OBVIOUS
    <3>1. Latest \notin Submitted
      BY <1>1 DEF ActionsInv, ReadingIsLatest, Submitted
    <3>2. result[Latest] = <<>>
      BY <1>1, <2>2, <3>1 DEF ActionsInv, ActionsAwaitOrEnd
    <3> QED
      BY <2>1, <3>2
  <2> QED
    BY <1>1, <2>1, <2>3, LatestFacts DEF ActionsInv, OneAnswer
<1>3. ASSUME LatestIs("Stop") PROVE \A c \in Connections : ~running[c]
  BY <1>1, <1>2, <1>3 DEF ActionsInv, StoppedByLatest, LatestIs, Latest
<1>4. ASSUME LatestIs("Start"), failures = 0, rolled # Len(accepted),
             NEW c \in Connections
      PROVE  running[c]
  <2>1. \/ queue[c] # <<>> /\ queue[c][Len(queue[c])].id = Latest
        \/ /\ queue[c] = <<>>
           /\ running[c] \/ FailedToStart(Latest, c) \/ result[Latest] = <<"Failed">>
    BY <1>1, <1>2, <1>4 DEF ActionsInv, StartedByLatest, LatestIs, Latest
  <2>2. queue[c] # <<>> => Len(queue[c]) \in 1 .. Len(queue[c])
    BY LenProperties, EmptySeq DEF IInv, TypeOK, AcquisitionTypeOK
  <2>3. ~(queue[c] # <<>> /\ queue[c][Len(queue[c])].id = Latest)
    BY <1>2, <1>4, <2>2 DEF InQueue
  <2>4. ~FailedToStart(Latest, c)
    BY <1>2, <1>4 DEF InEvents, FailedToStart
  <2>5. result[Latest] # <<"Failed">>
    <3>1. <<"Applied">>[1] # <<"Failed">>[1]
      OBVIOUS
    <3> QED
      BY <1>4, <3>1 DEF LatestIs, Latest
  <2> QED
    BY <2>1, <2>3, <2>4, <2>5
<1> QED
  BY <1>3, <1>4 DEF AppliedActionsHold

\* AppliedActionsHold, for any number of connections and actions: when the
\* latest Stop is reported applied nothing runs, and when the latest Start is,
\* everything does unless a poll failed or an earlier Start was rolled back.
THEOREM AppliedHolds == Spec => []AppliedActionsHold
BY AppliedByInvariant, Invariance, PTL

LEMMA OwnedByInvariant == IInv => OneProfileOwnsThePorts
<1> SUFFICES ASSUME IInv, phase \in {"building", "retired"} \/ replacement,
                    NEW c \in Connections
             PROVE  ~running[c] /\ \A i \in 1 .. Len(queue[c]) : queue[c][i].kind = "Stop"
  BY DEF OneProfileOwnsThePorts
<1>1. Replacing
  BY DEF IInv, ReplacementIsBarred, Replacing
<1>2. /\ accepted # <<>> /\ accepted[Latest] = "Stop" /\ reading = None
      /\ result[Latest] = <<"Applied">>
  BY <1>1
  DEF IInv, Replacing, BarrierIsLatest, ReadsWhilePolled, ReplacementIsBarred
<1>3. ~InQueue(Latest, c)
  BY <1>2, LatestFacts DEF IInv, ActionsInv, OneAnswer
<1> QED
  BY <1>2, <1>3 DEF IInv, ActionsInv, StoppedByLatest

\* OneProfileOwnsThePorts, for any profile: while a replacement of the runtime
\* is built or runs, no worker of the old one has its source open or a Start
\* still to execute.
THEOREM PortsHaveOneOwner == Spec => []OneProfileOwnsThePorts
BY OwnedByInvariant, Invariance, PTL

\* RetiredControllersStayPaused, for any set of controllers: from the last pause
\* of a retirement on, no command of Lua makes a controller run again.
THEOREM RetiredStayPaused == Spec => []RetiredControllersStayPaused
<1>1. IInv => RetiredControllersStayPaused
  BY DEF IInv, PausedSoFar, RetiredControllersStayPaused
<1> QED
  BY <1>1, Invariance, PTL

==============================================================================
