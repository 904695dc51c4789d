-------------------------- MODULE ConnectionWorker --------------------------
(***************************************************************************)
(* One acquisition worker: the thread that owns a connection, polls its    *)
(* series and executes the commands sent to it in between.  The series     *)
(* store is shared: while the worker samples, the runtime thread deletes   *)
(* series and retries suspended ones.                                      *)
(*                                                                         *)
(* Time passes while the worker waits, samples or performs a command, and  *)
(* nowhere else.                                                           *)
(***************************************************************************)
EXTENDS PollSchedule, Sequences

CONSTANTS
  MaxPoll,      \* bound of the model: ticks a poll or an access takes
  MaxCommands,  \* bound of the model: commands that ask for an answer
  Capacity      \* of the command channel

ASSUME ConnectionWorkerAssumption ==
  MaxPoll \in Nat /\ MaxCommands \in Nat /\ Capacity \in Nat \ {0}

VARIABLES
  queue,     \* the command channel
  hand,      \* the command taken from it and not answered, <<>> if none
  phase,     \* where the worker's loop is
  state,     \* AcquisitionState
  schedules, \* SeriesSchedule of the series being polled
  due,       \* the series of the poll under way
  failed,    \* those of them that gave no sample
  unrated,   \* those whose outcome is not taken into account yet
  polling,   \* the series store: SeriesPollingState, and which series exist
  source,    \* "open" if the acquisition source may hold its connection
  running,   \* the flag other threads read
  sent,      \* history: commands sent that ask for an answer
  answered,  \* history: those answered
  streak,    \* history: failed polls of a series since a success or a retry
  refresh,   \* a retry has still to send its refresh
  closing    \* Shutdown has been sent

pollVars == <<schedules, due, failed, unrated>>
workerVars == <<hand, phase, state, source, running, answered>>
clientVars == <<sent, refresh, closing>>
vars == <<queue, workerVars, pollVars, polling, streak, clientVars>>

NoSeries == "none"
Command ==
  [kind : {"Start", "Stop", "Access"}, id : 1 .. MaxCommands,
   series : Series \cup {NoSeries}]
    \cup [kind : {"Refresh", "Shutdown"}, id : {0}, series : {NoSeries}]
Plain(kind) == [kind |-> kind, id |-> 0, series |-> NoSeries]

Phase == {"loop", "sampling", "sampled", "health", "failing", "failed",
          "receive", "execute", "accessing", "closing", "publish", "answer",
          "exited"}

TypeOK ==
  /\ queue \in Seq(Command) /\ Len(queue) <= Capacity
  /\ hand \in {<<>>} \cup {<<c>> : c \in Command}
  /\ phase \in Phase
  /\ state \in {"Stopped", "Running"}
  /\ DOMAIN schedules \subseteq Series
  /\ \A s \in DOMAIN schedules : schedules[s] \in Schedule
  /\ due \subseteq Series /\ failed \subseteq due /\ unrated \subseteq due
  /\ polling \in [Series -> {"new", "Enabled", "Suspended", "deleted"}]
  /\ source \in {"open", "closed"}
  /\ running \in BOOLEAN
  /\ sent \in 0 .. MaxCommands
  /\ answered \in Seq(1 .. MaxCommands)
  /\ streak \in [Series -> 0 .. MAX_CONSECUTIVE_POLL_FAILURES]
  /\ refresh \in BOOLEAN /\ closing \in BOOLEAN

Init ==
  /\ queue = <<>> /\ hand = <<>> /\ phase = "loop" /\ state = "Stopped"
  /\ schedules = NoSchedules /\ due = {} /\ failed = {} /\ unrated = {}
  /\ polling \in [Series -> {"new", "Enabled"}]
  /\ source = "closed" /\ running = FALSE
  /\ sent = 0 /\ answered = <<>>
  /\ streak = [s \in Series |-> 0]
  /\ refresh = FALSE /\ closing = FALSE

-----------------------------------------------------------------------------
(***************************************************************************)
(* The worker's clients: the runtime thread and the output service.        *)
(***************************************************************************)
Enqueue(command) == /\ Len(queue) < Capacity
                    /\ queue' = Append(queue, command)

Send(kind, s) ==
  /\ sent < MaxCommands /\ ~closing
  /\ kind = "Access" \/ s = NoSeries
  /\ sent' = sent + 1
  /\ Enqueue([kind |-> kind, id |-> sent + 1, series |-> s])
  /\ UNCHANGED <<workerVars, pollVars, polling, streak, refresh, closing>>

\* The worker is dropped: nothing is sent to it afterwards.
Shutdown ==
  /\ ~closing /\ ~refresh
  /\ Enqueue(Plain("Shutdown"))
  /\ closing' = TRUE
  /\ UNCHANGED <<workerVars, pollVars, polling, streak, sent, refresh>>

AddSeries(s) ==
  /\ polling[s] = "new" /\ ~closing /\ ~refresh
  /\ polling' = [polling EXCEPT ![s] = "Enabled"]
  /\ UNCHANGED <<queue, workerVars, pollVars, streak, clientVars>>

RemoveSeries(s) ==
  /\ polling[s] \in {"Enabled", "Suspended"} /\ ~closing /\ ~refresh
  /\ polling' = [polling EXCEPT ![s] = "deleted"]
  /\ UNCHANGED <<queue, workerVars, pollVars, streak, clientVars>>

\* Series set back from Suspended to Enabled start with no failures.
Resume(S) ==
  LET resumed == {s \in S : polling[s] = "Suspended"}
  IN  /\ polling' = [s \in Series |-> IF s \in resumed THEN "Enabled" ELSE polling[s]]
      /\ streak' = [s \in Series |-> IF s \in resumed THEN 0 ELSE streak[s]]

\* The store is changed first, the worker is woken later.
RetrySeries(S) ==
  /\ ~closing /\ ~refresh
  /\ \E s \in S : polling[s] = "Suspended"
  /\ Resume(S)
  /\ refresh' = TRUE
  /\ UNCHANGED <<queue, workerVars, pollVars, sent, closing>>

SendRefresh ==
  /\ refresh
  /\ Enqueue(Plain("Refresh"))
  /\ refresh' = FALSE
  /\ UNCHANGED <<workerVars, pollVars, polling, streak, sent, closing>>

Client ==
  \/ \E kind \in {"Start", "Stop", "Access"}, s \in Series \cup {NoSeries} :
       Send(kind, s)
  \/ Shutdown \/ SendRefresh \/ RetrySeries(Series)
  \/ \E s \in Series : AddSeries(s) \/ RemoveSeries(s) \/ RetrySeries({s})

-----------------------------------------------------------------------------
(***************************************************************************)
(* The worker: polling.                                                    *)
(***************************************************************************)
Polled == {s \in Series : polling[s] = "Enabled"}

\* The top of the loop: a poll that is due goes before any command.
Loop ==
  /\ phase = "loop"
  /\ schedules' = IF state = "Running" THEN Synchronized(schedules, Polled)
                  ELSE schedules
  /\ due' = Due(schedules')
  /\ phase' = IF due' = {} THEN "receive" ELSE "sampling"
  /\ failed' = {} /\ unrated' = {}
  /\ UNCHANGED <<queue, hand, state, source, running, answered, polling,
                 streak, clientVars>>

Sample ==
  /\ phase = "sampling"
  /\ \E d \in 0 .. MaxPoll : schedules' = After(schedules, d)
  /\ failed' \in SUBSET due
  /\ source' = "open"
  /\ phase' = "sampled"
  /\ UNCHANGED <<queue, hand, state, running, answered, due, unrated, polling,
                 streak, clientVars>>

\* Every sample is stored, or none: one sample of a series deleted since the
\* poll began ends the acquisition of the connection.
AppendSamples ==
  /\ phase = "sampled"
  /\ \A s \in due \ failed : polling[s] # "deleted"
  /\ unrated' = due
  /\ phase' = "health"
  /\ UNCHANGED <<queue, hand, state, source, running, answered, schedules, due,
                 failed, polling, streak, clientVars>>

AppendFails ==
  /\ phase = "sampled"
  /\ \E s \in due \ failed : polling[s] = "deleted"
  /\ state' = "Stopped"
  /\ schedules' = NoSchedules /\ due' = {} /\ failed' = {}
  /\ phase' = "failing"
  /\ UNCHANGED <<queue, hand, source, running, answered, unrated, polling,
                 streak, clientVars>>

CloseFailed ==
  /\ phase = "failing"
  /\ source' = "closed" /\ phase' = "failed"
  /\ UNCHANGED <<queue, hand, state, running, answered, pollVars, polling,
                 streak, clientVars>>

PublishFailed ==
  /\ phase = "failed"
  /\ running' = FALSE /\ phase' = "loop"
  /\ UNCHANGED <<queue, hand, state, source, answered, pollVars, polling,
                 streak, clientVars>>

\* A series is suspended in the store by itself, between those of others.
RateSeries(s) ==
  LET ok == s \notin failed
  IN /\ phase = "health" /\ s \in unrated
     /\ unrated' = unrated \ {s}
     /\ schedules' = Rated(schedules, s, ok)
     /\ streak' = [streak EXCEPT ![s] =
          IF ok THEN 0
          ELSE IF @ = MAX_CONSECUTIVE_POLL_FAILURES THEN @ ELSE @ + 1]
     /\ polling' = [polling EXCEPT ![s] =
          IF s \notin DOMAIN schedules' /\ @ = "Enabled" THEN "Suspended" ELSE @]
     /\ UNCHANGED <<queue, workerVars, due, failed, clientVars>>

AdvanceSchedules ==
  /\ phase = "health" /\ unrated = {}
  /\ schedules' = Advanced(schedules, due)
  /\ due' = {} /\ failed' = {}
  /\ phase' = "loop"
  /\ UNCHANGED <<queue, hand, state, source, running, answered, unrated,
                 polling, streak, clientVars>>

Poll == \/ Loop \/ Sample \/ AppendSamples \/ AppendFails \/ CloseFailed
        \/ PublishFailed \/ AdvanceSchedules
        \/ \E s \in Series : RateSeries(s)

-----------------------------------------------------------------------------
(***************************************************************************)
(* The worker: receiving and executing a command.                          *)
(***************************************************************************)
\* A command put aside for a poll comes before those in the channel.
TakePending ==
  /\ phase = "receive" /\ hand # <<>>
  /\ phase' = "execute"
  /\ UNCHANGED <<queue, hand, state, source, running, answered, pollVars,
                 polling, streak, clientVars>>

\* Mutant: the channel is read although a command is put aside.
ReceiveMutant ==
  /\ phase = "receive" /\ queue # <<>>
  /\ hand' = <<Head(queue)>> /\ queue' = Tail(queue)
  /\ phase' \in IF state = "Running" THEN {"loop", "execute"} ELSE {"execute"}
  /\ UNCHANGED <<state, source, running, answered, pollVars, polling, streak,
                 clientVars>>

\* A command that arrives as the next poll becomes due is put aside.
Receive ==
  /\ phase = "receive" /\ hand = <<>> /\ queue # <<>>
  /\ hand' = <<Head(queue)>> /\ queue' = Tail(queue)
  /\ \/ /\ state = "Stopped"
        /\ phase' = "execute"
        /\ schedules' = schedules
     \/ /\ state = "Running"
        /\ \E d \in 0 .. UntilNextPoll(schedules) :
             /\ schedules' = After(schedules, d)
             /\ phase' = IF d = UntilNextPoll(schedules) THEN "loop" ELSE "execute"
  /\ UNCHANGED <<state, source, running, answered, due, failed, unrated,
                 polling, streak, clientVars>>

Timeout ==
  /\ phase = "receive" /\ hand = <<>> /\ queue = <<>> /\ state = "Running"
  /\ schedules' = After(schedules, UntilNextPoll(schedules))
  /\ phase' = "loop"
  /\ UNCHANGED <<queue, hand, state, source, running, answered, due, failed,
                 unrated, polling, streak, clientVars>>

Executes(kind) == phase = "execute" /\ hand[1].kind = kind

\* Mutant: a command that has nothing to do is dropped.
ConfirmMutant ==
  /\ \/ Executes("Start") /\ state = "Running"
     \/ Executes("Stop") /\ state = "Stopped"
  /\ hand' = <<>> /\ phase' = "loop"
  /\ UNCHANGED <<queue, state, source, running, answered, pollVars, polling,
                 streak, clientVars>>

\* Nothing to do: the worker is already in the state asked for.
Confirm ==
  /\ \/ Executes("Start") /\ state = "Running"
     \/ Executes("Stop") /\ state = "Stopped"
  /\ phase' = "answer"
  /\ UNCHANGED <<queue, hand, state, source, running, answered, pollVars,
                 polling, streak, clientVars>>

StartSource ==
  /\ Executes("Start") /\ state = "Stopped"
  /\ source' = "open" /\ state' = "Running"
  /\ schedules' = NoSchedules
  /\ Resume(Series)
  /\ phase' = "publish"
  /\ UNCHANGED <<queue, hand, running, answered, due, failed, unrated, clientVars>>

\* A source that fails to start has rolled itself back.
StartFails ==
  /\ Executes("Start") /\ state = "Stopped"
  /\ phase' = "answer"
  /\ UNCHANGED <<queue, hand, state, source, running, answered, pollVars,
                 polling, streak, clientVars>>

\* Mutant: the worker is said to be stopped before its source is closed.
StopRunningMutant ==
  /\ Executes("Stop") \/ Executes("Shutdown")
  /\ state = "Running"
  /\ state' = "Stopped" /\ running' = FALSE
  /\ schedules' = NoSchedules
  /\ phase' = "closing"
  /\ UNCHANGED <<queue, hand, source, answered, due, failed, unrated, polling,
                 streak, clientVars>>

\* Stop and, on a running worker, Shutdown.
StopRunning ==
  /\ Executes("Stop") \/ Executes("Shutdown")
  /\ state = "Running"
  /\ state' = "Stopped"
  /\ schedules' = NoSchedules
  /\ phase' = "closing"
  /\ UNCHANGED <<queue, hand, source, running, answered, due, failed, unrated,
                 polling, streak, clientVars>>

CloseSource ==
  /\ phase = "closing"
  /\ source' = "closed" /\ phase' = "publish"
  /\ UNCHANGED <<queue, hand, state, running, answered, pollVars, polling,
                 streak, clientVars>>

Publish ==
  /\ phase = "publish"
  /\ running' = (state = "Running")
  /\ phase' = IF hand[1].kind = "Shutdown" THEN "exited" ELSE "answer"
  /\ UNCHANGED <<queue, hand, state, source, answered, pollVars, polling,
                 streak, clientVars>>

ExitStopped ==
  /\ Executes("Shutdown") /\ state = "Stopped"
  /\ running' = FALSE /\ phase' = "exited"
  /\ UNCHANGED <<queue, hand, state, source, answered, pollVars, polling,
                 streak, clientVars>>

WakeUp ==
  /\ Executes("Refresh")
  /\ hand' = <<>> /\ phase' = "loop"
  /\ UNCHANGED <<queue, state, source, running, answered, pollVars, polling,
                 streak, clientVars>>

\* A read, a write or a discovery; it opens the source if nothing has yet.
OpenForAccess ==
  /\ Executes("Access")
  /\ source' = "open" /\ phase' = "accessing"
  /\ UNCHANGED <<queue, hand, state, running, answered, pollVars, polling,
                 streak, clientVars>>

\* On success the series of the parameter is polled again.
FinishAccess ==
  /\ phase = "accessing"
  /\ \E d \in 0 .. MaxPoll : schedules' = After(schedules, d)
  /\ source' = IF state = "Running" THEN source ELSE "closed"
  /\ \/ Resume(Series \cap {hand[1].series})
     \/ UNCHANGED <<polling, streak>>
  /\ phase' = "answer"
  /\ UNCHANGED <<queue, hand, state, running, answered, due, failed, unrated,
                 clientVars>>

Answer ==
  /\ phase = "answer"
  /\ answered' = Append(answered, hand[1].id)
  /\ hand' = <<>> /\ phase' = "loop"
  /\ UNCHANGED <<queue, state, source, running, pollVars, polling, streak,
                 clientVars>>

Serve == \/ TakePending \/ Receive \/ Timeout \/ Confirm \/ StartSource
            \/ StartFails \/ StopRunning \/ CloseSource \/ Publish
            \/ ExitStopped \/ WakeUp \/ OpenForAccess \/ FinishAccess \/ Answer

Worker == Poll \/ Serve
Next == Client \/ Worker

Spec == Init /\ [][Next]_vars

\* The worker's thread keeps running.
FairSpec == Spec /\ WF_vars(Worker)
-----------------------------------------------------------------------------
\* A series is only ever suspended by three failed polls in a row, with no
\* success, retry or restart of the polling of this series in between
\* (update_series_polling_health, resume_*_polling).
SuspensionNeedsThreeFailures ==
  \A s \in Series :
    polling[s] = "Suspended" => streak[s] = MAX_CONSECUTIVE_POLL_FAILURES

\* A deadline is late by no more than a poll and the longer of another poll and
\* the interval of the series, however slow the polls of the connection are
\* (advance_series_schedules).
BacklogIsBounded ==
  \A s \in DOMAIN schedules :
    \/ schedules[s].left + MaxPoll + Interval[s] >= 0
    \/ schedules[s].left + MaxPoll + MaxPoll >= 0

\* Other threads never read that the worker is stopped while its source may
\* hold the connection; a command to a stopped worker closes it behind itself,
\* and a start is published when it has succeeded (Worker::spawn,
\* close_source_after_one_shot).
StoppedIsClosed ==
  ~running => \/ source = "closed"
              \/ phase = "accessing"
              \/ phase = "publish" /\ state = "Running"

\* What clients see of a worker: RequestQueue.  A command put aside for a poll
\* is still in the inbox.
Serving == phase \in {"execute", "accessing", "closing", "publish", "answer",
                      "exited"}
Requests == INSTANCE RequestQueue WITH
  Requests <- Command,
  inbox <- IF Serving THEN queue ELSE hand \o queue,
  serving <- IF Serving THEN hand ELSE <<>>
ServesRequests == Requests!Spec

\* A command sent is answered, whatever is deleted, suspended or restarted,
\* unless from some point on the polls leave the worker no time to receive.
CommandsAreAnswered ==
  []<>(phase = "receive") =>
    \A n \in 1 .. MaxCommands :
      (sent >= n) ~> (\E i \in DOMAIN answered : answered[i] = n)
=============================================================================
