------------------------------ MODULE Recorder ------------------------------
(***************************************************************************)
(* The history of a session: process_recorder.rs with its SQLite writer,   *)
(* the event hub of application_event.rs and the log of app_log.rs.  Every *)
(* record is published to the subscribers of the hub, then to the log and  *)
(* then to the writer's thread, under a lock or a channel of its own each, *)
(* so the steps of two recording threads interleave.  Texts, timestamps    *)
(* and the dates of log files are left out.                                *)
(***************************************************************************)
EXTENDS Naturals, Sequences, FiniteSets

CONSTANTS
  Commands,     \* What is requested: [kind, series], series being << >> or the id that
                \* the name in the command resolves to.
  Series,       \* The ids a settled action may report.
  MaxLogEntries,
  MaxActions,   \* Bound: actions requested.
  MaxRecords    \* Bound: measurements and messages the other threads record.

VARIABLE recorder

None == << >>

-----------------------------------------------------------------------------
(* Actions. *)

AcquisitionActions == {"start_acquisition", "stop_acquisition", "clear_series",
                       "start_emulator", "stop_emulator"}
SeriesActions == {"add_series", "add_filtered_series", "set_filter",
                  "delete_series_by_name", "rename_series", "set_series_color",
                  "set_series_visibility"}
ControllerActions == {"add_controller", "write_controller_parameter",
                      "configure_controller", "write_controller_reference_parameter",
                      "configure_controller_reference", "set_controller_reference",
                      "set_controller_input", "pause_controller", "remove_controller",
                      "resume_controller", "reset_controller_integral",
                      "reset_controller"}
InstrumentActions == {"send_serial", "read_instrument", "write_instrument",
                      "describe_virtual_instruments"}

\* The other commands leave no trace: panes, retries, diagnostics, queries,
\* scenarios and messages.
Recorded(command) ==
  command.kind \in AcquisitionActions \cup SeriesActions \cup ControllerActions
                     \cup InstrumentActions

OfConnection == InstrumentActions \cup {"add_series", "add_controller"}
OfNamedSeries == {"set_filter", "delete_series_by_name", "rename_series",
                  "set_series_color"}
OfSeries == OfNamedSeries \cup {"set_series_visibility"}

\* resolve_action_series_id: of the actions that name a series.
Resolved(command) ==
  [kind |-> command.kind,
   series |-> IF command.kind \in OfSeries THEN command.series ELSE None]

-----------------------------------------------------------------------------
(* Records. *)

Requested(id, action) == [event |-> "requested", id |-> id, action |-> action]
Applied(id, series) == [event |-> "applied", id |-> id, series |-> series]
Failed(id) == [event |-> "failed", id |-> id]
Message(n) == [event |-> "log", id |-> n]
MeasurementRecord(n) == [event |-> "measurements", id |-> n]

ActionEvents == {"requested", "applied", "failed"}
IsApplicationEvent(record) == record.event \in ActionEvents \cup {"measurements"}
IsTimelineEvent(record) == record.event \in ActionEvents \cup {"log"}

Threads == {"runtime", "worker"}
NoRecord == [stage |-> "idle"]

Init ==
  recorder = [next |-> 1, open |-> {}, others |-> 0,
              thread |-> [t \in Threads |-> NoRecord],
              subscribed |-> TRUE, attached |-> TRUE, events |-> << >>,
              timeline |-> << >>, queue |-> << >>, sent |-> << >>,
              running |-> TRUE, available |-> TRUE, error |-> FALSE, reported |-> FALSE,
              rows |-> << >>, logs |-> << >>, measurements |-> << >>, ended |-> FALSE,
              closed |-> FALSE,
              pending |-> << >>, entries |-> << >>, pushed |-> << >>,
              file |-> << >>, file_enabled |-> TRUE]

-----------------------------------------------------------------------------
(* ProcessRecorder::record, one publication at a time. *)

IsIdle(t) == recorder.thread[t].stage = "idle"
Begin(t, record) == [recorder.thread EXCEPT ![t] = [stage |-> "events", record |-> record]]
AtStage(t, stage) == recorder.thread[t].stage = stage
Proceed(t, stage) == [recorder.thread EXCEPT ![t].stage = stage]

\* A subscriber that is gone is dropped from the hub.
PublishEvent(t) ==
  /\ AtStage(t, "events")
  /\ LET record == recorder.thread[t].record
         delivers == IsApplicationEvent(record) /\ recorder.attached
     IN recorder' = [recorder EXCEPT
          !.thread = Proceed(t, "timeline"),
          !.attached = IF delivers THEN recorder.subscribed ELSE @,
          !.events = IF delivers /\ recorder.subscribed THEN Append(@, record) ELSE @]

PublishTimeline(t) ==
  /\ AtStage(t, "timeline")
  /\ LET record == recorder.thread[t].record
     IN recorder' = [recorder EXCEPT
          !.thread = Proceed(t, "sink"),
          !.timeline = IF IsTimelineEvent(record) THEN Append(@, record) ELSE @]

Send(t) ==
  /\ AtStage(t, "sink")
  /\ recorder' = [recorder EXCEPT
       !.thread[t] = NoRecord,
       !.queue = Append(@, recorder.thread[t].record),
       !.sent = Append(@, recorder.thread[t].record)]

\* record_action, before the command is executed.
Request(command) ==
  /\ ~recorder.closed /\ IsIdle("runtime")
  /\ recorder.next <= MaxActions
  /\ Recorded(command)
  /\ recorder' = [recorder EXCEPT
       !.next = @ + 1,
       !.open = @ \cup {recorder.next},
       !.thread = Begin("runtime", Requested(recorder.next, Resolved(command)))]

\* record_action_applied and record_action_failed: the runtime's thread settles
\* what it requested.
Settle(record) ==
  /\ ~recorder.closed /\ IsIdle("runtime")
  /\ record.id \in recorder.open
  /\ recorder' = [recorder EXCEPT !.open = @ \ {record.id},
                                  !.thread = Begin("runtime", record)]

\* record_measurements and the messages of the other threads.
RecordOther(record) ==
  /\ ~recorder.closed /\ IsIdle("worker")
  /\ recorder.others < MaxRecords
  /\ recorder' = [recorder EXCEPT !.others = @ + 1, !.thread = Begin("worker", record)]

Unsubscribe ==
  /\ recorder.subscribed
  /\ recorder' = [recorder EXCEPT !.subscribed = FALSE]

\* ApplicationRuntime::poll reports a failed writer by a message.
TakeError ==
  /\ ~recorder.closed /\ IsIdle("runtime") /\ recorder.error
  /\ recorder' = [recorder EXCEPT !.error = FALSE, !.reported = TRUE,
                                  !.thread = Begin("runtime", Message(0))]

\* The last handle of the recorder is dropped.
Close ==
  /\ ~recorder.closed /\ \A t \in Threads : IsIdle(t)
  /\ recorder' = [recorder EXCEPT !.closed = TRUE,
                                  !.queue = Append(@, [event |-> "shutdown"])]

-----------------------------------------------------------------------------
(* The writer's thread. *)

Or(series, other) == IF series = None THEN other ELSE series

Row(record) ==
  [kind |-> record.action.kind, of_connection |-> record.action.kind \in OfConnection,
   series |-> record.action.series, status |-> "requested"]

HasRow(rows, id) == id \in DOMAIN rows

\* A row that is not there is not updated, and nothing is reported.
SettledRows(rows, record) ==
  IF ~HasRow(rows, record.id) THEN rows
  ELSE IF record.event = "applied"
  THEN [rows EXCEPT ![record.id].status = "applied",
                    ![record.id].series = Or(record.series, @)]
  ELSE [rows EXCEPT ![record.id].status = "failed"]

RequestedRows(rows, record) ==
  [id \in DOMAIN rows \cup {record.id} |->
     IF id = record.id THEN Row(record) ELSE rows[id]]

Written(record) ==
  [recorder EXCEPT
    !.queue = Tail(@),
    !.rows = CASE record.event = "requested" -> RequestedRows(@, record)
               [] record.event \in {"applied", "failed"} -> SettledRows(@, record)
               [] OTHER -> @,
    !.logs = IF record.event = "log" THEN Append(@, record.id) ELSE @,
    !.measurements = IF record.event = "measurements" THEN Append(@, record.id) ELSE @]

NextIs(isRecord) ==
  /\ recorder.running /\ recorder.queue # << >>
  /\ (Head(recorder.queue).event # "shutdown") = isRecord

Write ==
  /\ NextIs(TRUE) /\ recorder.available
  /\ recorder' = Written(Head(recorder.queue))

\* Mutant: the writer goes on after an error.
WriteFailsOnce ==
  /\ NextIs(TRUE) /\ recorder.available
  /\ recorder' = [recorder EXCEPT !.queue = Tail(@), !.error = TRUE]

\* The first failure ends the persistence of the session.
WriteFails ==
  /\ NextIs(TRUE) /\ recorder.available
  /\ recorder' = [recorder EXCEPT !.queue = Tail(@), !.available = FALSE, !.error = TRUE]

Discard ==
  /\ NextIs(TRUE) /\ ~recorder.available
  /\ recorder' = [recorder EXCEPT !.queue = Tail(@)]

\* The writer is dropped and marks the end of the session, complete or not.
Shutdown ==
  /\ NextIs(FALSE)
  /\ recorder' = [recorder EXCEPT !.queue = Tail(@), !.running = FALSE, !.ended = TRUE]

-----------------------------------------------------------------------------
(* The log. *)

Pushed(entries, entry) ==
  Append(IF Len(entries) >= MaxLogEntries THEN Tail(entries) ELSE entries, entry)

Disabled == [event |-> "disabled", id |-> 0, named |-> TRUE]

\* Mutant: a file that failed is tried again.
PushMessageAgain(state, entry, fails) ==
  [state EXCEPT
    !.entries = IF fails THEN Pushed(Pushed(@, entry), Disabled) ELSE Pushed(@, entry),
    !.pushed = Append(@, entry),
    !.file = IF fails THEN @ ELSE Append(@, entry),
    !.file_enabled = ~fails]

\* A file that cannot be written is given up, after the entry it missed.
PushMessage(state, entry, fails) ==
  LET tried == state.file_enabled
  IN [state EXCEPT
       !.entries = IF tried /\ fails THEN Pushed(Pushed(@, entry), Disabled)
                   ELSE Pushed(@, entry),
       !.pushed = Append(@, entry),
       !.file = IF tried /\ ~fails THEN Append(@, entry) ELSE @,
       !.file_enabled = tried /\ ~fails]

\* An action that is settled is described by what was requested.
IsNamed(record) == record.event = "log" \/ record.id \in DOMAIN recorder.pending
Entry(record) == [event |-> record.event, id |-> record.id, named |-> IsNamed(record)]

Outstanding(pending, record) ==
  [id \in DOMAIN pending \ (IF record.event = "log" THEN {} ELSE {record.id}) |->
     pending[id]]

\* One turn of LogModel::poll, which goes on in the destructor.
LogRecord(fails) ==
  /\ recorder.timeline # << >>
  /\ LET record == Head(recorder.timeline)
         taken == [recorder EXCEPT !.timeline = Tail(@)]
     IN recorder' =
          IF record.event = "requested"
          THEN [taken EXCEPT
                 !.pending = [id \in DOMAIN @ \cup {record.id} |->
                                IF id = record.id THEN record.action ELSE @[id]]]
          ELSE PushMessage([taken EXCEPT !.pending = Outstanding(@, record)],
                           Entry(record), fails)

Next ==
  \/ \E t \in Threads : PublishEvent(t) \/ PublishTimeline(t) \/ Send(t)
  \/ \E command \in Commands : Request(command)
  \/ \E id \in recorder.open :
       Settle(Failed(id)) \/ \E series \in {None} \cup {<<s>> : s \in Series} :
                               Settle(Applied(id, series))
  \/ \E n \in {recorder.others + 1} : RecordOther(Message(n)) \/ RecordOther(MeasurementRecord(n))
  \/ Unsubscribe \/ TakeError \/ Close
  \/ Write \/ WriteFails \/ Discard \/ Shutdown
  \/ \E fails \in BOOLEAN : LogRecord(fails)

-----------------------------------------------------------------------------
(* The timeline view of the database. *)
View ==
  LET rows == recorder.rows
  IN {<<"requested", id, rows[id].kind, rows[id].series>> : id \in DOMAIN rows}
       \cup {<<rows[id].status, id, rows[id].kind, rows[id].series>> :
               id \in {i \in DOMAIN rows : rows[i].status # "requested"}}
       \cup {<<"log", recorder.logs[i], i>> : i \in DOMAIN recorder.logs}
       \cup {<<"measurements", recorder.measurements[i], i>> :
               i \in DOMAIN recorder.measurements}

\* What the first n records handed to the writer amount to: the actions, with
\* the series they reported, and every other record at its place among its kind.
History(n) ==
  LET sent == recorder.sent
      SeriesReported(id) ==
        {sent[i].series : i \in {j \in 1..n : sent[j].event = "applied" /\ sent[j].id = id}}
          \ {None}
      RequestOf(record) ==
        CHOOSE r \in {sent[i] : i \in 1..n} : r.event = "requested" /\ r.id = record.id
      SeriesOf(request) ==
        IF SeriesReported(request.id) = {} THEN request.action.series
        ELSE CHOOSE series \in SeriesReported(request.id) : TRUE
      Told(record) ==
        <<record.event, record.id, RequestOf(record).action.kind, SeriesOf(RequestOf(record))>>
      Place(i) == Cardinality({j \in 1..i : sent[j].event = sent[i].event})
      Of(events) == {i \in 1..n : sent[i].event \in events}
  IN {Told(sent[i]) : i \in Of(ActionEvents)}
       \cup {<<sent[i].event, sent[i].id, Place(i)>> : i \in Of({"log", "measurements"})}

(* The database is the history of the session up to some moment, with no    *)
(* hole: all of it until the writer fails, which the application is told,   *)
(* and nothing after that.                                                  *)
HistoryHasNoHoles ==
  LET queued == {i \in DOMAIN recorder.queue : recorder.queue[i].event # "shutdown"}
      taken == Len(recorder.sent) - Cardinality(queued)
  IN /\ recorder.available => View = History(taken)
     /\ ~recorder.available =>
          /\ recorder.error \/ recorder.reported
          /\ \E n \in 0..(taken - 1) : View = History(n)
     /\ recorder.ended => taken = Len(recorder.sent)

(* Whatever the database does, the log names every action it reports and    *)
(* the subscribers of the hub see a request before its outcome; the file is *)
(* the log up to the first write that failed, with no hole.                 *)
LogTellsTheHistory ==
  LET Settles(i) == recorder.events[i].event \in {"applied", "failed"}
  IN /\ \A i \in DOMAIN recorder.entries : recorder.entries[i].named
     /\ recorder.file = SubSeq(recorder.pushed, 1, Len(recorder.file))
     /\ recorder.file_enabled => recorder.file = recorder.pushed
     /\ Len(recorder.entries) <= MaxLogEntries
     /\ \A i \in DOMAIN recorder.events : Settles(i) =>
          \E j \in 1..(i - 1) : /\ recorder.events[j].event = "requested"
                                /\ recorder.events[j].id = recorder.events[i].id
=============================================================================
