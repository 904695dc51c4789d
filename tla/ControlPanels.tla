---------------------------- MODULE ControlPanels ----------------------------
(* The control panels between the Lua worker, which owns the scripts, and    *)
(* the user interface, which shows their controls.  The user's edits reach   *)
(* Lua through the bounded queue of commands, the results and everything the *)
(* scripts do to the panels come back through one queue of events.           *)
(*                                                                           *)
(* The layout and whether the window is open are left out.                   *)
EXTENDS ScriptPanels, SequencesExt

CONSTANTS
  Scripts,        \* the tables that scripts register
  Assigned,       \* the values that scripts assign
  ScenarioCallbacks, Globals,  \* names: called by scenarios, global functions
  Capacity,       \* COMMAND_CHANNEL_CAPACITY
  MaxCalls, MaxEdits, MaxReloads  \* bounds of the model

\* An array of panels has its items in order (LuaTables).
PanelsAreArrays ==
  \A script \in Scripts :
    RegistrationParses(script) => Panels(script) \in Seq(ToSet(Panels(script)))

VARIABLE panels

\* `scripts` is what Lua has registered, `shown` what the interface shows.
Init ==
  panels = [lua |-> "starting", scripts |-> << >>, queue |-> << >>, running |-> << >>,
            events |-> << >>, answers |-> << >>,
            shown |-> << >>, pending |-> FALSE, disconnected |-> FALSE,
            calls |-> 0, edits |-> 0, reloads |-> 0]

Registered == DOMAIN panels.scripts
Without(id) == [s \in Registered \ {id} |-> panels.scripts[s]]
At(script, panel, control) == [script |-> script, panel |-> panel, control |-> control]
ControlsOf(s) ==
  UNION {{[at |-> At(s, p.id, c.id), kind |-> c.kind] : c \in ToSet(p.controls)} :
         p \in ToSet(panels.scripts[s].panels)}
RegisteredControls == UNION {ControlsOf(s) : s \in Registered}

Event(event) == Append(panels.events, event)

-----------------------------------------------------------------------------
(* Lua: calls of the API while the setup, a command or a callback runs.  One *)
(* that is refused raises an error and changes nothing.                      *)

MayCall == (panels.lua = "starting" \/ panels.running # << >>) /\ panels.calls < MaxCalls

RegisterScript(script) ==
  /\ MayCall /\ RegistrationParses(script)
  /\ LET id == script["id"].value
         registration == Registration(script)
     IN panels' = [panels EXCEPT
          !.calls = @ + 1,
          !.scripts = [s \in Registered \cup {id} |->
                         IF s = id THEN registration ELSE panels.scripts[s]],
          !.events = Event([kind |-> "registered", script |-> id,
                            panels |-> registration.panels])]

UnregisterScript(id) ==
  /\ MayCall /\ id \in Identifiers
  /\ panels' = [panels EXCEPT
       !.calls = @ + 1, !.scripts = Without(id),
       !.events = Event([kind |-> "unregistered", script |-> id])]

SetControl(control, value) ==
  /\ MayCall /\ control \in RegisteredControls /\ IsAssignable(control.kind, value)
  /\ panels' = [panels EXCEPT
       !.calls = @ + 1,
       !.events = Event([kind |-> "value", at |-> control.at, value |-> value.value])]

SetControlEnabled(control, enabled) ==
  /\ MayCall /\ control \in RegisteredControls
  /\ panels' = [panels EXCEPT
       !.calls = @ + 1,
       !.events = Event([kind |-> "enabled", at |-> control.at, enabled |-> enabled])]

\* The registered table is alive: a script may take a function out of it.
ForgetFunction(id, name) ==
  /\ MayCall /\ id \in Registered /\ name \in panels.scripts[id].functions
  /\ panels' = [panels EXCEPT !.calls = @ + 1, !.scripts[id].functions = @ \ {name}]

Call ==
  \/ \E script \in Scripts : RegisterScript(script)
  \/ \E id \in Registered : UnregisterScript(id)
  \/ \E control \in RegisteredControls :
       \/ \E value \in Assigned : SetControl(control, value)
       \/ \E enabled \in BOOLEAN : SetControlEnabled(control, enabled)
  \/ \E id \in Registered : \E name \in panels.scripts[id].functions : ForgetFunction(id, name)

-----------------------------------------------------------------------------
(* The worker: run_lua_worker. *)

\* A failed setup ends the thread, and its queue with it.
InitializationEnds ==
  /\ panels.lua = "starting"
  /\ \E succeeded \in BOOLEAN :
       panels' = [panels EXCEPT
         !.lua = IF succeeded THEN "up" ELSE "down",
         !.queue = IF succeeded THEN @ ELSE << >>,
         !.answers = Append(@, IF succeeded THEN "initialized" ELSE "failed to initialize")]

\* A global function first, else that of the only script which has one.
Resolves(command) ==
  CASE command.kind = "execute" -> TRUE
    [] command.kind = "control" ->
         /\ command.at.script \in Registered
         /\ command.callback \in panels.scripts[command.at.script].functions
    [] command.kind = "scenario" ->
         \/ command.callback \in Globals
         \/ Cardinality({s \in Registered : command.callback \in panels.scripts[s].functions}) = 1

\* Mutant: only a callback that was found is answered.
ResultIfFound(command, succeeded) ==
  IF command.kind = "control" /\ Resolves(command)
  THEN Event([kind |-> "result", at |-> command.at, succeeded |-> succeeded])
  ELSE panels.events
\* The result of a callback of a control; scenarios have their own channel.
Result(command, succeeded) ==
  IF command.kind = "control"
  THEN Event([kind |-> "result", at |-> command.at, succeeded |-> succeeded])
  ELSE panels.events

Finish(command, succeeded) ==
  panels' = [panels EXCEPT
    !.queue = IF panels.running = << >> THEN Tail(@) ELSE @, !.running = << >>,
    !.events = Result(command, succeeded),
    !.answers = IF command.kind = "execute" THEN Append(@, "executed") ELSE @]

Receive ==
  /\ panels.lua = "up" /\ panels.running = << >> /\ panels.queue # << >>
  /\ LET command == Head(panels.queue)
     IN \/ /\ Resolves(command)
           /\ panels' = [panels EXCEPT !.queue = Tail(@), !.running = <<command>>]
        \/ ~Resolves(command) /\ Finish(command, FALSE)

\* It returns, or it fails or exceeds the time limit.
Return ==
  /\ panels.running # << >>
  /\ \E succeeded \in BOOLEAN : Finish(panels.running[1], succeeded)

-----------------------------------------------------------------------------
(* The user interface: what an event does to the panels that are shown. *)

Fresh(script, panel) ==
  [script |-> script, id |-> panel.id,
   controls |-> [i \in DOMAIN panel.controls |->
     LET c == panel.controls[i]
     IN [id |-> c.id, kind |-> c.kind, value |-> c.initial, draft |-> c.initial,
         pending |-> FALSE, editing |-> FALSE, enabled |-> TRUE,
         minimum |-> c.minimum, maximum |-> c.maximum, callback |-> c.callback]]]

\* The panels of the other scripts, in their order.
InOrder(places) ==
  CHOOSE f \in [1..Cardinality(places) -> places] :
    \A m, n \in DOMAIN f : m < n => f[m] < f[n]
Unregistered(shown, id) ==
  LET kept == InOrder({i \in DOMAIN shown : shown[i].script # id})
  IN [n \in DOMAIN kept |-> shown[kept[n]]]
\* Mutant: the new panels are added to the old ones.
AddedToScript(shown, id, definitions) ==
  shown \o [i \in DOMAIN definitions |-> Fresh(id, definitions[i])]
Replaced(shown, id, definitions) ==
  Unregistered(shown, id) \o [i \in DOMAIN definitions |-> Fresh(id, definitions[i])]

InRange(control, value) ==
  /\ \A i \in DOMAIN control.minimum : control.minimum[i] <= value
  /\ \A i \in DOMAIN control.maximum : value <= control.maximum[i]

\* A number out of its range is only logged.
SetValue(control, value) ==
  IF control.kind = "number" /\ ~InRange(control, value) THEN control
  ELSE [control EXCEPT !.value = value, !.draft = value]

DiscardEdit(control) == [control EXCEPT !.draft = control.value, !.pending = FALSE]
CommitEdit(control) == [control EXCEPT !.value = control.draft, !.pending = FALSE]

ControlAfter(control, event) ==
  CASE event.kind = "result" /\ event.succeeded -> CommitEdit(control)
    [] event.kind = "result" /\ ~event.succeeded -> DiscardEdit(control)
    [] event.kind = "value" -> SetValue(control, event.value)
    [] event.kind = "enabled" -> [control EXCEPT !.enabled = event.enabled]

\* The control with the ids; without one nothing changes.
PanelAfter(panel, event) ==
  IF panel.script = event.at.script /\ panel.id = event.at.panel
  THEN [panel EXCEPT !.controls =
          [j \in DOMAIN @ |-> IF @[j].id = event.at.control THEN ControlAfter(@[j], event)
                              ELSE @[j]]]
  ELSE panel
Updated(shown, event) == [i \in DOMAIN shown |-> PanelAfter(shown[i], event)]

Handled(shown, event) ==
  CASE event.kind = "registered" -> Replaced(shown, event.script, event.panels)
    [] event.kind = "unregistered" -> Unregistered(shown, event.script)
    [] OTHER -> Updated(shown, event)

\* A frame handles the events there are one by one before anything else; an
\* event that is left might as well have been sent after the frame.
HandleEvent ==
  /\ panels.events # << >>
  /\ panels' = [panels EXCEPT
       !.shown = Handled(@, Head(panels.events)), !.events = Tail(@)]

\* Then those of the console.
HandleAnswers ==
  /\ panels.answers # << >>
  /\ LET answers == ToSet(panels.answers)
     IN panels' = [panels EXCEPT
          !.answers = << >>, !.pending = @ /\ "executed" \notin answers,
          !.disconnected = (@ /\ "initialized" \notin answers)
                           \/ "failed to initialize" \in answers]

-----------------------------------------------------------------------------
(* The user. *)

\* The sender waits while the queue is full; without a worker it fails.
CanSend == panels.lua = "down" \/ Len(panels.queue) < Capacity
Sent(command) == IF panels.lua = "down" THEN panels.queue ELSE Append(panels.queue, command)

Shown(i, j) == panels.shown[i].controls[j]
Place(i, j) == At(panels.shown[i].script, panels.shown[i].id, Shown(i, j).id)
With(i, j, control) == [panels.shown EXCEPT ![i].controls[j] = control]

\* The edit is pending and its callback is queued, or it is discarded at once.
Invoke(i, j, draft) ==
  LET edited == [Shown(i, j) EXCEPT !.draft = draft, !.editing = FALSE]
      submitted == IF panels.lua = "down" THEN DiscardEdit(edited)
                   ELSE [edited EXCEPT !.pending = TRUE]
  IN /\ CanSend
     /\ panels' = [panels EXCEPT
          !.shown = With(i, j, submitted), !.edits = @ + 1,
          !.queue = Sent([kind |-> "control", at |-> Place(i, j),
                          callback |-> edited.callback[1]])]

MayEdit(control) == control.enabled /\ ~control.pending /\ panels.edits < MaxEdits

Toggle(i, j) ==
  /\ Shown(i, j).kind = "toggle" /\ MayEdit(Shown(i, j))
  /\ Invoke(i, j, ~Shown(i, j).draft)
Click(i, j) ==
  /\ Shown(i, j).kind = "button" /\ MayEdit(Shown(i, j))
  /\ Invoke(i, j, Shown(i, j).draft)

\* A number is dragged or typed, then released; an edit back to the value
\* calls nothing.
EditNumber(i, j, draft) ==
  /\ Shown(i, j).kind = "number" /\ MayEdit(Shown(i, j))
  /\ InRange(Shown(i, j), draft) /\ draft # Shown(i, j).draft
  /\ panels' = [panels EXCEPT
       !.shown = With(i, j, [Shown(i, j) EXCEPT !.draft = draft, !.editing = TRUE])]
ReleaseNumber(i, j) ==
  /\ Shown(i, j).editing
  /\ \/ Shown(i, j).draft # Shown(i, j).value /\ Invoke(i, j, Shown(i, j).draft)
     \/ /\ Shown(i, j).draft = Shown(i, j).value
        /\ panels' = [panels EXCEPT
             !.shown = With(i, j, [Shown(i, j) EXCEPT !.editing = FALSE])]

\* A console command, or a script file that is run.
Submit ==
  /\ ~panels.pending /\ ~panels.disconnected /\ CanSend /\ panels.edits < MaxEdits
  /\ panels' = [panels EXCEPT
       !.edits = @ + 1, !.queue = Sent([kind |-> "execute"]),
       !.pending = panels.lua # "down", !.disconnected = panels.lua = "down"]

\* The runtime thread sends what a scenario calls.
CallScenario(callback) ==
  /\ panels.edits < MaxEdits /\ panels.lua # "down" /\ CanSend
  /\ panels' = [panels EXCEPT
       !.edits = @ + 1, !.queue = Sent([kind |-> "scenario", callback |-> callback])]

\* The replacement has run its setup, which registered what the sequence has,
\* before it takes over; what is left of the old worker is not heard any more.
Reload(setup) ==
  /\ ~panels.pending /\ panels.reloads < MaxReloads
  /\ \A n \in DOMAIN setup : RegistrationParses(setup[n])
  /\ panels' = [panels EXCEPT
       !.lua = "up", !.queue = << >>, !.running = << >>, !.answers = << >>,
       !.shown = << >>, !.disconnected = FALSE, !.reloads = @ + 1,
       !.scripts = [id \in {setup[n]["id"].value : n \in DOMAIN setup} |->
                      Registration(setup[1])],
       !.events = [n \in DOMAIN setup |->
                     [kind |-> "registered", script |-> setup[n]["id"].value,
                      panels |-> Panels(setup[n])]]]

Drafts == {value.value : value \in {v \in Assigned : v.type \in Reals /\ v.value # NotFinite}}
User ==
  \/ \E i \in DOMAIN panels.shown : \E j \in DOMAIN panels.shown[i].controls :
       \/ Toggle(i, j) \/ Click(i, j) \/ ReleaseNumber(i, j)
       \/ \E draft \in Drafts : EditNumber(i, j, draft)
  \/ Submit
  \/ \E callback \in ScenarioCallbacks : CallScenario(callback)
  \/ \E setup \in {<<script>> : script \in Scripts} \cup {<< >>} : Reload(setup)

Next ==
  Call \/ InitializationEnds \/ Receive \/ Return \/ HandleEvent \/ HandleAnswers \/ User

-----------------------------------------------------------------------------
(***************************************************************************)
(* Properties.                                                             *)
(***************************************************************************)
\* What the user interface and Lua know of a panel, and of those of a script.
Outline(panel) ==
  [id |-> panel.id,
   controls |-> [j \in DOMAIN panel.controls |->
                   [id |-> panel.controls[j].id, kind |-> panel.controls[j].kind]]]
Outlines(definitions) == {Outline(definitions[i]) : i \in DOMAIN definitions}
PanelsOf(id) == IF id \in Registered THEN panels.scripts[id].panels ELSE << >>
ShownOf(id) ==
  {Outline(panels.shown[i]) : i \in {k \in DOMAIN panels.shown : panels.shown[k].script = id}}
About(id) ==
  {n \in DOMAIN panels.events :
     panels.events[n].kind \in {"registered", "unregistered"} /\ panels.events[n].script = id}
PanelsTold(event) == IF event.kind = "registered" THEN event.panels ELSE << >>

\* The user interface shows exactly the controls of the scripts that Lua has
\* registered, or the last event on its way about a script tells them; and it
\* shows each panel once, however registrations, removals, edits and reloads
\* overlap.
PanelsFollowScripts ==
  /\ \A id \in Identifiers :
       IF About(id) = {} THEN ShownOf(id) = Outlines(PanelsOf(id))
       ELSE \A n \in About(id) : (\A m \in About(id) : m <= n) =>
              PanelsTold(panels.events[n]) = PanelsOf(id)
  /\ \A i, k \in DOMAIN panels.shown :
       panels.shown[i].script = panels.shown[k].script /\ panels.shown[i].id = panels.shown[k].id
         => i = k

\* The callback of a pending control is queued or running, or its result is on
\* its way, so a control never stays locked: a missing function, a panel that
\* was replaced meanwhile and a worker that is gone are answered too.  Only a
\* worker that ends with its setup takes queued callbacks along.  And a draft
\* that differs from the accepted value is being edited or pending.
IsAwaited(at) ==
  \/ \E n \in DOMAIN panels.queue : panels.queue[n].kind = "control" /\ panels.queue[n].at = at
  \/ \E n \in DOMAIN panels.running :
       panels.running[n].kind = "control" /\ panels.running[n].at = at
  \/ \E n \in DOMAIN panels.events : panels.events[n].kind = "result" /\ panels.events[n].at = at
EditsAreSettled ==
  \A i \in DOMAIN panels.shown : \A j \in DOMAIN panels.shown[i].controls :
    /\ Shown(i, j).pending /\ panels.lua # "down" => IsAwaited(Place(i, j))
    /\ Shown(i, j).draft # Shown(i, j).value => Shown(i, j).editing \/ Shown(i, j).pending

\* After a setup that failed, the profile can be corrected and reloaded
\* (docs/troubleshooting.md:17): nothing that was submitted is still awaited,
\* for reload_runtime refuses while it is.
FailedSetupCanReload ==
  panels.lua = "down" /\ panels.answers = << >> => ~panels.pending
=============================================================================
