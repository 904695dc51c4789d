------------------------- MODULE ScenarioConditions -------------------------
(***************************************************************************)
(* A race of a scenario: alternatives that are timers or conditions on     *)
(* measurements (scenario/condition.rs, ScenarioRaceState of scenario.rs). *)
(* A condition alone is a race of one: the service polls both alike.  Who  *)
(* invokes the callback, and what cancels the race, is in Scenario.        *)
(*                                                                         *)
(* A condition is the sequence of the nodes ScenarioTables reads from the  *)
(* script's table.  Monotonic and system time advance together.            *)
(***************************************************************************)
EXTENDS ScenarioTables

CONSTANTS
  Races,       \* What may be registered: [table, samples], the samples being those
               \* the bus may carry meanwhile, [series, value, age].
  StartTime,
  Delays,      \* The time between two polls.
  MaxPolls     \* Bound.

VARIABLE race  \* definition, alternatives (their states), now, winner; and for the
               \* properties: log, of the evaluations, and bus, of all the samples.

-----------------------------------------------------------------------------
(* Rates and staleness; the other leaves are in ScenarioTables. *)

Later(sample, history) ==
  \A i \in DOMAIN history : sample.timestamp > history[i].timestamp

\* The samples from the last one that is a whole window old; with none that
\* old, all of them.
Recent(history, window) ==
  LET cutoff == history[Len(history)].timestamp - window
      old == {i \in DOMAIN history : history[i].timestamp <= cutoff}
      first == IF old = {} THEN 1 ELSE CHOOSE i \in old : \A j \in old : j <= i
  IN SubSeq(history, first, Len(history))

RateHistory(history, sample, window) ==
  IF Later(sample, history) THEN Recent(Append(history, sample), window) ELSE history

\* The rise and the time it took, once the history spans the window.
Slope(history, window) ==
  LET elapsed == history[Len(history)].timestamp - history[1].timestamp
  IN IF elapsed < window \/ elapsed <= 0 THEN << >>
     ELSE <<[rise |-> history[Len(history)].value - history[1].value,
             elapsed |-> elapsed]>>

RateBeyond(node, slope, entered) ==
  Beyond(node.direction, slope.rise, node.threshold * slope.elapsed,
         node.hysteresis * slope.elapsed, entered)

Overdue(node, last, now) == now - last >= node.duration

-----------------------------------------------------------------------------
(* The state of a node: raw, whether its predicate holds, since when, and   *)
(* active, whether it has held for the hold time; the samples a rate keeps, *)
(* and the last timestamp a stale condition has seen.                       *)

NewNode == [raw |-> FALSE, since |-> 0, active |-> FALSE, history |-> << >>,
            last |-> StartTime]
NewCondition(nodes) == [i \in DOMAIN nodes |-> NewNode]

\* Mutant: an interruption does not restart the hold time.
MatchedFromFirst(state, raw, now, hold) ==
  LET since == IF state.since # 0 THEN state.since ELSE now
  IN IF ~raw THEN [state EXCEPT !.raw = FALSE, !.active = FALSE]
     ELSE [state EXCEPT !.raw = TRUE, !.since = since, !.active = now - since >= hold]

Matched(state, raw, now, hold) ==
  LET since == IF state.raw THEN state.since ELSE now
  IN IF ~raw THEN [state EXCEPT !.raw = FALSE, !.since = 0, !.active = FALSE]
     ELSE [state EXCEPT !.raw = TRUE, !.since = since, !.active = now - since >= hold]

Unchanged(state) == [state |-> state, updated |-> FALSE]
Judged(node, state, raw, now) ==
  [state |-> Matched(state, raw, now, node.hold), updated |-> TRUE]

\* A leaf looks at the samples of its own series only.
SampledLeaf(node, state, sample, now) ==
  LET x == sample.value
      history == RateHistory(state.history, sample, node.window)
      last == IF sample.timestamp > state.last THEN sample.timestamp ELSE state.last
  IN CASE node.series # sample.series -> Unchanged(state)
       [] node.series = sample.series /\ node.kind = "threshold" ->
            Judged(node, state,
                   Beyond(node.direction, x, node.threshold, node.hysteresis, state.raw), now)
       [] node.series = sample.series /\ node.kind = "inside" ->
            Judged(node, state, Within(node, x, state.raw), now)
       [] node.series = sample.series /\ node.kind = "outside" ->
            Judged(node, state, Beside(node, x, state.raw), now)
       [] node.series = sample.series /\ node.kind = "stable" ->
            Judged(node, state, Near(node, x, state.raw), now)
       [] node.series = sample.series /\ node.kind = "rate" ->
            IF ~Later(sample, state.history) \/ Slope(history, node.window) = << >>
            THEN Unchanged([state EXCEPT !.history = history])
            ELSE Judged(node, [state EXCEPT !.history = history],
                        RateBeyond(node, Slope(history, node.window)[1], state.raw), now)
       [] node.series = sample.series /\ node.kind = "stale" ->
            Judged(node, [state EXCEPT !.last = last], Overdue(node, last, now), now)

\* Between samples only a stale condition changes.
TickedLeaf(node, state, now) ==
  IF node.kind = "stale" THEN Judged(node, state, Overdue(node, state.last, now), now)
  ELSE Unchanged(state)

\* A composite is judged when one of its children was, all of which are offered
\* the sample, or the tick when there is none.
Evaluated(nodes, states, samples, now) ==
  LET Leaf(node, state) ==
        IF samples = << >> THEN TickedLeaf(node, state, now)
        ELSE SampledLeaf(node, state, samples[1], now)
      Holds(node, results) ==
        IF node.kind = "all" THEN \A c \in node.children : results[c].state.active
        ELSE \E c \in node.children : results[c].state.active
      result[i \in DOMAIN nodes] ==
        IF nodes[i].kind \notin Composite THEN Leaf(nodes[i], states[i])
        ELSE IF \E c \in nodes[i].children : result[c].updated
        THEN Judged(nodes[i], states[i], Holds(nodes[i], result), now)
        ELSE Unchanged(states[i])
  IN result

States(results) == [i \in DOMAIN results |-> results[i].state]
Fires(results) ==
  results[Len(results)].updated /\ results[Len(results)].state.active

Update(nodes, states, sample, now) ==
  IF NotFinite \in {sample.value, sample.timestamp}
  THEN [i \in DOMAIN nodes |-> Unchanged(states[i])]
  ELSE Evaluated(nodes, states, <<sample>>, now)

Tick(nodes, states, now) == Evaluated(nodes, states, << >>, now)

-----------------------------------------------------------------------------
(* The alternatives. *)

\* A deadline that has passed at the registration is due at once.
Deadline(timer, now) ==
  IF timer.kind = "after" THEN now + timer.time
  ELSE IF timer.time < now THEN now ELSE timer.time

NewAlternative(trigger, now) ==
  IF trigger.kind = "when" THEN NewCondition(trigger.nodes) ELSE Deadline(trigger, now)

Init ==
  \E written \in Races :
    /\ IsRace(written.table)
    /\ LET alternatives == Race(written.table)
       IN race = [definition |-> [alternatives |-> alternatives, samples |-> written.samples],
                  now |-> StartTime, winner |-> 0, polls |-> 0,
                  alternatives |-> [i \in DOMAIN alternatives |->
                                      NewAlternative(alternatives[i], StartTime)],
                  log |-> << >>, bus |-> << >>]

\* Offer one alternative the samples of a poll: its new state, and whether it
\* is ready.  A condition no sample fires is ticked.
Offered(trigger, alternative, samples, now) ==
  IF trigger.kind # "when" THEN [state |-> alternative, ready |-> alternative <= now]
  ELSE LET updated == IF samples = << >> THEN << >>
                      ELSE Update(trigger.nodes, alternative, samples[1], now)
           states == IF samples = << >> THEN alternative ELSE States(updated)
           ticked == Tick(trigger.nodes, states, now)
       IN IF samples # << >> /\ Fires(updated) THEN [state |-> states, ready |-> TRUE]
          ELSE [state |-> States(ticked), ready |-> Fires(ticked)]

\* The first alternative that is ready wins; those after it are not offered
\* anything, but the race is gone with them.
Winner(offered) ==
  LET ready == {i \in DOMAIN offered : offered[i].ready}
  IN IF ready = {} THEN 0 ELSE CHOOSE i \in ready : \A j \in ready : i <= j

\* What the bus carried since the last poll; one sample at most is modelled.
Arrived(samples, now) ==
  [i \in DOMAIN samples |-> [series |-> samples[i].series, value |-> samples[i].value,
                             timestamp |-> now - samples[i].age, now |-> now]]

Waiting == race.winner = 0 /\ race.polls < MaxPolls

Poll(samples, delay) ==
  /\ Waiting
  /\ LET now == race.now + delay
         arrived == Arrived(samples, now)
         triggers == race.definition.alternatives
         offered == [i \in DOMAIN triggers |->
                       Offered(triggers[i], race.alternatives[i], arrived, now)]
     IN race' = [race EXCEPT
          !.now = now,
          !.winner = Winner(offered),
          !.polls = @ + 1,
          !.alternatives = [i \in DOMAIN triggers |-> offered[i].state],
          !.log = Append(@, [now |-> now, samples |-> arrived]),
          !.bus = @ \o arrived]

\* A poll of a scenario that is busy, or that another wait was scheduled for:
\* the measurements are taken from the bus and its races are not offered them.
BusyPoll(samples, delay) ==
  /\ Waiting
  /\ race' = [race EXCEPT !.now = @ + delay, !.polls = @ + 1,
                          !.bus = @ \o Arrived(samples, race.now + delay)]

Next ==
  \E delay \in Delays,
     samples \in {<<s>> : s \in race.definition.samples} \cup {<< >>} :
    Poll(samples, delay) \/ BusyPoll(samples, delay)

-----------------------------------------------------------------------------
(* What the definitions promise, said over the polls that were evaluated.   *)

Polls == DOMAIN race.log

\* The sample a poll offers to a leaf.
Offers(node, k) ==
  {s \in {race.log[k].samples[i] : i \in DOMAIN race.log[k].samples} :
     s.series = node.series /\ s.value # NotFinite}
Sample(node, k) == CHOOSE s \in Offers(node, k) : TRUE

\* A rate counts the samples newer than all before them.
Counted(node, k) ==
  /\ Offers(node, k) # {}
  /\ \A j \in 1..(k - 1) : \A s \in Offers(node, j) :
       s.timestamp < Sample(node, k).timestamp

\* The base of a rate is the newest sample a window older than the last one.
Bases(node, k) ==
  {j \in 1..k : /\ Counted(node, j)
                /\ Sample(node, j).timestamp <= Sample(node, k).timestamp - node.window}
Base(node, k) == CHOOSE j \in Bases(node, k) : \A i \in Bases(node, k) : i <= j

LastSeen(node, k) ==
  LET seen == {StartTime} \cup UNION {{s.timestamp : s \in Offers(node, j)} : j \in 1..k}
  IN CHOOSE t \in seen : \A u \in seen : u <= t

\* The polls at which a leaf is judged.
JudgedAt(node, k) ==
  CASE node.kind = "stale" -> TRUE
    [] node.kind = "rate" -> Counted(node, k) /\ Bases(node, k) # {}
    [] OTHER -> Offers(node, k) # {}

\* The predicate at such a poll, strict or relaxed by the hysteresis.
Says(node, k, relaxed) ==
  CASE node.kind = "threshold" ->
         Beyond(node.direction, Sample(node, k).value, node.threshold, node.hysteresis, relaxed)
    [] node.kind = "inside" -> Within(node, Sample(node, k).value, relaxed)
    [] node.kind = "outside" -> Beside(node, Sample(node, k).value, relaxed)
    [] node.kind = "stable" -> Near(node, Sample(node, k).value, relaxed)
    [] node.kind = "rate" ->
         LET base == Sample(node, Base(node, k))
         IN RateBeyond(node, [rise |-> Sample(node, k).value - base.value,
                              elapsed |-> Sample(node, k).timestamp - base.timestamp], relaxed)
    [] node.kind = "stale" -> race.log[k].now - LastSeen(node, k) >= node.duration

\* For every node: when it is judged, and when it holds and is active then.
Declared(nodes) ==
  LET Current(verdict, k) ==
        LET past == {j \in verdict.judged : j <= k}
        IN past # {} /\ (CHOOSE j \in past : \A i \in past : i <= j) \in verdict.active
      Active(judged, holds, hold) ==
        {k \in holds : \E j \in holds :
           /\ j <= k
           /\ {i \in judged : i \in j..k} \subseteq holds
           /\ race.log[k].now - race.log[j].now >= hold}
      verdict[i \in DOMAIN nodes] ==
        LET node == nodes[i]
            children == IF node.kind \in Composite THEN node.children ELSE {}
            judged == IF node.kind \in Composite
                      THEN UNION {verdict[c].judged : c \in children}
                      ELSE {k \in Polls : JudgedAt(node, k)}
            holds ==
              CASE node.kind = "all" ->
                     {k \in judged : \A c \in children : Current(verdict[c], k)}
                [] node.kind = "any" ->
                     {k \in judged : \E c \in children : Current(verdict[c], k)}
                [] OTHER ->
                     {k \in judged : \E j \in judged :
                        /\ j <= k /\ Says(node, j, FALSE)
                        /\ \A l \in judged : l \in j..k => Says(node, l, TRUE)}
        IN [judged |-> judged, active |-> Active(judged, holds, node.hold)]
  IN verdict

\* An alternative's declaration is met at a poll.
Due(trigger, k) ==
  IF trigger.kind # "when" THEN race.log[k].now >= Deadline(trigger, StartTime)
  ELSE k \in Declared(trigger.nodes)[Len(trigger.nodes)].active

(* The race is won at the first poll at which an alternative's declaration  *)
(* is met, by the first such alternative: thresholds with hysteresis, rates *)
(* over the window, and hold times that any judgement to the contrary       *)
(* restarts, whatever samples arrive late, twice or not at all.             *)
WonAsDeclared ==
  \A k \in Polls :
    LET triggers == race.definition.alternatives
        due == {i \in DOMAIN triggers : Due(triggers[i], k)}
    IN IF due = {} THEN k = Len(race.log) => race.winner = 0
       ELSE /\ k = Len(race.log) /\ race.winner \in due
            /\ \A i \in due : race.winner <= i

(* A condition with a hold time was satisfied by every sample of its series *)
(* during that time (docs/scenarios.md:52).                                 *)
HeldContinuously ==
  race.winner # 0 =>
    LET trigger == race.definition.alternatives[race.winner]
    IN trigger.kind = "when" /\ trigger.nodes[Len(trigger.nodes)].kind = "stable" =>
         LET node == trigger.nodes[Len(trigger.nodes)]
         IN \A i \in DOMAIN race.bus :
              (/\ race.bus[i].series = node.series
               /\ race.bus[i].now > race.now - node.hold
               /\ race.bus[i].value # NotFinite) => Near(node, race.bus[i].value, TRUE)
=============================================================================
