--------------------------- MODULE Scenario_proofs ---------------------------
(***************************************************************************)
(* Proofs about the scenario service, for every set of commands that Lua   *)
(* code may send, with and without transitions, and every value of the     *)
(* bounds: the inductive invariant, the theorems, and the refinement of    *)
(* ScenarioLifecycle.                                                      *)
(***************************************************************************)
EXTENDS Scenario, SequenceTheorems, FiniteSetTheorems, FunctionTheorems, TLAPS

-----------------------------------------------------------------------------
(***************************************************************************)
(* The inductive invariant.                                                *)
(***************************************************************************)
\* What the operators on a scenario's state rely on and keep: only an open run
\* waits for anything, only a live one is busy or ending.
Sound(s) ==
  /\ s \in ScenarioState
  /\ s.status = "running" => s.run # 0
  /\ s.waits # {} => Open(s)
  /\ s.finalization # "none" => s.status = "running"
  /\ s.cleanup => s.finalization # "none"
  /\ IsBusy(s) => s.status = "running"

\* What the poll works on is of the kind its phase drains.
PollTyped ==
  /\ In("idle") => poll = IdlePoll
  /\ In("commands") => poll.todo \in Seq(LuaCommand)
  /\ In("results") => poll.todo \in Seq(CallbackResult)
  /\ In("events") => poll.todo \in Seq(ActionEvent)
  /\ ~In("events") => poll.fired = "none"

\* A callback and the actions it sends belong to a run.
OfSomeRun ==
  /\ lua # NoInvocation => lua.run # 0
  /\ \A i \in 1 .. Len(lua_queue) : lua_queue[i].run # 0
  /\ \A i \in 1 .. Len(lua_commands) :
       lua_commands[i].kind = "action" => lua_commands[i].run # 0
  /\ In("commands") => \A i \in 1 .. Len(poll.todo) :
       poll.todo[i].kind = "action" => poll.todo[i].run # 0

\* Runs to come have no callbacks, and a run has at most one.
CallbackInv ==
  /\ scenario.run < next_run_id
  /\ \A run \in Nat \ {0} :
       /\ Outstanding(run) <= 1
       /\ run >= next_run_id => Outstanding(run) = 0
       /\ run = scenario.run /\ scenario.status = "running" =>
            /\ Outstanding(run) = 1 => scenario.callback
            /\ scenario.callback /\ lua_up => Outstanding(run) = 1

\* The actions with an event on its way to the service.
Reported(action) ==
  \/ \E i \in 1 .. Len(application_events) : application_events[i].action = action
  \/ In("events") /\ \E i \in 1 .. Len(poll.todo) : poll.todo[i].action = action

Tracked(action) ==
  \/ \E d \in in_flight : d.action = action /\ d.run = scenario.run
  \/ Reported(action)

\* An action is executed once, and has settled when its event is sent.
ActionInv ==
  /\ \A d \in in_flight :
       /\ d.action < next_action_id
       /\ ~Reported(d.action)
       /\ \A e \in in_flight : e.action = d.action => e = d
  /\ \A action \in Nat : Reported(action) => action < next_action_id
  /\ \A action \in scenario.pending : Tracked(action)

IInv ==
  /\ TypeOK /\ Sound(scenario) /\ PollTyped /\ OfSomeRun
  /\ CallbackInv /\ ActionInv /\ FiredIsStillGood

-----------------------------------------------------------------------------
(***************************************************************************)
(* Counting the messages of a run.                                         *)
(***************************************************************************)
LEMMA CountType ==
  ASSUME NEW S, NEW s \in Seq(S), NEW run
  PROVE  /\ IsFiniteSet(Of(run, s)) /\ Cardinality(Of(run, s)) \in Nat
         /\ Cardinality(Of(run, s)) = 0 <=> \A i \in 1 .. Len(s) : s[i].run # run
<1>1. Len(s) \in Nat /\ DOMAIN s = 1 .. Len(s)
  BY LenProperties
<1>2. IsFiniteSet(1 .. Len(s)) /\ Of(run, s) \subseteq 1 .. Len(s)
  BY <1>1, FS_Interval DEF Of
<1>3. IsFiniteSet(Of(run, s))
  BY <1>2, FS_Subset
<1>4. Of(run, s) = {} <=> \A i \in 1 .. Len(s) : s[i].run # run
  BY <1>1 DEF Of
<1> QED
  BY <1>3, <1>4, FS_CardinalityType, FS_EmptySet

LEMMA CountEmpty ==
  ASSUME NEW run
  PROVE  Cardinality(Of(run, <<>>)) = 0
<1>1. Of(run, <<>>) = {}
  BY DEF Of
<1> QED
  BY <1>1, FS_EmptySet

LEMMA CountAppend ==
  ASSUME NEW S, NEW s \in Seq(S), NEW m \in S, NEW run
  PROVE  Cardinality(Of(run, Append(s, m)))
           = Cardinality(Of(run, s)) + (IF m.run = run THEN 1 ELSE 0)
<1> DEFINE t == Append(s, m)
           n == Len(s) + 1
<1>1. /\ Len(s) \in Nat /\ DOMAIN s = 1 .. Len(s)
      /\ t \in Seq(S) /\ Len(t) = n /\ t[n] = m
      /\ \A i \in 1 .. Len(s) : t[i] = s[i]
  BY AppendProperties, LenProperties
<1>2. DOMAIN t = 1 .. n
  BY <1>1, LenProperties
<1>3. 1 .. n = (1 .. Len(s)) \cup {n} /\ n \notin 1 .. Len(s)
  BY <1>1
<1> HIDE DEF t, n
<1>4. Of(run, t) = IF m.run = run THEN Of(run, s) \cup {n} ELSE Of(run, s)
  BY <1>1, <1>2, <1>3 DEF Of
<1>5. n \notin Of(run, s)
  BY <1>1, <1>3 DEF Of
<1>6. IsFiniteSet(Of(run, s)) /\ Cardinality(Of(run, s)) \in Nat
  BY CountType
<1>7. CASE m.run = run
  <2>1. /\ Of(run, t) = Of(run, s) \cup {n}
        /\ Cardinality(Of(run, s) \cup {n}) = Cardinality(Of(run, s)) + 1
    BY <1>4, <1>5, <1>6, <1>7, FS_AddElement
  <2> QED
    BY <2>1, <1>7 DEF t
<1>8. CASE m.run # run
  BY <1>4, <1>6, <1>8 DEF t
<1> QED
  BY <1>7, <1>8

LEMMA CountTail ==
  ASSUME NEW S, NEW s \in Seq(S), s # <<>>, NEW run
  PROVE  Cardinality(Of(run, s))
           = Cardinality(Of(run, Tail(s))) + (IF Head(s).run = run THEN 1 ELSE 0)
<1> DEFINE t == Tail(s)
           n == Len(t)
           rest == Of(run, s) \ {1}
           f == [i \in rest |-> i - 1]
<1>1. /\ Len(s) \in Nat /\ DOMAIN s = 1 .. Len(s) /\ Len(s) = n + 1 /\ n \in Nat
      /\ t \in Seq(S) /\ DOMAIN t = 1 .. n
      /\ \A i \in 1 .. n : t[i] = s[i + 1]
  BY HeadTailProperties, LenProperties, EmptySeq
<1>2. Head(s) = s[1]
  OBVIOUS
<1> HIDE DEF t, n
<1>3. /\ \A i \in rest : i \in 2 .. n + 1 /\ s[i].run = run
      /\ \A i \in 2 .. n + 1 : s[i].run = run => i \in rest
  BY <1>1 DEF Of
<1>4. /\ \A j \in Of(run, t) : j \in 1 .. n /\ s[j + 1].run = run
      /\ \A j \in 1 .. n : s[j + 1].run = run => j \in Of(run, t)
  BY <1>1 DEF Of
<1> HIDE DEF rest
<1>5. f \in [rest -> Of(run, t)]
  <2>1. ASSUME NEW i \in rest
        PROVE  i - 1 \in Of(run, t)
    <3>1. i \in 2 .. n + 1 /\ s[i].run = run
      BY <1>3
    <3>2. i - 1 \in 1 .. n /\ (i - 1) + 1 = i
      BY <3>1, <1>1
    <3> QED
      BY <3>1, <3>2, <1>4
  <2> QED
    BY <2>1
<1>6. f \in Injection(rest, Of(run, t))
  <2>1. ASSUME NEW i \in rest, NEW j \in rest, f[i] = f[j]
        PROVE  i = j
    BY <2>1, <1>3, <1>1
  <2> QED
    BY <2>1, <1>5, Fun_IsInj
<1>7. f \in Surjection(rest, Of(run, t))
  <2>1. ASSUME NEW j \in Of(run, t)
        PROVE  \E i \in rest : f[i] = j
    <3>1. j \in 1 .. n /\ s[j + 1].run = run
      BY <1>4
    <3>2. j + 1 \in 2 .. n + 1 /\ (j + 1) - 1 = j
      BY <3>1, <1>1
    <3>3. j + 1 \in rest
      BY <3>1, <3>2, <1>3
    <3> QED
      BY <3>2, <3>3
  <2> QED
    BY <2>1, <1>5, Fun_IsSurj
<1>8. IsFiniteSet(Of(run, s)) /\ Cardinality(Of(run, s)) \in Nat
  BY CountType
<1>9. /\ IsFiniteSet(rest)
      /\ Cardinality(rest) = IF 1 \in Of(run, s) THEN Cardinality(Of(run, s)) - 1
                             ELSE Cardinality(Of(run, s))
  BY <1>8, FS_RemoveElement DEF rest
<1>10. Cardinality(Of(run, t)) = Cardinality(rest)
  <2>1. ExistsBijection(rest, Of(run, t))
    BY <1>6, <1>7 DEF ExistsBijection, Bijection
  <2> QED
    BY <2>1, <1>9, FS_Bijection
<1>11. 1 \in Of(run, s) <=> Head(s).run = run
  BY <1>1, <1>2 DEF Of
<1> QED
  BY <1>8, <1>9, <1>10, <1>11 DEF t

-----------------------------------------------------------------------------
(***************************************************************************)
(* What the operators on a scenario's state do to it.                      *)
(***************************************************************************)
PhaseOf(s) ==
  CASE s.status = "absent" -> "absent"
    [] Open(s) -> "running"
    [] s.finalization # "none" /\ ~s.cleanup -> "finalizing"
    [] s.finalization # "none" /\ s.cleanup -> "cleaning"
    [] OTHER -> "finished"

OutcomeOf(s) ==
  CASE s.status \in {"absent", "running"} -> s.finalization
    [] OTHER -> s.status

\* A step of ScenarioLifecycle within a run.
LifeStep(z, n) ==
  \/ PhaseOf(n) = PhaseOf(z) /\ OutcomeOf(n) = OutcomeOf(z)
  \/ /\ \/ PhaseOf(z) = "running" /\ OutcomeOf(n) \in Outcome
        \/ PhaseOf(z) = "finalizing" /\ OutcomeOf(n) = "failed"
     /\ PhaseOf(n) \in {"finalizing", "cleaning", "finished"}
  \/ /\ PhaseOf(z) = "finalizing"
     /\ PhaseOf(n) \in {"cleaning", "finished"} /\ OutcomeOf(n) = OutcomeOf(z)
  \/ /\ PhaseOf(z) = "cleaning" /\ PhaseOf(n) = "finished"
     /\ OutcomeOf(n) \in {OutcomeOf(z), "failed"}
  \/ /\ PhaseOf(z) \in {"running", "finalizing", "cleaning"}
     /\ PhaseOf(n) = "finished" /\ OutcomeOf(n) = "cancelled"
  \/ PhaseOf(z) = "running" /\ PhaseOf(n) = "absent" /\ OutcomeOf(n) = "none"

\* Arms transitions, starts cleanup, or ends as was asked.
StepAdvances(z, n) ==
  \/ "transition" \in n.waits \ z.waits
  \/ n.cleanup /\ ~z.cleanup /\ n.finalization # "failed"
  \/ n.status \in {"completed", "stopped"} \ {z.status}

\* What one operation makes of a state, be it that the callback has come back
\* and that some actions are known to have settled: the cleanup handler is the
\* only callback it starts, and only where none is left on its way.
Step(z, n, back, settled) ==
  /\ Sound(n)
  /\ n.run = z.run \/ n = NoScenario
  /\ n.pending \subseteq z.pending
  /\ n.status = "running" =>
       /\ z.status = "running"
       /\ n.cleanup /\ ~z.cleanup => n.callback /\ lua_up /\ (z.callback => back)
       /\ ~(n.cleanup /\ ~z.cleanup) => (n.callback <=> z.callback /\ ~back)
  /\ n.cleanup /\ ~z.cleanup => n.status = "running"
  /\ StepAdvances(z, n) => z.pending \subseteq settled
  /\ LifeStep(z, n)

LEMMA StayFacts ==
  ASSUME NEW s, Sound(s), NEW settled
  PROVE  Step(s, s, FALSE, settled)
BY DEF Step, StepAdvances, LifeStep

LEMMA NoScenarioFacts == Sound(NoScenario) /\ NoScenario.status = "absent"
BY DEF NoScenario, NewScenario, Sound, ScenarioState, Status, Wait, Outcome, IsBusy, Open

LEMMA FinalizeFacts ==
  ASSUME NEW s, Sound(s), s.waits = {}, NEW status \in Status \ {"running"}
  PROVE  LET n == Finalize(s, status)
         IN  /\ Sound(n)
             /\ n.run = s.run /\ n.status = status /\ n.pending = {} /\ n.waits = {}
             /\ n.finalization = "none" /\ ~n.cleanup
BY DEF Finalize, Sound, ScenarioState, IsBusy, Open

\* The end of a run goes on only when nothing is left on its way.
LEMMA AdvanceFacts ==
  ASSUME NEW s, Sound(s), s.status = "running", s.finalization # "none"
  PROVE  LET n == AdvanceFinalization(s)
         IN  \/ n = s
             \/ /\ ~IsBusy(s) /\ ~s.cleanup
                /\ Sound(n) /\ n.run = s.run /\ n.pending = {} /\ n.waits = {}
                /\ \/ /\ n.status = "running" /\ n.finalization = s.finalization
                      /\ n.cleanup /\ n.callback /\ lua_up
                   \/ /\ n.status \in {s.finalization, "failed"}
                      /\ n.status \in Status \ {"running"}
                      /\ n.finalization = "none" /\ ~n.cleanup
<1>1. s.waits = {} /\ s.finalization \in Outcome /\ s \in ScenarioState
  BY DEF Sound, Open, ScenarioState
<1>2. {s.finalization, "failed"} \subseteq Status \ {"running"}
  BY <1>1 DEF Outcome, Status
<1>3. CASE IsBusy(s) \/ s.cleanup
  BY <1>3 DEF AdvanceFinalization
<1>4. CASE ~(IsBusy(s) \/ s.cleanup) /\ ~Handler(s)
  <2>1. AdvanceFinalization(s) = Finalize(s, s.finalization)
    BY <1>4 DEF AdvanceFinalization
  <2> QED
    BY <2>1, <1>1, <1>2, <1>4, FinalizeFacts
<1>5. CASE ~(IsBusy(s) \/ s.cleanup) /\ Handler(s) /\ ~lua_up
  <2>1. AdvanceFinalization(s) = Finalize(s, "failed")
    BY <1>5 DEF AdvanceFinalization, CleanupFailed
  <2> QED
    BY <2>1, <1>1, <1>2, <1>5, FinalizeFacts
<1>6. CASE ~(IsBusy(s) \/ s.cleanup) /\ Handler(s) /\ lua_up
  <2>1. AdvanceFinalization(s) = [s EXCEPT !.cleanup = TRUE, !.callback = TRUE]
    BY <1>6 DEF AdvanceFinalization
  <2> QED
    BY <2>1, <1>1, <1>6 DEF Sound, ScenarioState, Open, IsBusy
<1> QED
  BY <1>3, <1>4, <1>5, <1>6

\* A request to end: completed or stopped once, failed also afterwards, but
\* not during cleanup.
LEMMA RequestFacts ==
  ASSUME NEW s, Sound(s), NEW status \in Outcome, NEW discard \in BOOLEAN,
         discard => status = "failed", s.cleanup => status # "failed", NEW settled
  PROVE  Step(s, RequestFinalization(s, status, discard), FALSE, settled)
<1> DEFINE asked == [ClearWaits(s) EXCEPT !.finalization = status, !.cleanup = FALSE,
                               !.pending = IF discard THEN {} ELSE @,
                               !.waiting = ~discard /\ @]
           n == AdvanceFinalization(asked)
<1>1. CASE s.status # "running" \/ (s.finalization # "none" /\ status # "failed")
  BY <1>1, StayFacts DEF RequestFinalization
<1>2. CASE ~(s.status # "running" \/ (s.finalization # "none" /\ status # "failed"))
  <2>1. RequestFinalization(s, status, discard) = n
    BY <1>2 DEF RequestFinalization
  <2>2. s.status = "running" /\ ~s.cleanup /\ s \in ScenarioState
    BY <1>2 DEF Sound
  <2>3. /\ asked \in ScenarioState
        /\ asked.run = s.run /\ asked.status = "running" /\ asked.waits = {}
        /\ asked.finalization = status /\ asked.cleanup = FALSE
        /\ asked.callback = s.callback
        /\ asked.pending = IF discard THEN {} ELSE s.pending
    BY <2>2 DEF ClearWaits, ScenarioState
  <2>4. status # "none"
    BY DEF Outcome
  <2> HIDE DEF asked
  <2>5. Sound(asked)
    BY <2>2, <2>3, <2>4 DEF Sound, Open
  <2>6. \/ n = asked
        \/ /\ ~IsBusy(asked)
           /\ Sound(n) /\ n.run = s.run /\ n.pending = {} /\ n.waits = {}
           /\ \/ /\ n.status = "running" /\ n.finalization = status
                 /\ n.cleanup /\ n.callback /\ lua_up
              \/ /\ n.status \in {status, "failed"}
                 /\ n.status \in Status \ {"running"}
                 /\ n.finalization = "none" /\ ~n.cleanup
    BY <2>3, <2>4, <2>5, AdvanceFacts
  <2> HIDE DEF n
  <2>7. \/ PhaseOf(s) = "running"
        \/ PhaseOf(s) = "finalizing" /\ status = "failed"
    BY <1>2, <2>2 DEF PhaseOf, Open
  <2>8. CASE n = asked
    <3>1. PhaseOf(n) = "finalizing" /\ OutcomeOf(n) = status
      BY <2>3, <2>4, <2>8 DEF PhaseOf, OutcomeOf, Open
    <3>2. LifeStep(s, n)
      BY <3>1, <2>7 DEF LifeStep
    <3>3. ~StepAdvances(s, n)
      BY <2>3, <2>8 DEF StepAdvances
    <3>4. n.pending \subseteq s.pending
      BY <2>3, <2>8
    <3> QED
      BY <3>2, <3>3, <3>4, <2>1, <2>2, <2>3, <2>5, <2>8 DEF Step
  <2>9. CASE n # asked
    <3>1. /\ ~IsBusy(asked) /\ Sound(n) /\ n.run = s.run /\ n.pending = {}
          /\ n.waits = {}
      BY <2>6, <2>9
    <3>2. ~s.callback /\ (~discard => s.pending = {})
      BY <3>1, <2>3 DEF IsBusy
    <3>3. CASE /\ n.status = "running" /\ n.finalization = status
               /\ n.cleanup /\ n.callback /\ lua_up
      <4>1. PhaseOf(n) = "cleaning" /\ OutcomeOf(n) = status
        BY <3>3, <2>4 DEF PhaseOf, OutcomeOf, Open
      <4>2. LifeStep(s, n)
        BY <4>1, <2>7 DEF LifeStep
      <4>3. StepAdvances(s, n) => s.pending \subseteq settled
        BY <3>1, <3>2, <3>3, <2>2 DEF StepAdvances
      <4> QED
        BY <4>2, <4>3, <3>1, <3>2, <3>3, <2>1, <2>2 DEF Step
    <3>4. CASE /\ n.status \in {status, "failed"}
               /\ n.status \in Status \ {"running"}
               /\ n.finalization = "none" /\ ~n.cleanup
      <4>1. n.status \in Outcome /\ n.status # "absent"
        BY <3>4 DEF Outcome
      <4>2. PhaseOf(n) = "finished" /\ OutcomeOf(n) = n.status
        BY <3>4, <4>1 DEF PhaseOf, OutcomeOf, Open
      <4>3. LifeStep(s, n)
        BY <4>1, <4>2, <2>7, <3>4 DEF LifeStep
      <4>4. StepAdvances(s, n) => s.pending \subseteq settled
        BY <3>1, <3>2, <3>4, <2>2 DEF StepAdvances
      <4> QED
        BY <4>3, <4>4, <3>1, <3>4, <2>1, <2>2 DEF Step
    <3> QED
      BY <3>3, <3>4, <2>6, <2>9
  <2> QED
    BY <2>8, <2>9
<1> QED
  BY <1>1, <1>2

LEMMA PhaseDependsOn ==
  ASSUME NEW s, NEW n, n.status = s.status, n.finalization = s.finalization,
         n.cleanup = s.cleanup
  PROVE  PhaseOf(n) = PhaseOf(s) /\ OutcomeOf(n) = OutcomeOf(s) /\ (Open(n) <=> Open(s))
BY DEF PhaseOf, OutcomeOf, Open

\* Whatever changes only what a run waits for keeps its place in the lifecycle.
LEMMA WaitFacts ==
  ASSUME NEW s, Sound(s), NEW n \in ScenarioState, NEW settled,
         n.run = s.run, n.status = s.status, n.finalization = s.finalization,
         n.cleanup = s.cleanup, n.callback = s.callback, n.pending \subseteq s.pending,
         n.waits = s.waits \/ Open(s),
         "transition" \in n.waits \ s.waits => s.pending \subseteq settled
  PROVE  Step(s, n, FALSE, settled)
<1>1. PhaseOf(n) = PhaseOf(s) /\ OutcomeOf(n) = OutcomeOf(s) /\ (Open(n) <=> Open(s))
  BY PhaseDependsOn
<1>2. Sound(n)
  BY <1>1 DEF Sound, IsBusy
<1>3. StepAdvances(s, n) => s.pending \subseteq settled
  BY DEF StepAdvances
<1> QED
  BY <1>1, <1>2, <1>3 DEF Step, LifeStep

LEMMA ActivateFacts ==
  ASSUME NEW s, Sound(s), Open(s), s.pending = {}, NEW n \in ActivatePendingStage(s),
         NEW settled
  PROVE  Step(s, n, FALSE, settled)
<1> DEFINE entered == [s EXCEPT !.activation = FALSE]
<1>1. \/ n = s \/ n = entered
      \/ n = [entered EXCEPT !.waits = @ \cup {"transition"}] \/ n = NoScenario
  BY DEF ActivatePendingStage
<1>2. s \in ScenarioState
  BY DEF Sound
<1>3. CASE n = s
  BY <1>3, StayFacts
<1>4. CASE n = entered
  BY <1>2, <1>4, WaitFacts DEF ScenarioState
<1>5. CASE n = [entered EXCEPT !.waits = @ \cup {"transition"}]
  <2>1. n \in ScenarioState /\ n.pending = {}
    BY <1>2, <1>5 DEF ScenarioState, Wait
  <2> QED
    BY <1>2, <1>5, <2>1, WaitFacts DEF ScenarioState
<1>6. CASE n = NoScenario
  <2>1. /\ Sound(n) /\ n.status = "absent" /\ n.pending = {} /\ n.waits = {}
        /\ ~n.cleanup /\ n.finalization = "none"
    BY <1>6, NoScenarioFacts DEF NoScenario, NewScenario
  <2>2. PhaseOf(n) = "absent" /\ OutcomeOf(n) = "none" /\ PhaseOf(s) = "running"
    BY <2>1 DEF PhaseOf, OutcomeOf, Open
  <2>3. ~StepAdvances(s, n)
    BY <2>1 DEF StepAdvances
  <2> QED
    BY <1>6, <2>1, <2>2, <2>3 DEF Step, LifeStep
<1> QED
  BY <1>1, <1>3, <1>4, <1>5, <1>6

\* The callback and its actions are done.
LEMMA FinishFacts ==
  ASSUME NEW s, Sound(s), s.status = "running", ~IsBusy(s), NEW n \in FinishCallback(s),
         NEW settled
  PROVE  Step(s, n, FALSE, settled)
<1>1. s.pending = {} /\ ~s.callback /\ s \in ScenarioState
  BY DEF IsBusy, Sound
<1>2. CASE s.finalization = "none"
  <2>1. Open(s) /\ n \in ActivatePendingStage(s)
    BY <1>2 DEF Open, FinishCallback
  <2> QED
    BY <2>1, <1>1, ActivateFacts
<1>3. CASE s.finalization # "none" /\ s.cleanup
  <2>1. n = Finalize(s, s.finalization)
    BY <1>3 DEF FinishCallback
  <2>2. s.waits = {} /\ s.finalization \in Outcome
    BY <1>1, <1>3 DEF Sound, Open, ScenarioState
  <2>3. s.finalization \in Status \ {"running"} /\ s.finalization # "absent"
    BY <2>2 DEF Outcome, Status
  <2>4. /\ Sound(n) /\ n.run = s.run /\ n.status = s.finalization /\ n.pending = {}
        /\ n.waits = {} /\ n.finalization = "none" /\ ~n.cleanup
    BY <2>1, <2>2, <2>3, FinalizeFacts
  <2>5. PhaseOf(n) = "finished" /\ OutcomeOf(n) = s.finalization
    BY <2>3, <2>4 DEF PhaseOf, OutcomeOf, Open
  <2>6. PhaseOf(s) = "cleaning" /\ OutcomeOf(s) = s.finalization
    BY <1>3 DEF PhaseOf, OutcomeOf, Open
  <2> QED
    BY <1>1, <2>3, <2>4, <2>5, <2>6 DEF Step, LifeStep
<1>4. CASE s.finalization # "none" /\ ~s.cleanup
  <2>1. n = AdvanceFinalization(s)
    BY <1>4 DEF FinishCallback
  <2>2. PhaseOf(s) = "finalizing" /\ OutcomeOf(s) = s.finalization
    BY <1>4 DEF PhaseOf, OutcomeOf, Open
  <2>3. \/ n = s
        \/ /\ Sound(n) /\ n.run = s.run /\ n.pending = {} /\ n.waits = {}
           /\ \/ /\ n.status = "running" /\ n.finalization = s.finalization
                 /\ n.cleanup /\ n.callback /\ lua_up
              \/ /\ n.status \in {s.finalization, "failed"}
                 /\ n.status \in Status \ {"running"}
                 /\ n.finalization = "none" /\ ~n.cleanup
    BY <1>4, <2>1, AdvanceFacts
  <2>4. CASE n = s
    BY <2>4, StayFacts
  <2>5. CASE /\ Sound(n) /\ n.run = s.run /\ n.pending = {}
             /\ n.status = "running" /\ n.finalization = s.finalization
             /\ n.cleanup /\ n.callback /\ lua_up
    <3>1. PhaseOf(n) = "cleaning" /\ OutcomeOf(n) = s.finalization
      BY <1>4, <2>5 DEF PhaseOf, OutcomeOf, Open
    <3> QED
      BY <1>1, <1>4, <2>2, <2>5, <3>1 DEF Step, LifeStep
  <2>6. CASE /\ Sound(n) /\ n.run = s.run /\ n.pending = {}
             /\ n.status \in {s.finalization, "failed"}
             /\ n.status \in Status \ {"running"}
             /\ n.finalization = "none" /\ ~n.cleanup
    <3>1. n.status # "absent"
      BY <1>1, <1>4, <2>6 DEF ScenarioState, Outcome
    <3>2. PhaseOf(n) = "finished" /\ OutcomeOf(n) = n.status
      BY <2>6, <3>1 DEF PhaseOf, OutcomeOf, Open
    <3>3. LifeStep(s, n)
      BY <2>2, <2>6, <3>2 DEF LifeStep
    <3> QED
      BY <1>1, <2>6, <3>3 DEF Step
  <2> QED
    BY <2>3, <2>4, <2>5, <2>6
<1> QED
  BY <1>2, <1>3, <1>4

\* A step of the state whose callback has come back.
LEMMA BackFacts ==
  ASSUME NEW s, Sound(s), NEW r, NEW n, NEW settled,
         r = [s EXCEPT !.callback = FALSE], Step(r, n, FALSE, settled)
  PROVE  Step(s, n, TRUE, settled)
<1>1. /\ r.run = s.run /\ r.pending = s.pending /\ r.waits = s.waits
      /\ r.status = s.status /\ r.finalization = s.finalization
      /\ r.cleanup = s.cleanup /\ ~r.callback
  BY DEF Sound, ScenarioState
<1>2. PhaseOf(r) = PhaseOf(s) /\ OutcomeOf(r) = OutcomeOf(s)
  BY <1>1, PhaseDependsOn
<1>3. LifeStep(s, n)
  BY <1>2 DEF Step, LifeStep
<1>4. StepAdvances(s, n) => StepAdvances(r, n)
  BY <1>1 DEF StepAdvances
<1> QED
  BY <1>1, <1>3, <1>4 DEF Step

LEMMA BackIsSound ==
  ASSUME NEW s, Sound(s)
  PROVE  LET r == [s EXCEPT !.callback = FALSE]
         IN  /\ Sound(r) /\ ~r.callback
             /\ r.run = s.run /\ r.pending = s.pending /\ r.status = s.status
             /\ r.finalization = s.finalization /\ r.cleanup = s.cleanup
BY DEF Sound, ScenarioState, IsBusy, Open

LEMMA ReturnedFacts ==
  ASSUME NEW s, Sound(s), s.status = "running", NEW n \in CallbackReturned(s), NEW settled
  PROVE  Step(s, n, TRUE, settled)
<1> DEFINE r == [s EXCEPT !.callback = FALSE]
<1>1. /\ Sound(r) /\ ~r.callback /\ r.run = s.run /\ r.pending = s.pending
      /\ r.status = "running" /\ r.finalization = s.finalization /\ r.cleanup = s.cleanup
  BY BackIsSound
<1>2. CASE s.pending = {}
  <2>1. n \in FinishCallback(r)
    BY <1>2 DEF CallbackReturned
  <2>2. ~IsBusy(r)
    BY <1>1, <1>2 DEF IsBusy
  <2> HIDE DEF r
  <2>3. Step(r, n, FALSE, settled)
    BY <1>1, <2>1, <2>2, FinishFacts
  <2> QED
    BY <2>3, BackFacts DEF r
<1>3. CASE s.pending # {}
  <2>1. n = [s EXCEPT !.callback = FALSE, !.waiting = TRUE]
    BY <1>3 DEF CallbackReturned
  <2>2. /\ n \in ScenarioState /\ n.run = r.run /\ n.status = r.status
        /\ n.finalization = r.finalization /\ n.cleanup = r.cleanup
        /\ n.callback = r.callback /\ n.pending = r.pending /\ n.waits = r.waits
    BY <2>1 DEF Sound, ScenarioState
  <2> HIDE DEF r
  <2>3. Step(r, n, FALSE, settled)
    BY <1>1, <2>2, WaitFacts
  <2> QED
    BY <2>3, BackFacts DEF r
<1> QED
  BY <1>2, <1>3

LEMMA CleanupFailedFacts ==
  ASSUME NEW s, Sound(s), s.cleanup, NEW back \in BOOLEAN, NEW settled
  PROVE  Step(s, CleanupFailed(s), back, settled)
<1> DEFINE n == CleanupFailed(s)
<1>1. s.waits = {} /\ s.status = "running" /\ s.finalization # "none"
  BY DEF Sound, Open
<1>2. "failed" \in Status \ {"running"}
  BY DEF Status
<1>3. /\ Sound(n) /\ n.run = s.run /\ n.status = "failed" /\ n.pending = {}
      /\ n.waits = {} /\ n.finalization = "none" /\ ~n.cleanup
  BY <1>1, <1>2, FinalizeFacts DEF CleanupFailed
<1> HIDE DEF n
<1>4. PhaseOf(n) = "finished" /\ OutcomeOf(n) = "failed"
  BY <1>3 DEF PhaseOf, OutcomeOf, Open
<1>5. PhaseOf(s) = "cleaning"
  BY <1>1 DEF PhaseOf, Open
<1>6. LifeStep(s, n)
  BY <1>4, <1>5 DEF LifeStep
<1>7. ~StepAdvances(s, n)
  BY <1>3 DEF StepAdvances
<1> QED
  BY <1>3, <1>6, <1>7 DEF Step, n

LEMMA FailedFacts ==
  ASSUME NEW s, Sound(s), s.status = "running", NEW settled
  PROVE  Step(s, CallbackFailed(s), TRUE, settled)
<1> DEFINE r == [s EXCEPT !.callback = FALSE]
<1>1. /\ Sound(r) /\ ~r.callback /\ r.run = s.run /\ r.pending = s.pending
      /\ r.status = "running" /\ r.finalization = s.finalization /\ r.cleanup = s.cleanup
  BY BackIsSound
<1>2. CASE s.cleanup
  <2>1. CallbackFailed(s) = CleanupFailed(s)
    BY <1>2 DEF CallbackFailed
  <2> QED
    BY <1>2, <2>1, CleanupFailedFacts
<1>3. CASE ~s.cleanup /\ s.finalization = "failed"
  <2> DEFINE n == AdvanceFinalization(r)
  <2>1. CallbackFailed(s) = n
    BY <1>3 DEF CallbackFailed
  <2>2. n \in FinishCallback(r)
    BY <1>1, <1>3 DEF FinishCallback
  <2> HIDE DEF r, n
  <2>3. CASE ~IsBusy(r)
    <3>1. Step(r, n, FALSE, settled)
      BY <1>1, <2>2, <2>3, FinishFacts
    <3> QED
      BY <3>1, <2>1, BackFacts DEF r
  <2>4. CASE IsBusy(r)
    <3>1. n = r
      BY <2>4 DEF n, AdvanceFinalization
    <3>2. Step(r, n, FALSE, settled)
      BY <3>1, <1>1, StayFacts
    <3> QED
      BY <3>2, <2>1, BackFacts DEF r
  <2> QED
    BY <2>3, <2>4
<1>4. CASE ~s.cleanup /\ s.finalization # "failed"
  <2> DEFINE n == RequestFinalization(r, "failed", TRUE)
  <2>1. CallbackFailed(s) = n
    BY <1>4 DEF CallbackFailed
  <2>2. "failed" \in Outcome
    BY DEF Outcome
  <2> HIDE DEF r
  <2>3. Step(r, n, FALSE, settled)
    BY <1>1, <1>4, <2>2, RequestFacts
  <2> QED
    BY <2>1, <2>3, BackFacts DEF r
<1> QED
  BY <1>2, <1>3, <1>4

LEMMA AppliedFacts ==
  ASSUME NEW s, Sound(s), NEW action, NEW n \in ActionApplied(s, action)
  PROVE  /\ Step(s, n, FALSE, {action})
         /\ n.pending \subseteq s.pending \ {action} \/ s.pending = {}
         /\ ~IsBusy(s) => n = s
<1> DEFINE remaining == [s EXCEPT !.pending = @ \ {action}]
           done == [remaining EXCEPT !.waiting = FALSE]
<1>0. s \in ScenarioState
  BY DEF Sound
<1>1. /\ remaining \in ScenarioState /\ remaining.pending = s.pending \ {action}
      /\ remaining.run = s.run /\ remaining.status = s.status
      /\ remaining.finalization = s.finalization /\ remaining.cleanup = s.cleanup
      /\ remaining.callback = s.callback /\ remaining.waits = s.waits
  BY <1>0 DEF ScenarioState
<1>2. /\ done \in ScenarioState /\ done.pending = s.pending \ {action}
      /\ done.run = s.run /\ done.status = s.status
      /\ done.finalization = s.finalization /\ done.cleanup = s.cleanup
      /\ done.callback = s.callback /\ done.waits = s.waits
  BY <1>0, <1>1 DEF ScenarioState
<1>3. s.pending = {} => remaining = s
  <2>1. s.pending = {} => s.pending \ {action} = s.pending
    OBVIOUS
  <2> QED
    BY <2>1, <1>0 DEF ScenarioState
<1>4. CASE action \in s.pending /\ remaining.pending = {} /\ ~s.callback /\ s.waiting
  <2>1. n \in FinishCallback(done)
    BY <1>4 DEF ActionApplied
  <2> HIDE DEF remaining, done
  <2>2. s.status = "running" /\ IsBusy(s)
    BY <1>4 DEF Sound, IsBusy
  <2>3. Step(s, done, FALSE, {action})
    BY <1>2, WaitFacts
  <2>4. Sound(done) /\ ~IsBusy(done)
    BY <2>3, <1>1, <1>2, <1>4 DEF Step, IsBusy
  <2>5. Step(done, n, FALSE, {})
    BY <2>1, <2>2, <2>4, <1>2, FinishFacts
  <2>6. PhaseOf(done) = PhaseOf(s) /\ OutcomeOf(done) = OutcomeOf(s)
    BY <1>2, PhaseDependsOn
  <2>7. LifeStep(s, n)
    BY <2>5, <2>6 DEF Step, LifeStep
  <2>8. s.pending \subseteq {action}
    BY <1>1, <1>4
  <2>9. n.pending \subseteq s.pending \ {action}
    BY <2>5, <1>2 DEF Step
  <2>10. Step(s, n, FALSE, {action})
    BY <2>5, <2>7, <2>8, <2>9, <1>2 DEF Step
  <2> QED
    BY <2>2, <2>9, <2>10
<1>5. CASE ~(action \in s.pending /\ remaining.pending = {} /\ ~s.callback /\ s.waiting)
  <2>1. n = remaining
    BY <1>5 DEF ActionApplied
  <2> HIDE DEF remaining, done
  <2>2. Step(s, n, FALSE, {action})
    BY <2>1, <1>1, WaitFacts
  <2>3. ~IsBusy(s) => n = s
    BY <2>1, <1>3 DEF IsBusy
  <2> QED
    BY <2>1, <2>2, <2>3, <1>1
<1> QED
  BY <1>4, <1>5

LEMMA ActionFailedFacts ==
  ASSUME NEW s, Sound(s), NEW action, NEW settled
  PROVE  LET n == ActionFailed(s, action)
         IN  /\ Step(s, n, FALSE, settled)
             /\ action \notin n.pending
             /\ ~IsBusy(s) => n = s
<1> DEFINE n == ActionFailed(s, action)
<1>1. CASE action \notin s.pending
  <2>1. n = s
    BY <1>1 DEF ActionFailed
  <2> QED
    BY <1>1, <2>1, StayFacts
<1>2. CASE action \in s.pending /\ s.cleanup
  <2>1. n = CleanupFailed(s) /\ IsBusy(s)
    BY <1>2 DEF ActionFailed, IsBusy
  <2>2. n.pending = {}
    BY <2>1 DEF CleanupFailed, Finalize, Sound, ScenarioState
  <2>3. FALSE \in BOOLEAN
    OBVIOUS
  <2> QED
    BY <1>2, <2>1, <2>2, <2>3, CleanupFailedFacts
<1>3. CASE action \in s.pending /\ ~s.cleanup
  <2>1. n = RequestFinalization(s, "failed", TRUE) /\ IsBusy(s)
    BY <1>3 DEF ActionFailed, IsBusy
  <2>2. "failed" \in Outcome
    BY DEF Outcome
  <2>3. Step(s, n, FALSE, settled)
    BY <1>3, <2>1, <2>2, RequestFacts
  <2>4. n.pending = {}
    <3> DEFINE asked == [ClearWaits(s) EXCEPT !.finalization = "failed", !.cleanup = FALSE,
                                   !.pending = {}, !.waiting = FALSE]
    <3>1. s.status = "running" /\ s \in ScenarioState
      BY <2>1 DEF Sound
    <3>2. n = AdvanceFinalization(asked)
      BY <2>1, <3>1 DEF RequestFinalization
    <3>3. asked \in ScenarioState /\ asked.pending = {}
      BY <3>1 DEF ScenarioState, ClearWaits, Outcome
    <3> HIDE DEF asked
    <3> QED
      BY <3>2, <3>3 DEF AdvanceFinalization, CleanupFailed, Finalize, ScenarioState
  <2> QED
    BY <1>3, <2>1, <2>3, <2>4
<1> QED
  BY <1>1, <1>2, <1>3

LEMMA CancelFacts ==
  ASSUME NEW s, Sound(s), NEW settled
  PROVE  Step(s, CancelRun(s), FALSE, settled)
<1>1. CASE s.status # "running"
  BY <1>1, StayFacts DEF CancelRun
<1>2. CASE s.status = "running"
  <2> DEFINE c == ClearWaits(s)
             n == Finalize(c, "cancelled")
  <2>1. CancelRun(s) = n
    BY <1>2 DEF CancelRun
  <2>2. Sound(c) /\ c.waits = {} /\ c.run = s.run
    BY DEF Sound, ScenarioState, ClearWaits, Open, IsBusy
  <2>3. "cancelled" \in Status \ {"running"}
    BY DEF Status
  <2> HIDE DEF c
  <2>4. /\ Sound(n) /\ n.run = s.run /\ n.status = "cancelled" /\ n.pending = {}
        /\ n.waits = {} /\ n.finalization = "none" /\ ~n.cleanup
    BY <2>2, <2>3, FinalizeFacts
  <2> HIDE DEF n
  <2>5. PhaseOf(n) = "finished" /\ OutcomeOf(n) = "cancelled"
    BY <2>4 DEF PhaseOf, OutcomeOf, Open
  <2>6. PhaseOf(s) \in {"running", "finalizing", "cleaning"}
    BY <1>2 DEF PhaseOf, Open
  <2>7. LifeStep(s, n)
    BY <2>5, <2>6 DEF LifeStep
  <2>8. ~StepAdvances(s, n)
    BY <2>4 DEF StepAdvances
  <2> QED
    BY <2>1, <2>4, <2>7, <2>8 DEF Step
<1> QED
  BY <1>1, <1>2

-----------------------------------------------------------------------------
(***************************************************************************)
(* What the runtime's steps do to the run and to the queue of the Lua      *)
(* worker.                                                                 *)
(***************************************************************************)
Queued(run) == Cardinality(Of(run, lua_queue))
\* The callbacks of the run that Lua has begun, or that are back already.
Begun(run) ==
  Cardinality(Of(run, results))
    + (IF lua.run = run THEN 1 ELSE 0)
    + (IF In("results") THEN Cardinality(Of(run, poll.todo)) ELSE 0)

QueueIsOfRuns ==
  /\ lua_queue \in Seq(Invocation)
  /\ \A i \in 1 .. Len(lua_queue) : lua_queue[i].run # 0

\* The queue gets no invocation, or one of this run.
Sends(run) ==
  /\ QueueIsOfRuns'
  /\ \A r \in Nat : Queued(r)' = Queued(r) + (IF r = run THEN 1 ELSE 0)

SendsNothing == UNCHANGED lua_queue

Served(back, settled) ==
  /\ Sound(scenario')
  /\ scenario'.run = scenario.run \/ scenario' = NoScenario
  /\ scenario'.pending \subseteq scenario.pending
  /\ scenario'.status = "running" => scenario.status = "running"
  /\ StepAdvances(scenario, scenario') => scenario.pending \subseteq settled
  /\ LifeStep(scenario, scenario')
  /\ \/ /\ SendsNothing
        /\ scenario'.status = "running" => (scenario'.callback <=> scenario.callback /\ ~back)
     \/ /\ Sends(scenario.run)
        /\ lua_up /\ scenario'.status = "running" /\ scenario'.callback
        /\ scenario.callback => back

LEMMA AppendSends ==
  ASSUME QueueIsOfRuns, NEW run \in Nat \ {0}, NEW cause \in Cause,
         lua_queue' = Append(lua_queue, [run |-> run, cause |-> cause])
  PROVE  Sends(run)
<1> DEFINE m == [run |-> run, cause |-> cause]
<1>1. m \in Invocation /\ m.run = run
  BY DEF Invocation
<1> HIDE DEF m
<1>2. lua_queue' = Append(lua_queue, m) /\ lua_queue \in Seq(Invocation)
  BY DEF m, QueueIsOfRuns
<1>3. /\ lua_queue' \in Seq(Invocation)
      /\ Len(lua_queue) \in Nat /\ Len(lua_queue') = Len(lua_queue) + 1
      /\ \A i \in 1 .. Len(lua_queue) : lua_queue'[i] = lua_queue[i]
      /\ lua_queue'[Len(lua_queue) + 1] = m
  BY <1>1, <1>2, AppendProperties, LenProperties
<1>4. ASSUME NEW i \in 1 .. Len(lua_queue')
      PROVE  lua_queue'[i].run # 0
  <2>1. i \in 1 .. Len(lua_queue) \/ i = Len(lua_queue) + 1
    BY <1>3
  <2> QED
    BY <2>1, <1>1, <1>3 DEF QueueIsOfRuns
<1>5. ASSUME NEW r \in Nat
      PROVE  Queued(r)' = Queued(r) + (IF r = run THEN 1 ELSE 0)
  <2>1. Cardinality(Of(r, Append(lua_queue, m)))
          = Cardinality(Of(r, lua_queue)) + (IF m.run = r THEN 1 ELSE 0)
    BY <1>1, <1>2, CountAppend
  <2>2. Queued(r)' = Cardinality(Of(r, lua_queue'))
    BY DEF Queued, Of
  <2> QED
    BY <2>1, <2>2, <1>1, <1>2 DEF Queued
<1> QED
  BY <1>3, <1>4, <1>5 DEF Sends, QueueIsOfRuns

LEMMA UnchangedServed ==
  ASSUME Sound(scenario), UNCHANGED <<scenario, lua_queue>>, NEW settled
  PROVE  Served(FALSE, settled)
<1>1. Step(scenario, scenario, FALSE, settled)
  BY StayFacts
<1> QED
  BY <1>1 DEF Served, Step, SendsNothing

LEMMA BecomeServed ==
  ASSUME Sound(scenario), QueueIsOfRuns, NEW s, Become(s), NEW back \in BOOLEAN,
         NEW settled, Step(scenario, s, back, settled)
  PROVE  Served(back, settled)
<1>1. scenario' = s
  BY DEF Become
<1>2. CASE s.cleanup /\ ~scenario.cleanup
  <2>1. s.status = "running" /\ s.callback /\ lua_up /\ (scenario.callback => back)
    BY <1>2 DEF Step
  <2>2. s.run = scenario.run /\ scenario.run \in Nat \ {0}
    BY <2>1, NoScenarioFacts DEF Step, Sound, ScenarioState
  <2>3. lua_queue' = Append(lua_queue, [run |-> scenario.run, cause |-> "cleanup"])
    BY <1>2, <2>2 DEF Become
  <2>4. "cleanup" \in Cause
    BY DEF Cause
  <2>5. Sends(scenario.run)
    BY <2>2, <2>3, <2>4, AppendSends
  <2> QED
    BY <1>1, <2>1, <2>5 DEF Served, Step
<1>3. CASE ~(s.cleanup /\ ~scenario.cleanup)
  BY <1>1, <1>3 DEF Served, Step, Become, SendsNothing
<1> QED
  BY <1>2, <1>3

\* A callback is invoked for an idle run, with some waits taken off.
LEMMA InvokeServed ==
  ASSUME Sound(scenario), QueueIsOfRuns, Open(scenario), ~IsBusy(scenario),
         NEW s \in ScenarioState, NEW cause \in Cause, Invoke(s, cause),
         s.run = scenario.run, s.status = scenario.status, s.cleanup = scenario.cleanup,
         s.finalization = scenario.finalization, s.callback = scenario.callback,
         s.pending = scenario.pending, s.waits \subseteq scenario.waits, NEW settled
  PROVE  Served(FALSE, settled)
<1>0. /\ scenario.status = "running" /\ scenario.finalization = "none"
      /\ ~scenario.callback /\ scenario.pending = {} /\ scenario.run \in Nat \ {0}
      /\ scenario \in ScenarioState /\ ~scenario.cleanup
  BY DEF Open, IsBusy, Sound, ScenarioState
<1>1. "transition" \notin s.waits \ scenario.waits
  OBVIOUS
<1>2. Step(scenario, s, FALSE, settled)
  BY <1>1, WaitFacts
<1>3. CASE lua_up
  <2>1. /\ scenario' = [s EXCEPT !.callback = TRUE]
        /\ lua_queue' = Append(lua_queue, [run |-> scenario.run, cause |-> cause])
    BY <1>3 DEF Invoke
  <2>2. Sends(scenario.run)
    BY <1>0, <2>1, AppendSends
  <2>3. /\ scenario' \in ScenarioState
        /\ scenario'.run = s.run /\ scenario'.status = s.status
        /\ scenario'.cleanup = s.cleanup /\ scenario'.finalization = s.finalization
        /\ scenario'.callback /\ scenario'.pending = s.pending /\ scenario'.waits = s.waits
    BY <2>1 DEF ScenarioState
  <2>4. Open(scenario') /\ PhaseOf(scenario') = PhaseOf(scenario)
        /\ OutcomeOf(scenario') = OutcomeOf(scenario)
    BY <2>3, PhaseDependsOn
  <2>5. Sound(scenario')
    BY <1>0, <2>3, <2>4 DEF Sound, Open
  <2>6. ~StepAdvances(scenario, scenario')
    BY <1>0, <1>1, <2>3 DEF StepAdvances
  <2>7. LifeStep(scenario, scenario')
    BY <2>4 DEF LifeStep
  <2> QED
    BY <1>0, <1>3, <2>2, <2>3, <2>5, <2>6, <2>7 DEF Served
<1>4. CASE ~lua_up
  <2> DEFINE n == RequestFinalization(s, "failed", TRUE)
  <2>1. Become(n)
    BY <1>4 DEF Invoke
  <2>2. Sound(s) /\ ~s.cleanup /\ "failed" \in Outcome /\ TRUE \in BOOLEAN
    BY <1>0, <1>2 DEF Step, Outcome
  <2>3. Step(s, n, FALSE, {})
    BY <2>2, RequestFacts
  <2>4. PhaseOf(s) = PhaseOf(scenario) /\ OutcomeOf(s) = OutcomeOf(scenario)
    BY PhaseDependsOn
  <2> HIDE DEF n
  <2>5. LifeStep(scenario, n)
    BY <2>3, <2>4 DEF Step, LifeStep
  <2>6. StepAdvances(scenario, n) => scenario.pending \subseteq settled
    BY <1>0
  <2>7. Step(scenario, n, FALSE, settled)
    BY <2>3, <2>5, <2>6 DEF Step
  <2>8. FALSE \in BOOLEAN
    OBVIOUS
  <2> QED
    BY <2>1, <2>7, <2>8, BecomeServed
<1> QED
  BY <1>3, <1>4

\* What is outstanding is queued or begun, before a step and after it.
LEMMA OutstandingIs ==
  ASSUME TypeOK, PollTyped, NEW run \in Nat
  PROVE  /\ Queued(run) \in Nat /\ Begun(run) \in Nat
         /\ Outstanding(run) = Queued(run) + Begun(run)
<1>1. /\ Cardinality(Of(run, lua_queue)) \in Nat /\ Cardinality(Of(run, results)) \in Nat
      /\ In("results") => Cardinality(Of(run, poll.todo)) \in Nat
  BY CountType DEF TypeOK, PollTyped
<1> QED
  BY <1>1 DEF Outstanding, Queued, Begun

LEMMA OutstandingBecomes ==
  ASSUME TypeOK', PollTyped', NEW run \in Nat
  PROVE  /\ Queued(run)' \in Nat /\ Begun(run)' \in Nat
         /\ Outstanding(run)' = Queued(run)' + Begun(run)'
<1>1. /\ lua_queue' \in Seq(Invocation) /\ results' \in Seq(CallbackResult)
      /\ In("results")' => poll.todo' \in Seq(CallbackResult)
  BY DEF TypeOK, PollTyped
<1>2. /\ Cardinality(Of(run, lua_queue')) \in Nat /\ Cardinality(Of(run, results')) \in Nat
      /\ In("results")' => Cardinality(Of(run, poll.todo')) \in Nat
  BY <1>1, CountType
<1>3. /\ Of(run, lua_queue)' = Of(run, lua_queue') /\ Of(run, results)' = Of(run, results')
      /\ Of(run, poll.todo)' = Of(run, poll.todo')
  BY DEF Of
<1> QED
  BY <1>2, <1>3 DEF Outstanding, Queued, Begun

\* The callbacks stay accounted for; `from` is the run whose result is taken,
\* or 0.
LEMMA CallbacksAccounted ==
  ASSUME TypeOK, PollTyped, TypeOK', PollTyped', Sound(scenario), CallbackInv,
         NEW back \in BOOLEAN, NEW settled, Served(back, settled),
         UNCHANGED <<next_run_id, lua_up>>, NEW from \in Nat,
         \A run \in Nat \ {0} : Begun(run) = Begun(run)' + (IF run = from THEN 1 ELSE 0),
         back <=> from = scenario.run /\ scenario.status = "running"
  PROVE  CallbackInv'
<1>0. PICK own \in Nat : own = scenario.run
  BY DEF TypeOK, ScenarioState
<1>1. /\ own \in Nat /\ next_run_id \in Nat \ {0} /\ own < next_run_id
      /\ scenario.status = "running" => own # 0
      /\ next_run_id' = next_run_id /\ lua_up' = lua_up
  BY <1>0 DEF TypeOK, ScenarioState, CallbackInv, Sound
<1>2. scenario'.run = own \/ (scenario'.run = 0 /\ scenario'.status = "absent")
  BY <1>0 DEF Served, NoScenario, NewScenario
<1>3. \E sent \in {0, 1} :
        /\ \A run \in Nat : Queued(run)' = Queued(run) + (IF run = own THEN sent ELSE 0)
        /\ sent = 1 => /\ lua_up /\ scenario'.status = "running" /\ scenario'.callback
                       /\ scenario.callback => back
        /\ sent = 0 /\ scenario'.status = "running" =>
             (scenario'.callback <=> scenario.callback /\ ~back)
  <2>1. CASE SendsNothing
    <3>1. \A run \in Nat : Queued(run)' = Queued(run)
      BY <2>1 DEF SendsNothing, Queued, Of
    <3>2. \A run \in Nat : Queued(run)' = Queued(run) + (IF run = own THEN 0 ELSE 0)
      BY <3>1, OutstandingIs
    <3>3. CASE scenario'.status = "running" => (scenario'.callback <=> scenario.callback /\ ~back)
      <4> WITNESS 0 \in {0, 1}
      <4> QED
        BY <3>2, <3>3
    <3>4. CASE ~(scenario'.status = "running" => (scenario'.callback <=> scenario.callback /\ ~back))
      <4>1. /\ \A r \in Nat : Queued(r)' = Queued(r) + (IF r = own THEN 1 ELSE 0)
            /\ lua_up /\ scenario'.status = "running" /\ scenario'.callback
            /\ scenario.callback => back
        BY <3>4, <1>0 DEF Served, Sends
      <4> WITNESS 1 \in {0, 1}
      <4> QED
        BY <4>1
    <3> QED
      BY <3>3, <3>4
  <2>2. CASE ~SendsNothing
    <3>1. /\ \A r \in Nat : Queued(r)' = Queued(r) + (IF r = own THEN 1 ELSE 0)
          /\ lua_up /\ scenario'.status = "running" /\ scenario'.callback
          /\ scenario.callback => back
      BY <2>2, <1>0 DEF Served, Sends
    <3> WITNESS 1 \in {0, 1}
    <3> QED
      BY <3>1
  <2> QED
    BY <2>1, <2>2
<1>4. PICK sent \in {0, 1} :
        /\ \A run \in Nat : Queued(run)' = Queued(run) + (IF run = own THEN sent ELSE 0)
        /\ sent = 1 => /\ lua_up /\ scenario'.status = "running" /\ scenario'.callback
                       /\ scenario.callback => back
        /\ sent = 0 /\ scenario'.status = "running" =>
             (scenario'.callback <=> scenario.callback /\ ~back)
  BY <1>3
<1>5. scenario'.status = "running" => scenario.status = "running"
  BY DEF Served
<1>6. ASSUME NEW run \in Nat \ {0}
      PROVE  /\ Outstanding(run) \in Nat /\ Outstanding(run)' \in Nat
             /\ Outstanding(run)' =
                  Outstanding(run) + (IF run = own THEN sent ELSE 0)
                    - (IF run = from THEN 1 ELSE 0)
             /\ run = from => Outstanding(run) >= 1
  BY SMTT(30), <1>4, OutstandingIs, OutstandingBecomes
<1>7. /\ \A run \in Nat \ {0} : /\ Outstanding(run) <= 1
                                /\ run >= next_run_id => Outstanding(run) = 0
      /\ scenario.status = "running" =>
           /\ Outstanding(own) = 1 => scenario.callback
           /\ scenario.callback /\ lua_up => Outstanding(own) = 1
  BY <1>0, <1>1 DEF CallbackInv
<1>8. ASSUME NEW run \in Nat \ {0}
      PROVE  /\ Outstanding(run)' <= 1
             /\ run >= next_run_id => Outstanding(run)' = 0
  <2>1. CASE run # own
    <3>1. /\ Outstanding(run) \in Nat /\ Outstanding(run)' \in Nat
          /\ Outstanding(run)' = Outstanding(run) - (IF run = from THEN 1 ELSE 0)
      BY <2>1, <1>6
    <3>2. /\ Outstanding(run) <= 1
          /\ run >= next_run_id => Outstanding(run) = 0
      BY <1>7
    <3> QED
      BY <3>1, <3>2, <1>1
  <2>2. CASE run = own /\ sent = 0
    BY <2>2, <1>6, <1>7
  <2>3. CASE run = own /\ sent = 1
    <3>1. scenario.status = "running"
      BY <2>3, <1>4, <1>5
    <3>2. Outstanding(own) = 1 => own = from
      BY <2>3, <3>1, <1>0, <1>4, <1>7
    <3> QED
      BY <2>3, <3>2, <1>1, <1>6, <1>7
  <2> QED
    BY <2>1, <2>2, <2>3
<1>9. ASSUME scenario'.status = "running"
      PROVE  /\ scenario'.run = own
             /\ Outstanding(own)' = 1 => scenario'.callback
             /\ scenario'.callback /\ lua_up => Outstanding(own)' = 1
  <2>1. scenario.status = "running" /\ scenario'.run = own /\ own \in Nat \ {0}
    BY <1>1, <1>2, <1>5, <1>9
  <2>2. back <=> from = own
    BY <2>1, <1>0
  <2>3. /\ Outstanding(own)' =
             Outstanding(own) + sent - (IF own = from THEN 1 ELSE 0)
        /\ Outstanding(own) \in Nat /\ Outstanding(own) <= 1
        /\ own = from => Outstanding(own) = 1
    BY <1>6, <1>7, <2>1
  <2>4. CASE sent = 0 /\ own = from
    <3>1. ~scenario'.callback
      BY <1>4, <1>9, <2>2, <2>4
    <3>2. Outstanding(own)' = 0
      BY <2>3, <2>4
    <3> QED
      BY <3>1, <3>2, <2>1
  <2>5. CASE sent = 0 /\ own # from
    <3>1. scenario'.callback <=> scenario.callback
      BY <1>4, <1>9, <2>2, <2>5
    <3>2. Outstanding(own)' = Outstanding(own)
      BY <2>3, <2>5
    <3> QED
      BY <3>1, <3>2, <2>1, <1>7
  <2>6. CASE sent = 1
    <3>1. scenario'.callback /\ (scenario.callback => back) /\ lua_up
      BY <1>4, <2>6
    <3>2. CASE own = from
      BY <2>1, <2>3, <2>6, <3>1, <3>2
    <3>3. CASE own # from
      <4>1. ~scenario.callback
        BY <3>1, <3>3, <2>2
      <4>2. Outstanding(own) = 0
        BY <4>1, <2>1, <2>3, <1>7
      <4>3. Outstanding(own)' = 1
        BY <4>2, <2>3, <2>6, <3>3
      <4> QED
        BY <4>3, <3>1, <2>1
    <3> QED
      BY <3>2, <3>3
  <2> QED
    BY <2>4, <2>5, <2>6
<1>10. scenario'.run < next_run_id'
  BY <1>1, <1>2
<1>11. ASSUME NEW run \in Nat \ {0}, run = scenario'.run, scenario'.status = "running"
       PROVE  /\ Outstanding(run)' = 1 => scenario'.callback
              /\ scenario'.callback /\ lua_up' => Outstanding(run)' = 1
  <2>1. run = own
    BY <1>9, <1>11
  <2> QED
    BY <2>1, <1>1, <1>9, <1>11
<1> QED
  BY <1>1, <1>8, <1>10, <1>11 DEF CallbackInv

-----------------------------------------------------------------------------
(***************************************************************************)
(* The runtime's steps one by one.                                         *)
(***************************************************************************)
\* The next message of the phase is taken.
TakesNext(S) ==
  /\ poll.todo \in Seq(S) /\ poll.todo # <<>> /\ Head1 \in S
  /\ poll'.todo = Tail(poll.todo) /\ poll'.todo \in Seq(S)
  /\ poll' \in Poll /\ poll'.phase = poll.phase
  /\ poll'.fired = poll.fired /\ poll'.eligible = poll.eligible
  /\ PollTyped'

LEMMA NextCommand ==
  ASSUME TypeOK, PollTyped, In("commands"), Next1
  PROVE  TakesNext(LuaCommand)
<1>1. /\ poll.todo \in Seq(LuaCommand) /\ poll.todo # <<>>
      /\ poll' = [poll EXCEPT !.todo = Tail(poll.todo)] /\ poll \in Poll
  BY DEF PollTyped, Next1, TypeOK
<1>2. Head(poll.todo) \in LuaCommand /\ Tail(poll.todo) \in Seq(LuaCommand)
  BY <1>1, HeadTailProperties
<1> QED
  BY <1>1, <1>2 DEF TakesNext, PollTyped, Poll, In, Head1

LEMMA NextResult ==
  ASSUME TypeOK, PollTyped, In("results"), Next1
  PROVE  TakesNext(CallbackResult)
<1>1. /\ poll.todo \in Seq(CallbackResult) /\ poll.todo # <<>>
      /\ poll' = [poll EXCEPT !.todo = Tail(poll.todo)] /\ poll \in Poll
  BY DEF PollTyped, Next1, TypeOK
<1>2. Head(poll.todo) \in CallbackResult /\ Tail(poll.todo) \in Seq(CallbackResult)
  BY <1>1, HeadTailProperties
<1> QED
  BY <1>1, <1>2 DEF TakesNext, PollTyped, Poll, In, Head1

LEMMA NextEvent ==
  ASSUME TypeOK, PollTyped, In("events"), Next1
  PROVE  TakesNext(ActionEvent)
<1>1. /\ poll.todo \in Seq(ActionEvent) /\ poll.todo # <<>>
      /\ poll' = [poll EXCEPT !.todo = Tail(poll.todo)] /\ poll \in Poll
  BY DEF PollTyped, Next1, TypeOK
<1>2. Head(poll.todo) \in ActionEvent /\ Tail(poll.todo) \in Seq(ActionEvent)
  BY <1>1, HeadTailProperties
<1> QED
  BY <1>1, <1>2 DEF TakesNext, PollTyped, Poll, In, Head1

\* A phase of the poll begins with what it drains.
LEMMA EnterFacts ==
  ASSUME NEW phase \in {"commands", "results"},
         NEW todo \in Seq(IF phase = "commands" THEN LuaCommand ELSE CallbackResult),
         Enter(phase, todo)
  PROVE  /\ poll' \in Poll /\ PollTyped'
         /\ poll'.phase = phase /\ poll'.todo = todo /\ poll'.fired = "none"
BY DEF Enter, IdlePoll, Poll, Phase, PollTyped, In

LEMMA ServedTypes ==
  ASSUME TypeOK, QueueIsOfRuns, NEW back, NEW settled, Served(back, settled)
  PROVE  scenario' \in ScenarioState /\ Sound(scenario') /\ QueueIsOfRuns'
<1>1. scenario' \in ScenarioState /\ Sound(scenario')
  BY DEF Served, Sound
<1>2. CASE SendsNothing
  BY <1>1, <1>2 DEF SendsNothing, QueueIsOfRuns
<1>3. CASE ~SendsNothing
  BY <1>1, <1>3 DEF Served, Sends
<1> QED
  BY <1>2, <1>3

\* One command of a callback or of a console line, but an action or a
\* registration.
LEMMA CommandServed ==
  ASSUME TypeOK, Sound(scenario), QueueIsOfRuns, NEW kind \in CommandKind,
         ScenarioCommand(kind), kind # "register"
  PROVE  Served(FALSE, {}) /\ UNCHANGED next_run_id
<1>0. scenario \in ScenarioState /\ FALSE \in BOOLEAN
  BY DEF TypeOK
<1>1. CASE kind = "cancel"
  <2>1. Become(CancelRun(scenario)) /\ UNCHANGED next_run_id
    BY <1>1 DEF ScenarioCommand, Wait
  <2>2. Step(scenario, CancelRun(scenario), FALSE, {})
    BY CancelFacts
  <2> QED
    BY <1>0, <2>1, <2>2, BecomeServed
<1>2. CASE kind = "start"
  <2>1. StartStage /\ UNCHANGED next_run_id
    BY <1>2 DEF ScenarioCommand, Wait
  <2>2. CASE UNCHANGED <<scenario, lua_queue>>
    BY <2>1, <2>2, UnchangedServed
  <2>3. CASE /\ Open(scenario) /\ ~scenario.started /\ ~IsBusy(scenario)
             /\ Invoke([scenario EXCEPT !.started = TRUE, !.activation = TRUE], "stage")
    <3> DEFINE s == [scenario EXCEPT !.started = TRUE, !.activation = TRUE]
    <3>1. /\ s \in ScenarioState
          /\ s.run = scenario.run /\ s.status = scenario.status
          /\ s.cleanup = scenario.cleanup /\ s.finalization = scenario.finalization
          /\ s.callback = scenario.callback /\ s.pending = scenario.pending
          /\ s.waits \subseteq scenario.waits
      BY <1>0 DEF ScenarioState
    <3>2. "stage" \in Cause
      BY DEF Cause
    <3> HIDE DEF s
    <3>3. Invoke(s, "stage")
      BY <2>3 DEF s
    <3> QED
      BY <2>1, <2>3, <3>1, <3>2, <3>3, InvokeServed
  <2> QED
    BY <2>1, <2>2, <2>3 DEF StartStage
<1>3. CASE kind \in Wait \cup {"on_stop", "on_error", "complete", "stop"}
  <2>0. UNCHANGED next_run_id
    BY <1>3 DEF ScenarioCommand, Wait
  <2>1. CASE UNCHANGED <<scenario, lua_queue>>
    BY <2>0, <2>1, UnchangedServed
  <2>2. CASE kind \in Wait /\ Open(scenario) /\ Become([scenario EXCEPT !.waits = @ \cup {kind}])
    <3> DEFINE s == [scenario EXCEPT !.waits = @ \cup {kind}]
    <3>1. "transition" # kind
      BY DEF CommandKind
    <3>2. /\ s \in ScenarioState
          /\ s.run = scenario.run /\ s.status = scenario.status
          /\ s.cleanup = scenario.cleanup /\ s.finalization = scenario.finalization
          /\ s.callback = scenario.callback /\ s.pending = scenario.pending
          /\ s.waits = scenario.waits \cup {kind}
      BY <1>0, <2>2 DEF ScenarioState
    <3> HIDE DEF s
    <3>3. Step(scenario, s, FALSE, {})
      BY <2>2, <3>1, <3>2, WaitFacts
    <3> QED
      BY <1>0, <2>0, <2>2, <3>3, BecomeServed DEF s
  <2>3. CASE Open(scenario) /\ Become([scenario EXCEPT !.on_stop = TRUE])
    <3> DEFINE s == [scenario EXCEPT !.on_stop = TRUE]
    <3>1. /\ s \in ScenarioState
          /\ s.run = scenario.run /\ s.status = scenario.status
          /\ s.cleanup = scenario.cleanup /\ s.finalization = scenario.finalization
          /\ s.callback = scenario.callback /\ s.pending = scenario.pending
          /\ s.waits = scenario.waits
      BY <1>0 DEF ScenarioState
    <3> HIDE DEF s
    <3>2. Step(scenario, s, FALSE, {})
      BY <3>1, WaitFacts
    <3> QED
      BY <1>0, <2>0, <2>3, <3>2, BecomeServed DEF s
  <2>4. CASE Open(scenario) /\ Become([scenario EXCEPT !.on_error = TRUE])
    <3> DEFINE s == [scenario EXCEPT !.on_error = TRUE]
    <3>1. /\ s \in ScenarioState
          /\ s.run = scenario.run /\ s.status = scenario.status
          /\ s.cleanup = scenario.cleanup /\ s.finalization = scenario.finalization
          /\ s.callback = scenario.callback /\ s.pending = scenario.pending
          /\ s.waits = scenario.waits
      BY <1>0 DEF ScenarioState
    <3> HIDE DEF s
    <3>2. Step(scenario, s, FALSE, {})
      BY <3>1, WaitFacts
    <3> QED
      BY <1>0, <2>0, <2>4, <3>2, BecomeServed DEF s
  <2>5. ASSUME NEW status \in {"stopped", "completed"},
               Become(RequestFinalization(scenario, status, FALSE))
        PROVE  Served(FALSE, {})
    <3>1. status \in Outcome /\ status # "failed"
      BY DEF Outcome
    <3>2. Step(scenario, RequestFinalization(scenario, status, FALSE), FALSE, {})
      BY <1>0, <3>1, RequestFacts
    <3> QED
      BY <1>0, <2>5, <3>2, BecomeServed
  <2>6. \/ UNCHANGED <<scenario, lua_queue>>
        \/ /\ kind \in Wait /\ Open(scenario)
           /\ Become([scenario EXCEPT !.waits = @ \cup {kind}])
        \/ Open(scenario) /\ Become([scenario EXCEPT !.on_stop = TRUE])
        \/ Open(scenario) /\ Become([scenario EXCEPT !.on_error = TRUE])
        \/ Become(RequestFinalization(scenario,
                    IF kind = "stop" THEN "stopped" ELSE "completed", FALSE))
    BY <1>3 DEF ScenarioCommand, Wait
  <2> QED
    BY <2>0, <2>1, <2>2, <2>3, <2>4, <2>5, <2>6
<1> QED
  BY <1>1, <1>2, <1>3 DEF ScenarioCommand

\* A command is refused, serves the run, dispatches one of its actions, or
\* registers a new run.
LEMMA ExecuteServed ==
  ASSUME TypeOK, Sound(scenario), QueueIsOfRuns, PollTyped, OfSomeRun, ExecuteCommand
  PROVE  /\ TakesNext(LuaCommand) /\ In("commands")
         /\ UNCHANGED <<lua_commands, results, application_events, lua, lua_up>>
         /\ \/ Served(FALSE, {}) /\ UNCHANGED <<next_run_id, next_action_id, in_flight>>
            \/ /\ DispatchAction(Head1)
               /\ Head1.run = scenario.run /\ scenario.status = "running"
            \/ /\ scenario' = NewScenario(next_run_id) /\ next_run_id' = next_run_id + 1
               /\ UNCHANGED <<lua_queue, next_action_id, in_flight>>
<1>1. /\ In("commands") /\ Next1
      /\ UNCHANGED <<lua_commands, results, application_events, lua, lua_up>>
  BY DEF ExecuteCommand
<1>2. TakesNext(LuaCommand)
  BY <1>1, NextCommand
<1>3. CASE Head1.run # 0 /\ ~AcceptsSteps(scenario, Head1.run)
  <2>1. UNCHANGED <<scenario, next_run_id, next_action_id, lua_queue, in_flight>>
    BY <1>3 DEF ExecuteCommand
  <2> QED
    BY <1>1, <1>2, <2>1, UnchangedServed
<1>4. CASE ~(Head1.run # 0 /\ ~AcceptsSteps(scenario, Head1.run))
  <2>1. CASE DispatchAction(Head1)
    <3>1. Head1.kind = "action" /\ Head1 = poll.todo[1] /\ 1 \in 1 .. Len(poll.todo)
      <4>1. Len(poll.todo) \in Nat \ {0}
        BY <1>2, EmptySeq DEF TakesNext
      <4> QED
        BY <2>1, <4>1 DEF DispatchAction, Head1
    <3>2. Head1.run # 0
      BY <1>1, <3>1 DEF OfSomeRun
    <3> QED
      BY <1>1, <1>2, <1>4, <2>1, <3>2 DEF AcceptsSteps
  <2>2. CASE ScenarioCommand(Head1.kind) /\ UNCHANGED <<next_action_id, in_flight>>
    <3>1. Head1.kind \in CommandKind
      BY <1>2 DEF TakesNext, LuaCommand
    <3>2. CASE Head1.kind = "register"
      <4>1. /\ scenario' = NewScenario(next_run_id) /\ next_run_id' = next_run_id + 1
            /\ UNCHANGED lua_queue
        BY <2>2, <3>2 DEF ScenarioCommand, Wait
      <4> QED
        BY <1>1, <1>2, <2>2, <4>1
    <3>3. CASE Head1.kind # "register"
      BY <1>1, <1>2, <2>2, <3>1, <3>3, CommandServed
    <3> QED
      BY <3>2, <3>3
  <2> QED
    BY <1>4, <2>1, <2>2 DEF ExecuteCommand
<1> QED
  BY <1>3, <1>4

LEMMA ResultServed ==
  ASSUME TypeOK, Sound(scenario), QueueIsOfRuns, PollTyped, HandleResult
  PROVE  /\ TakesNext(CallbackResult) /\ In("results")
         /\ \/ AcceptsSteps(scenario, Head1.run) /\ Served(TRUE, {})
            \/ ~AcceptsSteps(scenario, Head1.run) /\ Served(FALSE, {})
<1>1. In("results") /\ Next1 /\ TRUE \in BOOLEAN
  BY DEF HandleResult
<1>2. TakesNext(CallbackResult)
  BY <1>1, NextResult
<1>3. CASE ~AcceptsSteps(scenario, Head1.run)
  <2>1. UNCHANGED <<scenario, lua_queue>>
    BY <1>3 DEF HandleResult
  <2> QED
    BY <1>1, <1>2, <1>3, <2>1, UnchangedServed
<1>4. CASE AcceptsSteps(scenario, Head1.run) /\ Head1.ok
  <2>1. PICK s \in CallbackReturned(scenario) : Become(s)
    BY <1>4 DEF HandleResult
  <2>2. scenario.status = "running"
    BY <1>4 DEF AcceptsSteps
  <2>3. Step(scenario, s, TRUE, {})
    BY <2>2, ReturnedFacts
  <2> QED
    BY <1>1, <1>2, <1>4, <2>1, <2>3, BecomeServed
<1>5. CASE AcceptsSteps(scenario, Head1.run) /\ ~Head1.ok
  <2>1. Become(CallbackFailed(scenario))
    BY <1>5 DEF HandleResult
  <2>2. scenario.status = "running"
    BY <1>5 DEF AcceptsSteps
  <2>3. Step(scenario, CallbackFailed(scenario), TRUE, {})
    BY <2>2, FailedFacts
  <2> QED
    BY <1>1, <1>2, <1>5, <2>1, <2>3, BecomeServed
<1> QED
  BY <1>3, <1>4, <1>5

\* An event settles its action, and does nothing to an idle run.
LEMMA EventServed ==
  ASSUME TypeOK, Sound(scenario), QueueIsOfRuns, PollTyped, HandleEvent
  PROVE  /\ TakesNext(ActionEvent) /\ In("events")
         /\ Served(FALSE, {Head1.action})
         /\ Head1.action \notin scenario'.pending
         /\ ~IsBusy(scenario) => scenario' = scenario
<1>1. In("events") /\ Next1 /\ FALSE \in BOOLEAN
  BY DEF HandleEvent
<1>2. TakesNext(ActionEvent)
  BY <1>1, NextEvent
<1>3. CASE Head1.ok
  <2>1. PICK s \in ActionApplied(scenario, Head1.action) : Become(s)
    BY <1>3 DEF HandleEvent
  <2>2. /\ Step(scenario, s, FALSE, {Head1.action})
        /\ s.pending \subseteq scenario.pending \ {Head1.action} \/ scenario.pending = {}
        /\ ~IsBusy(scenario) => s = scenario
    BY AppliedFacts
  <2>3. s.pending \subseteq scenario.pending
    BY <2>2 DEF Step
  <2> QED
    BY <1>1, <1>2, <2>1, <2>2, <2>3, BecomeServed DEF Become
<1>4. CASE ~Head1.ok
  <2> DEFINE s == ActionFailed(scenario, Head1.action)
  <2>1. Become(s)
    BY <1>4 DEF HandleEvent
  <2>2. /\ Step(scenario, s, FALSE, {Head1.action})
        /\ Head1.action \notin s.pending
        /\ ~IsBusy(scenario) => s = scenario
    BY ActionFailedFacts
  <2> QED
    BY <1>1, <1>2, <2>1, <2>2, BecomeServed DEF Become
<1> QED
  BY <1>3, <1>4

\* Only an open run waits for anything, so only an open run has a callback
\* invoked at the end of a poll.
LEMMA FinishServed ==
  ASSUME TypeOK, Sound(scenario), QueueIsOfRuns, PollTyped, FiredIsStillGood, FinishPoll
  PROVE  Served(FALSE, {})
<1>0. scenario \in ScenarioState /\ {"trigger", "stage"} \subseteq Cause
  BY DEF TypeOK, Cause
<1>1. PICK fired \in {poll.fired} \cup
                  (IF poll.fired = "none" /\ poll.eligible /\ ~IsBusy(scenario)
                   THEN scenario.waits \ {"timer"} ELSE {}) :
       LET left == [scenario EXCEPT !.waits = @ \ {fired}]
       IN  CASE fired = "none" -> UNCHANGED <<scenario, lua_queue>>
             [] fired = "transition" -> Invoke([left EXCEPT !.activation = TRUE], "stage")
             [] OTHER -> IF scenario.status = "running" THEN Invoke(left, "trigger")
                         ELSE UNCHANGED <<scenario, lua_queue>>
  BY DEF FinishPoll
<1> DEFINE left == [scenario EXCEPT !.waits = @ \ {fired}]
           entered == [left EXCEPT !.activation = TRUE]
<1>2. CASE UNCHANGED <<scenario, lua_queue>>
  BY <1>2, UnchangedServed
<1>3. fired # "none" => Open(scenario) /\ ~IsBusy(scenario)
  <2>1. CASE fired = poll.fired
    BY <2>1 DEF FiredIsStillGood
  <2>2. CASE fired # poll.fired
    <3>1. ~IsBusy(scenario) /\ fired \in scenario.waits
      BY <2>2
    <3> QED
      BY <3>1 DEF Sound
  <2> QED
    BY <2>1, <2>2
<1>4. /\ left \in ScenarioState
      /\ left.run = scenario.run /\ left.status = scenario.status
      /\ left.cleanup = scenario.cleanup /\ left.finalization = scenario.finalization
      /\ left.callback = scenario.callback /\ left.pending = scenario.pending
      /\ left.waits \subseteq scenario.waits
  BY <1>0 DEF ScenarioState
<1>5. /\ entered \in ScenarioState
      /\ entered.run = scenario.run /\ entered.status = scenario.status
      /\ entered.cleanup = scenario.cleanup
      /\ entered.finalization = scenario.finalization
      /\ entered.callback = scenario.callback /\ entered.pending = scenario.pending
      /\ entered.waits \subseteq scenario.waits
  BY <1>0, <1>4 DEF ScenarioState
<1>6. \/ UNCHANGED <<scenario, lua_queue>>
      \/ fired # "none" /\ Invoke(entered, "stage")
      \/ fired # "none" /\ Invoke(left, "trigger")
  BY <1>1
<1> HIDE DEF left, entered
<1>7. CASE fired # "none" /\ Invoke(entered, "stage")
  BY <1>0, <1>3, <1>5, <1>7, InvokeServed
<1>8. CASE fired # "none" /\ Invoke(left, "trigger")
  BY <1>0, <1>3, <1>4, <1>8, InvokeServed
<1> QED
  BY <1>2, <1>6, <1>7, <1>8

\* A wait that fires is taken off.
LEMMA TakenOffServed ==
  ASSUME TypeOK, Sound(scenario), NEW fired, UNCHANGED lua_queue,
         scenario' = [scenario EXCEPT !.waits = @ \ {fired}]
  PROVE  /\ Served(FALSE, {})
         /\ Open(scenario') <=> Open(scenario)
         /\ IsBusy(scenario') <=> IsBusy(scenario)
<1>1. /\ scenario' \in ScenarioState
      /\ scenario'.run = scenario.run /\ scenario'.status = scenario.status
      /\ scenario'.cleanup = scenario.cleanup
      /\ scenario'.finalization = scenario.finalization
      /\ scenario'.callback = scenario.callback /\ scenario'.pending = scenario.pending
      /\ scenario'.waits \subseteq scenario.waits
  BY DEF TypeOK, ScenarioState
<1>2. PhaseOf(scenario') = PhaseOf(scenario) /\ OutcomeOf(scenario') = OutcomeOf(scenario)
      /\ (Open(scenario') <=> Open(scenario))
  BY <1>1, PhaseDependsOn
<1>3. Sound(scenario')
  BY <1>1, <1>2 DEF Sound, IsBusy
<1>4. ~StepAdvances(scenario, scenario')
  BY <1>1 DEF StepAdvances
<1> QED
  BY <1>1, <1>2, <1>3, <1>4 DEF Served, LifeStep, SendsNothing, IsBusy

-----------------------------------------------------------------------------
(***************************************************************************)
(* Types are kept.                                                         *)
(***************************************************************************)
Typed == TypeOK /\ Sound(scenario) /\ PollTyped /\ OfSomeRun

LEMMA TypedQueue == Typed => QueueIsOfRuns
BY DEF Typed, TypeOK, OfSomeRun, QueueIsOfRuns

LEMMA LuaKeepsTypes ==
  ASSUME Typed,
         \/ \E kind \in Kinds : LuaSend(kind)
         \/ LuaStep \/ LuaStops \/ \E ok \in BOOLEAN : ActionSettles(ok)
  PROVE  Typed'
<1> USE DEF Typed
<1>1. ASSUME NEW kind \in Kinds, LuaSend(kind)
      PROVE  Typed'
  <2> DEFINE m == [run |-> lua.run, cause |-> lua.cause, kind |-> kind]
  <2>1. m \in LuaCommand /\ (m.kind = "action" => m.run # 0)
    BY <1>1, ScenarioAssumption DEF LuaSend, LuaCommand, TypeOK, Invocation, OfSomeRun
  <2>2. lua_commands' = Append(lua_commands, m) /\ lua_commands \in Seq(LuaCommand)
    BY <1>1 DEF LuaSend, TypeOK
  <2> HIDE DEF m
  <2>3. /\ lua_commands' \in Seq(LuaCommand)
        /\ Len(lua_commands) \in Nat /\ Len(lua_commands') = Len(lua_commands) + 1
        /\ \A i \in 1 .. Len(lua_commands) : lua_commands'[i] = lua_commands[i]
        /\ lua_commands'[Len(lua_commands) + 1] = m
    BY <2>1, <2>2, AppendProperties, LenProperties
  <2>4. ASSUME NEW i \in 1 .. Len(lua_commands'), lua_commands'[i].kind = "action"
        PROVE  lua_commands'[i].run # 0
    <3>1. i \in 1 .. Len(lua_commands) \/ i = Len(lua_commands) + 1
      BY <2>3
    <3> QED
      BY <3>1, <2>1, <2>3, <2>4 DEF OfSomeRun
  <2>5. UNCHANGED <<scenario, next_run_id, next_action_id, lua_queue, results,
                    application_events, lua, lua_up, in_flight, poll>>
    BY <1>1 DEF LuaSend
  <2>6. TypeOK' /\ Sound(scenario')
    BY <2>3, <2>5 DEF TypeOK
  <2>7. PollTyped'
    BY <2>5 DEF PollTyped, In
  <2>8. OfSomeRun'
    BY <2>4, <2>5 DEF OfSomeRun, In
  <2> QED
    BY <2>6, <2>7, <2>8
<1>2. CASE LuaBegin
  <2>1. /\ lua_queue # <<>> /\ lua_queue \in Seq(Invocation)
        /\ lua' = Head(lua_queue) /\ lua_queue' = Tail(lua_queue)
        /\ UNCHANGED <<scenario, next_run_id, next_action_id, lua_commands, results,
                       application_events, lua_up, in_flight, poll>>
    BY <1>2 DEF LuaBegin, TypeOK
  <2>2. /\ lua' \in Invocation /\ lua_queue' \in Seq(Invocation)
        /\ Len(lua_queue) \in Nat \ {0} /\ Len(lua_queue') = Len(lua_queue) - 1
        /\ \A i \in 1 .. Len(lua_queue') : lua_queue'[i] = lua_queue[i + 1]
        /\ lua' = lua_queue[1]
    BY <2>1, HeadTailProperties, EmptySeq
  <2>3. lua'.run # 0 /\ \A i \in 1 .. Len(lua_queue') : lua_queue'[i].run # 0
    <3>1. 1 \in 1 .. Len(lua_queue)
      BY <2>2
    <3>2. \A i \in 1 .. Len(lua_queue') : i + 1 \in 1 .. Len(lua_queue)
      BY <2>2
    <3> QED
      BY <3>1, <3>2, <2>2 DEF OfSomeRun
  <2>4. TypeOK' /\ Sound(scenario')
    BY <2>1, <2>2 DEF TypeOK
  <2>5. PollTyped'
    BY <2>1 DEF PollTyped, In
  <2>6. OfSomeRun'
    BY <2>1, <2>3 DEF OfSomeRun, In
  <2> QED
    BY <2>4, <2>5, <2>6
<1>3. ASSUME NEW ok \in BOOLEAN, LuaReturn(ok)
      PROVE  Typed'
  <2> DEFINE m == [run |-> lua.run, cause |-> lua.cause, ok |-> ok]
  <2>1. m \in CallbackResult
    BY DEF TypeOK, Invocation, CallbackResult
  <2>2. /\ results' = Append(results, m) /\ results \in Seq(CallbackResult)
        /\ lua' = NoInvocation
        /\ UNCHANGED <<scenario, next_run_id, next_action_id, lua_commands, lua_queue,
                       application_events, lua_up, in_flight, poll>>
    BY <1>3 DEF LuaReturn, TypeOK
  <2> HIDE DEF m
  <2>3. results' \in Seq(CallbackResult)
    BY <2>1, <2>2, AppendProperties
  <2>4. NoInvocation \in Invocation
    BY DEF NoInvocation, Invocation, Cause
  <2>5. TypeOK' /\ Sound(scenario')
    BY <2>2, <2>3, <2>4 DEF TypeOK
  <2>6. PollTyped'
    BY <2>2 DEF PollTyped, In
  <2>7. OfSomeRun'
    BY <2>2 DEF OfSomeRun, In
  <2> QED
    BY <2>5, <2>6, <2>7
<1>4. CASE LuaStops
  <2>1. /\ lua_up' = FALSE /\ lua' = NoInvocation /\ lua_queue' = <<>>
        /\ UNCHANGED <<scenario, next_run_id, next_action_id, lua_commands, results,
                       application_events, in_flight, poll>>
    BY <1>4 DEF LuaStops
  <2>2. NoInvocation \in Invocation /\ <<>> \in Seq(Invocation) /\ Len(<<>>) = 0
    BY EmptySeq DEF NoInvocation, Invocation, Cause
  <2>3. TypeOK' /\ Sound(scenario')
    BY <2>1, <2>2 DEF TypeOK
  <2>4. PollTyped'
    BY <2>1 DEF PollTyped, In
  <2>5. OfSomeRun'
    BY <2>1, <2>2 DEF OfSomeRun, In
  <2> QED
    BY <2>3, <2>4, <2>5
<1>5. ASSUME NEW ok \in BOOLEAN, ActionSettles(ok)
      PROVE  Typed'
  <2>1. PICK d \in in_flight :
          /\ in_flight' = in_flight \ {d}
          /\ application_events' = Append(application_events, [action |-> d.action, ok |-> ok])
    BY <1>5 DEF ActionSettles
  <2>2. UNCHANGED <<scenario, next_run_id, next_action_id, lua_commands, lua_queue,
                    results, lua, lua_up, poll>>
    BY <1>5 DEF ActionSettles
  <2>3. [action |-> d.action, ok |-> ok] \in ActionEvent
    BY DEF TypeOK, Dispatched, ActionEvent
  <2>4. application_events' \in Seq(ActionEvent)
    BY <2>1, <2>3, AppendProperties DEF TypeOK
  <2>5. in_flight' \subseteq Dispatched
    BY <2>1 DEF TypeOK
  <2>6. TypeOK' /\ Sound(scenario')
    BY <2>2, <2>4, <2>5 DEF TypeOK
  <2>7. PollTyped'
    BY <2>2 DEF PollTyped, In
  <2>8. OfSomeRun'
    BY <2>2 DEF OfSomeRun, In
  <2> QED
    BY <2>6, <2>7, <2>8
<1> QED
  BY <1>1, <1>2, <1>3, <1>4, <1>5 DEF LuaStep

LEMMA NewScenarioFacts ==
  ASSUME NEW run \in Nat \ {0}
  PROVE  LET n == NewScenario(run)
         IN  /\ Sound(n) /\ Open(n) /\ n.run = run /\ n.status = "running"
             /\ ~n.callback /\ n.pending = {} /\ ~n.cleanup
             /\ n.finalization = "none"
BY DEF NewScenario, Sound, ScenarioState, Status, Outcome, Wait, IsBusy, Open

LEMMA RuntimeKeepsTypes ==
  ASSUME Typed, FiredIsStillGood, RuntimeStep \/ MeasurementArrives
  PROVE  Typed'
<1> USE DEF Typed
<1>0. QueueIsOfRuns
  BY TypedQueue
<1>1. CASE DrainCommands
  <2>1. /\ Enter("commands", lua_commands) /\ lua_commands' = <<>>
        /\ UNCHANGED <<scenario, next_run_id, next_action_id, lua_queue, results,
                       application_events, lua, lua_up, in_flight>>
    BY <1>1 DEF DrainCommands
  <2>2. poll' \in Poll /\ PollTyped' /\ poll'.phase = "commands" /\ poll'.todo = lua_commands
    BY <2>1, EnterFacts DEF TypeOK
  <2>3. <<>> \in Seq(LuaCommand) /\ Len(<<>>) = 0
    BY EmptySeq
  <2>4. TypeOK' /\ Sound(scenario')
    BY <2>1, <2>2, <2>3 DEF TypeOK
  <2>5. OfSomeRun'
    BY <2>1, <2>2, <2>3 DEF OfSomeRun, In
  <2> QED
    BY <2>2, <2>4, <2>5
<1>2. CASE ExecuteCommand
  <2>1. /\ TakesNext(LuaCommand) /\ In("commands")
        /\ UNCHANGED <<lua_commands, results, application_events, lua, lua_up>>
        /\ \/ Served(FALSE, {}) /\ UNCHANGED <<next_run_id, next_action_id, in_flight>>
           \/ /\ DispatchAction(Head1)
              /\ Head1.run = scenario.run /\ scenario.status = "running"
           \/ /\ scenario' = NewScenario(next_run_id) /\ next_run_id' = next_run_id + 1
              /\ UNCHANGED <<lua_queue, next_action_id, in_flight>>
    BY <1>0, <1>2, ExecuteServed
  <2>2. /\ scenario' \in ScenarioState /\ Sound(scenario') /\ QueueIsOfRuns'
        /\ next_run_id' \in Nat \ {0} /\ next_action_id' \in Nat \ {0}
        /\ in_flight' \subseteq Dispatched
    <3>1. CASE Served(FALSE, {}) /\ UNCHANGED <<next_run_id, next_action_id, in_flight>>
      BY <1>0, <3>1, ServedTypes DEF TypeOK
    <3>2. CASE DispatchAction(Head1) /\ scenario.status = "running"
      <4>1. /\ scenario' = [scenario EXCEPT !.pending = @ \cup {next_action_id}]
            /\ next_action_id' = next_action_id + 1
            /\ UNCHANGED <<next_run_id, lua_queue>>
            /\ in_flight' = in_flight \cup {[action |-> next_action_id, run |-> Head1.run,
                                             cause |-> Head1.cause]}
        BY <3>2 DEF DispatchAction
      <4>2. [action |-> next_action_id, run |-> Head1.run, cause |-> Head1.cause] \in Dispatched
        BY <2>1 DEF TakesNext, LuaCommand, Dispatched, TypeOK
      <4>3. scenario' \in ScenarioState /\ Sound(scenario')
        BY <3>2, <4>1 DEF TypeOK, Sound, ScenarioState, Open, IsBusy
      <4>4. QueueIsOfRuns'
        BY <1>0, <4>1 DEF QueueIsOfRuns
      <4> QED
        BY <4>1, <4>2, <4>3, <4>4 DEF TypeOK
    <3>3. CASE /\ scenario' = NewScenario(next_run_id) /\ next_run_id' = next_run_id + 1
               /\ UNCHANGED <<lua_queue, next_action_id, in_flight>>
      <4>1. scenario' \in ScenarioState /\ Sound(scenario')
        BY <3>3, NewScenarioFacts DEF TypeOK, Sound
      <4>2. QueueIsOfRuns'
        BY <1>0, <3>3 DEF QueueIsOfRuns
      <4> QED
        BY <3>3, <4>1, <4>2 DEF TypeOK
    <3> QED
      BY <2>1, <3>1, <3>2, <3>3
  <2>3. TypeOK'
    BY <2>1, <2>2 DEF TypeOK, TakesNext, QueueIsOfRuns
  <2>4. \A i \in 1 .. Len(poll'.todo) : poll'.todo[i].kind = "action" => poll'.todo[i].run # 0
    <3>1. /\ poll.todo \in Seq(LuaCommand) /\ poll.todo # <<>> /\ poll'.todo = Tail(poll.todo)
      BY <2>1 DEF TakesNext
    <3>2. /\ Len(poll.todo) \in Nat /\ Len(poll'.todo) = Len(poll.todo) - 1
          /\ \A i \in 1 .. Len(poll'.todo) : poll'.todo[i] = poll.todo[i + 1]
      BY <3>1, HeadTailProperties, LenProperties
    <3>3. \A i \in 1 .. Len(poll'.todo) : i + 1 \in 1 .. Len(poll.todo)
      BY <3>2
    <3> QED
      BY <3>2, <3>3, <2>1 DEF OfSomeRun
  <2>5. OfSomeRun'
    BY <2>1, <2>2, <2>4 DEF OfSomeRun, QueueIsOfRuns, In
  <2> QED
    BY <2>1, <2>2, <2>3, <2>5 DEF TakesNext
<1>3. CASE DrainResults
  <2>1. /\ Enter("results", results) /\ results' = <<>>
        /\ UNCHANGED <<scenario, next_run_id, next_action_id, lua_commands, lua_queue,
                       application_events, lua, lua_up, in_flight>>
    BY <1>3 DEF DrainResults
  <2>2. poll' \in Poll /\ PollTyped' /\ poll'.phase = "results"
    BY <2>1, EnterFacts DEF TypeOK
  <2>3. <<>> \in Seq(CallbackResult)
    BY EmptySeq
  <2>4. TypeOK' /\ Sound(scenario')
    BY <2>1, <2>2, <2>3 DEF TypeOK
  <2>5. OfSomeRun'
    BY <2>1, <2>2 DEF OfSomeRun, In
  <2> QED
    BY <2>2, <2>4, <2>5
<1>4. CASE HandleResult
  <2>1. TakesNext(CallbackResult) /\ In("results")
        /\ \E back \in BOOLEAN : Served(back, {})
    BY <1>0, <1>4, ResultServed
  <2>2. scenario' \in ScenarioState /\ Sound(scenario') /\ QueueIsOfRuns'
    BY <1>0, <2>1, ServedTypes
  <2>3. UNCHANGED <<next_run_id, next_action_id, lua_commands, results,
                    application_events, lua, lua_up, in_flight>>
    BY <1>4 DEF HandleResult
  <2>4. TypeOK'
    BY <2>1, <2>2, <2>3 DEF TypeOK, TakesNext, QueueIsOfRuns
  <2>5. OfSomeRun'
    BY <2>1, <2>2, <2>3 DEF OfSomeRun, QueueIsOfRuns, TakesNext, In
  <2> QED
    BY <2>1, <2>2, <2>4, <2>5 DEF TakesNext
<1>5. CASE DrainEvents
  <2>1. PICK fired \in {"none"} \cup (IF Ready("timer") THEN {"timer"} ELSE {}) :
          /\ poll' = [phase |-> "events", todo |-> application_events, fired |-> fired,
                      eligible |-> Open(scenario) /\ ~IsBusy(scenario)]
          /\ scenario' = [scenario EXCEPT !.waits = @ \ {fired}]
    BY <1>5 DEF DrainEvents
  <2>2. /\ application_events' = <<>>
        /\ UNCHANGED <<next_run_id, next_action_id, lua_commands, lua_queue, results, lua,
                       lua_up, in_flight>>
    BY <1>5 DEF DrainEvents
  <2>3. Served(FALSE, {})
    BY <2>1, <2>2, TakenOffServed
  <2>4. scenario' \in ScenarioState /\ Sound(scenario')
    BY <1>0, <2>3, ServedTypes
  <2>5. (Open(scenario) /\ ~IsBusy(scenario)) \in BOOLEAN /\ fired \in Wait \cup {"none"}
    BY DEF Open, IsBusy, Wait
  <2>6. poll' \in Poll /\ PollTyped' /\ poll'.phase = "events"
    BY <2>1, <2>5 DEF Poll, Phase, PollTyped, In, TypeOK
  <2>7. <<>> \in Seq(ActionEvent)
    BY EmptySeq
  <2>8. TypeOK'
    BY <2>2, <2>4, <2>6, <2>7 DEF TypeOK
  <2>9. OfSomeRun'
    BY <2>2, <2>6 DEF OfSomeRun, In
  <2> QED
    BY <2>4, <2>6, <2>8, <2>9
<1>6. CASE HandleEvent
  <2>1. TakesNext(ActionEvent) /\ In("events") /\ Served(FALSE, {Head1.action})
    BY <1>0, <1>6, EventServed
  <2>2. scenario' \in ScenarioState /\ Sound(scenario') /\ QueueIsOfRuns'
    BY <1>0, <2>1, ServedTypes
  <2>3. UNCHANGED <<next_run_id, next_action_id, lua_commands, results,
                    application_events, lua, lua_up, in_flight>>
    BY <1>6 DEF HandleEvent
  <2>4. TypeOK'
    BY <2>1, <2>2, <2>3 DEF TypeOK, TakesNext, QueueIsOfRuns
  <2>5. OfSomeRun'
    BY <2>1, <2>2, <2>3 DEF OfSomeRun, QueueIsOfRuns, TakesNext, In
  <2> QED
    BY <2>1, <2>2, <2>4, <2>5 DEF TakesNext
<1>7. CASE FinishPoll
  <2>1. Served(FALSE, {})
    BY <1>0, <1>7, FinishServed
  <2>2. scenario' \in ScenarioState /\ Sound(scenario') /\ QueueIsOfRuns'
    BY <1>0, <2>1, ServedTypes
  <2>3. /\ poll' = IdlePoll
        /\ UNCHANGED <<next_run_id, next_action_id, lua_commands, results,
                       application_events, lua, lua_up, in_flight>>
    BY <1>7 DEF FinishPoll
  <2>4. poll' \in Poll /\ PollTyped' /\ poll'.phase = "idle"
    BY <2>3 DEF IdlePoll, Poll, Phase, PollTyped, In
  <2>5. TypeOK'
    BY <2>2, <2>3, <2>4 DEF TypeOK, QueueIsOfRuns
  <2>6. OfSomeRun'
    BY <2>2, <2>3, <2>4 DEF OfSomeRun, QueueIsOfRuns, In
  <2> QED
    BY <2>2, <2>4, <2>5, <2>6
<1>8. CASE MeasurementArrives
  <2>1. /\ In("events") /\ poll' = [poll EXCEPT !.fired = "condition"]
        /\ scenario' = [scenario EXCEPT !.waits = @ \ {"condition"}]
        /\ UNCHANGED <<next_run_id, next_action_id, channelVars, lua, lua_up, in_flight>>
    BY <1>8 DEF MeasurementArrives
  <2>2. Served(FALSE, {})
    BY <2>1, TakenOffServed DEF channelVars
  <2>3. scenario' \in ScenarioState /\ Sound(scenario')
    BY <1>0, <2>2, ServedTypes
  <2>4. poll' \in Poll /\ PollTyped' /\ poll'.phase = "events"
    BY <2>1 DEF Poll, Wait, PollTyped, In, TypeOK
  <2>5. TypeOK'
    BY <2>1, <2>3, <2>4 DEF TypeOK, channelVars
  <2>6. OfSomeRun'
    BY <2>1, <2>4 DEF OfSomeRun, In, channelVars
  <2> QED
    BY <2>3, <2>4, <2>5, <2>6
<1> QED
  BY <1>1, <1>2, <1>3, <1>4, <1>5, <1>6, <1>7, <1>8 DEF RuntimeStep

-----------------------------------------------------------------------------
(***************************************************************************)
(* Callbacks stay serialized.                                              *)
(***************************************************************************)
\* A callback on its way to Lua, in Lua, or on its way back is one callback;
\* it is lost only with the Lua worker.
LEMMA CallbacksMove ==
  ASSUME Typed, Typed', CallbackInv, UNCHANGED <<scenario, next_run_id>>,
         lua_up' => lua_up,
         \A run \in Nat \ {0} :
           \/ Queued(run)' + Begun(run)' = Queued(run) + Begun(run)
           \/ ~lua_up' /\ Queued(run)' + Begun(run)' <= Queued(run) + Begun(run)
  PROVE  CallbackInv'
<1>1. ASSUME NEW run \in Nat \ {0}
      PROVE  /\ Outstanding(run)' \in Nat /\ Outstanding(run) \in Nat
             /\ Outstanding(run)' <= Outstanding(run)
             /\ lua_up' => Outstanding(run)' = Outstanding(run)
  BY OutstandingIs, OutstandingBecomes DEF Typed
<1>2. ASSUME NEW run \in Nat \ {0}
      PROVE  /\ Outstanding(run)' <= 1
             /\ run >= next_run_id' => Outstanding(run)' = 0
  BY <1>1 DEF CallbackInv
<1>3. ASSUME NEW run \in Nat \ {0}, run = scenario'.run, scenario'.status = "running"
      PROVE  /\ Outstanding(run)' = 1 => scenario'.callback
             /\ scenario'.callback /\ lua_up' => Outstanding(run)' = 1
  <2>1. /\ Outstanding(run) <= 1
        /\ Outstanding(run) = 1 => scenario.callback
        /\ scenario.callback /\ lua_up => Outstanding(run) = 1
    BY <1>3 DEF CallbackInv
  <2>2. Outstanding(run)' = 1 => Outstanding(run) = 1
    BY <2>1, <1>1
  <2>3. lua_up' /\ Outstanding(run) = 1 => Outstanding(run)' = 1
    BY <1>1
  <2> QED
    BY <2>1, <2>2, <2>3
<1>4. scenario'.run < next_run_id'
  BY DEF CallbackInv
<1> QED
  BY <1>2, <1>3, <1>4 DEF CallbackInv

\* The counts before and after a step, of the variables they depend on.
Count(run, messages) == Cardinality(Of(run, messages))
One(run, message) == IF message.run = run THEN 1 ELSE 0
Back(run, p) == IF p.phase = "results" THEN Count(run, p.todo) ELSE 0

LEMMA CountsAre ==
  ASSUME Typed, Typed', NEW run \in Nat
  PROVE  /\ Queued(run) = Count(run, lua_queue)
         /\ Queued(run)' = Count(run, lua_queue')
         /\ Begun(run) = Count(run, results) + One(run, lua) + Back(run, poll)
         /\ Begun(run)' = Count(run, results') + One(run, lua') + Back(run, poll')
         /\ Count(run, lua_queue) \in Nat /\ Count(run, lua_queue') \in Nat
         /\ Count(run, results) \in Nat /\ Count(run, results') \in Nat
         /\ One(run, lua) \in Nat /\ One(run, lua') \in Nat
         /\ Back(run, poll) \in Nat /\ Back(run, poll') \in Nat
<1>1. /\ lua_queue \in Seq(Invocation) /\ lua_queue' \in Seq(Invocation)
      /\ results \in Seq(CallbackResult) /\ results' \in Seq(CallbackResult)
      /\ poll.phase = "results" => poll.todo \in Seq(CallbackResult)
      /\ poll'.phase = "results" => poll'.todo \in Seq(CallbackResult)
  BY DEF Typed, TypeOK, PollTyped, In
<1>2. /\ Count(run, lua_queue) \in Nat /\ Count(run, lua_queue') \in Nat
      /\ Count(run, results) \in Nat /\ Count(run, results') \in Nat
      /\ poll.phase = "results" => Count(run, poll.todo) \in Nat
      /\ poll'.phase = "results" => Count(run, poll'.todo) \in Nat
  BY <1>1, CountType DEF Count
<1>3. /\ One(run, lua) \in Nat /\ One(run, lua') \in Nat
      /\ Back(run, poll) \in Nat /\ Back(run, poll') \in Nat
  BY <1>2 DEF One, Back
<1>4. /\ Queued(run) = Count(run, lua_queue) /\ Queued(run)' = Count(run, lua_queue')
      /\ Begun(run) = Count(run, results) + One(run, lua) + Back(run, poll)
      /\ Begun(run)' = Count(run, results') + One(run, lua') + Back(run, poll')
  BY DEF Queued, Begun, Count, One, Back, In, Of
<1> QED
  BY <1>2, <1>3, <1>4

LEMMA LuaKeepsCallbacks ==
  ASSUME Typed, Typed', CallbackInv,
         \/ \E kind \in Kinds : LuaSend(kind)
         \/ LuaStep \/ LuaStops \/ \E ok \in BOOLEAN : ActionSettles(ok)
  PROVE  CallbackInv'
<1> DEFINE Moved == /\ UNCHANGED <<scenario, next_run_id>> /\ (lua_up' => lua_up)
                    /\ \A run \in Nat \ {0} :
                         \/ Queued(run)' + Begun(run)' = Queued(run) + Begun(run)
                         \/ ~lua_up' /\ Queued(run)' + Begun(run)' <= Queued(run) + Begun(run)
<1>1. CASE (\E kind \in Kinds : LuaSend(kind)) \/ \E ok \in BOOLEAN : ActionSettles(ok)
  <2>1. UNCHANGED <<scenario, next_run_id, lua_queue, results, lua, lua_up, poll>>
    BY <1>1 DEF LuaSend, ActionSettles
  <2>2. ASSUME NEW run \in Nat \ {0}
        PROVE  Queued(run)' = Queued(run) /\ Begun(run)' = Begun(run)
    BY <2>1, CountsAre
  <2> QED
    BY <2>1, <2>2, CallbacksMove
<1>2. CASE LuaBegin
  <2>1. /\ lua_queue # <<>> /\ lua_queue \in Seq(Invocation) /\ lua = NoInvocation
        /\ lua' = Head(lua_queue) /\ lua_queue' = Tail(lua_queue)
        /\ UNCHANGED <<scenario, next_run_id, results, lua_up, poll>>
    BY <1>2 DEF LuaBegin, Typed, TypeOK
  <2>2. ASSUME NEW run \in Nat \ {0}
        PROVE  Queued(run)' + Begun(run)' = Queued(run) + Begun(run)
    <3>1. Count(run, lua_queue)
            = Count(run, lua_queue') + One(run, lua')
      BY <2>1, CountTail DEF Count, One
    <3>2. One(run, lua) = 0
      BY <2>1 DEF NoInvocation, One
    <3>3. Back(run, poll') = Back(run, poll) /\ Count(run, results') = Count(run, results)
      BY <2>1
    <3> QED
      BY <3>1, <3>2, <3>3, CountsAre
  <2> QED
    BY <2>1, <2>2, CallbacksMove
<1>3. ASSUME NEW ok \in BOOLEAN, LuaReturn(ok)
      PROVE  CallbackInv'
  <2> DEFINE m == [run |-> lua.run, cause |-> lua.cause, ok |-> ok]
  <2>1. m \in CallbackResult /\ m.run = lua.run
    BY DEF Typed, TypeOK, Invocation, CallbackResult
  <2>2. /\ results' = Append(results, m) /\ results \in Seq(CallbackResult)
        /\ lua' = NoInvocation
        /\ UNCHANGED <<scenario, next_run_id, lua_queue, lua_up, poll>>
    BY <1>3 DEF LuaReturn, Typed, TypeOK
  <2> HIDE DEF m
  <2>3. ASSUME NEW run \in Nat \ {0}
        PROVE  Queued(run)' + Begun(run)' = Queued(run) + Begun(run)
    <3>1. Count(run, results')
            = Count(run, results) + One(run, lua)
      BY <2>1, <2>2, CountAppend DEF Count, One
    <3>2. One(run, lua') = 0
      BY <2>2 DEF NoInvocation, One
    <3>3. Back(run, poll') = Back(run, poll) /\ Count(run, lua_queue') = Count(run, lua_queue)
      BY <2>2
    <3> QED
      BY <3>1, <3>2, <3>3, CountsAre
  <2> QED
    BY <2>2, <2>3, CallbacksMove
<1>4. CASE LuaStops
  <2>1. /\ ~lua_up' /\ lua' = NoInvocation /\ lua_queue' = <<>>
        /\ UNCHANGED <<scenario, next_run_id, results, poll>>
    BY <1>4 DEF LuaStops
  <2>2. ASSUME NEW run \in Nat \ {0}
        PROVE  Queued(run)' + Begun(run)' <= Queued(run) + Begun(run)
    <3>1. Count(run, lua_queue') = 0 /\ One(run, lua') = 0
      BY <2>1, CountEmpty DEF Count, NoInvocation, One
    <3>2. Back(run, poll') = Back(run, poll) /\ Count(run, results') = Count(run, results)
      BY <2>1
    <3> QED
      BY <3>1, <3>2, CountsAre
  <2> QED
    BY <2>1, <2>2, CallbacksMove
<1> QED
  BY <1>1, <1>2, <1>3, <1>4 DEF LuaStep

LEMMA RuntimeKeepsCallbacks ==
  ASSUME Typed, Typed', CallbackInv, FiredIsStillGood, RuntimeStep \/ MeasurementArrives
  PROVE  CallbackInv'
<1>0. /\ QueueIsOfRuns /\ TypeOK /\ Sound(scenario) /\ PollTyped /\ OfSomeRun
      /\ TypeOK' /\ PollTyped' /\ TRUE \in BOOLEAN /\ FALSE \in BOOLEAN
      /\ 0 \in Nat /\ ~(0 = scenario.run /\ scenario.status = "running")
  BY TypedQueue DEF Typed, Sound
<1>1. CASE DrainCommands
  <2>1. /\ In("idle") /\ Enter("commands", lua_commands)
        /\ UNCHANGED <<scenario, next_run_id, lua_queue, results, lua, lua_up>>
    BY <1>1 DEF DrainCommands
  <2>2. poll'.phase = "commands" /\ poll.phase = "idle"
    BY <2>1 DEF Enter, IdlePoll, In
  <2>3. ASSUME NEW run \in Nat \ {0}
        PROVE  Queued(run)' + Begun(run)' = Queued(run) + Begun(run)
    <3>1. Back(run, poll) = 0 /\ Back(run, poll') = 0
      BY <2>2 DEF Back
    <3> QED
      BY <2>1, <3>1, CountsAre
  <2> QED
    BY <2>1, <2>3, CallbacksMove
<1>2. CASE ExecuteCommand
  <2>1. /\ TakesNext(LuaCommand) /\ In("commands")
        /\ UNCHANGED <<lua_commands, results, application_events, lua, lua_up>>
        /\ \/ Served(FALSE, {}) /\ UNCHANGED <<next_run_id, next_action_id, in_flight>>
           \/ /\ DispatchAction(Head1)
              /\ Head1.run = scenario.run /\ scenario.status = "running"
           \/ /\ scenario' = NewScenario(next_run_id) /\ next_run_id' = next_run_id + 1
              /\ UNCHANGED <<lua_queue, next_action_id, in_flight>>
    BY <1>0, <1>2, ExecuteServed
  <2>2. ASSUME NEW run \in Nat \ {0}
        PROVE  Begun(run)' = Begun(run) /\ Begun(run) \in Nat
    <3>1. Back(run, poll) = 0 /\ Back(run, poll') = 0
      BY <2>1 DEF TakesNext, In, Back
    <3> QED
      BY <2>1, <3>1, CountsAre
  <2>3. CASE Served(FALSE, {}) /\ UNCHANGED next_run_id
    <3>1. \A run \in Nat \ {0} : Begun(run) = Begun(run)' + (IF run = 0 THEN 1 ELSE 0)
      BY <2>2
    <3> QED
      BY <1>0, <2>1, <2>3, <3>1, CallbacksAccounted
  <2>4. CASE DispatchAction(Head1)
    <3>1. /\ scenario' = [scenario EXCEPT !.pending = @ \cup {next_action_id}]
          /\ UNCHANGED <<next_run_id, lua_queue>>
      BY <2>4 DEF DispatchAction
    <3>2. /\ scenario'.run = scenario.run /\ scenario'.status = scenario.status
          /\ scenario'.callback = scenario.callback
      BY <1>0, <3>1 DEF TypeOK, ScenarioState
    <3>3. ASSUME NEW run \in Nat \ {0}
          PROVE  Outstanding(run)' = Outstanding(run)
      <4>1. Queued(run)' = Queued(run)
        BY <3>1, CountsAre
      <4> QED
        BY <4>1, <2>2, <1>0, OutstandingIs, OutstandingBecomes
    <3> QED
      BY <2>1, <3>1, <3>2, <3>3 DEF CallbackInv
  <2>5. CASE /\ scenario' = NewScenario(next_run_id) /\ next_run_id' = next_run_id + 1
             /\ UNCHANGED lua_queue
    <3>1. ~scenario'.callback /\ scenario'.run = next_run_id /\ next_run_id \in Nat \ {0}
      BY <1>0, <2>5 DEF NewScenario, TypeOK
    <3>2. ASSUME NEW run \in Nat \ {0}
          PROVE  Outstanding(run)' = Outstanding(run)
      <4>1. Queued(run)' = Queued(run)
        BY <2>5, CountsAre
      <4> QED
        BY <4>1, <2>2, <1>0, OutstandingIs, OutstandingBecomes
    <3>3. ASSUME NEW run \in Nat \ {0}
          PROVE  /\ Outstanding(run)' <= 1
                 /\ run >= next_run_id => Outstanding(run)' = 0
      BY <3>2 DEF CallbackInv
    <3>4. ASSUME NEW run \in Nat \ {0}, run >= next_run_id'
          PROVE  run >= next_run_id
      BY <2>5, <3>1, <3>4
    <3>5. Outstanding(next_run_id)' = Outstanding(next_run_id)' /\ scenario'.run < next_run_id'
      BY <2>5, <3>1
    <3>6. ASSUME NEW run \in Nat \ {0}, run = scenario'.run
          PROVE  Outstanding(run)' # 1
      BY <3>1, <3>3, <3>6
    <3> QED
      BY <3>1, <3>3, <3>4, <3>5, <3>6 DEF CallbackInv
  <2> QED
    BY <2>1, <2>3, <2>4, <2>5
<1>3. CASE DrainResults
  <2>1. /\ In("commands") /\ Enter("results", results) /\ results' = <<>>
        /\ UNCHANGED <<scenario, next_run_id, lua_queue, lua, lua_up>>
    BY <1>3 DEF DrainResults
  <2>2. poll'.phase = "results" /\ poll.phase = "commands" /\ poll'.todo = results
    BY <2>1 DEF Enter, IdlePoll, In
  <2>3. ASSUME NEW run \in Nat \ {0}
        PROVE  Queued(run)' + Begun(run)' = Queued(run) + Begun(run)
    <3>1. Count(run, results') = 0 /\ Back(run, poll) = 0 /\ Back(run, poll') = Count(run, results)
      BY <2>1, <2>2, CountEmpty DEF Count, Back
    <3> QED
      BY <2>1, <2>2, <3>1, CountsAre
  <2> QED
    BY <2>1, <2>3, CallbacksMove
<1>4. CASE HandleResult
  <2>1. /\ TakesNext(CallbackResult) /\ In("results")
        /\ \/ AcceptsSteps(scenario, Head1.run) /\ Served(TRUE, {})
           \/ ~AcceptsSteps(scenario, Head1.run) /\ Served(FALSE, {})
    BY <1>0, <1>4, ResultServed
  <2>2. UNCHANGED <<next_run_id, results, lua, lua_up>> /\ Head1.run \in Nat
    BY <1>4, <2>1 DEF HandleResult, TakesNext, CallbackResult
  <2>3. ASSUME NEW run \in Nat \ {0}
        PROVE  Begun(run) = Begun(run)' + (IF run = Head1.run THEN 1 ELSE 0)
    <3>1. /\ poll.phase = "results" /\ poll'.phase = "results"
          /\ poll.todo \in Seq(CallbackResult) /\ poll.todo # <<>>
          /\ poll'.todo = Tail(poll.todo) /\ poll'.todo \in Seq(CallbackResult)
      BY <2>1 DEF TakesNext, In
    <3>2. Count(run, poll.todo) = Count(run, poll'.todo) + One(run, Head1)
      BY <3>1, CountTail DEF Head1, Count, One
    <3>3. Back(run, poll) = Back(run, poll') + One(run, Head1) /\ One(run, Head1) \in Nat
      BY <3>1, <3>2 DEF Back, One
    <3>4. Begun(run) = Begun(run)' + One(run, Head1)
      BY <2>2, <3>3, CountsAre
    <3> QED
      BY <3>4 DEF One
  <2>4. AcceptsSteps(scenario, Head1.run)
          <=> Head1.run = scenario.run /\ scenario.status = "running"
    BY DEF AcceptsSteps
  <2>5. PICK from \in Nat : from = Head1.run
    BY <2>2
  <2>6. \A run \in Nat \ {0} : Begun(run) = Begun(run)' + (IF run = from THEN 1 ELSE 0)
    BY <2>3, <2>5
  <2>7. CASE AcceptsSteps(scenario, Head1.run) /\ Served(TRUE, {})
    BY <1>0, <2>2, <2>4, <2>5, <2>6, <2>7, CallbacksAccounted
  <2>8. CASE ~AcceptsSteps(scenario, Head1.run) /\ Served(FALSE, {})
    BY <1>0, <2>2, <2>4, <2>5, <2>6, <2>8, CallbacksAccounted
  <2> QED
    BY <2>1, <2>7, <2>8
<1>5. CASE DrainEvents
  <2>1. PICK fired \in {"none"} \cup (IF Ready("timer") THEN {"timer"} ELSE {}) :
          /\ poll' = [phase |-> "events", todo |-> application_events, fired |-> fired,
                      eligible |-> Open(scenario) /\ ~IsBusy(scenario)]
          /\ scenario' = [scenario EXCEPT !.waits = @ \ {fired}]
    BY <1>5 DEF DrainEvents
  <2>2. /\ In("results") /\ poll.todo = <<>>
        /\ UNCHANGED <<next_run_id, lua_queue, results, lua, lua_up>>
    BY <1>5 DEF DrainEvents
  <2>3. Served(FALSE, {})
    BY <1>0, <2>1, <2>2, TakenOffServed
  <2>4. ASSUME NEW run \in Nat \ {0}
        PROVE  Begun(run) = Begun(run)' + (IF run = 0 THEN 1 ELSE 0)
    <3>1. Back(run, poll) = 0 /\ Back(run, poll') = 0
      BY <2>1, <2>2, CountEmpty DEF Count, Back
    <3> QED
      BY <2>2, <3>1, CountsAre
  <2> QED
    BY <1>0, <2>2, <2>3, <2>4, CallbacksAccounted
<1>6. ASSUME HandleEvent \/ FinishPoll \/ MeasurementArrives
      PROVE  CallbackInv'
  <2>1. /\ UNCHANGED <<next_run_id, results, lua, lua_up>>
        /\ poll.phase = "events" /\ poll'.phase # "results"
        /\ \E settled : Served(FALSE, settled)
    <3>1. CASE HandleEvent
      <4>1. TakesNext(ActionEvent) /\ In("events") /\ Served(FALSE, {Head1.action})
        BY <1>0, <3>1, EventServed
      <4> QED
        BY <3>1, <4>1 DEF HandleEvent, TakesNext, In
    <3>2. CASE FinishPoll
      <4>1. Served(FALSE, {})
        BY <1>0, <3>2, FinishServed
      <4> QED
        BY <3>2, <4>1 DEF FinishPoll, IdlePoll, In
    <3>3. CASE MeasurementArrives
      <4>1. /\ In("events") /\ poll' = [poll EXCEPT !.fired = "condition"]
            /\ scenario' = [scenario EXCEPT !.waits = @ \ {"condition"}]
            /\ UNCHANGED <<next_run_id, lua_queue, results, lua, lua_up>>
        BY <3>3 DEF MeasurementArrives, channelVars
      <4>2. Served(FALSE, {})
        BY <1>0, <4>1, TakenOffServed
      <4>3. poll'.phase = poll.phase
        BY <1>0, <4>1 DEF TypeOK, Poll
      <4> QED
        BY <4>1, <4>2, <4>3 DEF In
    <3> QED
      BY <1>6, <3>1, <3>2, <3>3
  <2>2. PICK settled : Served(FALSE, settled)
    BY <2>1
  <2>3. ASSUME NEW run \in Nat \ {0}
        PROVE  Begun(run) = Begun(run)' + (IF run = 0 THEN 1 ELSE 0)
    <3>1. Back(run, poll) = 0 /\ Back(run, poll') = 0
      BY <2>1 DEF Back
    <3> QED
      BY <2>1, <3>1, CountsAre
  <2> QED
    BY <1>0, <2>1, <2>2, <2>3, CallbacksAccounted
<1> QED
  BY <1>1, <1>2, <1>3, <1>4, <1>5, <1>6 DEF RuntimeStep

-----------------------------------------------------------------------------
(***************************************************************************)
(* Actions settle once, and what has fired stays good.                     *)
(***************************************************************************)
\* A step that neither dispatches nor settles an action, and reports none anew.
LEMMA ActionsStay ==
  ASSUME ActionInv, UNCHANGED <<in_flight, next_action_id>>,
         \A action : Reported(action)' <=> Reported(action),
         scenario'.pending \subseteq scenario.pending,
         scenario'.run = scenario.run \/ scenario'.pending = {}
  PROVE  ActionInv'
<1>1. ASSUME NEW action \in scenario'.pending
      PROVE  Tracked(action)'
  <2>1. Tracked(action) /\ scenario'.run = scenario.run
    BY DEF ActionInv
  <2> QED
    BY <2>1 DEF Tracked
<1>2. \A action \in Nat : Reported(action)' => action < next_action_id'
  BY DEF ActionInv
<1>3. \A d \in in_flight' :
        /\ d.action < next_action_id'
        /\ ~Reported(d.action)'
        /\ \A e \in in_flight' : e.action = d.action => e = d
  BY DEF ActionInv
<1> QED
  BY <1>1, <1>2, <1>3 DEF ActionInv

\* An event is reported by what carries it.
LEMMA ReportedIs ==
  ASSUME NEW action
  PROVE  /\ Reported(action) <=>
              \/ \E i \in 1 .. Len(application_events) :
                   application_events[i].action = action
              \/ poll.phase = "events" /\ \E i \in 1 .. Len(poll.todo) :
                   poll.todo[i].action = action
         /\ Reported(action)' <=>
              \/ \E i \in 1 .. Len(application_events') :
                   application_events'[i].action = action
              \/ poll'.phase = "events" /\ \E i \in 1 .. Len(poll'.todo) :
                   poll'.todo[i].action = action
BY DEF Reported, In

LEMMA SettlingKeepsActions ==
  ASSUME Typed, ActionInv, NEW ok \in BOOLEAN, ActionSettles(ok)
  PROVE  ActionInv'
<1>1. PICK d \in in_flight :
        /\ in_flight' = in_flight \ {d}
        /\ application_events' = Append(application_events, [action |-> d.action, ok |-> ok])
  BY DEF ActionSettles
<1>2. UNCHANGED <<scenario, next_action_id, poll>>
  BY DEF ActionSettles
<1> DEFINE m == [action |-> d.action, ok |-> ok]
<1>3. m \in ActionEvent /\ m.action = d.action /\ d.action \in Nat
  BY DEF Typed, TypeOK, Dispatched, ActionEvent
<1>4. application_events \in Seq(ActionEvent) /\ application_events' = Append(application_events, m)
  BY <1>1 DEF Typed, TypeOK
<1> HIDE DEF m
<1>5. /\ Len(application_events) \in Nat
      /\ Len(application_events') = Len(application_events) + 1
      /\ \A i \in 1 .. Len(application_events) :
           application_events'[i] = application_events[i]
      /\ application_events'[Len(application_events) + 1] = m
  BY <1>3, <1>4, AppendProperties, LenProperties
<1>6. ASSUME NEW action
      PROVE  Reported(action)' <=> Reported(action) \/ action = d.action
  <2>1. (\E i \in 1 .. Len(application_events') : application_events'[i].action = action)
          <=> \/ \E i \in 1 .. Len(application_events) :
                   application_events[i].action = action
              \/ action = d.action
    <3>1. 1 .. Len(application_events')
            = (1 .. Len(application_events)) \cup {Len(application_events) + 1}
      BY <1>5
    <3> QED
      BY <3>1, <1>3, <1>5
  <2> QED
    BY <2>1, <1>2, ReportedIs
<1>7. ASSUME NEW e \in in_flight'
      PROVE  /\ e.action < next_action_id'
             /\ ~Reported(e.action)'
             /\ \A f \in in_flight' : f.action = e.action => f = e
  <2>1. e \in in_flight /\ e # d /\ ~Reported(e.action) /\ e.action # d.action
    BY <1>1 DEF ActionInv
  <2>2. ~Reported(e.action)'
    BY <2>1, <1>6
  <2> QED
    BY <2>1, <2>2, <1>1, <1>2 DEF ActionInv
<1>8. ASSUME NEW action \in Nat, Reported(action)'
      PROVE  action < next_action_id'
  BY <1>2, <1>6, <1>8 DEF ActionInv
<1>9. ASSUME NEW action \in scenario'.pending
      PROVE  Tracked(action)'
  <2>1. Tracked(action)
    BY <1>2 DEF ActionInv
  <2>2. CASE Reported(action)
    BY <2>2, <1>6 DEF Tracked
  <2>3. CASE \E e \in in_flight : e.action = action /\ e.run = scenario.run
    <3>1. PICK e \in in_flight : e.action = action /\ e.run = scenario.run
      BY <2>3
    <3>2. CASE e = d
      <4>1. Reported(action)'
        BY <3>1, <3>2, <1>6
      <4> QED
        BY <4>1 DEF Tracked
    <3>3. CASE e # d
      <4>1. e \in in_flight' /\ e.run = scenario'.run
        BY <3>1, <3>3, <1>1, <1>2
      <4> QED
        BY <3>1, <4>1 DEF Tracked
    <3> QED
      BY <3>2, <3>3
  <2> QED
    BY <2>1, <2>2, <2>3 DEF Tracked
<1> QED
  BY <1>7, <1>8, <1>9 DEF ActionInv

LEMMA DispatchKeepsActions ==
  ASSUME Typed, ActionInv, DispatchAction(Head1), Head1.run = scenario.run,
         \A action : Reported(action)' <=> Reported(action)
  PROVE  ActionInv'
<1> DEFINE d == [action |-> next_action_id, run |-> Head1.run, cause |-> Head1.cause]
<1>1. /\ scenario' = [scenario EXCEPT !.pending = @ \cup {next_action_id}]
      /\ next_action_id' = next_action_id + 1
      /\ in_flight' = in_flight \cup {d}
  BY DEF DispatchAction
<1>2. d.action = next_action_id /\ d.run = scenario.run
  OBVIOUS
<1> HIDE DEF d
<1>3. /\ scenario'.pending = scenario.pending \cup {next_action_id}
      /\ scenario'.run = scenario.run /\ next_action_id \in Nat
  BY <1>1 DEF Typed, TypeOK, ScenarioState
<1>4. ~Reported(next_action_id)
  BY <1>3 DEF ActionInv
<1>5. ASSUME NEW e \in in_flight'
      PROVE  /\ e.action < next_action_id'
             /\ ~Reported(e.action)'
             /\ \A f \in in_flight' : f.action = e.action => f = e
  <2>1. \A f \in in_flight : f.action < next_action_id /\ f.action \in Nat
    BY DEF ActionInv, Typed, TypeOK, Dispatched
  <2>2. \A f \in in_flight : f.action # next_action_id /\ f.action < next_action_id + 1
    BY <2>1, <1>3
  <2>3. CASE e = d
    <3>1. ~Reported(e.action)'
      BY <2>3, <1>2, <1>4
    <3>2. e.action < next_action_id'
      BY <2>3, <1>1, <1>2, <1>3
    <3> QED
      BY <3>1, <3>2, <2>2, <2>3, <1>1, <1>2
  <2>4. CASE e \in in_flight
    <3>1. ~Reported(e.action)'
      BY <2>4 DEF ActionInv
    <3>2. e.action < next_action_id'
      BY <2>2, <2>4, <1>1
    <3>3. \A f \in in_flight : f.action = e.action => f = e
      BY <2>4 DEF ActionInv
    <3> QED
      BY <3>1, <3>2, <3>3, <2>2, <2>4, <1>1, <1>2
  <2> QED
    BY <2>3, <2>4, <1>1
<1>6. ASSUME NEW action \in Nat, Reported(action)'
      PROVE  action < next_action_id'
  <2>1. action < next_action_id
    BY <1>6 DEF ActionInv
  <2> QED
    BY <2>1, <1>1, <1>3
<1>7. ASSUME NEW action \in scenario'.pending
      PROVE  Tracked(action)'
  <2>1. CASE action = next_action_id
    <3>1. d \in in_flight' /\ d.action = action /\ d.run = scenario'.run
      BY <2>1, <1>1, <1>2, <1>3
    <3> QED
      BY <3>1 DEF Tracked
  <2>2. CASE action \in scenario.pending
    <3>1. Tracked(action)
      BY <2>2 DEF ActionInv
    <3>2. CASE Reported(action)
      BY <3>2 DEF Tracked
    <3>3. CASE \E e \in in_flight : e.action = action /\ e.run = scenario.run
      BY <3>3, <1>1, <1>3 DEF Tracked
    <3> QED
      BY <3>1, <3>2, <3>3 DEF Tracked
  <2> QED
    BY <2>1, <2>2, <1>3
<1> QED
  BY <1>5, <1>6, <1>7 DEF ActionInv

LEMMA LuaKeepsActions ==
  ASSUME Typed, ActionInv,
         \/ \E kind \in Kinds : LuaSend(kind)
         \/ LuaStep \/ LuaStops \/ \E ok \in BOOLEAN : ActionSettles(ok)
  PROVE  ActionInv'
<1>1. CASE (\E kind \in Kinds : LuaSend(kind)) \/ LuaStep \/ LuaStops
  <2>1. UNCHANGED <<scenario, next_action_id, application_events, in_flight, poll>>
    BY <1>1 DEF LuaSend, LuaStep, LuaBegin, LuaReturn, LuaStops
  <2>2. \A action : Reported(action)' <=> Reported(action)
    BY <2>1 DEF Reported, In
  <2> QED
    BY <2>1, <2>2, ActionsStay
<1>2. CASE \E ok \in BOOLEAN : ActionSettles(ok)
  BY <1>2, SettlingKeepsActions
<1> QED
  BY <1>1, <1>2

LEMMA ServedPending ==
  ASSUME NEW back, NEW settled, Served(back, settled)
  PROVE  /\ scenario'.pending \subseteq scenario.pending
         /\ scenario'.run = scenario.run \/ scenario'.pending = {}
BY DEF Served, NoScenario, NewScenario

LEMMA RuntimeKeepsActions ==
  ASSUME Typed, Typed', ActionInv, FiredIsStillGood, RuntimeStep \/ MeasurementArrives
  PROVE  ActionInv'
<1>0. /\ QueueIsOfRuns /\ TypeOK /\ Sound(scenario) /\ PollTyped /\ OfSomeRun
      /\ TypeOK' /\ PollTyped'
  BY TypedQueue DEF Typed
<1>1. CASE DrainCommands
  <2>1. /\ UNCHANGED <<scenario, next_action_id, application_events, in_flight>>
        /\ poll.phase = "idle" /\ poll'.phase = "commands"
    BY <1>1 DEF DrainCommands, Enter, IdlePoll, In
  <2>2. \A action : Reported(action)' <=> Reported(action)
    BY <2>1 DEF Reported, In
  <2> QED
    BY <2>1, <2>2, ActionsStay
<1>2. CASE ExecuteCommand
  <2>1. /\ TakesNext(LuaCommand) /\ In("commands")
        /\ UNCHANGED <<lua_commands, results, application_events, lua, lua_up>>
        /\ \/ Served(FALSE, {}) /\ UNCHANGED <<next_run_id, next_action_id, in_flight>>
           \/ /\ DispatchAction(Head1)
              /\ Head1.run = scenario.run /\ scenario.status = "running"
           \/ /\ scenario' = NewScenario(next_run_id) /\ next_run_id' = next_run_id + 1
              /\ UNCHANGED <<lua_queue, next_action_id, in_flight>>
    BY <1>0, <1>2, ExecuteServed
  <2>2. \A action : Reported(action)' <=> Reported(action)
    BY <2>1 DEF Reported, In, TakesNext
  <2>3. CASE Served(FALSE, {}) /\ UNCHANGED <<next_action_id, in_flight>>
    BY <2>2, <2>3, ServedPending, ActionsStay
  <2>4. CASE DispatchAction(Head1) /\ Head1.run = scenario.run
    BY <2>2, <2>4, DispatchKeepsActions
  <2>5. CASE /\ scenario' = NewScenario(next_run_id)
             /\ UNCHANGED <<next_action_id, in_flight>>
    <3>1. scenario'.pending = {}
      BY <2>5 DEF NewScenario
    <3> QED
      BY <2>2, <2>5, <3>1, ActionsStay
  <2> QED
    BY <2>1, <2>3, <2>4, <2>5
<1>3. CASE DrainResults
  <2>1. /\ UNCHANGED <<scenario, next_action_id, application_events, in_flight>>
        /\ poll.phase = "commands" /\ poll'.phase = "results"
    BY <1>3 DEF DrainResults, Enter, IdlePoll, In
  <2>2. \A action : Reported(action)' <=> Reported(action)
    BY <2>1 DEF Reported, In
  <2> QED
    BY <2>1, <2>2, ActionsStay
<1>4. CASE HandleResult
  <2>1. /\ TakesNext(CallbackResult) /\ In("results")
        /\ \E back \in BOOLEAN : Served(back, {})
    BY <1>0, <1>4, ResultServed
  <2>2. UNCHANGED <<next_action_id, application_events, in_flight>>
    BY <1>4 DEF HandleResult
  <2>3. \A action : Reported(action)' <=> Reported(action)
    BY <2>1, <2>2 DEF Reported, In, TakesNext
  <2> QED
    BY <2>1, <2>2, <2>3, ServedPending, ActionsStay
<1>5. CASE DrainEvents
  <2>1. PICK fired \in {"none"} \cup (IF Ready("timer") THEN {"timer"} ELSE {}) :
          /\ poll' = [phase |-> "events", todo |-> application_events, fired |-> fired,
                      eligible |-> Open(scenario) /\ ~IsBusy(scenario)]
          /\ scenario' = [scenario EXCEPT !.waits = @ \ {fired}]
    BY <1>5 DEF DrainEvents
  <2>2. /\ poll.phase = "results" /\ application_events' = <<>>
        /\ UNCHANGED <<next_action_id, lua_queue, in_flight>>
    BY <1>5 DEF DrainEvents, In
  <2>3. Served(FALSE, {})
    BY <1>0, <2>1, <2>2, TakenOffServed
  <2>4. \A action : Reported(action)' <=> Reported(action)
    BY <2>1, <2>2 DEF Reported, In
  <2> QED
    BY <2>2, <2>3, <2>4, ServedPending, ActionsStay
<1>6. CASE HandleEvent
  <2>1. /\ TakesNext(ActionEvent) /\ poll.phase = "events"
        /\ Served(FALSE, {Head1.action})
        /\ Head1.action \notin scenario'.pending
    BY <1>0, <1>6, EventServed DEF In
  <2>2. UNCHANGED <<next_action_id, application_events, in_flight>>
    BY <1>6 DEF HandleEvent
  <2>3. /\ Len(poll.todo) \in Nat \ {0} /\ Len(poll'.todo) = Len(poll.todo) - 1
        /\ \A i \in 1 .. Len(poll'.todo) : poll'.todo[i] = poll.todo[i + 1]
        /\ Head1 = poll.todo[1] /\ poll'.phase = "events"
    BY <2>1, HeadTailProperties, EmptySeq DEF TakesNext, Head1
  <2>4. ASSUME NEW action
        PROVE  Reported(action) <=> Reported(action)' \/ action = Head1.action
    <3>1. (\E i \in 1 .. Len(poll.todo) : poll.todo[i].action = action)
            <=> \/ \E i \in 1 .. Len(poll'.todo) : poll'.todo[i].action = action
                \/ action = Head1.action
      <4>1. 1 \in 1 .. Len(poll.todo)
        BY <2>3
      <4>2. \A i \in 1 .. Len(poll'.todo) : i + 1 \in 1 .. Len(poll.todo)
        BY <2>3
      <4>3. \A i \in 1 .. Len(poll.todo) :
              i = 1 \/ (i - 1 \in 1 .. Len(poll'.todo) /\ (i - 1) + 1 = i)
        BY <2>3
      <4>4. ASSUME NEW i \in 1 .. Len(poll.todo), poll.todo[i].action = action, i # 1
            PROVE  \E j \in 1 .. Len(poll'.todo) : poll'.todo[j].action = action
        <5>1. i - 1 \in 1 .. Len(poll'.todo) /\ poll'.todo[i - 1] = poll.todo[i]
          BY <4>3, <4>4, <2>3
        <5> QED
          BY <5>1, <4>4
      <4> HIDE DEF Head1
      <4> QED
        BY <4>1, <4>2, <4>4, <2>3
    <3> QED
      BY <3>1, <2>1, <2>2, <2>3, ReportedIs
  <2>5. ASSUME NEW d \in in_flight'
        PROVE  /\ d.action < next_action_id'
               /\ ~Reported(d.action)'
               /\ \A e \in in_flight' : e.action = d.action => e = d
    BY <2>2, <2>4 DEF ActionInv
  <2>6. ASSUME NEW action \in Nat, Reported(action)'
        PROVE  action < next_action_id'
    BY <2>2, <2>4, <2>6 DEF ActionInv
  <2>7. ASSUME NEW action \in scenario'.pending
        PROVE  Tracked(action)'
    <3>1. Tracked(action) /\ scenario'.run = scenario.run /\ action # Head1.action
      BY <2>1, ServedPending DEF ActionInv
    <3>2. CASE Reported(action)
      <4>1. Reported(action)'
        BY <3>1, <3>2, <2>4
      <4> QED
        BY <4>1 DEF Tracked
    <3>3. CASE \E e \in in_flight : e.action = action /\ e.run = scenario.run
      BY <3>1, <3>3, <2>2 DEF Tracked
    <3> QED
      BY <3>1, <3>2, <3>3 DEF Tracked
  <2> QED
    BY <2>5, <2>6, <2>7 DEF ActionInv
<1>7. CASE FinishPoll
  <2>1. Served(FALSE, {})
    BY <1>0, <1>7, FinishServed
  <2>2. /\ UNCHANGED <<next_action_id, application_events, in_flight>>
        /\ poll.todo = <<>> /\ poll'.phase = "idle"
    BY <1>7 DEF FinishPoll, IdlePoll
  <2>3. 1 .. Len(poll.todo) = {}
    BY <2>2
  <2>4. \A action : Reported(action)' <=> Reported(action)
    BY <2>2, <2>3 DEF Reported, In
  <2> QED
    BY <2>1, <2>2, <2>4, ServedPending, ActionsStay
<1>8. CASE MeasurementArrives
  <2>1. /\ In("events") /\ poll' = [poll EXCEPT !.fired = "condition"]
        /\ scenario' = [scenario EXCEPT !.waits = @ \ {"condition"}]
        /\ UNCHANGED <<next_action_id, application_events, lua_queue, in_flight>>
    BY <1>8 DEF MeasurementArrives, channelVars
  <2>2. Served(FALSE, {})
    BY <1>0, <2>1, TakenOffServed
  <2>3. poll'.phase = poll.phase /\ poll'.todo = poll.todo
    BY <1>0, <2>1 DEF TypeOK, Poll
  <2>4. \A action : Reported(action)' <=> Reported(action)
    BY <2>1, <2>3 DEF Reported, In
  <2> QED
    BY <2>1, <2>2, <2>4, ServedPending, ActionsStay
<1> QED
  BY <1>1, <1>2, <1>3, <1>4, <1>5, <1>6, <1>7, <1>8 DEF RuntimeStep

LEMMA FiredKept ==
  ASSUME Typed, FiredIsStillGood, Next
  PROVE  FiredIsStillGood'
<1>0. /\ QueueIsOfRuns /\ TypeOK /\ Sound(scenario) /\ PollTyped /\ OfSomeRun
  BY TypedQueue DEF Typed
<1>1. CASE \/ \E kind \in Kinds : LuaSend(kind)
           \/ LuaStep \/ LuaStops \/ \E ok \in BOOLEAN : ActionSettles(ok)
  <2>1. UNCHANGED <<scenario, poll>>
    BY <1>1 DEF LuaSend, LuaStep, LuaBegin, LuaReturn, LuaStops, ActionSettles
  <2> QED
    BY <2>1 DEF FiredIsStillGood, Open, IsBusy
<1>2. CASE DrainCommands \/ DrainResults \/ FinishPoll
  <2>1. CASE DrainCommands
    BY <2>1 DEF DrainCommands, Enter, IdlePoll, FiredIsStillGood
  <2>2. CASE DrainResults
    BY <2>2 DEF DrainResults, Enter, IdlePoll, FiredIsStillGood
  <2>3. CASE FinishPoll
    BY <2>3 DEF FinishPoll, IdlePoll, FiredIsStillGood
  <2> QED
    BY <1>2, <2>1, <2>2, <2>3
<1>3. CASE ExecuteCommand \/ HandleResult
  <2>1. poll.fired = "none" /\ poll'.fired = poll.fired
    <3>1. CASE ExecuteCommand
      <4>1. TakesNext(LuaCommand) /\ In("commands")
        BY <1>0, <3>1, ExecuteServed
      <4> QED
        BY <4>1, <1>0 DEF TakesNext, PollTyped, In
    <3>2. CASE HandleResult
      <4>1. TakesNext(CallbackResult) /\ In("results")
        BY <1>0, <3>2, ResultServed
      <4> QED
        BY <4>1, <1>0 DEF TakesNext, PollTyped, In
    <3> QED
      BY <1>3, <3>1, <3>2
  <2> QED
    BY <2>1 DEF FiredIsStillGood
<1>4. CASE DrainEvents
  <2>1. PICK fired \in {"none"} \cup (IF Ready("timer") THEN {"timer"} ELSE {}) :
          /\ poll' = [phase |-> "events", todo |-> application_events, fired |-> fired,
                      eligible |-> Open(scenario) /\ ~IsBusy(scenario)]
          /\ scenario' = [scenario EXCEPT !.waits = @ \ {fired}]
    BY <1>4 DEF DrainEvents
  <2>2. UNCHANGED lua_queue
    BY <1>4 DEF DrainEvents
  <2>3. /\ Open(scenario') <=> Open(scenario)
        /\ IsBusy(scenario') <=> IsBusy(scenario)
    BY <1>0, <2>1, <2>2, TakenOffServed
  <2>4. poll'.fired # "none" => Open(scenario) /\ ~IsBusy(scenario)
    BY <2>1 DEF Ready
  <2> QED
    BY <2>3, <2>4 DEF FiredIsStillGood
<1>5. CASE HandleEvent
  <2>1. /\ TakesNext(ActionEvent) /\ (~IsBusy(scenario) => scenario' = scenario)
    BY <1>0, <1>5, EventServed
  <2> QED
    BY <2>1 DEF FiredIsStillGood, TakesNext, IsBusy, Open
<1>6. CASE MeasurementArrives
  <2>1. /\ ~IsBusy(scenario) /\ "condition" \in scenario.waits
        /\ scenario' = [scenario EXCEPT !.waits = @ \ {"condition"}]
        /\ UNCHANGED lua_queue
    BY <1>6 DEF MeasurementArrives, channelVars
  <2>2. /\ Open(scenario') <=> Open(scenario)
        /\ IsBusy(scenario') <=> IsBusy(scenario)
    BY <1>0, <2>1, TakenOffServed
  <2>3. Open(scenario)
    BY <1>0, <2>1 DEF Sound
  <2> QED
    BY <2>1, <2>2, <2>3 DEF FiredIsStillGood
<1> QED
  BY <1>1, <1>2, <1>3, <1>4, <1>5, <1>6 DEF Next, RuntimeStep

-----------------------------------------------------------------------------
(***************************************************************************)
(* The invariant is inductive.                                             *)
(***************************************************************************)
LEMMA Initial == Init => IInv
<1> SUFFICES ASSUME Init PROVE IInv
  OBVIOUS
<1>1. PICK waits \in SUBSET (Kinds \cap Wait), on_stop \in BOOLEAN, on_error \in BOOLEAN :
        scenario = [NewScenario(1) EXCEPT !.waits = waits, !.on_stop = on_stop,
                                          !.on_error = on_error]
  BY DEF Init
<1>2. /\ next_run_id = 2 /\ next_action_id = 1
      /\ lua_commands = <<>> /\ lua_queue = <<>> /\ results = <<>>
      /\ application_events = <<>> /\ lua = NoInvocation /\ lua_up = TRUE
      /\ in_flight = {} /\ poll = IdlePoll
  BY DEF Init
<1>3. /\ scenario \in ScenarioState /\ scenario.run = 1 /\ scenario.status = "running"
      /\ scenario.pending = {} /\ ~scenario.callback /\ ~scenario.cleanup
      /\ scenario.finalization = "none"
  BY <1>1 DEF NewScenario, ScenarioState, Status, Outcome, Wait
<1>4. Sound(scenario)
  BY <1>3 DEF Sound, Open, IsBusy
<1>5. IdlePoll \in Poll /\ NoInvocation \in Invocation /\ Len(<<>>) = 0
  BY EmptySeq DEF IdlePoll, Poll, Phase, NoInvocation, Invocation, Cause
<1>6. /\ <<>> \in Seq(LuaCommand) /\ <<>> \in Seq(Invocation)
      /\ <<>> \in Seq(CallbackResult) /\ <<>> \in Seq(ActionEvent)
  BY EmptySeq
<1>7. TypeOK
  BY <1>2, <1>3, <1>5, <1>6 DEF TypeOK
<1>8. PollTyped /\ OfSomeRun /\ poll.phase = "idle" /\ poll.fired = "none"
  BY <1>2, <1>5 DEF PollTyped, OfSomeRun, IdlePoll, In
<1>9. ASSUME NEW run \in Nat \ {0}
      PROVE  Outstanding(run) = 0
  <2>1. Cardinality(Of(run, <<>>)) = 0
    BY CountEmpty
  <2> QED
    BY <2>1, <1>2, <1>8 DEF Outstanding, In, NoInvocation
<1>10. CallbackInv
  BY <1>2, <1>3, <1>9 DEF CallbackInv
<1>11. \A action : ~Reported(action)
  BY <1>2, <1>5, <1>8 DEF Reported, In
<1>12. ActionInv
  BY <1>2, <1>3, <1>11 DEF ActionInv
<1> QED
  BY <1>4, <1>7, <1>8, <1>10, <1>12 DEF IInv, FiredIsStillGood

LEMMA Inductive == IInv /\ [Next]_vars => IInv'
<1> SUFFICES ASSUME IInv, [Next]_vars PROVE IInv'
  OBVIOUS
<1>0. Typed /\ CallbackInv /\ ActionInv /\ FiredIsStillGood
  BY DEF IInv, Typed
<1>1. CASE \/ \E kind \in Kinds : LuaSend(kind)
           \/ LuaStep \/ LuaStops \/ \E ok \in BOOLEAN : ActionSettles(ok)
  <2>1. Typed'
    BY <1>0, <1>1, LuaKeepsTypes
  <2>2. CallbackInv' /\ ActionInv'
    BY <1>0, <1>1, <2>1, LuaKeepsCallbacks, LuaKeepsActions
  <2>3. FiredIsStillGood'
    BY <1>0, <1>1, FiredKept DEF Next
  <2> QED
    BY <2>1, <2>2, <2>3 DEF IInv, Typed
<1>2. CASE RuntimeStep \/ MeasurementArrives
  <2>1. Typed'
    BY <1>0, <1>2, RuntimeKeepsTypes
  <2>2. CallbackInv' /\ ActionInv'
    BY <1>0, <1>2, <2>1, RuntimeKeepsCallbacks, RuntimeKeepsActions
  <2>3. FiredIsStillGood'
    BY <1>0, <1>2, FiredKept DEF Next
  <2> QED
    BY <2>1, <2>2, <2>3 DEF IInv, Typed
<1>3. CASE UNCHANGED vars
  <2>1. UNCHANGED <<scenario, next_run_id, next_action_id, lua_commands, lua_queue,
                    results, application_events, lua, lua_up, in_flight, poll>>
    BY <1>3 DEF vars, channelVars
  <2>2. TypeOK' /\ Sound(scenario') /\ PollTyped' /\ OfSomeRun'
    BY <2>1, <1>0 DEF Typed, TypeOK, PollTyped, OfSomeRun, In
  <2>3. Typed'
    BY <2>2 DEF Typed
  <2>4. CallbackInv'
    <3>1. ASSUME NEW run \in Nat \ {0}
          PROVE  Queued(run)' + Begun(run)' = Queued(run) + Begun(run)
      BY <2>1 DEF Queued, Begun, Of, In
    <3> QED
      BY <1>0, <2>1, <2>3, <3>1, CallbacksMove
  <2>5. ActionInv'
    <3>1. \A action : Reported(action)' <=> Reported(action)
      BY <2>1 DEF Reported, In
    <3> QED
      BY <1>0, <2>1, <3>1, ActionsStay
  <2>6. FiredIsStillGood'
    BY <1>0, <2>1 DEF FiredIsStillGood, Open, IsBusy
  <2> QED
    BY <2>2, <2>4, <2>5, <2>6 DEF IInv
<1> QED
  BY <1>1, <1>2, <1>3 DEF Next

LEMMA Invariance == Spec => []IInv
  BY Initial, Inductive, PTL DEF Spec

-----------------------------------------------------------------------------
(***************************************************************************)
(* The theorems.                                                           *)
(***************************************************************************)
\* Every variable keeps its type in every behaviour.
THEOREM TypeCorrect == Spec => []TypeOK
<1>1. IInv => TypeOK
  BY DEF IInv
<1> QED
  BY <1>1, Invariance, PTL

LEMMA AccountIsExact == IInv => BusyIsExact
<1> SUFFICES ASSUME IInv PROVE BusyIsExact
  OBVIOUS
<1>1. ASSUME NEW run \in 1 .. MaxRuns
      PROVE  Outstanding(run) <= 1
  <2>1. run \in Nat \ {0}
    OBVIOUS
  <2> QED
    BY <2>1 DEF IInv, CallbackInv
<1>2. ASSUME scenario.status = "running"
      PROVE  /\ Outstanding(scenario.run) = 1 => scenario.callback
             /\ scenario.callback /\ lua_up => Outstanding(scenario.run) = 1
  <2>1. scenario.run \in Nat \ {0}
    BY <1>2 DEF IInv, Sound, ScenarioState
  <2> QED
    BY <1>2, <2>1 DEF IInv, CallbackInv
<1>3. PendingOfThisRun
  <2> SUFFICES ASSUME NEW action \in scenario.pending
               PROVE  \/ \E d \in in_flight : d.action = action /\ d.run = scenario.run
                      \/ action \in {application_events[i].action :
                                       i \in DOMAIN application_events}
                      \/ /\ In("events")
                         /\ action \in {poll.todo[i].action : i \in DOMAIN poll.todo}
    BY DEF PendingOfThisRun
  <2>1. Tracked(action)
    BY DEF IInv, ActionInv
  <2>2. DOMAIN application_events = 1 .. Len(application_events)
    BY LenProperties DEF IInv, TypeOK
  <2>3. In("events") => DOMAIN poll.todo = 1 .. Len(poll.todo)
    BY LenProperties DEF IInv, PollTyped
  <2> QED
    BY <2>1, <2>2, <2>3 DEF Tracked, Reported
<1> QED
  BY <1>1, <1>2, <1>3 DEF BusyIsExact, CallbacksSerialized

\* BusyIsExact, for any number of runs, actions and waiting commands: what makes
\* a run busy is an exact account of the callback and the actions underway for
\* it, whatever order steps, results and events of several runs come in.
THEOREM BusyAccountIsExact == Spec => []BusyIsExact
  BY AccountIsExact, Invariance, PTL

\* FiredIsStillGood, for any bounds: nothing handled between the moment a
\* trigger fires and the end of the poll makes its run busy or asks for its end.
THEOREM FiredTriggersStayGood == Spec => []FiredIsStillGood
<1>1. IInv => FiredIsStillGood
  BY DEF IInv
<1> QED
  BY <1>1, Invariance, PTL

\* The run is served, with what is known to have settled.
ServedStep ==
  \E settled : /\ \A action \in settled : Reported(action)
              /\ \E back \in BOOLEAN : Served(back, settled)

LEMMA ServedStepIs ==
  ASSUME NEW back \in BOOLEAN, NEW settled, Served(back, settled),
         \A action \in settled : Reported(action)
  PROVE  ServedStep
<1>1. \E b \in BOOLEAN : Served(b, settled)
  OBVIOUS
<1> HIDE DEF Served
<1>2. QED
  BY <1>1 DEF ServedStep

LEMMA NothingSettled ==
  ASSUME NEW back \in BOOLEAN, Served(back, {})
  PROVE  ServedStep
<1>1. \A action \in {} : Reported(action)
  OBVIOUS
<1> QED
  BY <1>1, ServedStepIs

\* What a step of the whole system does to the run: it serves it, dispatches
\* one of its actions, or is the registration of the next.
LEMMA StepIs ==
  ASSUME IInv, Next
  PROVE  \/ ServedStep /\ UNCHANGED next_run_id
         \/ /\ scenario'.run = scenario.run /\ scenario'.status = scenario.status
            /\ scenario'.waits = scenario.waits
            /\ scenario'.finalization = scenario.finalization
            /\ scenario'.cleanup = scenario.cleanup
            /\ UNCHANGED next_run_id
         \/ scenario' = NewScenario(next_run_id) /\ next_run_id' = next_run_id + 1
<1>0. /\ QueueIsOfRuns /\ TypeOK /\ Sound(scenario) /\ PollTyped /\ OfSomeRun
      /\ FiredIsStillGood /\ TRUE \in BOOLEAN /\ FALSE \in BOOLEAN
  BY TypedQueue DEF IInv, Typed
<1>1. CASE \/ \E kind \in Kinds : LuaSend(kind)
           \/ LuaStep \/ LuaStops \/ \E ok \in BOOLEAN : ActionSettles(ok)
           \/ DrainCommands \/ DrainResults
  <2>1. UNCHANGED <<scenario, next_run_id>>
    BY <1>1 DEF LuaSend, LuaStep, LuaBegin, LuaReturn, LuaStops, ActionSettles,
                DrainCommands, DrainResults
  <2> QED
    BY <2>1
<1>2. CASE ExecuteCommand
  <2>1. \/ Served(FALSE, {}) /\ UNCHANGED <<next_run_id, next_action_id, in_flight>>
        \/ DispatchAction(Head1)
        \/ scenario' = NewScenario(next_run_id) /\ next_run_id' = next_run_id + 1
    BY <1>0, <1>2, ExecuteServed
  <2>2. CASE Served(FALSE, {}) /\ UNCHANGED next_run_id
    BY <1>0, <2>2, NothingSettled
  <2>3. CASE DispatchAction(Head1)
    BY <1>0, <2>3 DEF DispatchAction, TypeOK, ScenarioState
  <2> QED
    BY <2>1, <2>2, <2>3
<1>3. CASE HandleResult
  <2>1. (\E back \in BOOLEAN : Served(back, {})) /\ UNCHANGED next_run_id
    BY <1>0, <1>3, ResultServed DEF HandleResult
  <2> QED
    BY <2>1, NothingSettled
<1>4. CASE DrainEvents
  <2>1. \E fired : scenario' = [scenario EXCEPT !.waits = @ \ {fired}]
    BY <1>4 DEF DrainEvents
  <2>2. UNCHANGED <<lua_queue, next_run_id>>
    BY <1>4 DEF DrainEvents
  <2>3. Served(FALSE, {})
    BY <1>0, <2>1, <2>2, TakenOffServed
  <2> QED
    BY <1>0, <2>2, <2>3, NothingSettled
<1>5. CASE MeasurementArrives
  <2>1. /\ scenario' = [scenario EXCEPT !.waits = @ \ {"condition"}]
        /\ UNCHANGED <<lua_queue, next_run_id>>
    BY <1>5 DEF MeasurementArrives, channelVars
  <2>2. Served(FALSE, {})
    BY <1>0, <2>1, TakenOffServed
  <2> QED
    BY <1>0, <2>1, <2>2, NothingSettled
<1>6. CASE HandleEvent
  <2> DEFINE settled == {Head1.action}
  <2>1. /\ TakesNext(ActionEvent) /\ In("events") /\ Served(FALSE, settled)
        /\ UNCHANGED next_run_id
    BY <1>0, <1>6, EventServed DEF HandleEvent
  <2>2. 1 \in 1 .. Len(poll.todo) /\ Head1 = poll.todo[1]
    <3>1. Len(poll.todo) \in Nat \ {0}
      BY <2>1, EmptySeq DEF TakesNext
    <3> QED
      BY <3>1 DEF Head1
  <2>3. \A action \in settled : Reported(action)
    BY <2>1, <2>2 DEF Reported
  <2> HIDE DEF settled
  <2> QED
    BY <1>0, <2>1, <2>3, ServedStepIs
<1>7. CASE FinishPoll
  <2>1. Served(FALSE, {}) /\ UNCHANGED next_run_id
    BY <1>0, <1>7, FinishServed DEF FinishPoll
  <2> QED
    BY <1>0, <2>1, NothingSettled
<1> QED
  BY <1>1, <1>2, <1>3, <1>4, <1>5, <1>6, <1>7 DEF Next, RuntimeStep

\* SettledBeforeAdvance, for any bounds: transitions are armed, cleanup starts
\* and a run ends as it was asked only when no action it tracks is still being
\* executed, be it the very result that completes them.
THEOREM RunsAdvanceSettled == Spec => SettledBeforeAdvance
<1> DEFINE Good == Advances => {d.action : d \in in_flight} \cap scenario.pending = {}
<1>1. ASSUME IInv, [Next]_vars
      PROVE  Good
  <2>0. SUFFICES ASSUME Advances, NEW d \in in_flight, d.action \in scenario.pending
                 PROVE  FALSE
    OBVIOUS
  <2>1. StepAdvances(scenario, scenario') /\ scenario'.run = scenario.run
    BY <2>0 DEF Advances, StepAdvances
  <2>2. CASE Next
    <3>1. CASE ServedStep
      <4>1. PICK settled : /\ \A action \in settled : Reported(action)
                           /\ \E back \in BOOLEAN : Served(back, settled)
        BY <3>1 DEF ServedStep
      <4>2. d.action \in settled
        BY <2>0, <2>1, <4>1 DEF Served
      <4>3. ~Reported(d.action)
        BY <1>1, <2>0 DEF IInv, ActionInv
      <4> QED
        BY <4>1, <4>2, <4>3
    <3>2. CASE /\ scenario'.run = scenario.run /\ scenario'.status = scenario.status
               /\ scenario'.waits = scenario.waits
               /\ scenario'.finalization = scenario.finalization
               /\ scenario'.cleanup = scenario.cleanup
      BY <2>1, <3>2 DEF StepAdvances
    <3>3. CASE scenario' = NewScenario(next_run_id)
      <4>1. scenario.run < next_run_id /\ scenario.run \in Nat /\ next_run_id \in Nat
        BY <1>1 DEF IInv, CallbackInv, TypeOK, ScenarioState
      <4>2. scenario'.run = next_run_id
        BY <3>3 DEF NewScenario
      <4> QED
        BY <2>1, <4>1, <4>2
    <3> QED
      BY <1>1, <2>2, <3>1, <3>2, <3>3, StepIs
  <2>3. CASE UNCHANGED vars
    BY <2>1, <2>3 DEF vars, StepAdvances
  <2> QED
    BY <1>1, <2>2, <2>3
<1>2. IInv /\ [Next]_vars => [Good]_vars
  BY <1>1
<1>3. SettledBeforeAdvance <=> [][Good]_vars
  BY DEF SettledBeforeAdvance
<1> HIDE DEF Good
<1> QED
  BY <1>2, <1>3, Invariance, PTL DEF Spec

-----------------------------------------------------------------------------
(***************************************************************************)
(* The refinement of ScenarioLifecycle.                                    *)
(***************************************************************************)
LEMMA LifecycleIs ==
  /\ LifecyclePhase = PhaseOf(scenario) /\ LifecycleOutcome = OutcomeOf(scenario)
  /\ LifecyclePhase' = PhaseOf(scenario') /\ LifecycleOutcome' = OutcomeOf(scenario')
BY DEF LifecyclePhase, LifecycleOutcome, PhaseOf, OutcomeOf, Open

LEMMA LifecycleStarts == Init => Lifecycle!LifecycleInit
<1> SUFFICES ASSUME Init PROVE Lifecycle!LifecycleInit
  OBVIOUS
<1>1. /\ scenario.status = "running" /\ scenario.finalization = "none"
      /\ next_run_id - 1 = 1
  BY DEF Init, NewScenario
<1>2. PhaseOf(scenario) = "running" /\ OutcomeOf(scenario) = "none"
  BY <1>1 DEF PhaseOf, OutcomeOf, Open
<1> QED
  BY <1>1, <1>2, LifecycleIs DEF Lifecycle!LifecycleInit

LEMMA LifecycleMoves ==
  ASSUME IInv, [Next]_vars
  PROVE  [Lifecycle!LifecycleNext]_Lifecycle!lifecycleVars
<1>1. ASSUME LifeStep(scenario, scenario'), UNCHANGED next_run_id
      PROVE  [Lifecycle!LifecycleNext]_Lifecycle!lifecycleVars
  <2> DEFINE p == PhaseOf(scenario)
             o == OutcomeOf(scenario)
  <2>0. /\ p = LifecyclePhase /\ p' = LifecyclePhase'
        /\ o = LifecycleOutcome /\ o' = LifecycleOutcome'
    BY LifecycleIs
  <2>1. \/ p' = p /\ o' = o
        \/ /\ \/ p = "running" /\ o' \in Outcome
              \/ p = "finalizing" /\ o' = "failed"
           /\ p' \in {"finalizing", "cleaning", "finished"}
        \/ p = "finalizing" /\ p' \in {"cleaning", "finished"} /\ o' = o
        \/ p = "cleaning" /\ p' = "finished" /\ o' \in {o, "failed"}
        \/ p \in {"running", "finalizing", "cleaning"} /\ p' = "finished" /\ o' = "cancelled"
        \/ p = "running" /\ p' = "absent" /\ o' = "none"
    BY <1>1 DEF LifeStep
  <2>2. (next_run_id - 1)' = next_run_id - 1
    BY <1>1
  <2> HIDE DEF p, o
  <2>3. CASE p' = p /\ o' = o
    BY <2>0, <2>2, <2>3 DEF Lifecycle!lifecycleVars
  <2>4. CASE /\ \/ p = "running" /\ o' \in Outcome
                \/ p = "finalizing" /\ o' = "failed"
             /\ p' \in {"finalizing", "cleaning", "finished"}
    <3>1. Lifecycle!RequestEnd
      BY <2>0, <2>2, <2>4 DEF Lifecycle!RequestEnd, Lifecycle!Requested, Outcome
    <3> QED
      BY <3>1 DEF Lifecycle!LifecycleNext
  <2>5. CASE p = "finalizing" /\ p' \in {"cleaning", "finished"} /\ o' = o
    <3>1. Lifecycle!CleanUp
      BY <2>0, <2>2, <2>5 DEF Lifecycle!CleanUp
    <3> QED
      BY <3>1 DEF Lifecycle!LifecycleNext
  <2>6. CASE p = "cleaning" /\ p' = "finished" /\ o' \in {o, "failed"}
    <3>1. Lifecycle!Finish
      BY <2>0, <2>2, <2>6 DEF Lifecycle!Finish
    <3> QED
      BY <3>1 DEF Lifecycle!LifecycleNext
  <2>7. CASE p \in {"running", "finalizing", "cleaning"} /\ p' = "finished" /\ o' = "cancelled"
    <3>1. Lifecycle!Cancel
      BY <2>0, <2>2, <2>7 DEF Lifecycle!Cancel
    <3> QED
      BY <3>1 DEF Lifecycle!LifecycleNext
  <2>8. CASE p = "running" /\ p' = "absent" /\ o' = "none"
    <3>1. Lifecycle!Remove
      BY <2>0, <2>2, <2>8 DEF Lifecycle!Remove
    <3> QED
      BY <3>1 DEF Lifecycle!LifecycleNext
  <2> QED
    BY <2>1, <2>3, <2>4, <2>5, <2>6, <2>7, <2>8
<1>2. ASSUME UNCHANGED next_run_id, PhaseOf(scenario') = PhaseOf(scenario),
             OutcomeOf(scenario') = OutcomeOf(scenario)
      PROVE  [Lifecycle!LifecycleNext]_Lifecycle!lifecycleVars
  BY <1>1, <1>2 DEF LifeStep
<1>3. CASE Next
  <2>1. CASE ServedStep /\ UNCHANGED next_run_id
    <3>1. LifeStep(scenario, scenario') /\ UNCHANGED next_run_id
      BY <2>1 DEF ServedStep, Served
    <3> QED
      BY <3>1, <1>1
  <2>2. CASE /\ scenario'.status = scenario.status
             /\ scenario'.finalization = scenario.finalization
             /\ scenario'.cleanup = scenario.cleanup
             /\ UNCHANGED next_run_id
    <3>1. PhaseOf(scenario') = PhaseOf(scenario) /\ OutcomeOf(scenario') = OutcomeOf(scenario)
      BY <2>2, PhaseDependsOn
    <3> QED
      BY <2>2, <3>1, <1>2
  <2>3. CASE scenario' = NewScenario(next_run_id) /\ next_run_id' = next_run_id + 1
    <3>1. next_run_id \in Nat
      BY DEF IInv, TypeOK
    <3>2. (next_run_id - 1)' = (next_run_id - 1) + 1
      BY <2>3, <3>1
    <3>3. PhaseOf(scenario') = "running" /\ OutcomeOf(scenario') = "none"
      BY <2>3 DEF NewScenario, PhaseOf, OutcomeOf, Open
    <3>4. Lifecycle!NewRun
      BY <3>2, <3>3, LifecycleIs DEF Lifecycle!NewRun
    <3> QED
      BY <3>4 DEF Lifecycle!LifecycleNext
  <2> QED
    BY <1>3, <2>1, <2>2, <2>3, StepIs
<1>4. CASE UNCHANGED vars
  <2>1. UNCHANGED <<scenario, next_run_id>>
    BY <1>4 DEF vars
  <2> QED
    BY <2>1, <1>2
<1> QED
  BY <1>3, <1>4

\* Scenario implements ScenarioLifecycle: a run ends as it was asked to, as
\* failed or as cancelled, its cleanup handler starts at most once, and its end
\* is final, whatever callbacks, actions, results and the Lua worker do.
THEOREM ImplementsLifecycle == Spec => KeepsLifecycle
<1>1. IInv /\ [Next]_vars => [Lifecycle!LifecycleNext]_Lifecycle!lifecycleVars
  BY LifecycleMoves
<1> QED
  BY <1>1, LifecycleStarts, Invariance, PTL DEF Spec, KeepsLifecycle, Lifecycle!LifecycleSpec

==============================================================================
