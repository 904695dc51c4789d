----------------------- MODULE ConnectionWorker_proofs -----------------------
(***************************************************************************)
(* Proofs about ConnectionWorker for every set of series, finite or not,   *)
(* all their intervals and every value of the bounds.                      *)
(***************************************************************************)
EXTENDS ConnectionWorker, WellFoundedInduction, TLAPS

-----------------------------------------------------------------------------
(***************************************************************************)
(* The least number principle, which stands in for induction where a proof *)
(* is about recursive data or a position that a search finds: of the       *)
(* numbers for which something fails, take the least.                      *)
(***************************************************************************)
\* The library theorem on minimal elements, for the naturals.
LEMMA WellFoundedMinimum ==
  ASSUME NEW T, T \subseteq Nat, T # {}, NEW R, IsWellFoundedOn(R, Nat)
  PROVE  \E x \in T : \A y \in T : ~ (<<y, x>> \in R)
BY WFMin, Zenon

\* Every non-empty set of naturals, finite or not, has a least element.
LEMMA LeastElement ==
  ASSUME NEW T, T \subseteq Nat, T # {}
  PROVE  \E x \in T : \A y \in T : x <= y
<1>1. PICK R : /\ IsWellFoundedOn(R, Nat)
               /\ \A y, x \in Nat : y < x => <<y, x>> \in R
  <2>1. \A y, x \in Nat : y < x => <<y, x>> \in OpToRel(<, Nat)
    <3> SUFFICES ASSUME NEW y \in Nat, NEW x \in Nat, y < x
                 PROVE  <<y, x>> \in OpToRel(<, Nat)
      OBVIOUS
    <3>1. <<y, x>> \in Nat \X Nat /\ <<y, x>>[1] < <<y, x>>[2]
      OBVIOUS
    <3> QED
      BY <3>1, Zenon DEF OpToRel
  <2>2. IsWellFoundedOn(OpToRel(<, Nat), Nat)
    BY NatLessThanWellFounded, Zenon
  <2> WITNESS OpToRel(<, Nat)
  <2> QED
    BY <2>1, <2>2, Zenon
<1>2. PICK x \in T : \A y \in T : ~ (<<y, x>> \in R)
  <2>1. IsWellFoundedOn(R, Nat)
    BY <1>1
  <2> QED
    BY <2>1, WellFoundedMinimum, Zenon
<1>3. ASSUME NEW y \in T PROVE ~ (y < x)
  BY <1>1, <1>2, Zenon
<1>4. \A y \in T : x <= y
  BY <1>3
<1> QED
  BY <1>4

-----------------------------------------------------------------------------
(***************************************************************************)
(* The inductive invariant, by concern.                                    *)
(***************************************************************************)
\* The loop's phases are those of a running worker, of a stopped one, or of
\* the execution of a command.
Polling == phase \in {"sampling", "sampled", "health"}

PhaseInv ==
  /\ Polling => state = "Running"
  /\ phase \in {"failing", "failed", "closing"} => state = "Stopped"
  /\ Serving => hand # <<>>
  /\ phase = "accessing" => hand[1].kind = "Access"
  /\ phase = "closing" => hand[1].kind \in {"Stop", "Shutdown"}
  /\ phase = "publish" =>
       \/ hand[1].kind = "Start" /\ state = "Running"
       \/ hand[1].kind \in {"Stop", "Shutdown"} /\ state = "Stopped"
  /\ phase = "answer" =>
       hand[1].id # 0 /\ (hand[1].kind = "Stop" => state = "Stopped")
  /\ phase = "exited" => hand[1].kind = "Shutdown"

\* The flag follows the state, a step or two later.
FlagInv ==
  /\ state = "Running" => running \/ phase = "publish"
  /\ state = "Stopped" /\ running =>
       phase \in {"failing", "failed", "closing", "publish"}
  /\ phase \in {"failing", "failed", "closing"} => running

\* A stopped worker holds no connection but to close it or within an access.
SourceInv ==
  state = "Stopped" /\ source = "open" =>
    phase \in {"failing", "closing", "accessing"}

\* What a poll works on is scheduled, and a stopped worker schedules nothing.
DueInv ==
  /\ state = "Stopped" => DOMAIN schedules = {}
  /\ phase \in {"sampling", "sampled"} => due \subseteq DOMAIN schedules
  /\ phase = "health" => unrated \subseteq DOMAIN schedules
  /\ phase # "health" => unrated = {}

\* The failures a schedule counts are the last polls of the series, and a
\* suspended series has no schedule that would remember its failures.
FailureInv ==
  /\ \A s \in DOMAIN schedules : schedules[s].failures <= streak[s]
  /\ \A s \in Series : polling[s] = "Suspended" =>
       /\ streak[s] = MAX_CONSECUTIVE_POLL_FAILURES
       /\ s \notin DOMAIN schedules

\* How late a deadline is before and after a poll.
Late(s, d) == \/ schedules[s].left + d + Interval[s] >= 0
              \/ schedules[s].left + d + MaxPoll >= 0

DeadlineInv ==
  \A s \in DOMAIN schedules :
    /\ phase \in {"receive", "execute", "accessing"} => schedules[s].left > 0
    /\ phase \in {"sampled", "health"} => Late(s, MaxPoll)
    /\ phase \in {"sampled", "health"} /\ s \notin due => Late(s, 0)
    /\ phase = "sampling" /\ s \notin due => schedules[s].left > 0
    /\ phase \notin {"sampled", "health"} => Late(s, 0)

IInv == TypeOK /\ PhaseInv /\ FlagInv /\ SourceInv /\ DueInv /\ FailureInv
          /\ DeadlineInv

USE DEF MAX_CONSECUTIVE_POLL_FAILURES

-----------------------------------------------------------------------------
(***************************************************************************)
(* What the operators on schedules return.                                 *)
(***************************************************************************)
IsTable(schedules_) == /\ DOMAIN schedules_ \subseteq Series
                       /\ \A s \in DOMAIN schedules_ : schedules_[s] \in Schedule

\* Time only takes from the ticks left.
LEMMA AfterFacts ==
  ASSUME NEW t, IsTable(t), NEW d \in Nat
  PROVE  /\ IsTable(After(t, d))
         /\ DOMAIN After(t, d) = DOMAIN t
         /\ \A s \in DOMAIN t : /\ After(t, d)[s].left = t[s].left - d
                                /\ After(t, d)[s].failures = t[s].failures
BY DEF IsTable, After, Schedule

\* Exactly the polled series are scheduled; the known ones keep their schedule.
LEMMA SynchronizedFacts ==
  ASSUME NEW t, IsTable(t), NEW polled \in SUBSET Series
  PROVE  LET new == Synchronized(t, polled)
         IN  /\ IsTable(new)
             /\ DOMAIN new = polled
             /\ \A s \in polled :
                  \/ s \in DOMAIN t /\ new[s] = t[s]
                  \/ /\ s \notin DOMAIN t
                     /\ new[s].left = Interval[s] /\ new[s].failures = 0
BY PollScheduleAssumption DEF IsTable, Synchronized, Schedule

\* Judging s changes the failures of s only, and drops s at the third of them.
LEMMA RatedFacts ==
  ASSUME NEW t, IsTable(t), NEW s \in DOMAIN t, NEW ok \in BOOLEAN
  PROVE  LET new == Rated(t, s, ok)
         IN  /\ IsTable(new)
             /\ DOMAIN new \subseteq DOMAIN t
             /\ DOMAIN t \ {s} \subseteq DOMAIN new
             /\ \A u \in DOMAIN new \ {s} : new[u] = t[u]
             /\ s \in DOMAIN new =>
                  /\ new[s].left = t[s].left
                  /\ new[s].failures = IF ok THEN 0 ELSE t[s].failures + 1
             /\ s \notin DOMAIN new => ~ok /\ t[s].failures = 2
<1>1. t[s] \in Schedule
  BY DEF IsTable
<1>2. CASE ok
  BY <1>1, <1>2 DEF IsTable, Rated, Schedule
<1>3. CASE ~ok /\ Exhausted(t, s)
  BY <1>1, <1>3 DEF IsTable, Rated, Schedule, Exhausted
<1>4. CASE ~ok /\ ~Exhausted(t, s)
  BY <1>1, <1>4 DEF IsTable, Rated, Schedule, Exhausted
<1> QED
  BY <1>2, <1>3, <1>4

\* A deadline advanced is late by no more than the interval.
LEMMA AdvancedFacts ==
  ASSUME NEW t, IsTable(t), NEW polled \in SUBSET Series
  PROVE  LET new == Advanced(t, polled)
         IN  /\ IsTable(new)
             /\ DOMAIN new = DOMAIN t
             /\ \A s \in DOMAIN t :
                  /\ new[s].failures = t[s].failures
                  /\ s \in polled => new[s].left + Interval[s] >= 0
                  /\ s \notin polled => new[s] = t[s]
BY PollScheduleAssumption
DEF IsTable, Advanced, NextDeadline, Schedule

\* Waiting for the next deadline passes none.
LEMMA UntilNextPollFacts ==
  ASSUME NEW t, IsTable(t), \A s \in DOMAIN t : t[s].left > 0
  PROVE  /\ UntilNextPoll(t) \in Nat
         /\ \A s \in DOMAIN t : UntilNextPoll(t) <= t[s].left
<1> DEFINE lefts == {t[s].left : s \in DOMAIN t}
<1>1. lefts \subseteq Nat
  BY DEF IsTable, Schedule
<1>2. CASE DOMAIN t = {}
  BY <1>2, PollScheduleAssumption DEF UntilNextPoll
<1>3. CASE DOMAIN t # {}
  <2>1. lefts # {}
    BY <1>3
  <2>2. PICK x \in lefts : \A y \in lefts : x <= y
    BY <1>1, <2>1, LeastElement
  <2>3. Min(lefts) \in lefts /\ \A y \in lefts : Min(lefts) <= y
    BY <2>2 DEF Min
  <2>4. UntilNextPoll(t) = Min(lefts)
    BY <1>3 DEF UntilNextPoll
  <2> QED
    BY <1>1, <2>3, <2>4
<1> QED
  BY <1>2, <1>3

-----------------------------------------------------------------------------
(***************************************************************************)
(* What the actions that touch the schedules do to them.                   *)
(***************************************************************************)
USE DEF workerVars, pollVars, clientVars

Reconciled ==
  /\ IsTable(schedules')
  /\ state # "Running" => schedules' = schedules
  /\ state = "Running" =>
       /\ DOMAIN schedules' = Polled
       /\ \A s \in Polled :
            \/ s \in DOMAIN schedules /\ schedules'[s] = schedules[s]
            \/ /\ s \notin DOMAIN schedules
               /\ schedules'[s].left = Interval[s]
               /\ schedules'[s].failures = 0

\* A worker that receives waits at most until the next deadline, and does not
\* execute the command once it is reached.
Elapsed(d) ==
  /\ IsTable(schedules')
  /\ DOMAIN schedules' = DOMAIN schedules
  /\ \A s \in DOMAIN schedules :
       /\ schedules'[s].left = schedules[s].left - d
       /\ schedules'[s].failures = schedules[s].failures
  /\ Sample \/ FinishAccess => d <= MaxPoll
  /\ Receive \/ Timeout => \A s \in DOMAIN schedules :
       /\ d <= schedules[s].left
       /\ phase' = "execute" => d < schedules[s].left

OutcomeCounted(s) ==
  /\ s \in DOMAIN schedules
  /\ IsTable(schedules')
  /\ DOMAIN schedules' \subseteq DOMAIN schedules
  /\ DOMAIN schedules \ {s} \subseteq DOMAIN schedules'
  /\ \A u \in DOMAIN schedules' \ {s} : schedules'[u] = schedules[u]
  /\ s \in DOMAIN schedules' =>
       /\ schedules'[s].left = schedules[s].left
       /\ schedules'[s].failures =
            IF s \notin failed THEN 0 ELSE schedules[s].failures + 1
  /\ s \notin DOMAIN schedules' => s \in failed /\ schedules[s].failures = 2

MovedOn ==
  /\ IsTable(schedules')
  /\ DOMAIN schedules' = DOMAIN schedules
  /\ \A s \in DOMAIN schedules :
       /\ schedules'[s].failures = schedules[s].failures
       /\ s \in due => schedules'[s].left + Interval[s] >= 0
       /\ s \notin due => schedules'[s] = schedules[s]

\* The variable schedules is such a table.
LEMMA ScheduleTable ==
  ASSUME TypeOK
  PROVE  IsTable(schedules)
BY DEF TypeOK, IsTable

\* The top of the loop (synchronize_series_schedules).
LEMMA LoopFacts ==
  ASSUME TypeOK, Loop
  PROVE  Reconciled
<1>1. IsTable(schedules) /\ Polled \in SUBSET Series
  BY ScheduleTable DEF Polled
<1>2. CASE state = "Running"
  <2>1. schedules' = Synchronized(schedules, Polled)
    BY <1>2 DEF Loop
  <2> QED
    BY <1>1, <1>2, <2>1, SynchronizedFacts DEF Reconciled
<1>3. CASE state # "Running"
  BY <1>1, <1>3 DEF Loop, IsTable, Reconciled
<1> QED
  BY <1>2, <1>3

\* The actions in which time passes.
LEMMA ElapseFacts ==
  ASSUME TypeOK, DueInv, DeadlineInv,
         Sample \/ FinishAccess \/ Receive \/ Timeout
  PROVE  \E d \in Nat : Elapsed(d)
<1>1. IsTable(schedules)
  BY ScheduleTable
<1>2. CASE Sample \/ FinishAccess
  <2>1. PICK d \in 0 .. MaxPoll : schedules' = After(schedules, d)
    BY <1>2 DEF Sample, FinishAccess
  <2>2. ~Receive /\ ~Timeout
    BY <1>2 DEF Sample, FinishAccess, Receive, Timeout
  <2>3. d \in Nat /\ d <= MaxPoll
    BY ConnectionWorkerAssumption
  <2> QED
    BY <1>1, <2>1, <2>2, <2>3, AfterFacts DEF Elapsed
<1>3. CASE (Receive \/ Timeout) /\ state = "Running"
  <2>1. \A s \in DOMAIN schedules : schedules[s].left > 0
    BY <1>3 DEF DeadlineInv, Receive, Timeout
  <2>2. /\ UntilNextPoll(schedules) \in Nat
        /\ \A s \in DOMAIN schedules : UntilNextPoll(schedules) <= schedules[s].left
    BY <1>1, <2>1, UntilNextPollFacts
  <2>3. PICK d \in 0 .. UntilNextPoll(schedules) :
          /\ schedules' = After(schedules, d)
          /\ phase' = "execute" => d # UntilNextPoll(schedules)
    BY <1>3, <2>2 DEF Receive, Timeout
  <2>4. d \in Nat /\ ~Sample /\ ~FinishAccess
    BY <1>3, <2>2 DEF Sample, FinishAccess, Receive, Timeout
  <2>5. \A s \in DOMAIN schedules : schedules[s].left \in Int
    BY <1>1 DEF IsTable, Schedule
  <2>6. \A s \in DOMAIN schedules :
          d <= schedules[s].left /\ (phase' = "execute" => d < schedules[s].left)
    BY <2>2, <2>3, <2>5
  <2> QED
    BY <1>1, <2>3, <2>4, <2>6, AfterFacts DEF Elapsed
<1>4. CASE (Receive \/ Timeout) /\ state # "Running"
  <2>1. DOMAIN schedules = {} /\ schedules' = schedules
    BY <1>4 DEF TypeOK, DueInv, Receive, Timeout
  <2>2. ~Sample /\ ~FinishAccess
    BY <1>4 DEF Sample, FinishAccess, Receive, Timeout
  <2> QED
    BY <1>1, <2>1, <2>2 DEF Elapsed, IsTable
<1> QED
  BY <1>2, <1>3, <1>4

\* One round of update_series_polling_health.
LEMMA RateFacts ==
  ASSUME TypeOK, DueInv, NEW s \in Series, RateSeries(s)
  PROVE  OutcomeCounted(s)
<1> DEFINE ok == s \notin failed
<1>1. IsTable(schedules) /\ s \in DOMAIN schedules /\ ok \in BOOLEAN
  BY ScheduleTable DEF DueInv, RateSeries
<1>2. schedules' = Rated(schedules, s, ok)
  BY DEF RateSeries
<1>3. s \in failed <=> ~ok
  OBVIOUS
<1> HIDE DEF ok
<1>4. /\ IsTable(schedules')
      /\ DOMAIN schedules' \subseteq DOMAIN schedules
      /\ DOMAIN schedules \ {s} \subseteq DOMAIN schedules'
      /\ \A u \in DOMAIN schedules' \ {s} : schedules'[u] = schedules[u]
      /\ s \in DOMAIN schedules' =>
           /\ schedules'[s].left = schedules[s].left
           /\ schedules'[s].failures = IF ok THEN 0 ELSE schedules[s].failures + 1
      /\ s \notin DOMAIN schedules' => ~ok /\ schedules[s].failures = 2
  BY <1>1, <1>2, RatedFacts
<1> QED
  BY <1>1, <1>3, <1>4 DEF OutcomeCounted

\* advance_series_schedules.
LEMMA AdvanceFacts ==
  ASSUME TypeOK, AdvanceSchedules
  PROVE  MovedOn
<1>1. IsTable(schedules) /\ due \in SUBSET Series
  BY ScheduleTable DEF TypeOK
<1>2. schedules' = Advanced(schedules, due)
  BY DEF AdvanceSchedules
<1> QED
  BY <1>1, <1>2, AdvancedFacts DEF MovedOn

-----------------------------------------------------------------------------
\* The phases of the loop, the flag and the source.
LEMMA ControlStep ==
  ASSUME TypeOK, PhaseInv, FlagInv, SourceInv, DueInv, [Next]_vars
  PROVE  (PhaseInv /\ FlagInv /\ SourceInv)'
<1> USE DEF TypeOK, Phase, PhaseInv, FlagInv, SourceInv, DueInv, Polling, Serving
<1>1. ASSUME NEW kind \in {"Start", "Stop", "Access"},
             NEW s \in Series \cup {NoSeries},
             Send(kind, s)
      PROVE  (PhaseInv /\ FlagInv /\ SourceInv)'
  BY <1>1 DEF Send, Enqueue
<1>2. CASE Shutdown
  BY <1>2 DEF Shutdown, Enqueue
<1>3. CASE SendRefresh
  BY <1>3 DEF SendRefresh, Enqueue
<1>4. ASSUME NEW S \in SUBSET Series,
             RetrySeries(S)
      PROVE  (PhaseInv /\ FlagInv /\ SourceInv)'
  BY <1>4 DEF RetrySeries, Resume
<1>5. ASSUME NEW s \in Series,
             AddSeries(s)
      PROVE  (PhaseInv /\ FlagInv /\ SourceInv)'
  BY <1>5 DEF AddSeries
<1>6. ASSUME NEW s \in Series,
             RemoveSeries(s)
      PROVE  (PhaseInv /\ FlagInv /\ SourceInv)'
  BY <1>6 DEF RemoveSeries
<1>7. CASE Loop
  <2>1. Reconciled
    BY <1>7, LoopFacts
  <2>2. state = "Stopped" => due' = {}
    BY <1>7, <2>1 DEF Loop, Due, Reconciled
  <2> QED
    BY <1>7, <2>2 DEF Loop
<1>8. CASE Sample
  BY <1>8 DEF Sample
<1>9. CASE AppendSamples
  BY <1>9 DEF AppendSamples
<1>10. CASE AppendFails
  BY <1>10 DEF AppendFails
<1>11. CASE CloseFailed
  BY <1>11 DEF CloseFailed
<1>12. CASE PublishFailed
  BY <1>12 DEF PublishFailed
<1>13. ASSUME NEW s \in Series,
              RateSeries(s)
       PROVE  (PhaseInv /\ FlagInv /\ SourceInv)'
  BY <1>13 DEF RateSeries
<1>14. CASE AdvanceSchedules
  BY <1>14 DEF AdvanceSchedules
<1>15. CASE TakePending
  BY <1>15 DEF TakePending
<1>16. CASE Receive
  BY <1>16 DEF Receive
<1>17. CASE Timeout
  BY <1>17 DEF Timeout
<1>18. CASE Confirm
  <2>1. hand[1] \in Command /\ hand[1].kind \in {"Start", "Stop", "Access"}
    BY <1>18 DEF Confirm, Executes
  <2>2. hand[1].id # 0
    BY <2>1 DEF Command
  <2> QED
    BY <1>18, <2>2 DEF Confirm, Executes
<1>19. CASE StartSource
  BY <1>19 DEF StartSource, Executes, Resume
<1>20. CASE StartFails
  <2>1. hand[1] \in Command /\ hand[1].kind \in {"Start", "Stop", "Access"}
    BY <1>20 DEF StartFails, Executes
  <2>2. hand[1].id # 0
    BY <2>1 DEF Command
  <2> QED
    BY <1>20, <2>2 DEF StartFails, Executes
<1>21. CASE StopRunning
  BY <1>21 DEF StopRunning, Executes
<1>22. CASE CloseSource
  BY <1>22 DEF CloseSource
<1>23. CASE Publish
  <2>1. hand[1] \in Command
    BY <1>23 DEF Publish
  <2>2. hand[1].kind \in {"Start", "Stop"} => hand[1].id # 0
    BY <2>1 DEF Command
  <2> QED
    BY <1>23, <2>2 DEF Publish
<1>24. CASE ExitStopped
  BY <1>24 DEF ExitStopped, Executes
<1>25. CASE WakeUp
  BY <1>25 DEF WakeUp, Executes
<1>26. CASE OpenForAccess
  BY <1>26 DEF OpenForAccess, Executes
<1>27. CASE FinishAccess
  <2>1. hand[1] \in Command /\ hand[1].kind \in {"Start", "Stop", "Access"}
    BY <1>27 DEF FinishAccess
  <2>2. hand[1].id # 0
    BY <2>1 DEF Command
  <2> QED
    BY <1>27, <2>2 DEF FinishAccess, Resume
<1>28. CASE Answer
  BY <1>28 DEF Answer
<1>29. CASE UNCHANGED vars
  BY <1>29 DEF vars
<1> QED
  BY <1>1, <1>2, <1>3, <1>4, <1>5, <1>6, <1>7, <1>8, <1>9, <1>10, <1>11, <1>12, <1>13, <1>14,
     <1>15, <1>16, <1>17, <1>18, <1>19, <1>20, <1>21, <1>22, <1>23, <1>24, <1>25, <1>26, <1>27, <1>28, <1>29
  DEF Next, Client, Worker, Poll, Serve

-----------------------------------------------------------------------------
\* Types.
LEMMA TypeStep ==
  ASSUME TypeOK, PhaseInv, DueInv, DeadlineInv, [Next]_vars
  PROVE  (TypeOK)'
<1> USE DEF TypeOK, Phase, PhaseInv, Serving, IsTable
<1> USE ConnectionWorkerAssumption
<1>1. ASSUME NEW kind \in {"Start", "Stop", "Access"},
             NEW s \in Series \cup {NoSeries},
             Send(kind, s)
      PROVE  (TypeOK)'
  BY <1>1 DEF Send, Enqueue, Command, Plain
<1>2. CASE Shutdown
  <2>1. Plain("Shutdown") \in Command
    BY DEF Command, Plain
  <2>2. queue' \in Seq(Command) /\ Len(queue') <= Capacity
    BY <1>2, <2>1 DEF Shutdown, Enqueue
  <2> QED
    BY <1>2, <2>2 DEF Shutdown
<1>3. CASE SendRefresh
  <2>1. Plain("Refresh") \in Command
    BY DEF Command, Plain
  <2>2. queue' \in Seq(Command) /\ Len(queue') <= Capacity
    BY <1>3, <2>1 DEF SendRefresh, Enqueue
  <2> QED
    BY <1>3, <2>2 DEF SendRefresh
<1>4. ASSUME NEW S \in SUBSET Series, RetrySeries(S) PROVE (TypeOK)'
  BY <1>4 DEF RetrySeries, Resume
<1>5. ASSUME NEW s \in Series, AddSeries(s) PROVE (TypeOK)'
  BY <1>5 DEF AddSeries
<1>6. ASSUME NEW s \in Series, RemoveSeries(s) PROVE (TypeOK)'
  BY <1>6 DEF RemoveSeries
<1>7. CASE Loop
  <2>1. Reconciled
    BY <1>7, LoopFacts
  <2>2. due' \subseteq Series
    BY <1>7, <2>1 DEF Loop, Reconciled, Due
  <2> QED
    BY <1>7, <2>1, <2>2 DEF Loop, Reconciled
<1>8. CASE Sample
  <2>1. PICK d \in Nat : Elapsed(d)
    BY <1>8, ElapseFacts
  <2> QED
    BY <1>8, <2>1 DEF Sample, Elapsed
<1>9. CASE AppendSamples
  BY <1>9 DEF AppendSamples
<1>10. CASE AppendFails
  <2>1. unrated = {}
    BY <1>10 DEF AppendFails, DueInv
  <2> QED
    BY <1>10, <2>1 DEF AppendFails, NoSchedules
<1>11. CASE CloseFailed
  BY <1>11 DEF CloseFailed
<1>12. CASE PublishFailed
  BY <1>12 DEF PublishFailed
<1>13. ASSUME NEW s \in Series, RateSeries(s) PROVE (TypeOK)'
  <2>1. OutcomeCounted(s)
    BY <1>13, RateFacts
  <2>2. /\ polling' \in [Series -> {"new", "Enabled", "Suspended", "deleted"}]
        /\ streak' \in [Series -> 0 .. MAX_CONSECUTIVE_POLL_FAILURES]
    BY <1>13 DEF RateSeries
  <2>3. unrated' \subseteq due'
    BY <1>13 DEF RateSeries
  <2> QED
    BY <1>13, <2>1, <2>2, <2>3 DEF RateSeries, OutcomeCounted
<1>14. CASE AdvanceSchedules
  <2>1. MovedOn
    BY <1>14, AdvanceFacts
  <2> QED
    BY <1>14, <2>1 DEF AdvanceSchedules, MovedOn
<1>15. CASE TakePending
  BY <1>15 DEF TakePending
<1>16. CASE Receive
  <2>1. PICK d \in Nat : Elapsed(d)
    BY <1>16, ElapseFacts
  <2> QED
    BY <1>16, <2>1 DEF Receive, Elapsed
<1>17. CASE Timeout
  <2>1. PICK d \in Nat : Elapsed(d)
    BY <1>17, ElapseFacts
  <2> QED
    BY <1>17, <2>1 DEF Timeout, Elapsed
<1>18. CASE Confirm
  BY <1>18 DEF Confirm, Executes
<1>19. CASE StartSource
  BY <1>19 DEF StartSource, Executes, Resume, NoSchedules
<1>20. CASE StartFails
  BY <1>20 DEF StartFails, Executes
<1>21. CASE StopRunning
  BY <1>21 DEF StopRunning, Executes, NoSchedules
<1>22. CASE CloseSource
  BY <1>22 DEF CloseSource
<1>23. CASE Publish
  BY <1>23 DEF Publish
<1>24. CASE ExitStopped
  BY <1>24 DEF ExitStopped, Executes
<1>25. CASE WakeUp
  BY <1>25 DEF WakeUp, Executes
<1>26. CASE OpenForAccess
  BY <1>26 DEF OpenForAccess, Executes
<1>27. CASE FinishAccess
  <2>1. PICK d \in Nat : Elapsed(d)
    BY <1>27, ElapseFacts
  <2> QED
    BY <1>27, <2>1 DEF FinishAccess, Resume, Elapsed
<1>28. CASE Answer
  <2>1. hand[1] \in Command /\ hand[1].id # 0
    BY <1>28 DEF Answer
  <2>2. hand[1].id \in 1 .. MaxCommands
    BY <2>1 DEF Command
  <2>3. answered' \in Seq(1 .. MaxCommands)
    BY <1>28, <2>2 DEF Answer
  <2> QED
    BY <1>28, <2>3 DEF Answer
<1>29. CASE UNCHANGED vars
  BY <1>29 DEF vars
<1> QED
  BY <1>1, <1>2, <1>3, <1>4, <1>5, <1>6, <1>7, <1>8, <1>9, <1>10, <1>11, <1>12, <1>13, <1>14,
     <1>15, <1>16, <1>17, <1>18, <1>19, <1>20, <1>21, <1>22, <1>23, <1>24, <1>25, <1>26, <1>27, <1>28, <1>29
  DEF Next, Client, Worker, Poll, Serve

-----------------------------------------------------------------------------
\* What is scheduled and polled.
LEMMA DueStep ==
  ASSUME TypeOK, PhaseInv, DueInv, DeadlineInv, [Next]_vars
  PROVE  (DueInv)'
<1> USE DEF TypeOK, PhaseInv, DueInv, Polling, Serving, IsTable
<1>1. ASSUME NEW kind \in {"Start", "Stop", "Access"},
             NEW s \in Series \cup {NoSeries},
             Send(kind, s)
      PROVE  (DueInv)'
  BY <1>1 DEF Send, Enqueue
<1>2. CASE Shutdown
  BY <1>2 DEF Shutdown, Enqueue
<1>3. CASE SendRefresh
  BY <1>3 DEF SendRefresh, Enqueue
<1>4. ASSUME NEW S \in SUBSET Series, RetrySeries(S) PROVE (DueInv)'
  BY <1>4 DEF RetrySeries, Resume
<1>5. ASSUME NEW s \in Series, AddSeries(s) PROVE (DueInv)'
  BY <1>5 DEF AddSeries
<1>6. ASSUME NEW s \in Series, RemoveSeries(s) PROVE (DueInv)'
  BY <1>6 DEF RemoveSeries
<1>7. CASE Loop
  <2>1. Reconciled
    BY <1>7, LoopFacts
  <2> QED
    BY <1>7, <2>1 DEF Loop, Polled, Reconciled, Polled, Due
<1>8. CASE Sample
  <2>1. PICK d \in Nat : Elapsed(d)
    BY <1>8, ElapseFacts
  <2> QED
    BY <1>8, <2>1 DEF Sample, Elapsed
<1>9. CASE AppendSamples
  BY <1>9 DEF AppendSamples
<1>10. CASE AppendFails
  BY <1>10 DEF AppendFails, NoSchedules
<1>11. CASE CloseFailed
  BY <1>11 DEF CloseFailed
<1>12. CASE PublishFailed
  BY <1>12 DEF PublishFailed
<1>13. ASSUME NEW s \in Series, RateSeries(s) PROVE (DueInv)'
  <2>1. OutcomeCounted(s)
    BY <1>13, RateFacts
  <2> QED
    BY <1>13, <2>1 DEF RateSeries, OutcomeCounted
<1>14. CASE AdvanceSchedules
  <2>1. MovedOn
    BY <1>14, AdvanceFacts
  <2> QED
    BY <1>14, <2>1 DEF AdvanceSchedules, MovedOn
<1>15. CASE TakePending
  BY <1>15 DEF TakePending
<1>16. CASE Receive
  <2>1. PICK d \in Nat : Elapsed(d)
    BY <1>16, ElapseFacts
  <2> QED
    BY <1>16, <2>1 DEF Receive, Elapsed
<1>17. CASE Timeout
  <2>1. PICK d \in Nat : Elapsed(d)
    BY <1>17, ElapseFacts
  <2> QED
    BY <1>17, <2>1 DEF Timeout, Elapsed
<1>18. CASE Confirm
  BY <1>18 DEF Confirm, Executes
<1>19. CASE StartSource
  BY <1>19 DEF StartSource, Executes, Resume, NoSchedules
<1>20. CASE StartFails
  BY <1>20 DEF StartFails, Executes
<1>21. CASE StopRunning
  BY <1>21 DEF StopRunning, Executes, NoSchedules
<1>22. CASE CloseSource
  BY <1>22 DEF CloseSource
<1>23. CASE Publish
  BY <1>23 DEF Publish
<1>24. CASE ExitStopped
  BY <1>24 DEF ExitStopped, Executes
<1>25. CASE WakeUp
  BY <1>25 DEF WakeUp, Executes
<1>26. CASE OpenForAccess
  BY <1>26 DEF OpenForAccess, Executes
<1>27. CASE FinishAccess
  <2>1. PICK d \in Nat : Elapsed(d)
    BY <1>27, ElapseFacts
  <2> QED
    BY <1>27, <2>1 DEF FinishAccess, Resume, Elapsed
<1>28. CASE Answer
  BY <1>28 DEF Answer
<1>29. CASE UNCHANGED vars
  BY <1>29 DEF vars
<1> QED
  BY <1>1, <1>2, <1>3, <1>4, <1>5, <1>6, <1>7, <1>8, <1>9, <1>10, <1>11, <1>12, <1>13, <1>14,
     <1>15, <1>16, <1>17, <1>18, <1>19, <1>20, <1>21, <1>22, <1>23, <1>24, <1>25, <1>26, <1>27, <1>28, <1>29
  DEF Next, Client, Worker, Poll, Serve

-----------------------------------------------------------------------------
\* Failures in a row.
LEMMA FailureStep ==
  ASSUME TypeOK, DueInv, FailureInv, DeadlineInv, [Next]_vars
  PROVE  (FailureInv)'
<1> USE DEF TypeOK, FailureInv, IsTable, Schedule
<1>1. ASSUME NEW kind \in {"Start", "Stop", "Access"},
             NEW s \in Series \cup {NoSeries},
             Send(kind, s)
      PROVE  (FailureInv)'
  BY <1>1 DEF Send, Enqueue
<1>2. CASE Shutdown
  BY <1>2 DEF Shutdown, Enqueue
<1>3. CASE SendRefresh
  BY <1>3 DEF SendRefresh, Enqueue
<1>4. ASSUME NEW S \in SUBSET Series, RetrySeries(S) PROVE (FailureInv)'
  BY <1>4 DEF RetrySeries, Resume
<1>5. ASSUME NEW s \in Series, AddSeries(s) PROVE (FailureInv)'
  BY <1>5 DEF AddSeries
<1>6. ASSUME NEW s \in Series, RemoveSeries(s) PROVE (FailureInv)'
  BY <1>6 DEF RemoveSeries
<1>7. CASE Loop
  <2>1. Reconciled
    BY <1>7, LoopFacts
  <2>2. polling' = polling /\ streak' = streak
    BY <1>7 DEF Loop
  <2>3. \A s \in Series : polling[s] = "Suspended" => s \notin DOMAIN schedules'
    BY <2>1 DEF Reconciled, Polled
  <2>4. \A s \in DOMAIN schedules' : schedules'[s].failures <= streak[s]
    BY <2>1 DEF Reconciled, Polled
  <2> QED
    BY <2>2, <2>3, <2>4
<1>8. CASE Sample
  <2>1. PICK d \in Nat : Elapsed(d)
    BY <1>8, ElapseFacts
  <2> QED
    BY <1>8, <2>1 DEF Sample, Elapsed
<1>9. CASE AppendSamples
  BY <1>9 DEF AppendSamples
<1>10. CASE AppendFails
  BY <1>10 DEF AppendFails, NoSchedules
<1>11. CASE CloseFailed
  BY <1>11 DEF CloseFailed
<1>12. CASE PublishFailed
  BY <1>12 DEF PublishFailed
<1>13. ASSUME NEW s \in Series, RateSeries(s) PROVE (FailureInv)'
  <2>1. OutcomeCounted(s)
    BY <1>13, RateFacts
  <2>2. \A u \in Series \ {s} : streak'[u] = streak[u] /\ polling'[u] = polling[u]
    BY <1>13 DEF RateSeries
  <2>3. /\ streak'[s] = IF s \notin failed THEN 0
                        ELSE IF streak[s] = 3 THEN 3 ELSE streak[s] + 1
        /\ polling'[s] = IF s \notin DOMAIN schedules' /\ polling[s] = "Enabled"
                         THEN "Suspended" ELSE polling[s]
    BY <1>13 DEF RateSeries
  <2>4. schedules[s].failures <= streak[s] /\ streak[s] \in 0 .. 3
    BY <2>1 DEF OutcomeCounted
  <2>5. s \in DOMAIN schedules' => schedules'[s].failures <= streak'[s]
    BY <2>1, <2>3, <2>4 DEF OutcomeCounted
  <2>6. s \notin DOMAIN schedules' => streak'[s] = 3
    BY <2>1, <2>3, <2>4 DEF OutcomeCounted
  <2>7. polling[s] # "Suspended"
    BY <2>1 DEF OutcomeCounted
  <2> QED
    BY <2>1, <2>2, <2>3, <2>5, <2>6, <2>7 DEF OutcomeCounted
<1>14. CASE AdvanceSchedules
  <2>1. MovedOn
    BY <1>14, AdvanceFacts
  <2> QED
    BY <1>14, <2>1 DEF AdvanceSchedules, MovedOn
<1>15. CASE TakePending
  BY <1>15 DEF TakePending
<1>16. CASE Receive
  <2>1. PICK d \in Nat : Elapsed(d)
    BY <1>16, ElapseFacts
  <2> QED
    BY <1>16, <2>1 DEF Receive, Elapsed
<1>17. CASE Timeout
  <2>1. PICK d \in Nat : Elapsed(d)
    BY <1>17, ElapseFacts
  <2> QED
    BY <1>17, <2>1 DEF Timeout, Elapsed
<1>18. CASE Confirm
  BY <1>18 DEF Confirm, Executes
<1>19. CASE StartSource
  BY <1>19 DEF StartSource, Executes, Resume, NoSchedules
<1>20. CASE StartFails
  BY <1>20 DEF StartFails, Executes
<1>21. CASE StopRunning
  BY <1>21 DEF StopRunning, Executes, NoSchedules
<1>22. CASE CloseSource
  BY <1>22 DEF CloseSource
<1>23. CASE Publish
  BY <1>23 DEF Publish
<1>24. CASE ExitStopped
  BY <1>24 DEF ExitStopped, Executes
<1>25. CASE WakeUp
  BY <1>25 DEF WakeUp, Executes
<1>26. CASE OpenForAccess
  BY <1>26 DEF OpenForAccess, Executes
<1>27. CASE FinishAccess
  <2>1. PICK d \in Nat : Elapsed(d)
    BY <1>27, ElapseFacts
  <2> QED
    BY <1>27, <2>1 DEF FinishAccess, Resume, Elapsed
<1>28. CASE Answer
  BY <1>28 DEF Answer
<1>29. CASE UNCHANGED vars
  BY <1>29 DEF vars
<1> QED
  BY <1>1, <1>2, <1>3, <1>4, <1>5, <1>6, <1>7, <1>8, <1>9, <1>10, <1>11, <1>12, <1>13, <1>14,
     <1>15, <1>16, <1>17, <1>18, <1>19, <1>20, <1>21, <1>22, <1>23, <1>24, <1>25, <1>26, <1>27, <1>28, <1>29
  DEF Next, Client, Worker, Poll, Serve

-----------------------------------------------------------------------------
\* Deadlines.
LEMMA DeadlineStep ==
  ASSUME TypeOK, DueInv, DeadlineInv, [Next]_vars
  PROVE  (DeadlineInv)'
<1> USE DEF TypeOK, DueInv, DeadlineInv, Late, IsTable, Schedule
<1> USE PollScheduleAssumption, ConnectionWorkerAssumption
<1>1. ASSUME NEW kind \in {"Start", "Stop", "Access"},
             NEW s \in Series \cup {NoSeries},
             Send(kind, s)
      PROVE  (DeadlineInv)'
  BY <1>1 DEF Send, Enqueue
<1>2. CASE Shutdown
  BY <1>2 DEF Shutdown, Enqueue
<1>3. CASE SendRefresh
  BY <1>3 DEF SendRefresh, Enqueue
<1>4. ASSUME NEW S \in SUBSET Series, RetrySeries(S) PROVE (DeadlineInv)'
  BY <1>4 DEF RetrySeries, Resume
<1>5. ASSUME NEW s \in Series, AddSeries(s) PROVE (DeadlineInv)'
  BY <1>5 DEF AddSeries
<1>6. ASSUME NEW s \in Series, RemoveSeries(s) PROVE (DeadlineInv)'
  BY <1>6 DEF RemoveSeries
<1>7. CASE Loop
  <2>1. Reconciled
    BY <1>7, LoopFacts
  <2>2. \A s \in DOMAIN schedules' : s \notin due' => schedules'[s].left > 0
    BY <1>7, <2>1 DEF Loop, Due, Reconciled
  <2>3. \A s \in DOMAIN schedules' : Late(s, 0)'
    BY <1>7, <2>1 DEF Loop, Reconciled, Polled
  <2>4. /\ phase' \in {"receive", "sampling"}
        /\ phase' = "receive" => due' = {}
    BY <1>7 DEF Loop
  <2> QED
    BY <2>2, <2>3, <2>4
<1>8. CASE Sample
  <2>1. PICK d \in Nat : Elapsed(d)
    BY <1>8, ElapseFacts
  <2>2. ASSUME NEW s \in DOMAIN schedules
        PROVE  Late(s, MaxPoll)' /\ (s \notin due => Late(s, 0)')
    <3>1. /\ schedules'[s].left = schedules[s].left - d /\ d <= MaxPoll
          /\ schedules[s].left \in Int /\ Interval[s] \in Nat
      BY <1>8, <2>1 DEF Elapsed
    <3>2. Late(s, 0) /\ (s \notin due => schedules[s].left > 0)
      BY <1>8 DEF Sample
    <3> QED
      BY <3>1, <3>2
  <2> QED
    BY <1>8, <2>1, <2>2 DEF Sample, Elapsed
<1>9. CASE AppendSamples
  BY <1>9 DEF AppendSamples
<1>10. CASE AppendFails
  BY <1>10 DEF AppendFails, NoSchedules
<1>11. CASE CloseFailed
  BY <1>11 DEF CloseFailed
<1>12. CASE PublishFailed
  BY <1>12 DEF PublishFailed
<1>13. ASSUME NEW s \in Series, RateSeries(s) PROVE (DeadlineInv)'
  <2>1. OutcomeCounted(s)
    BY <1>13, RateFacts
  <2> QED
    BY <1>13, <2>1 DEF RateSeries, OutcomeCounted
<1>14. CASE AdvanceSchedules
  <2>1. MovedOn
    BY <1>14, AdvanceFacts
  <2> QED
    BY <1>14, <2>1 DEF AdvanceSchedules, MovedOn
<1>15. CASE TakePending
  BY <1>15 DEF TakePending
<1>16. CASE Receive
  <2>1. PICK d \in Nat : Elapsed(d)
    BY <1>16, ElapseFacts
  <2> QED
    BY <1>16, <2>1 DEF Receive, Elapsed
<1>17. CASE Timeout
  <2>1. PICK d \in Nat : Elapsed(d)
    BY <1>17, ElapseFacts
  <2> QED
    BY <1>17, <2>1 DEF Timeout, Elapsed
<1>18. CASE Confirm
  BY <1>18 DEF Confirm, Executes
<1>19. CASE StartSource
  BY <1>19 DEF StartSource, Executes, Resume, NoSchedules
<1>20. CASE StartFails
  BY <1>20 DEF StartFails, Executes
<1>21. CASE StopRunning
  BY <1>21 DEF StopRunning, Executes, NoSchedules
<1>22. CASE CloseSource
  BY <1>22 DEF CloseSource
<1>23. CASE Publish
  BY <1>23 DEF Publish
<1>24. CASE ExitStopped
  BY <1>24 DEF ExitStopped, Executes
<1>25. CASE WakeUp
  BY <1>25 DEF WakeUp, Executes
<1>26. CASE OpenForAccess
  BY <1>26 DEF OpenForAccess, Executes
<1>27. CASE FinishAccess
  <2>1. PICK d \in Nat : Elapsed(d)
    BY <1>27, ElapseFacts
  <2> QED
    BY <1>27, <2>1 DEF FinishAccess, Resume, Elapsed
<1>28. CASE Answer
  BY <1>28 DEF Answer
<1>29. CASE UNCHANGED vars
  BY <1>29 DEF vars
<1> QED
  BY <1>1, <1>2, <1>3, <1>4, <1>5, <1>6, <1>7, <1>8, <1>9, <1>10, <1>11, <1>12, <1>13, <1>14,
     <1>15, <1>16, <1>17, <1>18, <1>19, <1>20, <1>21, <1>22, <1>23, <1>24, <1>25, <1>26, <1>27, <1>28, <1>29
  DEF Next, Client, Worker, Poll, Serve
-----------------------------------------------------------------------------
(***************************************************************************)
(* The theorems.                                                           *)
(***************************************************************************)
\* The invariant holds when the worker is spawned.
LEMMA InitHolds ==
  ASSUME Init
  PROVE  IInv
<1>1. NoSchedules = [s \in {} |-> [left |-> 0, failures |-> 0]] /\ DOMAIN NoSchedules = {}
  BY DEF NoSchedules
<1>2. TypeOK
  <2>1. queue \in Seq(Command) /\ Len(queue) <= Capacity
    BY ConnectionWorkerAssumption DEF Init
  <2>2. answered \in Seq(1 .. MaxCommands) /\ sent \in 0 .. MaxCommands
    BY ConnectionWorkerAssumption DEF Init
  <2>3. DOMAIN schedules = {}
    BY <1>1 DEF Init
  <2>4. /\ polling \in [Series -> {"new", "Enabled", "Suspended", "deleted"}]
        /\ streak \in [Series -> 0 .. MAX_CONSECUTIVE_POLL_FAILURES]
    BY DEF Init
  <2> QED
    BY <2>1, <2>2, <2>3, <2>4 DEF Init, TypeOK, Phase
<1>3. PhaseInv /\ FlagInv /\ SourceInv /\ DueInv /\ FailureInv /\ DeadlineInv
  BY <1>1 DEF Init, PhaseInv, FlagInv, SourceInv, DueInv, FailureInv,
    DeadlineInv, Polling, Serving
<1> QED
  BY <1>2, <1>3 DEF IInv

\* IInv is inductive.
LEMMA Invariance == Spec => []IInv
<1>1. IInv /\ [Next]_vars => IInv'
  BY ControlStep, TypeStep, DueStep, FailureStep, DeadlineStep DEF IInv
<1> QED
  BY <1>1, InitHolds, PTL DEF Spec

\* Every variable keeps its type, in particular no schedule ever counts three
\* failures: the series is suspended instead.
THEOREM TypeCorrect == Spec => []TypeOK
<1>1. IInv => TypeOK
  BY DEF IInv
<1> QED
  BY <1>1, Invariance, PTL

\* update_series_polling_health suspends a series only after three failed polls
\* in a row, whatever retries, restarts and deletions happen meanwhile.
THEOREM SuspensionIsEarned == Spec => []SuspensionNeedsThreeFailures
<1>1. IInv => SuspensionNeedsThreeFailures
  BY DEF IInv, FailureInv, SuspensionNeedsThreeFailures
<1> QED
  BY <1>1, Invariance, PTL

\* advance_series_schedules keeps the backlog of every series bounded, for any
\* intervals and any duration of the polls.
THEOREM DeadlinesAreKept == Spec => []BacklogIsBounded
<1>1. IInv => BacklogIsBounded
  <2> SUFFICES ASSUME IInv, NEW s \in DOMAIN schedules
               PROVE  Late(s, MaxPoll)
    BY DEF BacklogIsBounded, Late
  <2>1. schedules[s].left \in Int /\ Interval[s] \in Nat /\ MaxPoll \in Nat
    BY PollScheduleAssumption, ConnectionWorkerAssumption
    DEF IInv, TypeOK, Schedule
  <2>2. Late(s, 0) \/ Late(s, MaxPoll)
    BY DEF IInv, DeadlineInv
  <2> QED
    BY <2>1, <2>2 DEF Late
<1> QED
  BY <1>1, Invariance, PTL

\* When other threads read that the worker is stopped, its source is closed.
THEOREM StoppedConnectionsAreClosed == Spec => []StoppedIsClosed
<1>1. IInv => StoppedIsClosed
  BY DEF IInv, TypeOK, PhaseInv, FlagInv, SourceInv, StoppedIsClosed
<1> QED
  BY <1>1, Invariance, PTL

-----------------------------------------------------------------------------
(***************************************************************************)
(* The refinement of RequestQueue.                                         *)
(***************************************************************************)
Inbox == IF Serving THEN queue ELSE hand \o queue
InService == IF Serving THEN hand ELSE <<>>
seen == <<Inbox, InService, answered, running>>

\* A command put before a sequence is its head.
LEMMA FirstOfConcat ==
  ASSUME NEW S, NEW c \in S, NEW q \in Seq(S)
  PROVE  /\ <<c>> \in Seq(S)
         /\ <<c>> \o q # <<>>
         /\ Head(<<c>> \o q) = c
         /\ Tail(<<c>> \o q) = q
<1>1. <<c>> \in Seq(S)
  OBVIOUS
<1>2. <<c>> \o q \in Seq(S) /\ <<c>> \o q # <<>>
  BY <1>1
<1>3. Head(<<c>> \o q) = c
  BY <1>1
<1>4. Tail(<<c>> \o q) = q
  BY <1>1
<1> QED
  BY <1>1, <1>2, <1>3, <1>4

\* The inbox with and without a command put aside.
LEMMA HandFacts ==
  ASSUME TypeOK
  PROVE  /\ hand = <<>> => hand \o queue = queue
         /\ hand # <<>> => /\ <<Head(hand \o queue)>> = hand
                           /\ Tail(hand \o queue) = queue
                           /\ hand \o queue # <<>>
         /\ queue # <<>> => <<Head(queue)>> \o Tail(queue) = queue
         /\ \A r \in Command : hand \o Append(queue, r) = Append(hand \o queue, r)
<1>1. queue \in Seq(Command)
  BY DEF TypeOK
<1>2. hand # <<>> => \E c \in Command : hand = <<c>>
  BY DEF TypeOK
<1>3. hand = <<>> => hand \o queue = queue
  BY <1>1
<1>4. hand # <<>> => /\ <<Head(hand \o queue)>> = hand
                     /\ Tail(hand \o queue) = queue
                     /\ hand \o queue # <<>>
  BY <1>1, <1>2, FirstOfConcat
<1>5. queue # <<>> => <<Head(queue)>> \o Tail(queue) = queue
  BY <1>1
<1>6. \A r \in Command : hand \o Append(queue, r) = Append(hand \o queue, r)
  <2>1. hand \in Seq(Command)
    <3>1. <<>> \in Seq(Command)
      OBVIOUS
    <3>2. \A c \in Command : <<c>> \in Seq(Command)
      BY <1>1, FirstOfConcat
    <3> QED
      BY <1>2, <3>1, <3>2
  <2> QED
    BY <1>1, <2>1
<1> QED
  BY <1>3, <1>4, <1>5, <1>6

\* A request sent goes to the end of the inbox.
LEMMA SubmitRefines ==
  ASSUME TypeOK, NEW r \in Command, Enqueue(r), UNCHANGED workerVars
  PROVE  Requests!Submit
<1>1. Inbox' = Append(Inbox, r)
  BY HandFacts DEF Enqueue, Inbox, Serving, workerVars
<1>2. UNCHANGED <<InService, answered, running>>
  BY DEF InService, Serving, workerVars
<1> QED
  BY <1>1, <1>2 DEF Requests!Submit, Inbox, InService

\* Each step of the worker is a step of RequestQueue, or shows nothing.
LEMMA StepRefines ==
  ASSUME IInv, [Next]_vars
  PROVE  Requests!Next \/ UNCHANGED seen
<1> USE DEF IInv
<1>1. ASSUME NEW kind \in {"Start", "Stop", "Access"},
             NEW s \in Series \cup {NoSeries}, Send(kind, s)
      PROVE  Requests!Submit
  <2>1. [kind |-> kind, id |-> sent + 1, series |-> s] \in Command
    BY <1>1, ConnectionWorkerAssumption DEF Send, Command, TypeOK
  <2> QED
    BY <1>1, <2>1, SubmitRefines DEF Send
<1>2. CASE Shutdown
  <2>1. Plain("Shutdown") \in Command
    BY DEF Command, Plain
  <2>2. Requests!Submit
    BY <1>2, <2>1, SubmitRefines DEF Shutdown
  <2> QED
    BY <2>2 DEF Requests!Next
<1>3. CASE SendRefresh
  <2>1. Plain("Refresh") \in Command
    BY DEF Command, Plain
  <2>2. Requests!Submit
    BY <1>3, <2>1, SubmitRefines DEF SendRefresh
  <2> QED
    BY <2>2 DEF Requests!Next
<1>4. ASSUME NEW s \in Series,
             AddSeries(s) \/ RemoveSeries(s) \/ RetrySeries({s}) \/ RetrySeries(Series)
      PROVE  UNCHANGED seen
  BY <1>4 DEF AddSeries, RemoveSeries, RetrySeries, seen, Inbox, InService, Serving
<1>5. ASSUME RetrySeries(Series) PROVE UNCHANGED seen
  BY <1>5 DEF RetrySeries, seen, Inbox, InService, Serving
<1>6. CASE Loop \/ Sample \/ AppendSamples \/ AppendFails \/ CloseFailed
             \/ AdvanceSchedules \/ Timeout
  BY <1>6 DEF Loop, Sample, AppendSamples, AppendFails, CloseFailed,
    AdvanceSchedules, Timeout, seen, Inbox, InService, Serving
<1>7. ASSUME NEW s \in Series, RateSeries(s) PROVE UNCHANGED seen
  BY <1>7 DEF RateSeries, seen, Inbox, InService, Serving
<1>8. CASE PublishFailed
  <2>1. InService = <<>> /\ running' = FALSE /\ UNCHANGED <<Inbox, InService, answered>>
    BY <1>8 DEF PublishFailed, Inbox, InService, Serving
  <2>2. Requests!Halt
    BY <2>1 DEF Requests!Halt, Inbox, InService
  <2> QED
    BY <2>2 DEF Requests!Next
<1>9. CASE TakePending
  <2>1. InService = <<>> /\ Inbox # <<>>
    BY <1>9, HandFacts DEF TakePending, Inbox, InService, Serving
  <2>2. InService' = <<Head(Inbox)>> /\ Inbox' = Tail(Inbox)
    BY <1>9, HandFacts DEF TakePending, Inbox, InService, Serving
  <2>3. Requests!Take
    BY <1>9, <2>1, <2>2 DEF TakePending, Requests!Take, Inbox, InService
  <2> QED
    BY <2>3 DEF Requests!Next
<1>10. CASE Receive
  <2>1. InService = <<>> /\ Inbox = queue /\ queue # <<>>
    BY <1>10, HandFacts DEF Receive, Inbox, InService, Serving
  <2>2. CASE phase' = "execute"
    <3>1. InService' = <<Head(Inbox)>> /\ Inbox' = Tail(Inbox)
      BY <1>10, <2>1, <2>2 DEF Receive, Inbox, InService, Serving
    <3>2. Requests!Take
      BY <1>10, <2>1, <3>1 DEF Receive, Requests!Take, Inbox, InService
    <3> QED
      BY <3>2 DEF Requests!Next
  <2>3. CASE phase' = "loop"
    <3>1. InService' = <<>> /\ Inbox' = queue
      BY <1>10, <2>1, <2>3, HandFacts DEF Receive, Inbox, InService, Serving
    <3> QED
      BY <1>10, <2>1, <3>1 DEF Receive, seen
  <2> QED
    BY <1>10, <2>2, <2>3 DEF Receive
<1>11. CASE Confirm \/ StartSource \/ StartFails \/ StopRunning \/ CloseSource
              \/ OpenForAccess \/ FinishAccess
  BY <1>11 DEF Confirm, StartSource, StartFails, StopRunning, CloseSource,
    OpenForAccess, FinishAccess, Executes, seen, Inbox, InService, Serving
<1>12. CASE Publish
  <2>1. InService = hand /\ hand # <<>> /\ UNCHANGED <<Inbox, InService, answered>>
    BY <1>12 DEF Publish, PhaseInv, Inbox, InService, Serving
  <2>2. CASE state = "Running"
    <3>1. hand[1].kind = "Start" /\ running' = TRUE
      BY <1>12, <2>2 DEF Publish, PhaseInv
    <3>2. Requests!Run
      BY <2>1, <3>1 DEF Requests!Run, Requests!Serves, Inbox, InService
    <3> QED
      BY <3>2 DEF Requests!Next
  <2>3. CASE state # "Running"
    <3>1. hand[1].kind \in {"Stop", "Shutdown"} /\ running' = FALSE
      BY <1>12, <2>3 DEF Publish, PhaseInv
    <3>2. Requests!Halt
      BY <2>1, <3>1 DEF Requests!Halt, Requests!Serves, Inbox, InService
    <3> QED
      BY <3>2 DEF Requests!Next
  <2> QED
    BY <2>2, <2>3
<1>13. CASE ExitStopped
  <2>1. /\ InService = hand /\ hand # <<>> /\ hand[1].kind = "Shutdown"
        /\ running' = FALSE /\ UNCHANGED <<Inbox, InService, answered>>
    BY <1>13 DEF ExitStopped, Executes, PhaseInv, Inbox, InService, Serving
  <2>2. Requests!Halt
    BY <2>1 DEF Requests!Halt, Requests!Serves, Inbox, InService
  <2> QED
    BY <2>2 DEF Requests!Next
<1>14. CASE WakeUp
  <2>1. InService = hand /\ hand # <<>> /\ hand[1].kind = "Refresh"
    BY <1>14 DEF WakeUp, Executes, PhaseInv, InService, Serving
  <2>2. InService' = <<>> /\ UNCHANGED <<Inbox, answered, running>>
    BY <1>14 DEF WakeUp, Executes, TypeOK, Inbox, InService, Serving
  <2>3. Requests!Drop
    BY <2>1, <2>2 DEF Requests!Drop, Requests!Serves, Inbox, InService
  <2> QED
    BY <2>3 DEF Requests!Next
<1>15. CASE Answer
  <2>1. InService = hand /\ hand # <<>> /\ hand[1].id # 0
    BY <1>15 DEF Answer, PhaseInv, InService, Serving
  <2>2. hand[1].kind = "Stop" => ~running
    BY <1>15 DEF Answer, PhaseInv, FlagInv, TypeOK
  <2>3. /\ InService' = <<>> /\ UNCHANGED <<Inbox, running>>
        /\ answered' = Append(answered, InService[1].id)
    BY <1>15, <2>1 DEF Answer, TypeOK, Inbox, InService, Serving
  <2>4. Requests!Answer
    BY <2>1, <2>2, <2>3 DEF Requests!Answer, Requests!Serves, Inbox, InService
  <2> QED
    BY <2>4 DEF Requests!Next
<1>16. CASE UNCHANGED vars
  BY <1>16 DEF vars, seen, Inbox, InService, Serving
<1>17. CASE Client
  BY <1>17, <1>1, <1>2, <1>3, <1>4, <1>5 DEF Client, Requests!Next
<1> QED
  BY <1>6, <1>7, <1>8, <1>9, <1>10, <1>11, <1>12, <1>13, <1>14, <1>15, <1>16,
     <1>17
  DEF Next, Worker, Poll, Serve

\* The worker implements RequestQueue: polls, time and the command put aside
\* for a poll change nothing of what its clients see.
THEOREM ImplementsRequestQueue == Spec => ServesRequests
<1>1. Init => Requests!Init
  BY DEF Init, Serving, Requests!Init
<1>2. IInv /\ [Next]_vars => [Requests!Next]_Requests!vars
  BY StepRefines DEF Requests!vars, seen, Inbox, InService
<1> QED
  BY <1>1, <1>2, Invariance, PTL DEF Spec, ServesRequests, Requests!Spec

==============================================================================
