---------------------------- MODULE PollSchedule ----------------------------
(***************************************************************************)
(* When a connection worker polls its series, as operators on the table of *)
(* schedules it keeps.  Time is counted in ticks and a deadline is kept as *)
(* the ticks left to it, negative once it is missed: every decision of the *)
(* worker compares a deadline with the present.                            *)
(***************************************************************************)
EXTENDS Integers, FiniteSetsExt

CONSTANTS
  Series,           \* the polled series of one connection
  Interval,         \* the sampling interval of each, or the default one
  DefaultInterval   \* the poll interval of the worker's configuration

ASSUME PollScheduleAssumption ==
  /\ Interval \in [Series -> Nat \ {0}]
  /\ DefaultInterval \in Nat \ {0}

MAX_CONSECUTIVE_POLL_FAILURES == 3

Schedule == [left : Int, failures : 0 .. MAX_CONSECUTIVE_POLL_FAILURES - 1]
Schedules == UNION {[S -> Schedule] : S \in SUBSET Series}
NoSchedules == [s \in {} |-> [left |-> 0, failures |-> 0]]

\* d ticks pass.
After(schedules, d) ==
  [s \in DOMAIN schedules |-> [schedules[s] EXCEPT !.left = @ - d]]

\* Series no longer polled lose their schedule, new ones get a whole interval.
Synchronized(schedules, polled) ==
  [s \in polled |->
     IF s \in DOMAIN schedules THEN schedules[s]
     ELSE [left |-> Interval[s], failures |-> 0]]

Due(schedules) == {s \in DOMAIN schedules : schedules[s].left <= 0}

\* Ticks until the next deadline.
UntilNextPoll(schedules) ==
  IF DOMAIN schedules = {} THEN DefaultInterval
  ELSE Min({schedules[s].left : s \in DOMAIN schedules})

\* The series fails its third poll in a row.
Exhausted(schedules, s) ==
  schedules[s].failures + 1 >= MAX_CONSECUTIVE_POLL_FAILURES

\* Mutant: a success does not clear the failures before it.
RatedMutant(schedules, s, ok) ==
  IF ok THEN schedules
  ELSE IF Exhausted(schedules, s)
       THEN [t \in DOMAIN schedules \ {s} |-> schedules[t]]
       ELSE [schedules EXCEPT ![s].failures = @ + 1]

\* The table once the outcome of the poll of s is known.
Rated(schedules, s, ok) ==
  IF ok THEN [schedules EXCEPT ![s].failures = 0]
  ELSE IF Exhausted(schedules, s)
       THEN [t \in DOMAIN schedules \ {s} |-> schedules[t]]
       ELSE [schedules EXCEPT ![s].failures = @ + 1]

\* Mutant: missed deadlines are never given up.
NextDeadlineMutant(s, left) == left + Interval[s]

\* The next deadline follows the previous one by an interval; when more than
\* another interval has passed since, it follows the completion instead.
NextDeadline(s, left) ==
  IF left + 2 * Interval[s] < 0 THEN Interval[s] ELSE left + Interval[s]

Advanced(schedules, polled) ==
  [s \in DOMAIN schedules |->
     IF s \in polled
     THEN [schedules[s] EXCEPT !.left = NextDeadline(s, @)]
     ELSE schedules[s]]
=============================================================================
