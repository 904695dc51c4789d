---------------------------- MODULE RequestQueue ----------------------------
(***************************************************************************)
(* What a connection worker promises to those who send it requests: they   *)
(* are served one at a time, in the order they were sent, each is answered *)
(* once, and when a Stop is answered the worker is known to be stopped.    *)
(* How polls are fitted in between is not visible here.                    *)
(***************************************************************************)
EXTENDS Naturals, Sequences

CONSTANT Requests \* records with a kind, and an id unless it is 0

VARIABLES
  inbox,    \* requests sent and not begun
  serving,  \* the request being served, <<>> if there is none
  answered, \* ids of the requests answered, in order
  running   \* the worker's public flag: it acquires samples

vars == <<inbox, serving, answered, running>>

Init == /\ inbox = <<>>
        /\ serving = <<>>
        /\ answered = <<>>
        /\ running = FALSE

Serves(kind) == serving # <<>> /\ serving[1].kind = kind

Submit == /\ \E r \in Requests : inbox' = Append(inbox, r)
        /\ UNCHANGED <<serving, answered, running>>

Take == /\ serving = <<>>
        /\ inbox # <<>>
        /\ serving' = <<Head(inbox)>>
        /\ inbox' = Tail(inbox)
        /\ UNCHANGED <<answered, running>>

\* Only a Start makes the worker run; a Stop, a Shutdown or a failure of the
\* acquisition, which happens between requests, ends that.
Run == /\ Serves("Start")
       /\ running' = TRUE
       /\ UNCHANGED <<inbox, serving, answered>>

Halt == /\ Serves("Stop") \/ Serves("Shutdown") \/ serving = <<>>
        /\ running' = FALSE
        /\ UNCHANGED <<inbox, serving, answered>>

Answer == /\ serving # <<>>
          /\ serving[1].id # 0
          /\ Serves("Stop") => ~running
          /\ answered' = Append(answered, serving[1].id)
          /\ serving' = <<>>
          /\ UNCHANGED <<inbox, running>>

\* A refresh of the schedules asks for no answer.
Drop == /\ Serves("Refresh")
        /\ serving' = <<>>
        /\ UNCHANGED <<inbox, answered, running>>

Next == Submit \/ Take \/ Run \/ Halt \/ Answer \/ Drop

Spec == Init /\ [][Next]_vars
=============================================================================
