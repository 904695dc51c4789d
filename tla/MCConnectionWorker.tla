------------------------- MODULE MCConnectionWorker -------------------------
(* Instances of ConnectionWorker for the model checker. *)
EXTENDS ConnectionWorker

TwoIntervals == [s \in Series |-> IF s = "fast" THEN 1 ELSE 2]
=============================================================================
