----------------------------- MODULE MCWorkerPool -----------------------------
(* The rounds of the calls: the call of the first may still hold the host   *)
(* when that of the second comes; or all are of one round.                  *)
EXTENDS WorkerPool

MCRound == [r \in Requests |-> IF r = "late" THEN 2 ELSE 1]
MCSameRound == [r \in Requests |-> 1]
=============================================================================
