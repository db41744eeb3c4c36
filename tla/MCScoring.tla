------------------------------- MODULE MCScoring -------------------------------
(* Values for the constants of Scoring a .cfg cannot write.  iostat counts  *)
(* twice as much as throughput.  The two seeds read different values, one   *)
(* branch what they read on average, the other worse and no throughput.     *)
EXTENDS Scoring

CONSTANTS iostat, throughput

MCDirection == [p \in Probes |-> IF p = iostat THEN "minimize" ELSE "maximize"]
MCWeight == [p \in Probes |-> IF p = iostat THEN 2 ELSE 1]

Read(i, t) == [p \in Probes |-> IF p = iostat THEN i ELSE t]

MCReported == {Probes, {iostat}}

MCReading ==
  [s \in Seeds \cup Branches |->
     CASE s = "noop" -> Read(3, 2) [] s = "lru" -> Read(1, 4)
       [] s = "b0" -> Read(2, 3) [] OTHER -> Read(4, Missing)]
=============================================================================
