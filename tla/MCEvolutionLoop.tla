--------------------------- MODULE MCEvolutionLoop ---------------------------
(* Values for the constants of EvolutionLoop a .cfg cannot write.  Scores   *)
(* below and at the score of a seed root: a better, a worse and an equal    *)
(* result all happen, and every result can lose to an unevaluated root.     *)
EXTENDS TreeViews

MCScores == {-1, 0}
MCNegInfinity == -9

(* One session: Spec for MaxCrashes = 0 and Resume = FALSE, where Crash,    *)
(* StartResumed and StartUnreadable are never enabled.                      *)
OneSession ==
  \/ StartFresh \/ Plant \/ Evolve
  \/ \E b \in running : Step(b)
  \/ Stopped

OneSessionSpec == Init /\ [][OneSession]_vars /\ Fairness
=============================================================================
