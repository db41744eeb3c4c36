---------------------------- MODULE MCPlannedLoop ----------------------------
(* Values for the constants of PlannedLoop a .cfg cannot write: the seeds   *)
(* in the order of their names, among them noop, the calibration baseline.  *)
EXTENDS PlannedLoop, TreeViews

MCScores == {-1, 0}
MCNegInfinity == -9
MCSeedFiles == <<"lru", "noop">>
MCFourSeedFiles == <<"fifo", "lru", "mru", "noop">>
MCConfigSeeds == << >>
=============================================================================
