SPECIFICATION PlannedSpec
CONSTANTS
  Scores <- MCScores
  NegInfinity <- MCNegInfinity
  Seeds = {"fifo", "lru", "mru"}
  NumBranches = 4
  Rounds = 1
  Interval = 1
  MaxSpawn = 0
  Resume = FALSE
  MaxCrashes = 0
  SeedFiles <- MCFourSeedFiles
  Baseline = "noop"
  UsePlanner = {TRUE}
  ConfigSeeds <- MCConfigSeeds
INVARIANTS PlannerProceeds
