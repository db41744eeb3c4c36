SPECIFICATION PlannedSpec
CONSTANTS
  Scores <- MCScores
  NegInfinity <- MCNegInfinity
  Seeds = {"lru"}
  NumBranches = 2
  Rounds = 1
  Interval = 1
  MaxSpawn = 0
  Resume = TRUE
  MaxCrashes = 2
  SeedFiles <- MCSeedFiles
  Baseline = "noop"
  UsePlanner = {TRUE, FALSE}
  ConfigSeeds <- MCConfigSeeds
INVARIANTS BestPolicyNotBehind PlanFulfilled LayoutSound
PROPERTY ArchiveKept
