SPECIFICATION OneSessionSpec
CONSTANTS
  Scores <- MCScores
  NegInfinity <- MCNegInfinity
  Seeds = {"lru", "fifo"}
  NumBranches = 1
  Rounds = 2
  Interval = 1
  MaxSpawn = 2
  Resume = FALSE
  MaxCrashes = 0
INVARIANTS TypeOK TreeSound BranchesSound ResultsCurrent BestPolicyWritten OneBest DeadEndsSpareBest
PROPERTIES HeadsFollowChildren SessionEnds
