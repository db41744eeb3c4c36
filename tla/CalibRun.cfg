SPECIFICATION ScoringFairSpec
CONSTANTS
  Seeds = {"noop", "lru"}
  Branches = {"b0", "b1"}
  iostat = iostat
  throughput = throughput
  Probes = {iostat, throughput}
  Reported <- MCReported
  NumRuns = 1
  NumWorkers = 2
  MaxRounds = 2
  MaxSessions = 2
  Direction <- MCDirection
  Weight <- MCWeight
  MinN = 2
  Missing = Missing
  Reading <- MCReading
INVARIANTS TypeOK LogBehindStatistics SmokeTested StatisticsAreSaved ScoredAlike WelfordExact ScoresRank
PROPERTIES SamplesKept CalibrationEnds
