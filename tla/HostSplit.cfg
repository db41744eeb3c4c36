SPECIFICATION PoolFairSpec
CONSTANTS
  Requests = {"split", "late"}
  Split = {"split"}
  Locked = TRUE
  Nobody = Nobody
  Round <- MCRound
  MaxRound = 2
  Workers = {w1, w2}
  Preflight = TRUE
  Probes = {iostat}
INVARIANTS PoolTypeOK ScoresUnderPolicy MeasuredAlone MeasurementIsOwn NothingLeft
PROPERTIES RunEnds ReceivedAnswered
