SPECIFICATION PoolSpec
CONSTANTS
  Requests = {"split", "whole"}
  Split = {"split", "whole"}
  Locked = FALSE
  Nobody = Nobody
  Round <- MCSameRound
  MaxRound = 1
  Workers = {}
  Preflight = FALSE
  Probes = {iostat}
INVARIANTS MeasurementIsOwn
