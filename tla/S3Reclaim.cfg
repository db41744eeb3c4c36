SPECIFICATION FairSpec
CONSTANTS
  Pages = {p1, p2}
  CPUs = {c1}
  CacheSize = 15
  SizeRange = 256
  MaxRequest = 2
  MaxAdds = 3
  FreqFloor <- MCFreqFloor
INVARIANTS TypeOK QueuesSound SizesBound
PROPERTIES MainNotStarved
