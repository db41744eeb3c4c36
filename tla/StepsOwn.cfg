SPECIFICATION FairSpec
CONSTANTS
  Branches = {b1, b2}
  Rounds = 2
  MaxTimeouts = 1
  Nothing = Nothing
INVARIANTS TypeOK SnapshotIsOwn
PROPERTIES LastRoundEnds
