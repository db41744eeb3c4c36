SPECIFICATION Spec
CONSTANTS
  Branches = {b1, b2}
  Rounds = 1
  MaxTimeouts = 1
  Nothing = Nothing
INVARIANTS ScoreIsOfItsCode
