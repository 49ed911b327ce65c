SPECIFICATION Spec
CONSTANTS
  Hands = {1, 2}
  Length = 2
  Procs = {p1, p2}
  EarlyHands = {1}
  MaxRebuilds = 1
  MaxCrashes = 1
SYMMETRY ProcsAreAlike
INVARIANTS ReadModelsSafe RebuildEqualsIncremental
