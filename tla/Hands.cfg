SPECIFICATION SuiteSpec
CONSTANTS
  NSeats = 4
  SmallBlind = 1
  BigBlind = 2
  Seeds <- MCSeeds
  Strength <- MCStrength
  NoSeat = NoSeat
  StackSizes = {2, 4, 7}
  Buttons = {0}
  Amounts = {0, 1, 2, 3, 4, 5, 6, 7, 8}
  StartingStack = 3
  SittingOut = {2}
  NoHand = NoHand
  LastHand = 2
INVARIANTS HandSound StatsSound SessionSound
PROPERTY EveryHandEnds
