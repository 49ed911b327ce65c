SPECIFICATION Spec
CONSTANTS
  SmallBlind = 1
  BigBlind = 2
  StartingStack = 4
  Strength <- MCStrength
  NoSeat = NoSeat
  SittingOut = {}
  NoHand = NoHand
  Procs = {p1, p2}
  Patient = {}
  Requests <- MCRequests
  NSeats = 2
  Seeds = {1}
  Ids = {c1, c2}
  MaxHands = 2
  MaxExpected = 4
SYMMETRY Symmetric
INVARIANT RetryIsAnswered
