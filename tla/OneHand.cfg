SPECIFICATION Spec
CONSTANTS
  SmallBlind = 1
  BigBlind = 2
  StartingStack = 4
  Strength <- MCStrength
  NoSeat = NoSeat
  SittingOut = {}
  NoHand = NoHand
  Procs = {p1, p2}
  Patient = {}
  Requests <- MCRequests
  NSeats = 3
  Seeds = {1}
  Ids = {c1, c2, c3, c4}
  MaxHands = 1
  MaxExpected = 8
SYMMETRY Symmetric
INVARIANTS
  HistoriesReplay
  CommandOnce
  ReportedIsDurable
