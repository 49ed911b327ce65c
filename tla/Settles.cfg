SPECIFICATION FairSpec
CONSTANTS
  SmallBlind = 1
  BigBlind = 2
  StartingStack = 4
  Strength <- MCStrength
  NoSeat = NoSeat
  SittingOut = {}
  NoHand = NoHand
  Procs = {p1, p2}
  Patient = {p1}
  Requests <- MCRequests
  NSeats = 2
  Seeds = {1}
  Ids = {c1, c2}
  MaxHands = 1
  MaxExpected = 4
PROPERTY CompletedIsSettled
