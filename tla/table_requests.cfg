\* Three players at one group table, two requests at a time, a second start
\* included.  The bound on versions stops the run: no deadlock check.
SPECIFICATION Spec
CONSTANTS
  Players = {p1, p2, p3}
  GroupChats = {group}
  SingleChats = {}
  Requests = {r1, r2}
  MaxSessions = 1
  Capacity = 3
  StartBank = 1
  Bet = 1
  Deltas <- WinOrLose
  TopUp = 1
  MaxVersion = 3
  MaxBans = 0
  MaxTopUps = 0
  NoPlayer = NoPlayer
  NoChat = NoChat
CHECK_DEADLOCK FALSE
SYMMETRY Interchangeable
INVARIANTS
  PaidPerDeal
  ClosedSeatsPaid
  TurnOnDealtSeat
  BankExplained
PROPERTIES
  ReopenedOnlyByDeal
  SeatKeepsItsPlayer
