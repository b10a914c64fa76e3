\* Three players at a table without splits: hits, doubles, stops, timeouts.
SPECIFICATION Spec
CONSTANTS
  SeatCount = 3
  Ranks = {5, 10}
  DealerTotals = {20}
  Banks = {3, 4}
  Bets = {2}
  PlayerActions = {"hit", "stand", "double"}
  ChatMode = "group"
INVARIANTS TurnHolderCanAct EverySeatSettled StakesCovered
PROPERTIES TurnProtocol
\* A closed round is the end of this specification.
CHECK_DEADLOCK FALSE
