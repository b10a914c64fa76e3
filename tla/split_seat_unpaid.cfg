\* A split whose last hand draws to 21 by itself.
SPECIFICATION Spec
CONSTANTS
  SeatCount = 1
  Ranks = {1, 10}
  DealerTotals = {20}
  Banks = {16}
  Bets = {2}
  PlayerActions = {"stand", "split"}
  ChatMode = "single"
INVARIANT EverySeatSettled

\* A closed round is the end of this specification.
CHECK_DEADLOCK FALSE
