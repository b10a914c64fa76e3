\* One player, a bank that covers every stake: splits of splits down the shoe.
SPECIFICATION Spec
CONSTANTS
  SeatCount = 1
  Ranks = {1, 8, 10}
  DealerTotals = {20, 22}
  Banks = {16}
  Bets = {2}
  PlayerActions = {"stand", "double", "split", "insurance"}
  ChatMode = "single"
INVARIANTS TypeOK HandRowsContiguous TurnHolderCanAct SplitHandsPlayedInOrder
\* A closed round is the end of this specification.
CHECK_DEADLOCK FALSE
