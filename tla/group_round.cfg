\* Two players who split, stop at any moment and time out.
SPECIFICATION Spec
CONSTANTS
  SeatCount = 2
  Ranks = {1, 10}
  DealerTotals = {20, 22}
  Banks = {4}
  Bets = {2}
  PlayerActions = {"stand", "split", "insurance"}
  ChatMode = "group"
INVARIANTS UnsplitSeatPaidOnce RoundInv
PROPERTIES LeaverIsLeftAlone TurnMovesForward BankMovesAreRecorded
\* A closed round is the end of this specification.
CHECK_DEADLOCK FALSE
