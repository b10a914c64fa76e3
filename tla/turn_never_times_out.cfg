\* One player starts a round and then does nothing; nothing goes wrong.
SPECIFICATION FairSpec
CONSTANTS
  Holders = {p1, p2}
  NoHolder = NoHolder
  MaxRounds = 1
  MaxVersion = 3
  MaxFaults = 0
  MaxUpdates = 1
PROPERTY EveryTurnEnds
\* The bound on the updates ends this specification.
CHECK_DEADLOCK FALSE
