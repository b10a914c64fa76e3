\* One chat with two players and two rounds: two updates are sent, one thing
\* goes wrong.
SPECIFICATION FairSpec
CONSTANTS
  Holders = {p1, p2}
  NoHolder = NoHolder
  MaxRounds = 2
  MaxVersion = 2
  MaxFaults = 1
  MaxUpdates = 2
INVARIANTS TypeOK CommandAppliedOnce DoneMeansOver NoticeIsAnswered
PROPERTIES TimerKeptUntilOver ScheduledTurnEnds
\* The bound on the updates ends this specification.
CHECK_DEADLOCK FALSE
