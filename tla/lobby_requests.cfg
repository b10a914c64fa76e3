\* Two players, a group chat and a private chat, two requests at a time: the
\* sessions are opened, joined, started and dealt, but no turn is played
\* (MaxVersion), so a round ends only when every hand is dealt 21.
\* The bounds on sessions and versions stop the run: no deadlock check.
SPECIFICATION Spec
CONSTANTS
  Players = {p1, p2}
  GroupChats = {group}
  SingleChats = {single}
  Requests = {r1, r2}
  MaxSessions = 2
  Capacity = 2
  StartBank = 1
  Bet = 1
  Deltas <- WinOrLose
  TopUp = 1
  MaxVersion = 1
  MaxBans = 1
  MaxTopUps = 1
  NoPlayer = NoPlayer
  NoChat = NoChat
CHECK_DEADLOCK FALSE
SYMMETRY Interchangeable
INVARIANTS
  TypeOK
  OneUnfinishedPerChat
  BankExplained
