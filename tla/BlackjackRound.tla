---------------------------- MODULE BlackjackRound ----------------------------
(***************************************************************************)
(* One round of blackjack as the game service plays it.                    *)
(*                                                                         *)
(* Every public operation of the service loads the session under row       *)
(* locks, runs the state machine, writes the rows through the repository   *)
(* and commits; an error rolls everything back.  An action of this module  *)
(* is one such committed transaction, the dealer's play and the settlement *)
(* included when the move ends the players' phase.  A rolled back request  *)
(* changes nothing and is not a step.                                      *)
(***************************************************************************)
EXTENDS BlackjackCards, FiniteSets

CONSTANTS
  SeatCount,      \* seats of the session, 1 in a single chat
  Ranks,          \* the ranks draw_card may return
  DealerTotals,   \* the totals a dealer who must draw may end with
  Banks,          \* the banks players may come with
  Bets,           \* the bets they may place
  PlayerActions,  \* the settings' player_actions
  ChatMode        \* "single" or "group"

ASSUME SeatCountAssumption == SeatCount \in Nat \ {0}
ASSUME RanksAssumption == Ranks \subseteq AllRanks
ASSUME DealerTotalsAssumption == DealerTotals \subseteq DealerStandScore..26
ASSUME BanksAssumption == Banks \subseteq Nat
ASSUME BetsAssumption == Bets \subseteq Nat \ {0}
ASSUME PlayerActionsAssumption ==
  PlayerActions \subseteq {"hit", "stand", "double", "split", "insurance"}
ASSUME ChatModeAssumption == ChatMode \in {"single", "group"}
ASSUME SingleChatAssumption == ChatMode = "single" => SeatCount = 1

Positions == 1..SeatCount
NoPosition == 0

HandIndices == 0..3       \* ck_player_hands_hand_index_range
NoHand == -1

SessionStatus == {"lobby_open", "in_progress", "closed"}
SeatStatus == {"joined", "active", "inactive", "settled"}

\* A row of player_hands; "absent" stands for no row with that hand_index.
HandRow == [status : {"absent", "active", "inactive", "settled"},
            cards  : CardHand,
            bet    : Nat]

NoCards == [sum |-> 0, ace |-> FALSE, n |-> 1, rank |-> NoRank]
NoRow == [status |-> "absent", cards |-> NoCards, bet |-> 0]

VARIABLES
  status,      \* game_sessions.status
  turnVersion, \* game_sessions.turn_version
  position,    \* game_sessions.current_position, NoPosition for NULL
  handIndex,   \* game_sessions.current_hand_index, NoHand for NULL
  timer,       \* whether game_sessions.current_timer is set
  dealer,      \* game_sessions.dealer_cards: the hand and its first rank
  hands,       \* player_hands of each seat, by hand_index
  seatStatus,  \* player_to_session.participant_status
  bet,         \* player_to_session.bet, the stake brought from the lobby
  insurance,   \* player_to_session.insurance_bet
  bank,        \* players.bank
  results      \* number of "result" records of the seat in states

session == <<status, turnVersion, position, handIndex, timer, dealer>>
vars == <<session, hands, seatStatus, bet, insurance, bank, results>>

-----------------------------------------------------------------------------
(* load_context: what a transaction sees of each seat.                     *)

ActiveHandIndex(p) ==
  IF p = position /\ handIndex # NoHand THEN handIndex ELSE 0

LoadedHand(p) ==
  LET i == ActiveHandIndex(p)
  IN IF hands[p][i].status = "absent" THEN hands[p][0] ELSE hands[p][i]

LoadedActive == {p \in Positions : LoadedHand(p).status = "active"}

Playable(p) == p \in LoadedActive /\ CanAct(LoadedHand(p).cards)

Least(S, default) ==
  IF S = {} THEN default ELSE CHOOSE x \in S : \A y \in S : x <= y

\* repository._next_playable_position_after looks at the cards alone.
NextByCards(p) ==
  Least({q \in Positions : q > p /\ CanAct(LoadedHand(q).cards)}, NoPosition)

NextPlayableAnywhere(p) == Least({q \in Positions : q # p /\ Playable(q)}, NoPosition)

\* turn_rules.next_playable_position: active seats whose loaded hand can act.
NextPlayable(p) == Least({q \in Positions : q > p /\ Playable(q)}, NoPosition)

\* current_hand_index once the turn is assigned to a position.
FirstHand(pos) == IF pos = NoPosition THEN NoHand ELSE 0

-----------------------------------------------------------------------------
(* Writing a transaction back.                                             *)

BumpForgotten(n) == UNCHANGED turnVersion
Bump(n) == turnVersion' = turnVersion + n

\* _sync_primary_hand_status: the hand is over, or its seat left.
RowLeftActive(row) == row
FinishedRow(row) == [row EXCEPT !.status = "inactive"]

\* ck_players_bank_non_negative
BankUnchecked(amount) == TRUE
BankAllows(amount) == amount >= 0

KeepPlaying(hs, pos, hix) ==
  /\ status' = "in_progress"
  /\ position' = pos
  /\ handIndex' = hix
  /\ timer' = TRUE
  /\ hands' = hs
  /\ UNCHANGED <<dealer, seatStatus, bank, insurance, results>>

RowDelta(row, d) ==
  IF row.status \in {"active", "inactive"} THEN HandDelta(row.cards, row.bet, d) ELSE 0

\* What settlement credits to a seat: all its unsettled hands and insurance.
SeatDelta(rows, stake, d) ==
  RowDelta(rows[0], d) + RowDelta(rows[1], d) + RowDelta(rows[2], d)
    + RowDelta(rows[3], d) + InsuranceDelta(stake, d)

SettleRows(rows) ==
  [i \in HandIndices |->
     IF rows[i].status = "absent" THEN rows[i] ELSE [rows[i] EXCEPT !.status = "settled"]]

(***************************************************************************)
(* The drained terminal phases: the dealer plays, the seats the            *)
(* transaction still holds as active are paid, the session closes.  A      *)
(* payment that would break ck_players_bank_non_negative fails the commit. *)
(***************************************************************************)
CloseRound(hs, due, start, bk, st, rs) ==
  \E final \in DealerFinals(start.cards, DealerTotals) :
    LET Delta(p) == IF p \in due THEN SeatDelta(hs[p], insurance[p], final) ELSE 0 IN
    /\ \A p \in Positions : BankAllows(bk[p] + Delta(p))
    /\ status' = "closed"
    /\ position' = NoPosition
    /\ handIndex' = NoHand
    /\ timer' = FALSE
    /\ dealer' = [start EXCEPT !.cards = final]
    /\ hands' = [p \in Positions |-> IF p \in due THEN SettleRows(hs[p]) ELSE hs[p]]
    /\ seatStatus' = [p \in Positions |-> IF p \in due THEN "settled" ELSE st[p]]
    /\ bank' = [p \in Positions |-> bk[p] + Delta(p)]
    /\ results' = [p \in Positions |-> IF p \in due THEN rs[p] + 1 ELSE rs[p]]
    /\ UNCHANGED insurance

\* The turn goes to a position, or the round ends when there is none left.
PassTurn(hs, pos, hix, due) ==
  IF pos = NoPosition
  THEN CloseRound(hs, due, dealer, bank, seatStatus, results)
  ELSE KeepPlaying(hs, pos, hix)

-----------------------------------------------------------------------------
(* Split hands.                                                            *)

PendingHands(rows) ==
  {i \in HandIndices : rows[i].status = "active" /\ rows[i].cards.n = 1}

AdvanceToAnyHand(rows, a, draws) ==
  LET next == Least({i \in HandIndices : i > a /\ rows[i].status = "active"}, NoHand)
  IN [next |-> next,
      rows |-> [i \in HandIndices |->
        IF i = next /\ i \in DOMAIN draws
        THEN [rows[i] EXCEPT !.cards = Draw(@, draws[i])]
        ELSE rows[i]]]

(***************************************************************************)
(* Hand a of a seat is done: go through its later active hands, give each  *)
(* the card its split put aside (draws: nobody sees that card before, so   *)
(* it may as well be drawn now), and stop at the first that can act.  The  *)
(* hands passed over are finished.                                         *)
(***************************************************************************)
AdvanceHand(rows, a, draws) ==
  LET later == {i \in HandIndices : i > a /\ rows[i].status = "active"}
      Cards(i) == IF i \in DOMAIN draws THEN Draw(rows[i].cards, draws[i]) ELSE rows[i].cards
      next == Least({i \in later : CanAct(Cards(i))}, NoHand)
      Visited(i) == i \in later /\ (next = NoHand \/ i <= next)
  IN [next |-> next,
      rows |-> [i \in HandIndices |->
        IF Visited(i)
        THEN [rows[i] EXCEPT !.cards = Cards(i),
                             !.status = IF i = next THEN "active" ELSE "inactive"]
        ELSE rows[i]]]

InsertHandTooFar(rows, a, row) ==
  [i \in HandIndices |-> IF i <= a + 1     THEN rows[i]
                         ELSE IF i = a + 2 THEN row
                         ELSE rows[i - 1]]

\* The seat's hands after the split hand a, the later ones shifted right.
InsertHand(rows, a, row) ==
  [i \in HandIndices |-> IF i <= a     THEN rows[i]
                         ELSE IF i = a + 1 THEN row
                         ELSE rows[i - 1]]

\* Hand a of seat p is over and the seat has later hands to play or skip.
LeaveHand(p, rows, a) ==
  \E draws \in [PendingHands(rows) -> Ranks] :
    LET step == AdvanceHand([rows EXCEPT ![a] = FinishedRow(@)], a, draws)
        hs == [hands EXCEPT ![p] = step.rows]
        pos == NextByCards(p)
    IN IF step.next # NoHand
       THEN KeepPlaying(hs, p, step.next)
       ELSE PassTurn(hs, pos, FirstHand(pos), LoadedActive \ {p})

\* The last hand of a turn keeps the status the seat was loaded with.
RowClosedAfterTurn(row) == [row EXCEPT !.status = "inactive"]
RowAfterTurn(row) == row

\* A hit that stops the hand, a stand or a double: persist_player_move.
FinishHand(p, row) ==
  LET a == handIndex
      rows == [hands[p] EXCEPT ![a] = RowAfterTurn(row)]
      pos == NextPlayable(p)
  IN IF \E i \in HandIndices : i > a /\ rows[i].status = "active"
     THEN LeaveHand(p, rows, a)
     ELSE PassTurn([hands EXCEPT ![p] = rows], pos, FirstHand(pos), LoadedActive)

-----------------------------------------------------------------------------
(* Operations.                                                             *)

Init ==
  /\ status = "lobby_open"
  /\ turnVersion = 0
  /\ position = NoPosition
  /\ handIndex = NoHand
  /\ timer = FALSE
  /\ dealer = [up |-> NoRank, cards |-> NoCards]
  /\ hands = [p \in Positions |-> [i \in HandIndices |-> NoRow]]
  /\ seatStatus = [p \in Positions |-> "joined"]
  /\ bank \in [Positions -> Banks]
  /\ bet \in [Positions -> Bets]
  /\ \A p \in Positions : bank[p] >= bet[p]
  /\ insurance = [p \in Positions |-> 0]
  /\ results = [p \in Positions |-> 0]

DealtRows(cards, stake) ==
  [i \in HandIndices |->
     IF i = 0 THEN [status |-> "active", cards |-> OpeningHand(cards[1], cards[2]), bet |-> stake]
     ELSE NoRow]

\* start_session: deal, then the first seat that can act or straight to the dealer.
StartRound ==
  /\ status = "lobby_open"
  /\ \E deal \in [Positions -> Ranks \X Ranks], dealerDeal \in Ranks \X Ranks :
       LET hs == [p \in Positions |-> DealtRows(deal[p], bet[p])]
           dealt == [up |-> dealerDeal[1], cards |-> OpeningHand(dealerDeal[1], dealerDeal[2])]
           st == [p \in Positions |-> "active"]
           first == Least({p \in Positions : CanAct(hs[p][0].cards)}, NoPosition)
       IN IF first = NoPosition
          THEN CloseRound(hs, Positions, dealt, bank, st, results)
          ELSE /\ status' = "in_progress"
               /\ position' = first
               /\ handIndex' = 0
               /\ timer' = TRUE
               /\ dealer' = dealt
               /\ hands' = hs
               /\ seatStatus' = st
               /\ UNCHANGED <<bank, insurance, results>>
  /\ Bump(1)
  /\ UNCHANGED bet

\* validate_player_move, and the accessor's checks on the actor before it.
MayAct(p, action) ==
  /\ action \in PlayerActions
  /\ status = "in_progress"
  /\ position = p
  /\ Playable(p)

CurrentRow(p) == hands[p][handIndex]

Hit(p) ==
  /\ MayAct(p, "hit")
  /\ \E r \in Ranks :
       LET row == [CurrentRow(p) EXCEPT !.cards = Draw(@, r)]
       IN IF Score(row.cards) < 21
          THEN KeepPlaying([hands EXCEPT ![p][handIndex] = row], p, handIndex)
          ELSE FinishHand(p, row)
  /\ Bump(1)
  /\ UNCHANGED bet

Stand(p) ==
  /\ MayAct(p, "stand")
  /\ FinishHand(p, CurrentRow(p))
  /\ Bump(1)
  /\ UNCHANGED bet

RaiseWithOneBet(p) == bank[p] >= CurrentRow(p).bet

\* The bank must cover the hand's bet twice before it is raised.
CanRaise(p) == bank[p] >= 2 * CurrentRow(p).bet

Double(p) ==
  /\ MayAct(p, "double")
  /\ CurrentRow(p).cards.n = 2
  /\ CanRaise(p)
  /\ \E r \in Ranks :
       FinishHand(p, [CurrentRow(p) EXCEPT !.cards = Draw(@, r), !.bet = 2 * @])
  /\ Bump(1)
  /\ UNCHANGED bet

HandCount(p) == Cardinality({i \in HandIndices : hands[p][i].status # "absent"})

\* The hand keeps its first card and draws; the other card seeds a new hand.
Split(p) ==
  LET row == CurrentRow(p)
      a == handIndex
  IN
  /\ MayAct(p, "split")
  /\ IsPair(row.cards)
  /\ CanRaise(p)
  /\ HandCount(p) < 4
  /\ \E r \in Ranks :
       LET seed == SeedHand(row.cards.rank)
           first == [row EXCEPT !.cards = Draw(seed, r)]
           rows == InsertHand([hands[p] EXCEPT ![a] = first], a, [row EXCEPT !.cards = seed])
       IN IF CanAct(first.cards)
          THEN KeepPlaying([hands EXCEPT ![p] = rows], p, a)
          ELSE LeaveHand(p, rows, a)
  /\ Bump(1)
  /\ UNCHANGED bet

InsurableAgain(p) == TRUE

\* Insurance is sold once per seat and round.
Insurable(p) == insurance[p] = 0

\* The insurance stake leaves the bank at once; the turn stays where it is.
Insurance(p) ==
  LET row == CurrentRow(p)
      stake == row.bet \div 2
  IN
  /\ MayAct(p, "insurance")
  /\ row.cards.n = 2
  /\ Insurable(p)
  /\ dealer.up = 1
  /\ stake > 0
  /\ bank[p] >= row.bet + stake
  /\ bank' = [bank EXCEPT ![p] = @ - stake]
  /\ insurance' = [insurance EXCEPT ![p] = stake]
  /\ Bump(1)
  /\ UNCHANGED <<status, position, handIndex, timer, dealer, hands, seatStatus, bet, results>>

\* handle_timeout on an expired timer; a seat that is not active is left alone.
Timeout(p) ==
  /\ status = "in_progress"
  /\ timer
  /\ position = p
  /\ p \in LoadedActive
  /\ LET pos == NextPlayable(p) IN PassTurn(hands, pos, FirstHand(pos), LoadedActive)
  /\ Bump(1)
  /\ UNCHANGED bet

(***************************************************************************)
(* stop_group_player: the seat is paid at once, on its loaded hand and the *)
(* dealer's cards so far, and leaves.  The turn moves only when it was the *)
(* leaver's, but the hand pointer is rewritten in any case.                *)
(***************************************************************************)
PlayerStop(p) ==
  LET delta == RowDelta(LoadedHand(p), dealer.cards) + InsuranceDelta(insurance[p], dealer.cards)
      bk == [bank EXCEPT ![p] = @ + delta]
      hs == [hands EXCEPT ![p][0] = FinishedRow(@)]
      st == [seatStatus EXCEPT ![p] = "inactive"]
      rs == [results EXCEPT ![p] = @ + 1]
      pos == IF position = p THEN NextPlayable(p) ELSE position
      remaining == LoadedActive \ {p}
  IN
  /\ ChatMode = "group"
  /\ status = "in_progress"
  /\ p \in LoadedActive
  /\ BankAllows(bk[p])
  /\ IF remaining # {} /\ pos = NoPosition
     THEN /\ CloseRound(hs, remaining, dealer, bk, st, rs)
          /\ Bump(2)
     ELSE /\ status' = IF remaining = {} THEN "closed" ELSE "in_progress"
          /\ position' = IF remaining = {} THEN NoPosition ELSE pos
          /\ handIndex' = IF remaining = {} THEN NoHand ELSE 0
          /\ timer' = (remaining # {})
          /\ hands' = hs
          /\ bank' = bk
          /\ seatStatus' = st
          /\ results' = rs
          /\ Bump(1)
          /\ UNCHANGED <<dealer, insurance>>
  /\ UNCHANGED bet

PlayerMove(p) == Hit(p) \/ Stand(p) \/ Double(p) \/ Split(p) \/ Insurance(p)

Next ==
  \/ StartRound
  \/ \E p \in Positions : PlayerMove(p) \/ Timeout(p) \/ PlayerStop(p)

Spec == Init /\ [][Next]_vars

-----------------------------------------------------------------------------
(* Properties.                                                             *)

\* Every variable keeps the shape of the column or the record it stands for.
TypeOK ==
  /\ status \in SessionStatus
  /\ turnVersion \in Nat
  /\ position \in Positions \cup {NoPosition}
  /\ handIndex \in HandIndices \cup {NoHand}
  /\ timer \in BOOLEAN
  /\ dealer \in [up : AllRanks \cup {NoRank}, cards : CardHand]
  /\ hands \in [Positions -> [HandIndices -> HandRow]]
  /\ seatStatus \in [Positions -> SeatStatus]
  /\ bet \in [Positions -> Nat]
  /\ insurance \in [Positions -> Nat]
  /\ bank \in [Positions -> Nat]
  /\ results \in [Positions -> Nat]

\* The seat never split: it has no second hand.
Unsplit(p) == hands[p][1].status = "absent"

(***************************************************************************)
(* However stops, timeouts and other seats' splits interleave, a seat that *)
(* never split ends the round with exactly one result record: it is        *)
(* neither paid twice (by its stop and again by the settlement of the      *)
(* round) nor forgotten when the round closes.                             *)
(***************************************************************************)
UnsplitSeatPaidOnce ==
  \A p \in Positions :
    /\ results[p] <= 1
    /\ status = "closed" /\ Unsplit(p) => results[p] = 1

(***************************************************************************)
(* The rows of a seat's hands are numbered without gaps, whatever the      *)
(* order of splits and re-splits and of the shifts they make.              *)
(***************************************************************************)
HandRowsContiguous ==
  \A p \in Positions, i \in 1..3 :
    hands[p][i].status # "absent" => hands[p][i - 1].status # "absent"

(***************************************************************************)
(* The invariant that explains UnsplitSeatPaidOnce.  Who is settled when   *)
(* the round closes is decided by one status: that of the hand under the   *)
(* turn for the seat on turn, that of hand 0 for the others.  So a seat    *)
(* still in play that did not split keeps hand 0 active, a seat that was   *)
(* paid keeps it closed, and a turn handed to a paid seat is on its hand 0 *)
(* and nowhere else.                                                       *)
(***************************************************************************)
SeatInPlay(hs, rs, p) ==
  /\ hs[p][0].status # "absent"
  /\ rs[p] = 0 => hs[p][1].status # "absent" \/ hs[p][0].status = "active"
  /\ rs[p] # 0 => rs[p] = 1 /\ hs[p][0].status # "active"

SeatPaid(hs, rs, p) == rs[p] <= 1 /\ (hs[p][1].status = "absent" => rs[p] = 1)

RoundInv ==
  /\ TypeOK
  /\ HandRowsContiguous
  /\ status = "lobby_open" => \A p \in Positions : results[p] = 0
  /\ status = "in_progress" =>
       /\ position # NoPosition /\ handIndex # NoHand
       /\ hands[position][handIndex].status # "absent"
       /\ results[position] # 0 => handIndex = 0
       /\ \A p \in Positions : SeatInPlay(hands, results, p)
  /\ status = "closed" => \A p \in Positions : SeatPaid(hands, results, p)

(***************************************************************************)
(* While the round is in progress the turn is on a hand that can act and   *)
(* has a deadline: a request or a timeout can always move the round on.    *)
(***************************************************************************)
TurnHolderCanAct ==
  status = "in_progress" =>
    /\ timer
    /\ position # NoPosition
    /\ hands[position][handIndex].status = "active"
    /\ CanAct(hands[position][handIndex].cards)

(***************************************************************************)
(* The hands of the seat on turn are played in order: those before the     *)
(* current one are over, those after it still wait with one card.          *)
(***************************************************************************)
SplitHandsPlayedInOrder ==
  status = "in_progress" =>
    \A i \in HandIndices :
      /\ i < handIndex => hands[position][i].status = "inactive"
      /\ i > handIndex => /\ hands[position][i].status \in {"absent", "active"}
                         /\ hands[position][i].cards.n = 1

\* A seat that did not stop is settled with every one of its hands.
EverySeatSettled ==
  status = "closed" => \A p \in Positions : results[p] >= 1

\* The open stakes of a seat never exceed what its bank can still lose.
OpenStake(p) ==
  LET Stake(i) == IF hands[p][i].status \in {"active", "inactive"} THEN hands[p][i].bet ELSE 0
  IN Stake(0) + Stake(1) + Stake(2) + Stake(3)

StakesCovered ==
  status = "in_progress" => \A p \in Positions : results[p] = 0 => OpenStake(p) <= bank[p]

(***************************************************************************)
(* A seat that was paid by its stop is left alone until the round is over: *)
(* its bank, hands and insurance stay as the stop left them, although its  *)
(* later split hands may still be active, the turn may come back to it     *)
(* (the repository passes a turn by the cards alone, a stop rewrites the   *)
(* hand pointer), and the settlement loads its rows again.                 *)
(***************************************************************************)
LeaverIsLeftAlone ==
  [][\A p \in Positions :
       status = "in_progress" /\ results[p] # 0 =>
         /\ bank'[p] = bank[p] /\ results'[p] = results[p]
         /\ hands'[p] = hands[p] /\ insurance'[p] = insurance[p]]_vars

(***************************************************************************)
(* The bank of a seat moves only together with a result record of that     *)
(* seat or with the purchase of its insurance, and insurance is bought at  *)
(* most once: the records explain every balance a player is shown.         *)
(***************************************************************************)
BankMovesAreRecorded ==
  [][\A p \in Positions :
       /\ bank'[p] # bank[p] => results'[p] = results[p] + 1 \/ insurance'[p] # insurance[p]
       /\ insurance'[p] # insurance[p] =>
            insurance[p] = 0 /\ bank'[p] = bank[p] - insurance'[p]]_vars

\* The turn only moves forward around the table.
TurnMovesForward ==
  [][position' # NoPosition => position' >= position]_vars

\* The round does not go to the dealer while the seat on turn has a hand to play.
\* Does not hold: a timeout on a split hand does not look at the next hand.
DealerWaitsForSplitHands ==
  [][status = "in_progress" /\ status' = "closed" =>
       \A i \in HandIndices : i > handIndex => hands[position][i].status # "active"]_vars
=============================================================================
