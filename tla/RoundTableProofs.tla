--------------------------- MODULE RoundTableProofs ---------------------------
(***************************************************************************)
(* What BlackjackRound guarantees where the splits of one seat cannot      *)
(* meet the turn of another:                                               *)
(*                                                                         *)
(*   - at a table whose settings leave "split" out of player_actions, for  *)
(*     any number of seats, stops and timeouts: the turn is always on a    *)
(*     hand that can act, every seat is settled and every stake covered;   *)
(*   - in a single chat, with splits of splits: the turn is always on a    *)
(*     hand that can act, and the hands are played in order.               *)
(*                                                                         *)
(* With splits at a table of several seats these properties fail.          *)
(***************************************************************************)
EXTENDS BlackjackRoundProofs

-----------------------------------------------------------------------------
(* Tables without splits.                                                  *)

\* Nobody has a second hand.
OneHandEach(hs) == \A p \in Positions : hs[p][1].status = "absent"

\* A seat that is not paid yet can still pay for its hand.
BetsCovered(hs, bk, rs) == \A p \in Positions : rs[p] = 0 => hs[p][0].bet <= bk[p]

(***************************************************************************)
(* Beside RoundInv: there is one hand for each seat, so the hand pointer   *)
(* never leaves hand 0 and load_context sees of every seat the hand it     *)
(* plays; and the bank covers the bet from the lobby on.                   *)
(***************************************************************************)
TableInv ==
  /\ OneHandEach(hands)
  /\ status = "lobby_open" => \A p \in Positions : bet[p] <= bank[p]
  /\ status = "in_progress" => handIndex = 0 /\ BetsCovered(hands, bank, results)
  /\ TurnHolderCanAct

\* A seat that did not split has no hand but hand 0.
LEMMA OnlyHandZero ==
  ASSUME NEW rows, RowsOk(rows), rows[1].status = "absent", NEW i \in HandIndices, i # 0
  PROVE  rows[i].status = "absent"
  BY SplitHasSecondHand

\* A turn passed on reaches a seat further on that can act.
LEMMA NextPlayableActs ==
  ASSUME NEW p \in Positions, NextPlayable(p) # NoPosition
  PROVE  /\ NextPlayable(p) \in Positions /\ NextPlayable(p) # p
         /\ Playable(NextPlayable(p))
<1> DEFINE A == {q \in Positions : q > p /\ Playable(q)}
<1>1. A \in SUBSET Nat
  BY SeatCountAssumption DEF Positions
<1>2. /\ A # {} => Least(A, NoPosition) \in A
      /\ A = {} => Least(A, NoPosition) = NoPosition
  <2> HIDE DEF A
  <2> QED BY <1>1, LeastMember
<1>3. NextPlayable(p) = Least(A, NoPosition)
  BY DEF NextPlayable
<1>4. NextPlayable(p) \in A
  <2> HIDE DEF A
  <2> QED BY <1>2, <1>3
<1>5. p \in Nat
  BY SeatCountAssumption DEF Positions
<1> QED BY <1>4, <1>5

\* Every seat is loaded with its only hand.
LEMMA LoadedOnlyHand ==
  ASSUME RoundInv, TableInv, status = "in_progress", NEW p \in Positions
  PROVE  LoadedHand(p) = hands[p][0]
  BY LoadedFacts DEF TableInv

\* The turn on a hand that can act keeps the invariant.
LEMMA KeepPlayingTable ==
  ASSUME NEW hs, NEW pos \in Positions, KeepPlaying(hs, pos, 0),
         OneHandEach(hs), BetsCovered(hs, bank, results),
         hs[pos][0].status = "active", CanAct(hs[pos][0].cards)
  PROVE  TableInv'
<1>1. /\ status' = "in_progress" /\ position' = pos /\ handIndex' = 0 /\ timer'
      /\ hands' = hs /\ bank' = bank /\ results' = results
  BY DEF KeepPlaying
<1>2. position' # NoPosition
  BY <1>1, SeatCountAssumption DEF Positions, NoPosition
<1>3. TurnHolderCanAct'
  BY <1>1, <1>2 DEF TurnHolderCanAct
<1>4. OneHandEach(hands') /\ BetsCovered(hands', bank', results')
  BY <1>1
<1> QED BY <1>1, <1>3, <1>4 DEF TableInv, OneHandEach, BetsCovered

\* A closed round has nothing to prove but that nobody split.
LEMMA CloseRoundTable ==
  ASSUME NEW hs, NEW due, NEW start, NEW bk, NEW st, NEW rs,
         CloseRound(hs, due, start, bk, st, rs), OneHandEach(hs)
  PROVE  TableInv'
<1>1. /\ status' = "closed"
      /\ hands' = [p \in Positions |-> IF p \in due THEN SettleRows(hs[p]) ELSE hs[p]]
  BY DEF CloseRound
<1>2. ASSUME NEW p \in Positions
      PROVE  hands'[p][1].status = "absent"
  BY <1>1 DEF SettleRows, OneHandEach, HandIndices
<1> QED BY <1>1, <1>2 DEF TableInv, OneHandEach, TurnHolderCanAct

\* Passing the turn after the seat p, whose row alone may have changed.
LEMMA PassTurnTable ==
  ASSUME RoundInv, TableInv, status = "in_progress", NEW p \in Positions, NEW hs, NEW due,
         \A q \in Positions \ {p} : hs[q] = hands[q],
         OneHandEach(hs), BetsCovered(hs, bank, results),
         PassTurn(hs, NextPlayable(p), FirstHand(NextPlayable(p)), due)
  PROVE  TableInv'
<1>1. CASE NextPlayable(p) = NoPosition
  BY <1>1, CloseRoundTable DEF PassTurn
<1>2. CASE NextPlayable(p) # NoPosition
  <2> DEFINE pos == NextPlayable(p)
  <2>1. pos \in Positions \ {p} /\ Playable(pos)
    BY <1>2, NextPlayableActs
  <2>2. hs[pos][0].status = "active" /\ CanAct(hs[pos][0].cards)
    BY <2>1, LoadedOnlyHand DEF Playable, LoadedActive
  <2>3. KeepPlaying(hs, pos, 0)
    BY <1>2 DEF PassTurn, FirstHand
  <2> HIDE DEF pos
  <2> QED BY <2>1, <2>2, <2>3, KeepPlayingTable
<1> QED BY <1>1, <1>2

\* A seat that may move plays its hand 0, and nothing else.
LEMMA MayActTable ==
  ASSUME RoundInv, TableInv, NEW p \in Positions, NEW action, MayAct(p, action)
  PROVE  /\ status = "in_progress" /\ position = p /\ handIndex = 0
         /\ CurrentRow(p) = hands[p][0]
         /\ CurrentRow(p) \in HandRow /\ CurrentRow(p).status = "active"
         /\ CurrentRow(p).bet \in Nat /\ bank[p] \in Nat
         /\ CurrentRow(p).bet <= bank[p]
         /\ results[p] = 0
<1>1. /\ status = "in_progress" /\ position = p /\ results[p] = 0
      /\ CurrentRow(p) = hands[p][handIndex]
      /\ CurrentRow(p) \in HandRow /\ CurrentRow(p).status = "active"
  BY MayActFacts
<1>2. handIndex = 0 /\ hands[p][0].bet <= bank[p]
  BY <1>1 DEF TableInv, BetsCovered
<1>3. CurrentRow(p).bet \in Nat /\ bank[p] \in Nat
  BY <1>1 DEF HandRow, RoundInv, TypeOK
<1> QED BY <1>1, <1>2, <1>3

\* The table with the row of one seat replaced by another it can pay for.
LEMMA RowReplacedTable ==
  ASSUME RoundInv, TableInv, status = "in_progress", NEW p \in Positions,
         NEW row \in HandRow, row.bet <= bank[p]
  PROVE  LET hs == [hands EXCEPT ![p] = [hands[p] EXCEPT ![0] = row]] IN
         /\ \A q \in Positions \ {p} : hs[q] = hands[q]
         /\ OneHandEach(hs) /\ BetsCovered(hs, bank, results)
         /\ hs[p][0] = row
         /\ \A i \in HandIndices \ {0} : hs[p][i].status = "absent"
<1> DEFINE hs == [hands EXCEPT ![p] = [hands[p] EXCEPT ![0] = row]]
<1>1. hands \in [Positions -> [HandIndices -> HandRow]]
  BY DEF RoundInv, TypeOK
<1>2. /\ \A q \in Positions \ {p} : hs[q] = hands[q]
      /\ hs[p][0] = row
      /\ \A i \in HandIndices \ {0} : hs[p][i] = hands[p][i]
  BY <1>1 DEF HandIndices
<1>3. RowsOk(hands[p])
  BY TableInPlay DEF TableOk
<1>4. \A i \in HandIndices \ {0} : hands[p][i].status = "absent"
  BY <1>3, OnlyHandZero DEF TableInv, OneHandEach
<1> HIDE DEF hs
<1>5. OneHandEach(hs)
  BY <1>2, <1>4 DEF TableInv, OneHandEach, HandIndices
<1>6. BetsCovered(hs, bank, results)
  BY <1>2 DEF TableInv, BetsCovered
<1> QED BY <1>2, <1>4, <1>5, <1>6 DEF hs

\* Finishing the only hand of a seat passes the turn.
LEMMA FinishHandTable ==
  ASSUME RoundInv, TableInv, NEW p \in Positions, NEW action, MayAct(p, action),
         NEW row \in HandRow, row.bet <= bank[p], FinishHand(p, row)
  PROVE  TableInv'
<1> DEFINE rows == [hands[p] EXCEPT ![0] = row]
           hs == [hands EXCEPT ![p] = rows]
<1>1. status = "in_progress" /\ handIndex = 0
  BY MayActTable
<1>2. /\ \A q \in Positions \ {p} : hs[q] = hands[q]
      /\ OneHandEach(hs) /\ BetsCovered(hs, bank, results)
      /\ \A i \in HandIndices \ {0} : hs[p][i].status = "absent"
  BY <1>1, RowReplacedTable
<1>3. hs[p] = rows
  BY DEF RoundInv, TypeOK
<1>4. ~ \E i \in HandIndices : i > 0 /\ rows[i].status = "active"
  BY <1>2, <1>3
<1>5. FinishHand(p, row) <=>
        IF \E i \in HandIndices : i > 0 /\ rows[i].status = "active"
        THEN LeaveHand(p, rows, 0)
        ELSE PassTurn(hs, NextPlayable(p), FirstHand(NextPlayable(p)), LoadedActive)
  BY <1>1 DEF FinishHand, RowAfterTurn
<1>6. PassTurn(hs, NextPlayable(p), FirstHand(NextPlayable(p)), LoadedActive)
  BY <1>4, <1>5
<1> HIDE DEF hs, rows
<1> QED BY <1>1, <1>2, <1>6, PassTurnTable

\* A drawn card leaves a row a row, with its status and its bet.
LEMMA DrawnRow ==
  ASSUME NEW row \in HandRow, NEW r \in Ranks, NEW amount \in Nat
  PROVE  /\ [row EXCEPT !.cards = Draw(row.cards, r)] \in HandRow
         /\ [row EXCEPT !.cards = Draw(row.cards, r)].status = row.status
         /\ [row EXCEPT !.cards = Draw(row.cards, r)].bet = row.bet
         /\ [row EXCEPT !.cards = Draw(row.cards, r)].cards = Draw(row.cards, r)
         /\ [row EXCEPT !.cards = Draw(row.cards, r), !.bet = amount] \in HandRow
         /\ [row EXCEPT !.cards = Draw(row.cards, r), !.bet = amount].bet = amount
<1>1. row.cards \in CardHand /\ r \in AllRanks
  BY RanksAssumption DEF HandRow
<1>2. Draw(row.cards, r) \in CardHand
  BY <1>1, HandTypes
<1> QED BY <1>2 DEF HandRow

\* A hit keeps the turn while the hand stays below 21.
LEMMA HitTable ==
  ASSUME RoundInv, TableInv, NEW p \in Positions, Hit(p)
  PROVE  TableInv'
<1>1. PICK r \in Ranks :
        LET row == [CurrentRow(p) EXCEPT !.cards = Draw(@, r)]
        IN IF Score(row.cards) < 21
           THEN KeepPlaying([hands EXCEPT ![p][handIndex] = row], p, handIndex)
           ELSE FinishHand(p, row)
  BY DEF Hit
<1> DEFINE row == [CurrentRow(p) EXCEPT !.cards = Draw(CurrentRow(p).cards, r)]
           hs == [hands EXCEPT ![p] = [hands[p] EXCEPT ![0] = row]]
<1>2. MayAct(p, "hit")
  BY DEF Hit
<1>3. /\ status = "in_progress" /\ handIndex = 0
      /\ CurrentRow(p) \in HandRow /\ CurrentRow(p).status = "active"
      /\ CurrentRow(p).bet <= bank[p]
  BY <1>2, MayActTable
<1>4. /\ row \in HandRow /\ row.status = "active" /\ row.bet <= bank[p]
      /\ row.bet \in Nat
  BY <1>3, DrawnRow, 0 \in Nat DEF HandRow
<1> HIDE DEF row
<1>5. CASE Score(row.cards) < 21
  <2>1. KeepPlaying(hs, p, 0)
    <3>1. hs = [hands EXCEPT ![p][0] = row]
      BY DEF RoundInv, TypeOK
    <3> QED BY <1>1, <1>3, <1>5, <3>1 DEF row
  <2>2. /\ OneHandEach(hs) /\ BetsCovered(hs, bank, results)
        /\ hs[p][0] = row
    BY <1>3, <1>4, RowReplacedTable
  <2>3. CanAct(row.cards)
    <3>1. Score(row.cards) # 21
      BY <1>5
    <3> QED BY <1>5, <3>1 DEF CanAct, IsBlackjack
  <2> HIDE DEF hs
  <2> QED BY <1>4, <2>1, <2>2, <2>3, KeepPlayingTable
<1>6. CASE ~ (Score(row.cards) < 21)
  <2>1. FinishHand(p, row)
    BY <1>1, <1>6 DEF row
  <2> QED BY <1>2, <1>4, <2>1, FinishHandTable
<1> QED BY <1>5, <1>6

\* A stand passes the turn on as it is.
LEMMA StandTable ==
  ASSUME RoundInv, TableInv, NEW p \in Positions, Stand(p)
  PROVE  TableInv'
<1>1. MayAct(p, "stand") /\ FinishHand(p, CurrentRow(p))
  BY DEF Stand
<1> QED BY <1>1, MayActTable, FinishHandTable

\* A double raises the bet of the hand within the bank, and ends its turn.
LEMMA DoubleTable ==
  ASSUME RoundInv, TableInv, NEW p \in Positions, Double(p)
  PROVE  TableInv'
<1>1. MayAct(p, "double") /\ bank[p] >= 2 * CurrentRow(p).bet
  BY DEF Double, CanRaise
<1>2. PICK r \in Ranks :
        FinishHand(p, [CurrentRow(p) EXCEPT !.cards = Draw(CurrentRow(p).cards, r),
                                            !.bet = 2 * CurrentRow(p).bet])
  BY DEF Double
<1>3. CurrentRow(p) \in HandRow /\ 2 * CurrentRow(p).bet \in Nat /\ bank[p] \in Nat
  BY <1>1, MayActTable
<1> DEFINE row == [CurrentRow(p) EXCEPT !.cards = Draw(CurrentRow(p).cards, r),
                                        !.bet = 2 * CurrentRow(p).bet]
<1>4. row \in HandRow /\ row.bet = 2 * CurrentRow(p).bet
  BY <1>3, DrawnRow
<1>5. row.bet <= bank[p]
  BY <1>1, <1>3, <1>4
<1>6. FinishHand(p, row)
  BY <1>2
<1> HIDE DEF row
<1> QED BY <1>1, <1>4, <1>5, <1>6, FinishHandTable

\* The stake of an insurance leaves enough in the bank for the bet.
LEMMA InsuranceTable ==
  ASSUME RoundInv, TableInv, NEW p \in Positions, Insurance(p)
  PROVE  TableInv'
<1> DEFINE stake == CurrentRow(p).bet \div 2
<1>1. /\ MayAct(p, "insurance")
      /\ bank[p] >= CurrentRow(p).bet + stake
      /\ bank' = [bank EXCEPT ![p] = bank[p] - stake]
      /\ UNCHANGED <<status, position, handIndex, timer, dealer, hands, seatStatus, bet, results>>
  BY DEF Insurance
<1>2. /\ status = "in_progress" /\ CurrentRow(p) = hands[p][0]
      /\ CurrentRow(p).bet \in Nat /\ bank[p] \in Nat
  BY <1>1, MayActTable
<1>3. stake \in Nat
  BY <1>2
<1> HIDE DEF stake
<1>4. hands[p][0].bet <= bank'[p] /\ \A q \in Positions \ {p} : bank'[q] = bank[q]
  BY <1>1, <1>2, <1>3 DEF RoundInv, TypeOK
<1>5. BetsCovered(hands', bank', results')
  BY <1>1, <1>2, <1>4 DEF TableInv, BetsCovered
<1> QED BY <1>1, <1>2, <1>5 DEF TableInv, OneHandEach, BetsCovered, TurnHolderCanAct

\* A timeout passes the turn and leaves the hands alone.
LEMMA TimeoutTable ==
  ASSUME RoundInv, TableInv, NEW p \in Positions, Timeout(p)
  PROVE  TableInv'
<1>1. /\ status = "in_progress"
      /\ PassTurn(hands, NextPlayable(p), FirstHand(NextPlayable(p)), LoadedActive)
  BY DEF Timeout
<1>2. OneHandEach(hands) /\ BetsCovered(hands, bank, results)
  BY <1>1 DEF TableInv
<1> QED BY <1>1, <1>2, PassTurnTable

(***************************************************************************)
(* A stop leaves the turn where it was, on a seat that has not changed, or *)
(* passes it on; the leaver is paid, so its stake is open no more.         *)
(***************************************************************************)
LEMMA PlayerStopTable ==
  ASSUME RoundInv, TableInv, NEW p \in Positions, PlayerStop(p)
  PROVE  TableInv'
<1> DEFINE delta == RowDelta(LoadedHand(p), dealer.cards) + InsuranceDelta(insurance[p], dealer.cards)
           bk == [bank EXCEPT ![p] = bank[p] + delta]
           hs == [hands EXCEPT ![p][0] = FinishedRow(hands[p][0])]
           st == [seatStatus EXCEPT ![p] = "inactive"]
           rs == [results EXCEPT ![p] = results[p] + 1]
           pos == IF position = p THEN NextPlayable(p) ELSE position
           remaining == LoadedActive \ {p}
<1>1. /\ status = "in_progress"
      /\ IF remaining # {} /\ pos = NoPosition
         THEN CloseRound(hs, remaining, dealer, bk, st, rs)
         ELSE /\ status' = IF remaining = {} THEN "closed" ELSE "in_progress"
              /\ position' = IF remaining = {} THEN NoPosition ELSE pos
              /\ handIndex' = IF remaining = {} THEN NoHand ELSE 0
              /\ timer' = (remaining # {})
              /\ hands' = hs
              /\ bank' = bk
              /\ results' = rs
  BY DEF PlayerStop
<1>2. TypeOK /\ position \in Positions
  BY <1>1, TableInPlay DEF RoundInv
<1>3. /\ \A q \in Positions \ {p} : hs[q] = hands[q] /\ bk[q] = bank[q] /\ rs[q] = results[q]
      /\ hs[p][1] = hands[p][1]
      /\ rs[p] # 0
  BY <1>2 DEF TypeOK, HandIndices
<1>4. OneHandEach(hs) /\ BetsCovered(hs, bk, rs)
  BY <1>1, <1>3 DEF TableInv, OneHandEach, BetsCovered
<1>5. pos # NoPosition => /\ pos \in Positions \ {p}
                         /\ hands[pos][0].status = "active" /\ CanAct(hands[pos][0].cards)
  <2>1. CASE position = p
    BY <1>1, <2>1, NextPlayableActs, LoadedOnlyHand DEF Playable, LoadedActive
  <2>2. CASE position # p
    BY <1>1, <1>2, <2>2 DEF TableInv, TurnHolderCanAct
  <2> QED BY <2>1, <2>2
<1> HIDE DEF hs, bk, rs, st, pos, remaining
<1>6. CASE remaining # {} /\ pos = NoPosition
  BY <1>1, <1>4, <1>6, CloseRoundTable
<1>7. CASE remaining = {}
  <2>1. status' = "closed" /\ hands' = hs
    BY <1>1, <1>7
  <2> QED BY <1>4, <2>1 DEF TableInv, OneHandEach, TurnHolderCanAct
<1>8. CASE remaining # {} /\ pos # NoPosition
  <2>1. /\ status' = "in_progress" /\ position' = pos /\ handIndex' = 0 /\ timer' = TRUE
        /\ hands' = hs /\ bank' = bk /\ results' = rs
    BY <1>1, <1>8
  <2>2. hands'[position'][0].status = "active" /\ CanAct(hands'[position'][0].cards)
    BY <1>3, <1>5, <1>8, <2>1
  <2>3. TurnHolderCanAct'
    BY <1>8, <2>1, <2>2 DEF TurnHolderCanAct
  <2>4. OneHandEach(hands') /\ BetsCovered(hands', bank', results')
    BY <1>4, <2>1
  <2> QED BY <2>1, <2>3, <2>4 DEF TableInv, OneHandEach, BetsCovered
<1> QED BY <1>6, <1>7, <1>8

(***************************************************************************)
(* The deal: everybody has one hand, and either somebody's can act and the *)
(* first such seat is on turn, or the round is over.                       *)
(***************************************************************************)
LEMMA DealtTable ==
  ASSUME RoundInv, StartRound
  PROVE  /\ status = "lobby_open"
         /\ OneHandEach(hands')
         /\ \/ status' = "closed"
            \/ /\ status' = "in_progress" /\ timer' /\ handIndex' = 0
               /\ position' \in Positions
               /\ hands'[position'][0].status = "active"
               /\ CanAct(hands'[position'][0].cards)
               /\ bank' = bank
               /\ \A p \in Positions :
                    /\ hands'[p][0].bet = bet[p]
                    /\ \A i \in HandIndices \ {0} : hands'[p][i] = NoRow
<1>1. PICK deal \in [Positions -> Ranks \X Ranks], dealerDeal \in Ranks \X Ranks :
        LET hs == [p \in Positions |-> DealtRows(deal[p], bet[p])]
            dealt == [up |-> dealerDeal[1], cards |-> OpeningHand(dealerDeal[1], dealerDeal[2])]
            st == [p \in Positions |-> "active"]
            first == Least({p \in Positions : CanAct(hs[p][0].cards)}, NoPosition)
        IN IF first = NoPosition
           THEN CloseRound(hs, Positions, dealt, bank, st, results)
           ELSE /\ status' = "in_progress"
                /\ position' = first
                /\ handIndex' = 0
                /\ timer' = TRUE
                /\ dealer' = dealt
                /\ hands' = hs
                /\ seatStatus' = st
                /\ UNCHANGED <<bank, insurance, results>>
  BY DEF StartRound
<1> DEFINE hs == [p \in Positions |-> DealtRows(deal[p], bet[p])]
           dealt == [up |-> dealerDeal[1], cards |-> OpeningHand(dealerDeal[1], dealerDeal[2])]
           st == [p \in Positions |-> "active"]
           able == {p \in Positions : CanAct(hs[p][0].cards)}
           first == Least(able, NoPosition)
<1>2. ASSUME NEW p \in Positions
      PROVE  /\ hs[p][0].status = "active" /\ hs[p][0].bet = bet[p]
             /\ \A i \in HandIndices \ {0} : hs[p][i] = NoRow
  BY DEF DealtRows, HandIndices
<1>3. OneHandEach(hs)
  BY <1>2 DEF OneHandEach, HandIndices, NoRow
<1>4. first = NoPosition \/ first \in able
  <2>1. able \in SUBSET Nat
    BY SeatCountAssumption DEF Positions
  <2> HIDE DEF able
  <2> QED BY <2>1, LeastMember
<1>5. CASE first = NoPosition
  <2>1. CloseRound(hs, Positions, dealt, bank, st, results)
    BY <1>1, <1>5
  <2>2. status' = "closed"
    BY <2>1 DEF CloseRound
  <2> HIDE DEF hs, dealt, st
  <2>3. TableInv'
    BY <1>3, <2>1, CloseRoundTable
  <2> QED BY <2>2, <2>3 DEF TableInv, OneHandEach, StartRound
<1>6. CASE first # NoPosition
  <2>1. /\ status' = "in_progress" /\ position' = first /\ handIndex' = 0 /\ timer' = TRUE
        /\ hands' = hs /\ bank' = bank
    BY <1>1, <1>6
  <2>2. first \in Positions /\ CanAct(hs[first][0].cards)
    BY <1>4, <1>6
  <2> HIDE DEF hs, first
  <2> QED BY <1>2, <1>3, <2>1, <2>2 DEF StartRound, OneHandEach
<1> QED BY <1>5, <1>6

\* Who can pay the bet of the lobby can pay for the hand it becomes.
LEMMA StartRoundTable ==
  ASSUME RoundInv, TableInv, StartRound
  PROVE  TableInv'
<1>1. CASE status' = "closed"
  BY <1>1, DealtTable DEF TableInv, OneHandEach, TurnHolderCanAct
<1>2. CASE status' = "in_progress"
  <2>1. BetsCovered(hands', bank', results')
    BY <1>2, DealtTable DEF TableInv, BetsCovered
  <2>2. TurnHolderCanAct'
    BY <1>2, DealtTable, SeatCountAssumption DEF TurnHolderCanAct, Positions, NoPosition
  <2> QED BY <1>2, <2>1, <2>2, DealtTable DEF TableInv, OneHandEach, BetsCovered
<1> QED BY <1>1, <1>2, DealtTable

\* TableInv holds of every table without splits.
LEMMA TableInvHolds ==
  ASSUME "split" \notin PlayerActions
  PROVE  Spec => []TableInv
<1>1. Init => TableInv
  BY DEF Init, TableInv, OneHandEach, NoRow, HandIndices, TurnHolderCanAct
<1>2. RoundInv /\ TableInv /\ [Next]_vars => TableInv'
  <2> SUFFICES ASSUME RoundInv, TableInv, [Next]_vars PROVE TableInv'
    OBVIOUS
  <2>1. ASSUME NEW p \in Positions, Split(p) PROVE FALSE
    BY <2>1 DEF Split, MayAct
  <2>2. CASE UNCHANGED vars
    BY <2>2 DEF vars, session, TableInv, OneHandEach, BetsCovered, TurnHolderCanAct
  <2> QED BY <2>1, <2>2, HitTable, StandTable, DoubleTable, InsuranceTable, TimeoutTable,
             PlayerStopTable, StartRoundTable DEF Next, PlayerMove
<1> QED BY <1>1, <1>2, RoundIsSound, PTL DEF Spec

(***************************************************************************)
(* At a table without splits the turn is always on a hand that can act and *)
(* has a deadline, whoever stops or is timed out, on turn or not.          *)
(***************************************************************************)
THEOREM TableKeepsTurn ==
  ASSUME "split" \notin PlayerActions
  PROVE  Spec => []TurnHolderCanAct
<1>1. TableInv => TurnHolderCanAct
  BY DEF TableInv
<1> QED BY <1>1, TableInvHolds, PTL

\* No seat of a table without splits is forgotten when its round closes.
THEOREM TableSettlesAll ==
  ASSUME "split" \notin PlayerActions
  PROVE  Spec => []EverySeatSettled
<1>1. RoundInv /\ TableInv => EverySeatSettled
  <2> SUFFICES ASSUME RoundInv, TableInv, status = "closed", NEW p \in Positions
               PROVE  results[p] >= 1
    BY DEF EverySeatSettled
  <2>1. results[p] = 1
    BY DEF RoundInv, SeatPaid, TableInv, OneHandEach
  <2> QED BY <2>1
<1> QED BY <1>1, TableInvHolds, RoundIsSound, PTL

(***************************************************************************)
(* The bank of a seat covers its stake at a table without splits, doubled  *)
(* or insured, until the seat is paid: the settlement is never rejected    *)
(* for a bank below zero.                                                  *)
(***************************************************************************)
THEOREM TableStakesCovered ==
  ASSUME "split" \notin PlayerActions
  PROVE  Spec => []StakesCovered
<1>1. RoundInv /\ TableInv => StakesCovered
  <2> SUFFICES ASSUME RoundInv, TableInv, status = "in_progress", NEW p \in Positions,
                      results[p] = 0
               PROVE  OpenStake(p) <= bank[p]
    BY DEF StakesCovered
  <2> DEFINE Stake(i) == IF hands[p][i].status \in {"active", "inactive"}
                         THEN hands[p][i].bet ELSE 0
  <2>1. RowsOk(hands[p])
    BY TableInPlay DEF TableOk
  <2>2. \A i \in HandIndices \ {0} : Stake(i) = 0
    BY <2>1, OnlyHandZero DEF TableInv, OneHandEach
  <2>3. hands[p][0].bet \in Nat /\ bank[p] \in Nat
    BY DEF RoundInv, TypeOK, HandRow, HandIndices
  <2>4. Stake(0) <= bank[p] /\ Stake(0) \in Nat
    BY <2>3 DEF TableInv, BetsCovered
  <2>5. OpenStake(p) = Stake(0) + Stake(1) + Stake(2) + Stake(3)
    BY DEF OpenStake
  <2> HIDE DEF Stake
  <2>6. Stake(1) = 0 /\ Stake(2) = 0 /\ Stake(3) = 0
    BY <2>2 DEF HandIndices
  <2> QED BY <2>3, <2>4, <2>5, <2>6
<1> QED BY <1>1, TableInvHolds, RoundIsSound, PTL

-----------------------------------------------------------------------------
(* Single chats, with splits.                                              *)

\* Hand a is under the turn: the hands before it are over, those after it wait.
InOrder(rows, a) ==
  \A i \in HandIndices :
    /\ i < a => rows[i].status = "inactive"
    /\ i > a => rows[i].status \in {"absent", "active"} /\ rows[i].cards.n = 1

SingleInv == TurnHolderCanAct /\ SplitHandsPlayedInOrder

\* SingleInv read as a statement about the only seat.
LEMMA SingleSeat ==
  ASSUME ChatMode = "single"
  PROVE  Positions = {1}
  BY SingleChatAssumption DEF Positions

\* In a single chat the turn has nobody to pass to.
LEMMA NobodyNext ==
  ASSUME ChatMode = "single", NEW p \in Positions
  PROVE  NextPlayable(p) = NoPosition /\ NextByCards(p) = NoPosition
  BY SingleSeat, NextSeat

\* A hand that can act, in order among the hands of the only seat, keeps the invariant.
LEMMA KeepPlayingSingle ==
  ASSUME NEW hs, NEW p \in Positions, NEW a \in HandIndices, KeepPlaying(hs, p, a),
         InOrder(hs[p], a), hs[p][a].status = "active", CanAct(hs[p][a].cards)
  PROVE  SingleInv'
<1>1. /\ status' = "in_progress" /\ position' = p /\ handIndex' = a /\ timer' /\ hands' = hs
  BY DEF KeepPlaying
<1>2. p # NoPosition
  BY SeatCountAssumption DEF Positions, NoPosition
<1>3. TurnHolderCanAct'
  BY <1>1, <1>2 DEF TurnHolderCanAct
<1>4. SplitHandsPlayedInOrder'
  BY <1>1 DEF SplitHandsPlayedInOrder, InOrder
<1> QED BY <1>3, <1>4 DEF SingleInv

\* A closed round has no turn.
LEMMA ClosedSingle ==
  ASSUME status' = "closed"
  PROVE  SingleInv'
  BY DEF SingleInv, TurnHolderCanAct, SplitHandsPlayedInOrder

\* Passing the turn on, in a single chat, ends the round.
LEMMA PassTurnSingle ==
  ASSUME NEW hs, NEW hix, NEW due, PassTurn(hs, NoPosition, hix, due)
  PROVE  SingleInv'
<1>1. status' = "closed"
  BY DEF PassTurn, CloseRound
<1> QED BY <1>1, ClosedSingle

(***************************************************************************)
(* The hand the search stops at is in order: it gave every hand it passed  *)
(* over its card and finished it, and has not touched the hands behind.    *)
(***************************************************************************)
LEMMA AdvanceInOrder ==
  ASSUME NEW rows, RowsOk(rows), NEW a \in HandIndices, InOrder(rows, a),
         rows[a].status = "inactive",
         NEW D \in SUBSET HandIndices, NEW draws \in [D -> Ranks],
         \A i \in HandIndices : i > a /\ rows[i].status = "active" => i \in D,
         AdvanceHand(rows, a, draws).next # NoHand
  PROVE  LET step == AdvanceHand(rows, a, draws) IN
         /\ step.next \in HandIndices
         /\ InOrder(step.rows, step.next)
         /\ step.rows[step.next].status = "active"
         /\ CanAct(step.rows[step.next].cards)
<1> DEFINE later == {i \in HandIndices : i > a /\ rows[i].status = "active"}
           Cards(i) == IF i \in DOMAIN draws THEN Draw(rows[i].cards, draws[i]) ELSE rows[i].cards
           able == {i \in later : CanAct(Cards(i))}
           next == Least(able, NoHand)
           Visited(i) == i \in later /\ (next = NoHand \/ i <= next)
           New(i) == IF Visited(i)
                     THEN [rows[i] EXCEPT !.cards = Cards(i),
                                          !.status = IF i = next THEN "active" ELSE "inactive"]
                     ELSE rows[i]
           new == [i \in HandIndices |-> New(i)]
<1>1. AdvanceHand(rows, a, draws) = [next |-> next, rows |-> new]
  BY DEF AdvanceHand
<1>2. able \in SUBSET Nat
  BY DEF HandIndices
<1>3. next # NoHand
  <2> HIDE DEF next, new
  <2> QED BY <1>1
<1>4. next \in able
  <2> HIDE DEF able
  <2> QED BY <1>2, <1>3, LeastMember
<1>5. next \in later /\ CanAct(Cards(next)) /\ next \in HandIndices
  <2> HIDE DEF next, Cards, new
  <2> QED BY <1>4
<1> HIDE DEF able, next, Cards
<1>6. ASSUME NEW i \in HandIndices
      PROVE  /\ Visited(i) => /\ New(i).cards = Cards(i)
                              /\ New(i).status = IF i = next THEN "active" ELSE "inactive"
             /\ ~ Visited(i) => New(i) = rows[i]
  BY DEF RowsOk, HandRow
<1>7. ASSUME NEW i \in HandIndices, i > a, i < next
      PROVE  rows[i].status = "active"
  <2>1. rows[next].status # "absent"
    BY <1>5
  <2>2. rows[i].status # "absent"
    BY <1>7, <2>1, <1>5 DEF RowsOk, HandIndices
  <2> QED BY <1>7, <2>2 DEF InOrder
<1>8. ASSUME NEW i \in HandIndices, i < next
      PROVE  new[i].status = "inactive"
  <2>1. CASE i > a
    BY <1>5, <1>6, <1>7, <1>8, <2>1 DEF HandIndices
  <2>2. CASE ~ (i > a)
    <3>1. ~ Visited(i) /\ (i < a \/ i = a)
      BY <2>2 DEF HandIndices
    <3> QED BY <1>6, <3>1 DEF InOrder
  <2> QED BY <2>1, <2>2
<1>9. ASSUME NEW i \in HandIndices, i > next
      PROVE  new[i].status \in {"absent", "active"} /\ new[i].cards.n = 1
  <2>1. ~ Visited(i) /\ i > a
    BY <1>3, <1>5, <1>9 DEF HandIndices
  <2> QED BY <1>6, <2>1 DEF InOrder
<1>10. new[next].status = "active" /\ CanAct(new[next].cards)
  <2>1. Visited(next)
    BY <1>5 DEF HandIndices
  <2> QED BY <1>5, <1>6, <2>1
<1> HIDE DEF new
<1> QED BY <1>1, <1>5, <1>8, <1>9, <1>10 DEF InOrder

\* What a move finds: the hands of its seat in order around the one it plays.
LEMMA MayActSingle ==
  ASSUME RoundInv, SingleInv, NEW p \in Positions, NEW action, MayAct(p, action)
  PROVE  /\ position = p /\ handIndex \in HandIndices
         /\ CurrentRow(p) = hands[p][handIndex]
         /\ CurrentRow(p) \in HandRow /\ CurrentRow(p).status = "active"
         /\ RowsOk(hands[p]) /\ InOrder(hands[p], handIndex)
         /\ hands \in [Positions -> [HandIndices -> HandRow]]
<1>1. /\ status = "in_progress" /\ position = p /\ handIndex \in HandIndices
      /\ CurrentRow(p) = hands[p][handIndex]
      /\ CurrentRow(p) \in HandRow /\ CurrentRow(p).status = "active"
      /\ RowsOk(hands[p])
  BY MayActFacts
<1>2. InOrder(hands[p], handIndex)
  BY <1>1 DEF SingleInv, SplitHandsPlayedInOrder, InOrder
<1> QED BY <1>1, <1>2 DEF RoundInv, TypeOK

\* The order does not look at the hand under the turn itself.
LEMMA InOrderReplaced ==
  ASSUME NEW rows, RowsOk(rows), NEW a \in HandIndices, rows[a].status # "absent",
         InOrder(rows, a), NEW row \in HandRow, row.status # "absent"
  PROVE  LET new == [rows EXCEPT ![a] = row] IN
         RowsOk(new) /\ InOrder(new, a) /\ new[a] = row
<1> DEFINE new == [rows EXCEPT ![a] = row]
<1>1. new[a] = row /\ \A i \in HandIndices \ {a} : new[i] = rows[i]
  BY DEF RowsOk
<1>2. RowsOk(new)
  BY ReplaceRow
<1> HIDE DEF new
<1>3. InOrder(new, a)
  BY <1>1 DEF InOrder, HandIndices
<1> QED BY <1>1, <1>2, <1>3 DEF new

\* Leaving a hand goes to the next that can act, or ends the round.
LEMMA LeaveHandSingle ==
  ASSUME ChatMode = "single", NEW p \in Positions,
         hands \in [Positions -> [HandIndices -> HandRow]],
         NEW rows, RowsOk(rows), NEW a \in HandIndices, rows[a].status # "absent",
         InOrder(rows, a), LeaveHand(p, rows, a)
  PROVE  SingleInv'
<1>1. PICK draws \in [PendingHands(rows) -> Ranks] :
        LET step == AdvanceHand([rows EXCEPT ![a] = FinishedRow(@)], a, draws)
            hs == [hands EXCEPT ![p] = step.rows]
            pos == NextByCards(p)
        IN IF step.next # NoHand
           THEN KeepPlaying(hs, p, step.next)
           ELSE PassTurn(hs, pos, FirstHand(pos), LoadedActive \ {p})
  BY DEF LeaveHand
<1> DEFINE left == [rows EXCEPT ![a] = FinishedRow(rows[a])]
           step == AdvanceHand(left, a, draws)
           hs == [hands EXCEPT ![p] = step.rows]
<1>2. FinishedRow(rows[a]) \in HandRow /\ FinishedRow(rows[a]).status = "inactive"
  BY FinishedRowType DEF RowsOk
<1>3. RowsOk(left) /\ InOrder(left, a) /\ left[a].status = "inactive"
  <2> DEFINE over == FinishedRow(rows[a])
  <2>1. over \in HandRow /\ over.status = "inactive"
    BY <1>2
  <2> HIDE DEF over
  <2>2. over.status # "absent"
    BY <2>1
  <2> DEFINE new == [rows EXCEPT ![a] = over]
  <2>3. RowsOk(new) /\ InOrder(new, a) /\ new[a] = over
    BY <2>1, <2>2, InOrderReplaced
  <2>4. new = left
    BY DEF over
  <2> HIDE DEF new, left
  <2> QED BY <2>1, <2>3, <2>4
<1>4. /\ PendingHands(rows) \in SUBSET HandIndices
      /\ \A i \in HandIndices : i > a /\ left[i].status = "active" => i \in PendingHands(rows)
  <2>1. \A i \in HandIndices : i > a => left[i] = rows[i]
    BY DEF RowsOk, HandIndices
  <2> HIDE DEF left
  <2> QED BY <2>1 DEF PendingHands, InOrder
<1>5. CASE step.next # NoHand
  <2>1. KeepPlaying(hs, p, step.next)
    BY <1>1, <1>5
  <2>2. /\ step.next \in HandIndices
        /\ InOrder(step.rows, step.next)
        /\ step.rows[step.next].status = "active"
        /\ CanAct(step.rows[step.next].cards)
    <3> HIDE DEF left
    <3> QED BY <1>3, <1>4, <1>5, AdvanceInOrder
  <2> HIDE DEF step
  <2>3. hs[p] = step.rows
    OBVIOUS
  <2> HIDE DEF hs
  <2> QED BY <2>1, <2>2, <2>3, KeepPlayingSingle
<1>6. CASE step.next = NoHand
  <2>1. PassTurn(hs, NextByCards(p), FirstHand(NextByCards(p)), LoadedActive \ {p})
    BY <1>1, <1>6
  <2> HIDE DEF hs
  <2> QED BY <2>1, NobodyNext, PassTurnSingle
<1> QED BY <1>5, <1>6

\* Finishing a hand goes to the next hand that can act, or ends the round.
LEMMA FinishHandSingle ==
  ASSUME ChatMode = "single", RoundInv, SingleInv, NEW p \in Positions, NEW action,
         MayAct(p, action), NEW row \in HandRow, row.status = "active", FinishHand(p, row)
  PROVE  SingleInv'
<1> DEFINE rows == [hands[p] EXCEPT ![handIndex] = row]
           hs == [hands EXCEPT ![p] = rows]
<1>1. /\ handIndex \in HandIndices /\ hands[p][handIndex].status = "active"
      /\ RowsOk(hands[p]) /\ InOrder(hands[p], handIndex)
      /\ hands \in [Positions -> [HandIndices -> HandRow]]
  BY MayActSingle
<1>2. RowsOk(rows) /\ InOrder(rows, handIndex) /\ rows[handIndex].status # "absent"
  BY <1>1, InOrderReplaced
<1>3. \/ LeaveHand(p, rows, handIndex)
      \/ PassTurn(hs, NextPlayable(p), FirstHand(NextPlayable(p)), LoadedActive)
  BY DEF FinishHand, RowAfterTurn
<1> HIDE DEF rows, hs
<1>4. CASE LeaveHand(p, rows, handIndex)
  BY <1>1, <1>2, <1>4, LeaveHandSingle
<1>5. CASE PassTurn(hs, NextPlayable(p), FirstHand(NextPlayable(p)), LoadedActive)
  BY <1>5, NobodyNext, PassTurnSingle
<1> QED BY <1>3, <1>4, <1>5

\* A hit keeps the turn on its hand while that can act.
LEMMA HitSingle ==
  ASSUME ChatMode = "single", RoundInv, SingleInv, NEW p \in Positions, Hit(p)
  PROVE  SingleInv'
<1>1. PICK r \in Ranks :
        LET row == [CurrentRow(p) EXCEPT !.cards = Draw(@, r)]
        IN IF Score(row.cards) < 21
           THEN KeepPlaying([hands EXCEPT ![p][handIndex] = row], p, handIndex)
           ELSE FinishHand(p, row)
  BY DEF Hit
<1> DEFINE row == [CurrentRow(p) EXCEPT !.cards = Draw(CurrentRow(p).cards, r)]
           rows == [hands[p] EXCEPT ![handIndex] = row]
           hs == [hands EXCEPT ![p] = rows]
<1>2. MayAct(p, "hit")
  BY DEF Hit
<1>3. /\ handIndex \in HandIndices
      /\ CurrentRow(p) = hands[p][handIndex]
      /\ CurrentRow(p) \in HandRow /\ CurrentRow(p).status = "active"
      /\ RowsOk(hands[p]) /\ InOrder(hands[p], handIndex)
      /\ hands \in [Positions -> [HandIndices -> HandRow]]
  BY <1>2, MayActSingle
<1>4. row \in HandRow /\ row.status = "active"
  BY <1>3, DrawnRow, 0 \in Nat
<1> HIDE DEF row
<1>5. CASE Score(row.cards) < 21
  <2>1. KeepPlaying(hs, p, handIndex)
    <3>1. hs = [hands EXCEPT ![p][handIndex] = row]
      BY <1>3
    <3> QED BY <1>1, <1>5, <3>1 DEF row
  <2>2. InOrder(rows, handIndex) /\ rows[handIndex] = row
    BY <1>3, <1>4, InOrderReplaced
  <2>3. CanAct(row.cards)
    <3>1. Score(row.cards) # 21
      BY <1>5
    <3> QED BY <1>5, <3>1 DEF CanAct, IsBlackjack
  <2>4. hs[p] = rows
    BY <1>3
  <2> HIDE DEF hs, rows
  <2> QED BY <1>3, <1>4, <2>1, <2>2, <2>3, <2>4, KeepPlayingSingle
<1>6. CASE ~ (Score(row.cards) < 21)
  <2>1. FinishHand(p, row)
    BY <1>1, <1>6 DEF row
  <2> QED BY <1>2, <1>4, <2>1, FinishHandSingle
<1> QED BY <1>5, <1>6

\* A stand and a double finish the hand.
LEMMA StandOrDoubleSingle ==
  ASSUME ChatMode = "single", RoundInv, SingleInv, NEW p \in Positions, Stand(p) \/ Double(p)
  PROVE  SingleInv'
<1>1. CASE Stand(p)
  <2>1. MayAct(p, "stand") /\ FinishHand(p, CurrentRow(p))
    BY <1>1 DEF Stand
  <2> QED BY <2>1, MayActSingle, FinishHandSingle
<1>2. CASE Double(p)
  <2>1. MayAct(p, "double")
    BY <1>2 DEF Double
  <2>2. PICK r \in Ranks :
          FinishHand(p, [CurrentRow(p) EXCEPT !.cards = Draw(CurrentRow(p).cards, r),
                                              !.bet = 2 * CurrentRow(p).bet])
    BY <1>2 DEF Double
  <2>3. CurrentRow(p) \in HandRow /\ CurrentRow(p).status = "active"
    BY <2>1, MayActSingle
  <2>4. 2 * CurrentRow(p).bet \in Nat
    BY <2>3 DEF HandRow
  <2> DEFINE row == [CurrentRow(p) EXCEPT !.cards = Draw(CurrentRow(p).cards, r),
                                          !.bet = 2 * CurrentRow(p).bet]
  <2>5. row \in HandRow
    BY <2>3, <2>4, DrawnRow
  <2>6. row.status = "active"
    BY <2>3 DEF HandRow
  <2>7. FinishHand(p, row)
    BY <2>2
  <2> HIDE DEF row
  <2> QED BY <2>1, <2>5, <2>6, <2>7, FinishHandSingle
<1> QED BY <1>1, <1>2

\* The new hand of a split waits with one card right behind the split one.
LEMMA SplitSingle ==
  ASSUME ChatMode = "single", RoundInv, SingleInv, NEW p \in Positions, Split(p)
  PROVE  SingleInv'
<1> DEFINE row == CurrentRow(p)
           a == handIndex
           seed == SeedHand(row.cards.rank)
           first(r) == [row EXCEPT !.cards = Draw(seed, r)]
           second == [row EXCEPT !.cards = seed]
           rows0(r) == [hands[p] EXCEPT ![a] = first(r)]
           rows(r) == InsertHand(rows0(r), a, second)
<1>1. MayAct(p, "split") /\ IsPair(row.cards)
  BY DEF Split
<1>2. PICK r \in Ranks :
        IF CanAct(first(r).cards)
        THEN KeepPlaying([hands EXCEPT ![p] = rows(r)], p, a)
        ELSE LeaveHand(p, rows(r), a)
  BY DEF Split
<1>3. /\ a \in HandIndices
      /\ row = hands[p][a]
      /\ row \in HandRow /\ row.status = "active"
      /\ RowsOk(hands[p]) /\ InOrder(hands[p], a)
      /\ hands \in [Positions -> [HandIndices -> HandRow]]
  BY <1>1, MayActSingle
<1>4. seed \in CardHand /\ seed.n = 1 /\ Draw(seed, r) \in CardHand
  <2>1. row.cards \in CardHand /\ r \in AllRanks
    BY <1>3, RanksAssumption DEF HandRow
  <2>2. row.cards.rank \in AllRanks
    BY <1>1, <2>1 DEF IsPair, CardHand
  <2>3. seed.n = 1
    BY DEF SeedHand
  <2> QED BY <2>1, <2>2, <2>3, HandTypes
<1>5. /\ first(r) \in HandRow /\ first(r).status = "active"
      /\ second \in HandRow /\ second.status = "active" /\ second.cards.n = 1
  <2> HIDE DEF seed, row
  <2> QED BY <1>3, <1>4 DEF HandRow
<1> HIDE DEF seed, first, second, row
<1>6. RowsOk(rows0(r)) /\ InOrder(rows0(r), a) /\ rows0(r)[a] = first(r)
  BY <1>3, <1>5, InOrderReplaced
<1> HIDE DEF rows0
<1>7. RowsOk(rows(r)) /\ rows(r)[a] = first(r)
  BY <1>3, <1>5, <1>6, InsertHandOk
<1>8. InOrder(rows(r), a)
  <2>1. /\ \A i \in HandIndices : i < a => rows(r)[i] = rows0(r)[i]
        /\ \A i \in HandIndices : i > a + 1 => rows(r)[i] = rows0(r)[i - 1]
        /\ \A i \in HandIndices : i = a + 1 => rows(r)[i] = second
    BY <1>3 DEF InsertHand, HandIndices
  <2>2. ASSUME NEW i \in HandIndices, i > a + 1
        PROVE  i - 1 \in HandIndices /\ i - 1 > a
    BY <1>3, <2>2 DEF HandIndices
  <2> HIDE DEF rows
  <2>3. ASSUME NEW i \in HandIndices, i > a
        PROVE  rows(r)[i].status \in {"absent", "active"} /\ rows(r)[i].cards.n = 1
    <3>1. CASE i = a + 1
      BY <1>5, <2>1, <3>1
    <3>2. CASE i > a + 1
      BY <1>6, <2>1, <2>2, <3>2 DEF InOrder
    <3> QED BY <1>3, <2>3, <3>1, <3>2 DEF HandIndices
  <2> QED BY <1>6, <2>1, <2>3 DEF InOrder
<1> HIDE DEF rows
<1>9. CASE CanAct(first(r).cards)
  <2>1. KeepPlaying([hands EXCEPT ![p] = rows(r)], p, a)
    BY <1>2, <1>9
  <2>2. [hands EXCEPT ![p] = rows(r)][p] = rows(r)
    BY <1>3
  <2> QED BY <1>3, <1>5, <1>7, <1>8, <1>9, <2>1, <2>2, KeepPlayingSingle
<1>10. CASE ~ CanAct(first(r).cards)
  <2>1. LeaveHand(p, rows(r), a)
    BY <1>2, <1>10
  <2>2. rows(r)[a].status # "absent"
    BY <1>5, <1>7
  <2> QED BY <1>3, <1>7, <1>8, <2>1, <2>2, LeaveHandSingle
<1> QED BY <1>9, <1>10

\* The deal leaves the only seat with one hand.
LEMMA StartRoundSingle ==
  ASSUME RoundInv, StartRound
  PROVE  SingleInv'
<1>1. CASE status' = "closed"
  BY <1>1, ClosedSingle
<1>2. CASE status' = "in_progress"
  <2>1. /\ timer' /\ handIndex' = 0 /\ position' \in Positions
        /\ hands'[position'][0].status = "active" /\ CanAct(hands'[position'][0].cards)
        /\ \A i \in HandIndices \ {0} : hands'[position'][i] = NoRow
    BY <1>2, DealtTable
  <2>2. TurnHolderCanAct'
    BY <1>2, <2>1, SeatCountAssumption DEF TurnHolderCanAct, Positions, NoPosition
  <2>3. SplitHandsPlayedInOrder'
    BY <1>2, <2>1 DEF SplitHandsPlayedInOrder, HandIndices, NoRow, NoCards
  <2> QED BY <2>2, <2>3 DEF SingleInv
<1> QED BY <1>1, <1>2, DealtTable

\* SingleInv holds of every single chat.
LEMMA SingleInvHolds ==
  ASSUME ChatMode = "single"
  PROVE  Spec => []SingleInv
<1>1. Init => SingleInv
  BY DEF Init, SingleInv, TurnHolderCanAct, SplitHandsPlayedInOrder
<1>2. RoundInv /\ SingleInv /\ [Next]_vars => SingleInv'
  <2> SUFFICES ASSUME RoundInv, SingleInv, [Next]_vars PROVE SingleInv'
    OBVIOUS
  <2>1. ASSUME NEW p \in Positions, Insurance(p)
        PROVE  SingleInv'
    BY <2>1 DEF Insurance, SingleInv, TurnHolderCanAct, SplitHandsPlayedInOrder
  <2>2. ASSUME NEW p \in Positions, Timeout(p)
        PROVE  SingleInv'
    <3>1. PassTurn(hands, NextPlayable(p), FirstHand(NextPlayable(p)), LoadedActive)
      BY <2>2 DEF Timeout
    <3> QED BY <3>1, NobodyNext, PassTurnSingle
  <2>3. ASSUME NEW p \in Positions, PlayerStop(p)
        PROVE  FALSE
    BY <2>3 DEF PlayerStop
  <2>4. CASE UNCHANGED vars
    BY <2>4 DEF vars, session, SingleInv, TurnHolderCanAct, SplitHandsPlayedInOrder
  <2> QED BY <2>1, <2>2, <2>3, <2>4, HitSingle, StandOrDoubleSingle, SplitSingle,
             StartRoundSingle DEF Next, PlayerMove
<1> QED BY <1>1, <1>2, RoundIsSound, PTL DEF Spec

(***************************************************************************)
(* In a single chat the turn is always on a hand that can act and has a    *)
(* deadline, however the player splits.                                    *)
(***************************************************************************)
THEOREM SingleKeepsTurn ==
  ASSUME ChatMode = "single"
  PROVE  Spec => []TurnHolderCanAct
<1>1. SingleInv => TurnHolderCanAct
  BY DEF SingleInv
<1> QED BY <1>1, SingleInvHolds, PTL

\* In a single chat the hands of splits of splits are played in order.
THEOREM SinglePlaysInOrder ==
  ASSUME ChatMode = "single"
  PROVE  Spec => []SplitHandsPlayedInOrder
<1>1. SingleInv => SplitHandsPlayedInOrder
  BY DEF SingleInv
<1> QED BY <1>1, SingleInvHolds, PTL
=============================================================================
