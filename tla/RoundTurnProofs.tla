----------------------------- MODULE RoundTurnProofs -----------------------------
(***************************************************************************)
(* The round of BlackjackRound implements the turn of TableTurn, for every *)
(* table, deck, bank and bet, and its transactions treat the turn, the     *)
(* banks and the seats that left as TurnMovesForward, BankMovesAreRecorded *)
(* and LeaverIsLeftAlone say.                                              *)
(*                                                                         *)
(* The abstract turn opens a round once and passes it from holder to       *)
(* holder, so beside RoundInv the proof needs what a session looks like    *)
(* before the round and after it.                                          *)
(***************************************************************************)
EXTENDS RoundTurn, BlackjackRoundProofs

\* Outside a round nobody holds the turn, and a lobby has no version yet.
NoTurnOutside ==
  /\ status # "in_progress" => position = NoPosition
  /\ status = "lobby_open" => turnVersion = 0

\* What every transaction of a running session leaves behind.
Outcome ==
  \/ status' = "in_progress"
  \/ status' = "closed" /\ position' = NoPosition

-----------------------------------------------------------------------------
(* How transactions end.                                                   *)

\* Passing the turn keeps the round in progress or closes it.
LEMMA PassTurnOutcome ==
  ASSUME NEW hs, NEW pos, NEW hix, NEW due, PassTurn(hs, pos, hix, due)
  PROVE  Outcome
  BY DEF PassTurn, KeepPlaying, CloseRound, Outcome

\* So does leaving a split hand.
LEMMA LeaveHandOutcome ==
  ASSUME NEW p, NEW rows, NEW a, LeaveHand(p, rows, a)
  PROVE  Outcome
<1> USE DEF LeaveHand
<1>1. PICK draws \in [PendingHands(rows) -> Ranks] :
        LET step == AdvanceHand([rows EXCEPT ![a] = FinishedRow(@)], a, draws)
            hs == [hands EXCEPT ![p] = step.rows]
            pos == NextByCards(p)
        IN IF step.next # NoHand
           THEN KeepPlaying(hs, p, step.next)
           ELSE PassTurn(hs, pos, FirstHand(pos), LoadedActive \ {p})
  OBVIOUS
<1> DEFINE step == AdvanceHand([rows EXCEPT ![a] = FinishedRow(@)], a, draws)
           hs == [hands EXCEPT ![p] = step.rows]
           pos == NextByCards(p)
<1>2. CASE step.next # NoHand
  <2>1. KeepPlaying(hs, p, step.next)
    BY <1>1, <1>2
  <2> QED BY <2>1 DEF KeepPlaying, Outcome
<1>3. CASE step.next = NoHand
  <2>1. PassTurn(hs, pos, FirstHand(pos), LoadedActive \ {p})
    BY <1>1, <1>3
  <2> QED BY <2>1, PassTurnOutcome
<1> QED BY <1>2, <1>3

\* So does finishing a hand.
LEMMA FinishHandOutcome ==
  ASSUME NEW p, NEW row, FinishHand(p, row)
  PROVE  Outcome
  BY LeaveHandOutcome, PassTurnOutcome DEF FinishHand

\* Every move leaves a round in progress or closed, and one version more.
LEMMA PlayerMoveOutcome ==
  ASSUME NEW p \in Positions, PlayerMove(p)
  PROVE  status = "in_progress" /\ Outcome /\ Bump(1)
<1>1. CASE Hit(p)
  <2>1. MayAct(p, "hit") /\ Bump(1)
    BY <1>1 DEF Hit
  <2>2. PICK r \in Ranks :
          LET row == [CurrentRow(p) EXCEPT !.cards = Draw(@, r)]
          IN IF Score(row.cards) < 21
             THEN KeepPlaying([hands EXCEPT ![p][handIndex] = row], p, handIndex)
             ELSE FinishHand(p, row)
    BY <1>1 DEF Hit
  <2>3. Outcome
    BY <2>2, FinishHandOutcome DEF KeepPlaying, Outcome
  <2> QED BY <2>1, <2>3 DEF MayAct
<1>2. CASE Stand(p)
  BY <1>2, FinishHandOutcome DEF Stand, MayAct
<1>3. CASE Double(p)
  BY <1>3, FinishHandOutcome DEF Double, MayAct
<1>4. CASE Split(p)
  <2>1. MayAct(p, "split") /\ Bump(1)
    BY <1>4 DEF Split
  <2>2. \/ \E hs : KeepPlaying(hs, p, handIndex)
        \/ \E rows : LeaveHand(p, rows, handIndex)
    BY <1>4 DEF Split
  <2>3. Outcome
    BY <2>2, LeaveHandOutcome DEF KeepPlaying, Outcome
  <2> QED BY <2>1, <2>3 DEF MayAct
<1>5. CASE Insurance(p)
  BY <1>5 DEF Insurance, MayAct, Outcome
<1> QED BY <1>1, <1>2, <1>3, <1>4, <1>5 DEF PlayerMove

\* So does a timeout.
LEMMA TimeoutOutcome ==
  ASSUME NEW p \in Positions, Timeout(p)
  PROVE  status = "in_progress" /\ Outcome /\ Bump(1)
  BY PassTurnOutcome DEF Timeout

\* A stop that sends the turn to the dealer counts twice, but closes the round.
LEMMA PlayerStopOutcome ==
  ASSUME NEW p \in Positions, PlayerStop(p)
  PROVE  /\ status = "in_progress" /\ Outcome
         /\ Bump(1) \/ (status' = "closed" /\ Bump(2))
<1> DEFINE delta == RowDelta(LoadedHand(p), dealer.cards) + InsuranceDelta(insurance[p], dealer.cards)
           bk == [bank EXCEPT ![p] = @ + delta]
           hs == [hands EXCEPT ![p][0] = FinishedRow(@)]
           st == [seatStatus EXCEPT ![p] = "inactive"]
           rs == [results EXCEPT ![p] = @ + 1]
           pos == IF position = p THEN NextPlayable(p) ELSE position
           remaining == LoadedActive \ {p}
<1>1. CASE remaining # {} /\ pos = NoPosition
  <2>1. CloseRound(hs, remaining, dealer, bk, st, rs) /\ Bump(2) /\ status = "in_progress"
    BY <1>1 DEF PlayerStop
  <2>2. status' = "closed" /\ position' = NoPosition
    BY <2>1 DEF CloseRound
  <2> QED BY <2>1, <2>2 DEF Outcome
<1>2. CASE ~ (remaining # {} /\ pos = NoPosition)
  <2>1. /\ status = "in_progress"
        /\ status' = IF remaining = {} THEN "closed" ELSE "in_progress"
        /\ position' = IF remaining = {} THEN NoPosition ELSE pos
        /\ Bump(1)
    BY <1>2 DEF PlayerStop
  <2> QED BY <2>1 DEF Outcome
<1> QED BY <1>1, <1>2

\* The deal opens the round with a first turn, or the dealer closes it at once.
LEMMA StartRoundOutcome ==
  ASSUME StartRound
  PROVE  status = "lobby_open" /\ Outcome /\ Bump(1)
<1>1. \/ status' = "in_progress"
      \/ \E hs, due, start, bk, st, rs : CloseRound(hs, due, start, bk, st, rs)
  BY DEF StartRound
<1>2. Outcome
  BY <1>1 DEF CloseRound, Outcome
<1> QED BY <1>2 DEF StartRound

-----------------------------------------------------------------------------
(* The refinement.                                                         *)

\* NoTurnOutside is an invariant.
LEMMA NoTurnOutsideStep ==
  ASSUME RoundInv, NoTurnOutside, [Next]_vars
  PROVE  NoTurnOutside'
<1>1. CASE Next
  <2>1. Outcome
    BY <1>1, StartRoundOutcome, PlayerMoveOutcome, TimeoutOutcome, PlayerStopOutcome DEF Next
  <2> QED BY <2>1 DEF Outcome, NoTurnOutside
<1>2. CASE UNCHANGED vars
  BY <1>2 DEF NoTurnOutside, vars, session
<1> QED BY <1>1, <1>2

\* Whatever a transaction leaves, the abstract turn is handed over, to a seat
\* that is there or to one that left.
LEMMA HandedOver ==
  ASSUME RoundInv', Outcome
  PROVE  Turn!HandOver
<1>1. CASE status' = "in_progress"
  <2>1. position' \in Positions
    BY <1>1 DEF RoundInv, TypeOK
  <2>2. (status = "in_progress" /\ position \notin LoadedActive)' \in BOOLEAN
    OBVIOUS
  <2> QED BY <1>1, <2>1, <2>2 DEF Turn!HandOver
<1>2. CASE status' = "closed" /\ position' = NoPosition
  BY <1>2 DEF Turn!HandOver
<1> QED BY <1>1, <1>2 DEF Outcome

\* The first turn of a round goes to a seat that plays its first hand.
LEMMA FirstTurnLoaded ==
  ASSUME RoundInv, StartRound, status' = "in_progress"
  PROVE  (position \in LoadedActive)'
<1>1. PICK deal \in [Positions -> Ranks \X Ranks], dealerDeal \in Ranks \X Ranks :
        LET hs == [p \in Positions |-> DealtRows(deal[p], bet[p])]
            dealt == [up |-> dealerDeal[1], cards |-> OpeningHand(dealerDeal[1], dealerDeal[2])]
            st == [p \in Positions |-> "active"]
            first == Least({p \in Positions : CanAct(hs[p][0].cards)}, NoPosition)
        IN IF first = NoPosition
           THEN CloseRound(hs, Positions, dealt, bank, st, results)
           ELSE position' = first /\ handIndex' = 0 /\ hands' = hs
  BY DEF StartRound
<1> DEFINE hs == [p \in Positions |-> DealtRows(deal[p], bet[p])]
           dealt == [up |-> dealerDeal[1], cards |-> OpeningHand(dealerDeal[1], dealerDeal[2])]
           st == [p \in Positions |-> "active"]
           S == {p \in Positions : CanAct(hs[p][0].cards)}
           first == Least(S, NoPosition)
<1>2. first # NoPosition
  <2>1. ASSUME first = NoPosition PROVE FALSE
    <3>1. CloseRound(hs, Positions, dealt, bank, st, results)
      BY <1>1, <2>1
    <3> QED BY <3>1 DEF CloseRound
  <2> QED BY <2>1
<1>3. position' = first /\ handIndex' = 0 /\ hands' = hs
  BY <1>1, <1>2
<1>4. first \in Positions
  <2>1. S \in SUBSET Nat /\ S \subseteq Positions
    BY SeatCountAssumption DEF Positions
  <2> HIDE DEF S
  <2> QED BY <1>2, <2>1, LeastMember
<1> HIDE DEF S
<1>5. PICK q \in Positions : q = first
  BY <1>4
<1>6. hands'[q][0].status = "active"
  <2>1. hands'[q] = DealtRows(deal[q], bet[q])
    BY <1>3
  <2>2. 0 \in HandIndices
    BY DEF HandIndices
  <2> QED BY <2>1, <2>2 DEF DealtRows
<1>7. position' = q /\ handIndex' = 0
  BY <1>3, <1>5
<1> HIDE DEF hs, first
<1>8. LoadedHand(q)' = hands'[q][0]
  BY <1>7 DEF LoadedHand, ActiveHandIndex, NoHand
<1> QED BY <1>6, <1>7, <1>8 DEF LoadedActive

\* The start of a round begins the abstract one.
LEMMA StartBegins ==
  ASSUME RoundInv, RoundInv', NoTurnOutside, StartRound
  PROVE  Turn!Begin
<1>1. status = "lobby_open" /\ Outcome /\ turnVersion' = 1
  BY StartRoundOutcome DEF NoTurnOutside, Bump
<1>2. Turn!HandOver
  BY <1>1, HandedOver
<1>3. (status = "in_progress" /\ position \notin LoadedActive)' = FALSE
  BY FirstTurnLoaded
<1> QED BY <1>1, <1>2, <1>3 DEF Outcome, Turn!Begin

\* Every other transaction advances it.
LEMMA StepAdvances ==
  ASSUME RoundInv, RoundInv', status = "in_progress", Outcome,
         Bump(1) \/ (status' = "closed" /\ Bump(2))
  PROVE  Turn!Advance
<1>1. Turn!HandOver
  BY HandedOver
<1> QED BY <1>1 DEF Outcome, Bump, Turn!Advance

(***************************************************************************)
(* Every behaviour of a round, with all its splits, stops and timeouts, is *)
(* one of the abstract turn: clients may rely on TableTurn alone.          *)
(***************************************************************************)
THEOREM RoundImplementsTurn == Spec => TurnProtocol
<1>1. Init => NoTurnOutside /\ Turn!TurnInit
  BY DEF Init, NoTurnOutside, Turn!TurnInit
<1>2. RoundInv /\ NoTurnOutside /\ [Next]_vars => NoTurnOutside'
  BY NoTurnOutsideStep
<1>3. RoundInv /\ RoundInv' /\ NoTurnOutside /\ [Next]_vars => [Turn!TurnNext]_(Turn!turn)
  <2> SUFFICES ASSUME RoundInv, RoundInv', NoTurnOutside, [Next]_vars
               PROVE  Turn!TurnNext \/ UNCHANGED Turn!turn
    OBVIOUS
  <2>1. CASE StartRound
    BY <2>1, StartBegins DEF Turn!TurnNext
  <2>2. ASSUME NEW p \in Positions, PlayerMove(p) \/ Timeout(p) \/ PlayerStop(p)
        PROVE  Turn!TurnNext
    BY <2>2, PlayerMoveOutcome, TimeoutOutcome, PlayerStopOutcome, StepAdvances DEF Turn!TurnNext
  <2>3. CASE UNCHANGED vars
    BY <2>3 DEF vars, session, Turn!turn, LoadedActive, LoadedHand, ActiveHandIndex
  <2> QED BY <2>1, <2>2, <2>3 DEF Next
<1> QED BY <1>1, <1>2, <1>3, RoundIsSound, PTL DEF Spec, TurnProtocol, Turn!TurnSpec

-----------------------------------------------------------------------------
(***************************************************************************)
(* What a transaction of BlackjackRound may do to the turn and to the      *)
(* banks, for every table, deck, bank and bet: TurnMovesForward,           *)
(* BankMovesAreRecorded and, in the last section, LeaverIsLeftAlone.       *)
(*                                                                         *)
(* They compare a state with the next one.  The first two need RoundInv    *)
(* for the types, and of a lobby that nobody is on turn yet                *)
(* (NoTurnOutside); the third needs what RoundInv says of a paid seat.     *)
(***************************************************************************)

\* What TurnMovesForward asks of a step.
Forward == position' # NoPosition => position' >= position

\* What BankMovesAreRecorded asks of a step.
Recorded ==
  \A p \in Positions :
    /\ bank'[p] # bank[p] => results'[p] = results[p] + 1 \/ insurance'[p] # insurance[p]
    /\ insurance'[p] # insurance[p] =>
         insurance[p] = 0 /\ bank'[p] = bank[p] - insurance'[p]

Moves == Forward /\ Recorded

-----------------------------------------------------------------------------
(* How transactions end.                                                   *)

\* A turn kept or passed on moves forward and touches no bank.
LEMMA KeepPlayingMoves ==
  ASSUME NEW hs, NEW pos, NEW hix, KeepPlaying(hs, pos, hix), pos >= position
  PROVE  Moves
  BY DEF KeepPlaying, Moves, Forward, Recorded

(***************************************************************************)
(* The settlement moves the banks of the seats due, each with a result     *)
(* record; of the others a bank has moved before only together with one.   *)
(***************************************************************************)
LEMMA CloseRoundMoves ==
  ASSUME NEW hs, NEW due \in SUBSET Positions, NEW start, NEW st,
         NEW bk \in [Positions -> Int], NEW rs \in [Positions -> Nat],
         CloseRound(hs, due, start, bk, st, rs),
         \A p \in due : rs[p] = results[p],
         \A p \in Positions \ due : bk[p] # bank[p] => rs[p] = results[p] + 1
  PROVE  Moves
<1>1. position' = NoPosition /\ insurance' = insurance
  BY DEF CloseRound
<1>2. results' = [p \in Positions |-> IF p \in due THEN rs[p] + 1 ELSE rs[p]]
  BY DEF CloseRound
<1>3. PICK final \in DealerFinals(start.cards, DealerTotals) :
        bank' = [p \in Positions |->
                   bk[p] + (IF p \in due THEN SeatDelta(hs[p], insurance[p], final) ELSE 0)]
  BY DEF CloseRound
<1>4. ASSUME NEW p \in Positions, bank'[p] # bank[p]
      PROVE  results'[p] = results[p] + 1
  <2>1. CASE p \in due
    BY <1>2, <2>1
  <2>2. CASE p \notin due
    <3>1. bank'[p] = bk[p] + 0
      BY <1>3, <2>2
    <3>2. bank'[p] = bk[p]
      BY <3>1
    <3> QED BY <1>2, <1>4, <2>2, <3>2
  <2> QED BY <2>1, <2>2
<1> QED BY <1>1, <1>4 DEF Moves, Forward, Recorded

\* Passing the turn to a seat further on, or to the dealer.
LEMMA PassTurnMoves ==
  ASSUME RoundInv, NEW hs, NEW pos \in {q \in Positions : q > position} \cup {NoPosition}, NEW hix,
         NEW due \in SUBSET Positions, PassTurn(hs, pos, hix, due)
  PROVE  Moves
<1>1. bank \in [Positions -> Int] /\ results \in [Positions -> Nat]
  BY DEF RoundInv, TypeOK
<1>2. CASE pos = NoPosition
  <2>1. CloseRound(hs, due, dealer, bank, seatStatus, results)
    BY <1>2 DEF PassTurn
  <2> QED BY <1>1, <2>1, CloseRoundMoves
<1>3. CASE pos # NoPosition
  <2>1. KeepPlaying(hs, pos, hix)
    BY <1>3 DEF PassTurn
  <2>2. pos \in Positions /\ pos > position /\ position \in Nat
    BY <1>3, SeatCountAssumption DEF RoundInv, TypeOK, Positions, NoPosition
  <2>3. pos >= position
    BY <2>2, SeatCountAssumption DEF Positions
  <2> QED BY <2>1, <2>3, KeepPlayingMoves
<1> QED BY <1>2, <1>3

\* Leaving a split hand.
LEMMA LeaveHandMoves ==
  ASSUME RoundInv, NEW p \in Positions, position = p, NEW rows, NEW a, LeaveHand(p, rows, a)
  PROVE  Moves
<1>1. PICK draws \in [PendingHands(rows) -> Ranks] :
        LET step == AdvanceHand([rows EXCEPT ![a] = FinishedRow(@)], a, draws)
            hs == [hands EXCEPT ![p] = step.rows]
            pos == NextByCards(p)
        IN IF step.next # NoHand
           THEN KeepPlaying(hs, p, step.next)
           ELSE PassTurn(hs, pos, FirstHand(pos), LoadedActive \ {p})
  BY DEF LeaveHand
<1> DEFINE step == AdvanceHand([rows EXCEPT ![a] = FinishedRow(@)], a, draws)
           hs == [hands EXCEPT ![p] = step.rows]
           pos == NextByCards(p)
<1>2. CASE step.next # NoHand
  <2>1. KeepPlaying(hs, p, step.next)
    BY <1>1, <1>2
  <2>2. p >= position
    BY SeatCountAssumption DEF Positions
  <2> HIDE DEF hs, step
  <2> QED BY <2>1, <2>2, KeepPlayingMoves
<1>3. CASE step.next = NoHand
  <2>1. PassTurn(hs, pos, FirstHand(pos), LoadedActive \ {p})
    BY <1>1, <1>3
  <2>2. pos \in {q \in Positions : q > position} \cup {NoPosition}
    BY NextSeat
  <2>3. LoadedActive \ {p} \in SUBSET Positions
    BY DEF LoadedActive
  <2> HIDE DEF hs, step, pos
  <2> QED BY <2>1, <2>2, <2>3, PassTurnMoves
<1> QED BY <1>2, <1>3

\* Finishing a hand.
LEMMA FinishHandMoves ==
  ASSUME RoundInv, NEW p \in Positions, position = p, NEW row, FinishHand(p, row)
  PROVE  Moves
<1> DEFINE rows == [hands[p] EXCEPT ![handIndex] = RowAfterTurn(row)]
           hs == [hands EXCEPT ![p] = rows]
           pos == NextPlayable(p)
<1>1. \/ LeaveHand(p, rows, handIndex)
      \/ PassTurn(hs, pos, FirstHand(pos), LoadedActive)
  BY DEF FinishHand
<1>2. pos \in {q \in Positions : q > position} \cup {NoPosition}
  BY NextSeat
<1>3. LoadedActive \in SUBSET Positions
  BY DEF LoadedActive
<1> HIDE DEF rows, hs, pos
<1> QED BY <1>1, <1>2, <1>3, LeaveHandMoves, PassTurnMoves

-----------------------------------------------------------------------------
(* One lemma per operation.                                                *)

\* Dealing starts with the turn of the first seat, or the dealer pays at once.
LEMMA StartRoundMoves ==
  ASSUME RoundInv, NoTurnOutside, RoundInv', StartRound
  PROVE  Moves
<1>1. position = NoPosition
  BY DEF StartRound, NoTurnOutside
<1>2. Forward
  BY <1>1, SeatCountAssumption DEF Forward, RoundInv, TypeOK, Positions, NoPosition
<1>3. bank \in [Positions -> Int] /\ results \in [Positions -> Nat]
  BY DEF RoundInv, TypeOK
<1>4. \/ UNCHANGED <<bank, insurance, results>>
      \/ \E hs, due, start, st : due = Positions /\ CloseRound(hs, due, start, bank, st, results)
  BY DEF StartRound
<1>5. CASE UNCHANGED <<bank, insurance, results>>
  BY <1>2, <1>5 DEF Moves, Recorded
<1>6. ASSUME NEW hs, NEW due, NEW start, NEW st, due = Positions,
             CloseRound(hs, due, start, bank, st, results)
      PROVE  Moves
  <2>1. due \in SUBSET Positions
    BY <1>6
  <2> QED BY <1>3, <1>6, <2>1, CloseRoundMoves
<1> QED BY <1>4, <1>5, <1>6

\* A move keeps the turn, ends the hand, or moves the insurance stake.
LEMMA PlayerMoveMoves ==
  ASSUME RoundInv, NEW p \in Positions, PlayerMove(p)
  PROVE  Moves
<1>0. position = p /\ p >= position
  <2>1. \E action : MayAct(p, action)
    BY Zenon DEF PlayerMove, Hit, Stand, Double, Split, Insurance
  <2>2. position = p
    BY <2>1 DEF MayAct
  <2> QED BY <2>2, SeatCountAssumption DEF Positions
<1>1. CASE Hit(p)
  <2>1. PICK r \in Ranks :
          LET row == [CurrentRow(p) EXCEPT !.cards = Draw(@, r)]
          IN IF Score(row.cards) < 21
             THEN KeepPlaying([hands EXCEPT ![p][handIndex] = row], p, handIndex)
             ELSE FinishHand(p, row)
    BY <1>1 DEF Hit
  <2>2. \/ \E hs : KeepPlaying(hs, p, handIndex)
        \/ \E row : FinishHand(p, row)
    BY <2>1
  <2> QED BY <1>0, <2>2, KeepPlayingMoves, FinishHandMoves
<1>2. CASE Stand(p)
  BY <1>0, <1>2, FinishHandMoves DEF Stand
<1>3. CASE Double(p)
  BY <1>0, <1>3, FinishHandMoves DEF Double
<1>4. CASE Split(p)
  <2>1. \/ \E hs : KeepPlaying(hs, p, handIndex)
        \/ \E rows : LeaveHand(p, rows, handIndex)
    BY <1>4 DEF Split
  <2> QED BY <1>0, <2>1, KeepPlayingMoves, LeaveHandMoves
<1>5. CASE Insurance(p)
  <2> DEFINE stake == CurrentRow(p).bet \div 2
  <2>1. /\ insurance[p] = 0 /\ stake > 0 /\ position' = position
        /\ bank' = [bank EXCEPT ![p] = bank[p] - stake]
        /\ insurance' = [insurance EXCEPT ![p] = stake]
    BY <1>5 DEF Insurance, Insurable
  <2> HIDE DEF stake
  <2>2. bank \in [Positions -> Nat] /\ insurance \in [Positions -> Nat] /\ position \in Positions
    BY <1>0 DEF RoundInv, TypeOK
  <2>3. Recorded
    BY <2>1, <2>2 DEF Recorded
  <2>4. Forward
    BY <1>0, <2>1 DEF Forward
  <2> QED BY <2>3, <2>4 DEF Moves
<1> QED BY <1>1, <1>2, <1>3, <1>4, <1>5 DEF PlayerMove

\* A timeout passes the turn on.
LEMMA TimeoutMoves ==
  ASSUME RoundInv, NEW p \in Positions, Timeout(p)
  PROVE  Moves
<1> DEFINE pos == NextPlayable(p)
<1>1. position = p /\ PassTurn(hands, pos, FirstHand(pos), LoadedActive)
  BY DEF Timeout
<1>2. pos \in {q \in Positions : q > position} \cup {NoPosition}
  BY <1>1, NextSeat
<1>3. LoadedActive \in SUBSET Positions
  BY DEF LoadedActive
<1> HIDE DEF pos
<1> QED BY <1>1, <1>2, <1>3, PassTurnMoves

\* A stop records what it pays, and hands on no turn but the leaver's.
LEMMA PlayerStopMoves ==
  ASSUME RoundInv, NEW p \in Positions, PlayerStop(p)
  PROVE  Moves
<1> DEFINE delta == RowDelta(LoadedHand(p), dealer.cards) + InsuranceDelta(insurance[p], dealer.cards)
           bk == [bank EXCEPT ![p] = bank[p] + delta]
           hs == [hands EXCEPT ![p][0] = FinishedRow(hands[p][0])]
           st == [seatStatus EXCEPT ![p] = "inactive"]
           rs == [results EXCEPT ![p] = results[p] + 1]
           pos == IF position = p THEN NextPlayable(p) ELSE position
           remaining == LoadedActive \ {p}
<1>1. /\ status = "in_progress"
      /\ p \in LoadedActive
      /\ IF remaining # {} /\ pos = NoPosition
         THEN CloseRound(hs, remaining, dealer, bk, st, rs)
         ELSE /\ position' = IF remaining = {} THEN NoPosition ELSE pos
              /\ bank' = bk
              /\ results' = rs
              /\ UNCHANGED <<dealer, insurance>>
  BY DEF PlayerStop
<1>2. TypeOK
  BY DEF RoundInv
<1>3. delta \in Int
  <2>1. RowDelta(LoadedHand(p), dealer.cards) \in Int
    BY <1>1, <1>2, LoadedFacts, RowDeltaType DEF TypeOK
  <2>2. InsuranceDelta(insurance[p], dealer.cards) \in Int
    BY <1>2 DEF TypeOK, InsuranceDelta
  <2> QED BY <2>1, <2>2
<1> HIDE DEF delta
<1>4. /\ bk \in [Positions -> Int] /\ rs \in [Positions -> Nat]
      /\ rs[p] = results[p] + 1
      /\ \A q \in Positions \ {p} : rs[q] = results[q] /\ bk[q] = bank[q]
  BY <1>2, <1>3 DEF TypeOK
<1>5. position \in Nat /\ p \in Nat
  BY <1>2, SeatCountAssumption DEF TypeOK, Positions, NoPosition
<1>6. pos = NoPosition \/ (pos \in Nat /\ pos >= position)
  <2>1. NextPlayable(p) \in {q \in Positions : q > p} \cup {NoPosition}
    BY NextSeat
  <2>2. CASE position = p
    BY <1>5, <2>1, <2>2, SeatCountAssumption DEF Positions
  <2>3. CASE position # p
    BY <1>5, <2>3
  <2> QED BY <2>2, <2>3
<1>7. remaining \in SUBSET Positions
  BY DEF LoadedActive
<1> HIDE DEF bk, rs, pos, hs, st
<1>8. CASE remaining # {} /\ pos = NoPosition
  <2>1. CloseRound(hs, remaining, dealer, bk, st, rs)
    BY <1>1, <1>8
  <2>2. \A q \in remaining : rs[q] = results[q]
    BY <1>4, <1>7
  <2>3. \A q \in Positions \ remaining : bk[q] # bank[q] => rs[q] = results[q] + 1
    BY <1>4
  <2> HIDE DEF remaining
  <2> QED BY <1>4, <1>7, <2>1, <2>2, <2>3, CloseRoundMoves
<1>9. CASE ~ (remaining # {} /\ pos = NoPosition)
  <2>1. /\ position' \in {NoPosition, pos}
        /\ bank' = bk /\ results' = rs /\ insurance' = insurance
    BY <1>1, <1>9
  <2>2. Forward
    BY <1>6, <2>1 DEF Forward
  <2>3. Recorded
    BY <1>4, <2>1 DEF Recorded
  <2> QED BY <2>2, <2>3 DEF Moves
<1> QED BY <1>8, <1>9

-----------------------------------------------------------------------------
(* The theorems.                                                           *)

\* Every transaction.
LEMMA StepMoves ==
  ASSUME RoundInv, NoTurnOutside, RoundInv', Next
  PROVE  Moves
<1>1. CASE StartRound
  BY <1>1, StartRoundMoves
<1>2. ASSUME NEW p \in Positions, PlayerMove(p) \/ Timeout(p) \/ PlayerStop(p)
      PROVE  Moves
  BY <1>2, PlayerMoveMoves, TimeoutMoves, PlayerStopMoves
<1> QED BY <1>1, <1>2 DEF Next

\* Nobody is on turn in a lobby or after the round.
LEMMA TurnOnlyInRound == Spec => []NoTurnOutside
<1>1. Init => NoTurnOutside
  BY DEF Init, NoTurnOutside
<1>2. RoundInv /\ NoTurnOutside /\ [Next]_vars => NoTurnOutside'
  BY NoTurnOutsideStep
<1> QED BY <1>1, <1>2, RoundIsSound, PTL DEF Spec

(***************************************************************************)
(* No move, split, stop or timeout gives the turn back to a seat that was  *)
(* passed over.                                                            *)
(***************************************************************************)
THEOREM TurnGoesForward == Spec => TurnMovesForward
<1>1. RoundInv /\ NoTurnOutside /\ RoundInv' /\ [Next]_vars =>
        [position' # NoPosition => position' >= position]_vars
  BY StepMoves DEF Moves, Forward
<1> QED BY <1>1, RoundIsSound, TurnOnlyInRound, PTL DEF Spec, TurnMovesForward

(***************************************************************************)
(* No transaction moves a bank without a result record or the purchase of  *)
(* an insurance, and nobody buys insurance twice in a round.               *)
(***************************************************************************)
THEOREM RecordsExplainBanks == Spec => BankMovesAreRecorded
<1>1. RoundInv /\ NoTurnOutside /\ RoundInv' /\ [Next]_vars =>
        [\A p \in Positions :
           /\ bank'[p] # bank[p] => results'[p] = results[p] + 1 \/ insurance'[p] # insurance[p]
           /\ insurance'[p] # insurance[p] =>
                insurance[p] = 0 /\ bank'[p] = bank[p] - insurance'[p]]_vars
  BY StepMoves DEF Moves, Recorded
<1> QED BY <1>1, RoundIsSound, TurnOnlyInRound, PTL DEF Spec, BankMovesAreRecorded
-----------------------------------------------------------------------------
(***************************************************************************)
(* What a transaction does to a seat that was paid by its stop.  Its loaded *)
(* hand is over (RoundInv), so the seat is none of those that act, time    *)
(* out, stop or are settled; every operation writes the hands of the seat  *)
(* it is about, and no other's.                                            *)
(***************************************************************************)
Left == {p \in Positions : results[p] # 0}

\* What LeaverIsLeftAlone asks of a step of a running round.
LeftAlone ==
  \A p \in Left :
    /\ bank'[p] = bank[p] /\ results'[p] = results[p]
    /\ hands'[p] = hands[p] /\ insurance'[p] = insurance[p]

\* Hands in which those of the seats that left are as they were.
Spares(hs) == \A p \in Left : hs[p] = hands[p]

\* Writing the hands of an unpaid seat spares those that left.
LEMMA EditSpares ==
  ASSUME TypeOK, NEW p \in Positions, results[p] = 0, NEW rows
  PROVE  Spares([hands EXCEPT ![p] = rows])
  BY DEF TypeOK, Spares, Left

\* A turn kept or passed on.
LEMMA KeepPlayingSpares ==
  ASSUME NEW hs, NEW pos, NEW hix, KeepPlaying(hs, pos, hix), Spares(hs)
  PROVE  LeftAlone
  BY DEF KeepPlaying, Spares, LeftAlone

\* The settlement of seats none of which has left.
LEMMA CloseRoundSpares ==
  ASSUME NEW hs, NEW due \in SUBSET Positions, NEW start, NEW bk, NEW st, NEW rs,
         CloseRound(hs, due, start, bk, st, rs), Spares(hs), due \cap Left = {},
         \A p \in Left : bk[p] = bank[p] /\ rs[p] = results[p] /\ bk[p] \in Int
  PROVE  LeftAlone
<1>1. /\ hands' = [p \in Positions |-> IF p \in due THEN SettleRows(hs[p]) ELSE hs[p]]
      /\ results' = [p \in Positions |-> IF p \in due THEN rs[p] + 1 ELSE rs[p]]
      /\ insurance' = insurance
  BY DEF CloseRound
<1>2. PICK final \in DealerFinals(start.cards, DealerTotals) :
        bank' = [p \in Positions |->
                   bk[p] + (IF p \in due THEN SeatDelta(hs[p], insurance[p], final) ELSE 0)]
  BY DEF CloseRound
<1>3. ASSUME NEW p \in Left
      PROVE  /\ bank'[p] = bank[p] /\ results'[p] = results[p]
             /\ hands'[p] = hands[p] /\ insurance'[p] = insurance[p]
  <2>1. p \in Positions /\ p \notin due
    BY <1>3 DEF Left
  <2>2. bank'[p] = bk[p] + 0
    BY <1>2, <2>1
  <2>3. bank'[p] = bank[p]
    BY <1>3, <2>2
  <2>4. hands'[p] = hands[p] /\ results'[p] = results[p]
    BY <1>1, <1>3, <2>1 DEF Spares
  <2> QED BY <1>1, <2>3, <2>4
<1> QED BY <1>3 DEF LeftAlone

\* Passing the turn, or the settlement when there is nobody to pass it to.
LEMMA PassTurnSpares ==
  ASSUME TypeOK, NEW hs, NEW pos, NEW hix, NEW due \in SUBSET Positions,
         PassTurn(hs, pos, hix, due), Spares(hs), due \cap Left = {}
  PROVE  LeftAlone
<1>1. \A p \in Left : bank[p] \in Int
  BY DEF TypeOK, Left
<1> QED BY <1>1, KeepPlayingSpares, CloseRoundSpares DEF PassTurn

\* No seat that left is among those a transaction holds as active.
LEMMA LeftNotLoaded ==
  ASSUME RoundInv, status = "in_progress"
  PROVE  LoadedActive \cap Left = {} /\ LoadedActive \in SUBSET Positions
<1>1. \A p \in Positions : p \in LoadedActive => results[p] = 0
  BY LoadedFacts
<1> QED BY <1>1 DEF LoadedActive, Left

\* Leaving a split hand of an unpaid seat.
LEMMA LeaveHandSpares ==
  ASSUME RoundInv, status = "in_progress", NEW p \in Positions, results[p] = 0,
         NEW rows, NEW a, LeaveHand(p, rows, a)
  PROVE  LeftAlone
<1>1. PICK draws \in [PendingHands(rows) -> Ranks] :
        LET step == AdvanceHand([rows EXCEPT ![a] = FinishedRow(@)], a, draws)
            hs == [hands EXCEPT ![p] = step.rows]
            pos == NextByCards(p)
        IN IF step.next # NoHand
           THEN KeepPlaying(hs, p, step.next)
           ELSE PassTurn(hs, pos, FirstHand(pos), LoadedActive \ {p})
  BY DEF LeaveHand
<1> DEFINE step == AdvanceHand([rows EXCEPT ![a] = FinishedRow(@)], a, draws)
           hs == [hands EXCEPT ![p] = step.rows]
           pos == NextByCards(p)
<1>2. KeepPlaying(hs, p, step.next) \/ PassTurn(hs, pos, FirstHand(pos), LoadedActive \ {p})
  BY <1>1
<1>3. TypeOK
  BY DEF RoundInv
<1> HIDE DEF step
<1>4. Spares(hs)
  BY <1>3, EditSpares
<1>5. (LoadedActive \ {p}) \cap Left = {} /\ LoadedActive \ {p} \in SUBSET Positions
  BY LeftNotLoaded
<1> HIDE DEF hs, pos
<1> QED BY <1>2, <1>3, <1>4, <1>5, KeepPlayingSpares, PassTurnSpares

\* Finishing a hand of an unpaid seat.
LEMMA FinishHandSpares ==
  ASSUME RoundInv, status = "in_progress", NEW p \in Positions, results[p] = 0,
         NEW row, FinishHand(p, row)
  PROVE  LeftAlone
<1> DEFINE rows == [hands[p] EXCEPT ![handIndex] = RowAfterTurn(row)]
           hs == [hands EXCEPT ![p] = rows]
           pos == NextPlayable(p)
<1>1. LeaveHand(p, rows, handIndex) \/ PassTurn(hs, pos, FirstHand(pos), LoadedActive)
  BY DEF FinishHand
<1>2. TypeOK
  BY DEF RoundInv
<1> HIDE DEF rows
<1>3. Spares(hs)
  BY <1>2, EditSpares
<1> HIDE DEF hs, pos
<1> QED BY <1>1, <1>2, <1>3, LeftNotLoaded, LeaveHandSpares, PassTurnSpares

\* A move is one of an unpaid seat.
LEMMA PlayerMoveSpares ==
  ASSUME RoundInv, NEW p \in Positions, PlayerMove(p)
  PROVE  LeftAlone
<1>0. status = "in_progress" /\ results[p] = 0 /\ TypeOK
  <2>1. \E action : MayAct(p, action)
    BY Zenon DEF PlayerMove, Hit, Stand, Double, Split, Insurance
  <2> QED BY <2>1, MayActFacts DEF RoundInv
<1>1. CASE Hit(p)
  <2>1. PICK r \in Ranks :
          LET row == [CurrentRow(p) EXCEPT !.cards = Draw(@, r)]
          IN IF Score(row.cards) < 21
             THEN KeepPlaying([hands EXCEPT ![p][handIndex] = row], p, handIndex)
             ELSE FinishHand(p, row)
    BY <1>1 DEF Hit
  <2>2. \/ \E rows : KeepPlaying([hands EXCEPT ![p] = rows], p, handIndex)
        \/ \E row : FinishHand(p, row)
    BY <2>1
  <2> QED BY <1>0, <2>2, EditSpares, KeepPlayingSpares, FinishHandSpares
<1>2. CASE Stand(p)
  BY <1>0, <1>2, FinishHandSpares DEF Stand
<1>3. CASE Double(p)
  BY <1>0, <1>3, FinishHandSpares DEF Double
<1>4. CASE Split(p)
  <2>1. \/ \E rows : KeepPlaying([hands EXCEPT ![p] = rows], p, handIndex)
        \/ \E rows : LeaveHand(p, rows, handIndex)
    BY <1>4 DEF Split
  <2> QED BY <1>0, <2>1, EditSpares, KeepPlayingSpares, LeaveHandSpares
<1>5. CASE Insurance(p)
  <2> DEFINE stake == CurrentRow(p).bet \div 2
  <2>1. /\ bank' = [bank EXCEPT ![p] = bank[p] - stake]
        /\ insurance' = [insurance EXCEPT ![p] = stake]
        /\ UNCHANGED <<hands, results>>
    BY <1>5 DEF Insurance
  <2> HIDE DEF stake
  <2> QED BY <1>0, <2>1 DEF TypeOK, LeftAlone, Left
<1> QED BY <1>1, <1>2, <1>3, <1>4, <1>5 DEF PlayerMove

\* A timeout writes no hands of its own.
LEMMA TimeoutSpares ==
  ASSUME RoundInv, NEW p \in Positions, Timeout(p)
  PROVE  LeftAlone
<1> DEFINE pos == NextPlayable(p)
<1>1. status = "in_progress" /\ PassTurn(hands, pos, FirstHand(pos), LoadedActive)
  BY DEF Timeout
<1>2. TypeOK /\ Spares(hands)
  BY DEF RoundInv, Spares
<1> HIDE DEF pos
<1> QED BY <1>1, <1>2, LeftNotLoaded, PassTurnSpares

\* A stop pays the seat that stops, and settles those still in the round.
LEMMA PlayerStopSpares ==
  ASSUME RoundInv, NEW p \in Positions, PlayerStop(p)
  PROVE  LeftAlone
<1> DEFINE delta == RowDelta(LoadedHand(p), dealer.cards) + InsuranceDelta(insurance[p], dealer.cards)
           bk == [bank EXCEPT ![p] = bank[p] + delta]
           hs == [hands EXCEPT ![p][0] = FinishedRow(hands[p][0])]
           st == [seatStatus EXCEPT ![p] = "inactive"]
           rs == [results EXCEPT ![p] = results[p] + 1]
           pos == IF position = p THEN NextPlayable(p) ELSE position
           remaining == LoadedActive \ {p}
<1>1. /\ status = "in_progress"
      /\ p \in LoadedActive
      /\ \/ CloseRound(hs, remaining, dealer, bk, st, rs)
         \/ /\ hands' = hs /\ bank' = bk
            /\ results' = rs
            /\ UNCHANGED <<dealer, insurance>>
  BY DEF PlayerStop
<1>2. TypeOK
  BY DEF RoundInv
<1>3. results[p] = 0
  BY <1>1, LoadedFacts
<1> HIDE DEF delta
<1>4. \A q \in Left : bk[q] = bank[q] /\ rs[q] = results[q] /\ bk[q] \in Int
  BY <1>2, <1>3 DEF TypeOK, Left
<1>5. Spares(hs)
  BY <1>2, <1>3 DEF TypeOK, Spares, Left
<1>6. remaining \cap Left = {} /\ remaining \in SUBSET Positions
  BY <1>1, LeftNotLoaded
<1> HIDE DEF bk, rs, hs, st, remaining
<1>7. CASE CloseRound(hs, remaining, dealer, bk, st, rs)
  BY <1>4, <1>5, <1>6, <1>7, CloseRoundSpares
<1>8. CASE hands' = hs /\ bank' = bk /\ results' = rs /\ UNCHANGED <<dealer, insurance>>
  BY <1>4, <1>5, <1>8 DEF LeftAlone, Spares
<1> QED BY <1>1, <1>7, <1>8

(***************************************************************************)
(* Between its stop and the end of the round a seat keeps its bank, its    *)
(* hands and its insurance, whoever splits, stops or times out meanwhile   *)
(* and wherever the turn goes: nobody pays it again or plays for it.       *)
(***************************************************************************)
THEOREM LeaversKeepTheirPay == Spec => LeaverIsLeftAlone
<1>1. RoundInv /\ [Next]_vars =>
        [\A p \in Positions :
           status = "in_progress" /\ results[p] # 0 =>
             /\ bank'[p] = bank[p] /\ results'[p] = results[p]
             /\ hands'[p] = hands[p] /\ insurance'[p] = insurance[p]]_vars
  <2> SUFFICES ASSUME RoundInv, Next, status = "in_progress"
               PROVE  LeftAlone
    BY DEF LeftAlone, Left
  <2>1. ~ StartRound
    BY DEF StartRound
  <2> QED BY <2>1, PlayerMoveSpares, TimeoutSpares, PlayerStopSpares DEF Next
<1> QED BY <1>1, RoundIsSound, PTL DEF Spec, LeaverIsLeftAlone
=============================================================================
