------------------------- MODULE BlackjackRoundProofs -------------------------
(***************************************************************************)
(* Proofs about BlackjackRound for any table, deck, bank and bet.          *)
(*                                                                         *)
(* RoundInv strengthens UnsplitSeatPaidOnce to an inductive invariant: it  *)
(* says of a round in progress which hands a seat's hand 0 status lets     *)
(* load_context see, because that status alone decides who is settled.     *)
(***************************************************************************)
EXTENDS BlackjackRound, LeastElement, TLAPS

-----------------------------------------------------------------------------
(* The least element of a set of positions or hands.                       *)

\* Least returns a member of a non-empty set, its default on the empty one.
LEMMA LeastMember ==
  ASSUME NEW S \in SUBSET Nat, NEW d
  PROVE  /\ S # {} => Least(S, d) \in S
         /\ S = {} => Least(S, d) = d
<1>1. CASE S = {}
  BY <1>1 DEF Least
<1>2. CASE S # {}
  <2>1. \E x \in S : \A y \in S : x <= y
    BY <1>2, LeastExists
  <2>2. (CHOOSE x \in S : \A y \in S : x <= y) \in S
    BY <2>1
  <2> QED BY <1>2, <2>2 DEF Least
<1> QED BY <1>1, <1>2

\* The position a turn is passed to is a seat further on, or none.
LEMMA NextSeat ==
  ASSUME NEW p \in Positions
  PROVE  /\ NextPlayable(p) \in {q \in Positions : q > p} \cup {NoPosition}
         /\ NextByCards(p) \in {q \in Positions : q > p} \cup {NoPosition}
<1> DEFINE A == {q \in Positions : q > p /\ Playable(q)}
           B == {q \in Positions : q > p /\ CanAct(LoadedHand(q).cards)}
<1>1. A \in SUBSET Nat /\ B \in SUBSET Nat
  BY SeatCountAssumption DEF Positions
<1>2. /\ A # {} => Least(A, NoPosition) \in A
      /\ A = {} => Least(A, NoPosition) = NoPosition
  <2> HIDE DEF A
  <2> QED BY <1>1, LeastMember
<1>3. /\ B # {} => Least(B, NoPosition) \in B
      /\ B = {} => Least(B, NoPosition) = NoPosition
  <2> HIDE DEF B
  <2> QED BY <1>1, LeastMember
<1> QED BY <1>2, <1>3 DEF NextPlayable, NextByCards

-----------------------------------------------------------------------------
(* Types of the card operators.                                            *)

\* A drawn card makes a hand of a hand.
LEMMA HandTypes ==
  ASSUME NEW r \in AllRanks
  PROVE  /\ SeedHand(r) \in CardHand
         /\ \A h \in CardHand : Draw(h, r) \in CardHand
  BY DEF SeedHand, Draw, CardHand, Points, AllRanks, NoRank

\* The opening cards are a hand.
LEMMA OpeningHandType ==
  ASSUME NEW r \in AllRanks, NEW s \in AllRanks
  PROVE  OpeningHand(r, s) \in CardHand
  BY HandTypes DEF OpeningHand

\* The dealer ends with a hand.
LEMMA DealerFinalsType ==
  ASSUME NEW d \in CardHand, NEW f \in DealerFinals(d, DealerTotals)
  PROVE  f \in CardHand
<1>1. \A t \in DealerTotals : t \in Nat
  BY DealerTotalsAssumption DEF DealerStandScore
<1>2. \A t \in DealerTotals :
         [sum |-> t, ace |-> FALSE, n |-> 3, rank |-> NoRank] \in CardHand
  BY <1>1 DEF CardHand
<1> QED BY <1>2 DEF DealerFinals

\* What a hand is paid is an integer.
LEMMA RowDeltaType ==
  ASSUME NEW row \in HandRow, NEW d \in CardHand
  PROVE  RowDelta(row, d) \in Int
<1>1. row.bet \in Nat
  BY DEF HandRow
<1>2. (row.bet * 3) \div 2 \in Int
  BY <1>1
<1>3. HandDelta(row.cards, row.bet, d) \in Int
  BY <1>1, <1>2 DEF HandDelta
<1> QED BY <1>3 DEF RowDelta

\* What a seat is paid is an integer.
LEMMA SeatDeltaType ==
  ASSUME NEW rows \in [HandIndices -> HandRow], NEW stake \in Nat, NEW d \in CardHand
  PROVE  SeatDelta(rows, stake, d) \in Int
<1>1. ASSUME NEW row \in HandRow PROVE RowDelta(row, d) \in Int
  BY RowDeltaType
<1>2. InsuranceDelta(stake, d) \in Int
  BY DEF InsuranceDelta
<1>3. \A i \in HandIndices : RowDelta(rows[i], d) \in Int
  BY <1>1
<1> QED BY <1>2, <1>3 DEF SeatDelta, HandIndices

-----------------------------------------------------------------------------
(* The hands of a seat.                                                    *)

\* The rows of a seat: typed, and numbered without gaps.
RowsOk(rows) ==
  /\ rows \in [HandIndices -> HandRow]
  /\ \A i \in 1..3 : rows[i].status # "absent" => rows[i - 1].status # "absent"

\* A seat with a hand beyond hand 0 has split.
LEMMA SplitHasSecondHand ==
  ASSUME NEW rows, RowsOk(rows), NEW i \in HandIndices, rows[i].status # "absent", i # 0
  PROVE  rows[1].status # "absent"
<1>1. i \in 1..3
  BY DEF HandIndices
<1>2. CASE i = 1
  BY <1>2
<1>3. CASE i = 2
  BY <1>3 DEF RowsOk
<1>4. CASE i = 3
  <2>1. rows[2].status # "absent"
    BY <1>4 DEF RowsOk
  <2> QED BY <2>1 DEF RowsOk
<1> QED BY <1>1, <1>2, <1>3, <1>4

\* Overwriting a hand that exists, or hand 0, with one that exists keeps the rows in order.
LEMMA ReplaceRow ==
  ASSUME NEW rows, RowsOk(rows), NEW a \in HandIndices, rows[a].status # "absent",
         NEW row \in HandRow, row.status # "absent"
  PROVE  RowsOk([rows EXCEPT ![a] = row])
  BY DEF RowsOk, HandIndices

\* A hand that is over is still a hand.
LEMMA FinishedRowType ==
  ASSUME NEW row \in HandRow
  PROVE  FinishedRow(row) \in HandRow /\ FinishedRow(row).status = "inactive"
  BY DEF FinishedRow, HandRow

\* Inserting the second hand of a split leaves no gap.
LEMMA InsertHandOk ==
  ASSUME NEW rows, RowsOk(rows), NEW a \in HandIndices, rows[a].status # "absent",
         NEW row \in HandRow, row.status # "absent"
  PROVE  /\ RowsOk(InsertHand(rows, a, row))
         /\ InsertHand(rows, a, row)[a] = rows[a]
         /\ InsertHand(rows, a, row)[0].status # "absent"
         /\ a < 3 => InsertHand(rows, a, row)[a + 1] = row
<1> DEFINE new == InsertHand(rows, a, row)
<1>1. new = [i \in HandIndices |-> IF i <= a THEN rows[i] ELSE IF i = a + 1 THEN row ELSE rows[i - 1]]
  BY DEF InsertHand
<1>2. new \in [HandIndices -> HandRow]
  BY <1>1 DEF RowsOk, HandIndices
<1>3. ASSUME NEW i \in 1..3, new[i].status # "absent"
      PROVE  new[i - 1].status # "absent"
  <2>1. CASE i <= a
    BY <1>1, <1>3, <2>1 DEF RowsOk, HandIndices
  <2>2. CASE i = a + 1
    BY <1>1, <2>2 DEF HandIndices
  <2>3. CASE i = a + 2
    BY <1>1, <2>3 DEF HandIndices
  <2>4. CASE i > a + 2
    <3>1. new[i] = rows[i - 1] /\ new[i - 1] = rows[i - 2] /\ i - 1 \in 1..3
      BY <1>1, <2>4 DEF HandIndices
    <3>2. rows[(i - 1) - 1].status # "absent"
      BY <1>3, <3>1 DEF RowsOk
    <3> QED BY <3>1, <3>2
  <2> QED BY <2>1, <2>2, <2>3, <2>4 DEF HandIndices
<1>4. rows[0].status # "absent"
  <2>1. CASE a = 0
    BY <2>1
  <2>2. CASE a # 0
    BY <2>2, SplitHasSecondHand DEF RowsOk
  <2> QED BY <2>1, <2>2
<1>5. new[a] = rows[a] /\ new[0] = rows[0] /\ (a < 3 => new[a + 1] = row)
  BY <1>1 DEF HandIndices
<1> QED BY <1>2, <1>3, <1>4, <1>5 DEF RowsOk

(***************************************************************************)
(* Going through the later hands of a seat neither creates nor destroys a  *)
(* hand, leaves the earlier ones alone and stops, if anywhere, at a later  *)
(* hand that is active.                                                    *)
(***************************************************************************)
LEMMA AdvanceHandFacts ==
  ASSUME NEW rows, RowsOk(rows), NEW a \in HandIndices,
         NEW D \in SUBSET HandIndices, NEW draws \in [D -> Ranks]
  PROVE  LET step == AdvanceHand(rows, a, draws) IN
         /\ RowsOk(step.rows)
         /\ \A i \in HandIndices : step.rows[i].status = "absent" <=> rows[i].status = "absent"
         /\ step.rows[0] = rows[0]
         /\ step.next # NoHand =>
              step.next \in HandIndices /\ step.next > a /\ step.rows[step.next].status = "active"
<1> DEFINE later == {i \in HandIndices : i > a /\ rows[i].status = "active"}
           Cards(i) == IF i \in DOMAIN draws THEN Draw(rows[i].cards, draws[i]) ELSE rows[i].cards
           able == {i \in later : CanAct(Cards(i))}
           next == Least(able, NoHand)
           Visited(i) == i \in later /\ (next = NoHand \/ i <= next)
           New(i) == IF Visited(i)
                     THEN [rows[i] EXCEPT !.cards = Cards(i),
                                          !.status = IF i = next THEN "active" ELSE "inactive"]
                     ELSE rows[i]
           new == [i \in HandIndices |-> New(i)]
<1>1. AdvanceHand(rows, a, draws) = [next |-> next, rows |-> new]
  BY DEF AdvanceHand
<1>2. able \in SUBSET Nat
  BY DEF HandIndices
<1>3. /\ able # {} => next \in able
      /\ able = {} => next = NoHand
  <2> HIDE DEF able
  <2> QED BY <1>2, LeastMember
<1>4. next # NoHand => next \in later
  BY <1>3
<1>5. ASSUME NEW i \in HandIndices
      PROVE  /\ New(i) \in HandRow
             /\ New(i).status = "absent" <=> rows[i].status = "absent"
             /\ i <= a => New(i) = rows[i]
             /\ i = next => New(i).status = "active"
  <2>1. rows[i] \in HandRow
    BY DEF RowsOk
  <2>2. Cards(i) \in CardHand
    <3>1. CASE i \in DOMAIN draws
      <4>1. draws[i] \in AllRanks
        BY <3>1, RanksAssumption
      <4>2. rows[i].cards \in CardHand
        BY <2>1 DEF HandRow
      <4> QED BY <3>1, <4>1, <4>2, HandTypes
    <3>2. CASE i \notin DOMAIN draws
      BY <3>2, <2>1 DEF HandRow
    <3> QED BY <3>1, <3>2
  <2> HIDE DEF Cards
  <2>3. CASE Visited(i)
    <3>1. i > a /\ rows[i].status = "active"
      BY <2>3
    <3>2. New(i) = [rows[i] EXCEPT !.cards = Cards(i),
                                   !.status = IF i = next THEN "active" ELSE "inactive"]
      BY <2>3
    <3> HIDE DEF New, next
    <3>3. /\ New(i) \in HandRow
          /\ New(i).status = IF i = next THEN "active" ELSE "inactive"
      BY <2>1, <2>2, <3>2 DEF HandRow
    <3> QED BY <3>1, <3>3 DEF HandIndices
  <2>4. CASE ~ Visited(i)
    <3>1. New(i) = rows[i]
      BY <2>4
    <3>2. i # next
      <4>1. NoHand \notin HandIndices
        BY DEF NoHand, HandIndices
      <4> QED BY <2>4, <1>4, <4>1 DEF HandIndices
    <3> HIDE DEF New, next
    <3> QED BY <2>1, <3>1, <3>2
  <2> QED BY <2>3, <2>4
<1> HIDE DEF New, next
<1>6. RowsOk(new)
  <2>1. new \in [HandIndices -> HandRow]
    BY <1>5
  <2>2. \A i \in HandIndices : new[i].status = "absent" <=> rows[i].status = "absent"
    BY <1>5
  <2>3. \A i \in 1..3 : i \in HandIndices /\ i - 1 \in HandIndices
    BY DEF HandIndices
  <2> QED BY <2>1, <2>2, <2>3 DEF RowsOk
<1>7. new[0] = rows[0]
  BY <1>5 DEF HandIndices
<1> QED BY <1>1, <1>4, <1>5, <1>6, <1>7

-----------------------------------------------------------------------------
(* What a transaction sees of a round in progress.                         *)

\* Hands and results of a table in which every seat is in play or paid.
TableOk(hs, rs) ==
  /\ hs \in [Positions -> [HandIndices -> HandRow]]
  /\ rs \in [Positions -> Nat]
  /\ \A p \in Positions : RowsOk(hs[p]) /\ SeatInPlay(hs, rs, p)

\* RoundInv read as a statement about the tables the transaction works on.
LEMMA TableInPlay ==
  ASSUME RoundInv, status = "in_progress"
  PROVE  /\ TableOk(hands, results)
         /\ position \in Positions /\ handIndex \in HandIndices
         /\ hands[position][handIndex].status # "absent"
         /\ results[position] # 0 => handIndex = 0
<1>1. ASSUME NEW p \in Positions PROVE RowsOk(hands[p])
  BY <1>1 DEF RoundInv, TypeOK, HandRowsContiguous, RowsOk
<1> QED BY <1>1 DEF RoundInv, TypeOK, TableOk

(***************************************************************************)
(* The seats a transaction holds as active are exactly those not paid yet, *)
(* but for seats that have split; every one of them is loaded on a hand    *)
(* that exists.                                                            *)
(***************************************************************************)
LEMMA LoadedFacts ==
  ASSUME RoundInv, status = "in_progress", NEW p \in Positions
  PROVE  /\ p = position => LoadedHand(p) = hands[p][handIndex]
         /\ p # position => LoadedHand(p) = hands[p][0]
         /\ LoadedHand(p) \in HandRow
         /\ p \in LoadedActive <=> LoadedHand(p).status = "active"
         /\ p \in LoadedActive => results[p] = 0
         /\ p \notin LoadedActive => results[p] = 1 \/ hands[p][1].status # "absent"
<1>0. /\ TableOk(hands, results)
      /\ position \in Positions /\ handIndex \in HandIndices
      /\ hands[position][handIndex].status # "absent"
      /\ results[position] # 0 => handIndex = 0
  BY TableInPlay
<1>1. handIndex # NoHand
  BY <1>0 DEF HandIndices, NoHand
<1>2. p = position => LoadedHand(p) = hands[p][handIndex]
  BY <1>0, <1>1 DEF LoadedHand, ActiveHandIndex
<1>3. p # position => LoadedHand(p) = hands[p][0]
  BY DEF LoadedHand, ActiveHandIndex
<1>4. p \in LoadedActive <=> LoadedHand(p).status = "active"
  BY DEF LoadedActive
<1>5. RowsOk(hands[p]) /\ SeatInPlay(hands, results, p) /\ 0 \in HandIndices
  BY <1>0 DEF TableOk, HandIndices
<1>6. LoadedHand(p) \in HandRow
  BY <1>0, <1>2, <1>3, <1>5 DEF RowsOk
<1>7. results[p] # 0 => results[p] = 1 /\ LoadedHand(p).status # "active"
  BY <1>0, <1>2, <1>3, <1>5 DEF SeatInPlay
<1>8. results[p] = 0 /\ hands[p][1].status = "absent" => LoadedHand(p).status = "active"
  <2>1. CASE p = position /\ handIndex # 0
    BY <1>0, <1>5, <2>1, SplitHasSecondHand
  <2>2. CASE ~ (p = position /\ handIndex # 0)
    BY <1>2, <1>3, <1>5, <2>2 DEF SeatInPlay
  <2> QED BY <2>1, <2>2
<1> QED BY <1>2, <1>3, <1>4, <1>6, <1>7, <1>8

-----------------------------------------------------------------------------
(* The invariant after the operators that write a transaction back.        *)

\* Bump keeps the version a natural number.
LEMMA BumpType ==
  ASSUME TypeOK, NEW n \in Nat, Bump(n)
  PROVE  turnVersion' \in Nat
  BY DEF TypeOK, Bump

\* A table in play with the turn on an existing hand is a good state.
LEMMA InProgressInv ==
  ASSUME TableOk(hands', results'), status' = "in_progress",
         position' \in Positions, handIndex' \in HandIndices, timer' \in BOOLEAN,
         hands'[position'][handIndex'].status # "absent",
         results'[position'] # 0 => handIndex' = 0,
         turnVersion' \in Nat,
         dealer' \in [up : AllRanks \cup {NoRank}, cards : CardHand],
         seatStatus' \in [Positions -> SeatStatus],
         bet' \in [Positions -> Nat],
         insurance' \in [Positions -> Nat],
         bank' \in [Positions -> Nat]
  PROVE  RoundInv'
<1>1. TypeOK'
  BY DEF TypeOK, TableOk, SessionStatus
<1>2. HandRowsContiguous'
  BY DEF HandRowsContiguous, TableOk, RowsOk
<1>3. position' # NoPosition /\ handIndex' # NoHand
  BY SeatCountAssumption DEF Positions, HandIndices, NoPosition, NoHand
<1>4. \A p \in Positions : SeatInPlay(hands, results, p)'
  BY DEF TableOk, SeatInPlay
<1> QED BY <1>1, <1>2, <1>3, <1>4 DEF RoundInv

\* KeepPlaying on a good table and an existing hand.
LEMMA KeepPlayingInv ==
  ASSUME RoundInv, NEW hs, NEW pos \in Positions, NEW hix \in HandIndices,
         TableOk(hs, results), hs[pos][hix].status # "absent",
         results[pos] # 0 => hix = 0,
         KeepPlaying(hs, pos, hix), turnVersion' \in Nat, bet' = bet
  PROVE  RoundInv'
  BY InProgressInv DEF KeepPlaying, RoundInv, TypeOK

(***************************************************************************)
(* CloseRound pays the seats due once.  The seats that are not due must    *)
(* have been paid before or have split.                                    *)
(***************************************************************************)
LEMMA CloseRoundInv ==
  ASSUME RoundInv, NEW hs, NEW due \in SUBSET Positions, NEW start, NEW bk, NEW st, NEW rs,
         hs \in [Positions -> [HandIndices -> HandRow]],
         rs \in [Positions -> Nat],
         st \in [Positions -> SeatStatus],
         bk \in [Positions -> Int],
         start \in [up : AllRanks \cup {NoRank}, cards : CardHand],
         \A p \in Positions : RowsOk(hs[p]),
         \A p \in due : rs[p] = 0,
         \A p \in Positions \ due : SeatPaid(hs, rs, p),
         CloseRound(hs, due, start, bk, st, rs), turnVersion' \in Nat, bet' = bet
  PROVE  RoundInv'
<1> DEFINE Delta(p, final) == IF p \in due THEN SeatDelta(hs[p], insurance[p], final) ELSE 0
<1>1. PICK final \in DealerFinals(start.cards, DealerTotals) :
        /\ \A p \in Positions : BankAllows(bk[p] + Delta(p, final))
        /\ status' = "closed"
        /\ position' = NoPosition
        /\ handIndex' = NoHand
        /\ timer' = FALSE
        /\ dealer' = [start EXCEPT !.cards = final]
        /\ hands' = [p \in Positions |-> IF p \in due THEN SettleRows(hs[p]) ELSE hs[p]]
        /\ seatStatus' = [p \in Positions |-> IF p \in due THEN "settled" ELSE st[p]]
        /\ bank' = [p \in Positions |-> bk[p] + Delta(p, final)]
        /\ results' = [p \in Positions |-> IF p \in due THEN rs[p] + 1 ELSE rs[p]]
        /\ UNCHANGED insurance
  BY DEF CloseRound
<1>2. final \in CardHand
  BY DealerFinalsType
<1>3. ASSUME NEW p \in Positions
      PROVE  Delta(p, final) \in Int
  <2>1. hs[p] \in [HandIndices -> HandRow] /\ insurance[p] \in Nat
    BY DEF RoundInv, TypeOK
  <2>2. SeatDelta(hs[p], insurance[p], final) \in Int
    BY <1>2, <2>1, SeatDeltaType
  <2> QED BY <2>2
<1> HIDE DEF Delta
<1>4. bank' \in [Positions -> Nat]
  <2>1. \A p \in Positions : bk[p] + Delta(p, final) \in Int
    BY <1>3
  <2>2. \A p \in Positions : bk[p] + Delta(p, final) >= 0
    BY <1>1 DEF BankAllows
  <2>3. \A p \in Positions : bk[p] + Delta(p, final) \in Nat
    BY <2>1, <2>2
  <2> QED BY <1>1, <2>3
<1>5. ASSUME NEW rows, RowsOk(rows)
      PROVE  /\ RowsOk(SettleRows(rows))
             /\ SettleRows(rows)[1].status = "absent" <=> rows[1].status = "absent"
  <2> DEFINE New(i) == IF rows[i].status = "absent" THEN rows[i]
                       ELSE [rows[i] EXCEPT !.status = "settled"]
  <2>1. SettleRows(rows) = [i \in HandIndices |-> New(i)]
    BY DEF SettleRows
  <2>2. \A i \in HandIndices : New(i) \in HandRow /\ (New(i).status = "absent" <=> rows[i].status = "absent")
    BY <1>5 DEF RowsOk, HandRow
  <2>3. \A i \in 1..3 : i \in HandIndices /\ i - 1 \in HandIndices
    BY DEF HandIndices
  <2>4. 1 \in HandIndices
    BY DEF HandIndices
  <2> HIDE DEF New
  <2> QED BY <1>5, <2>1, <2>2, <2>3, <2>4 DEF RowsOk
<1>6. ASSUME NEW p \in Positions
      PROVE  RowsOk(hands'[p]) /\ (hands'[p][1].status = "absent" <=> hs[p][1].status = "absent")
  BY <1>1, <1>5
<1>7. hands' \in [Positions -> [HandIndices -> HandRow]]
  <2>1. \A p \in Positions : hands'[p] \in [HandIndices -> HandRow]
    BY <1>6 DEF RowsOk
  <2> QED BY <1>1, <2>1
<1>8. HandRowsContiguous'
  BY <1>6 DEF HandRowsContiguous, RowsOk
<1>9. TypeOK'
  <2>1. dealer' \in [up : AllRanks \cup {NoRank}, cards : CardHand]
    BY <1>1, <1>2
  <2>2. seatStatus' \in [Positions -> SeatStatus]
    BY <1>1 DEF SeatStatus
  <2>3. results' \in [Positions -> Nat]
    BY <1>1
  <2>4. insurance' \in [Positions -> Nat] /\ bet' \in [Positions -> Nat]
    BY <1>1 DEF RoundInv, TypeOK
  <2> QED BY <1>1, <1>4, <1>7, <2>1, <2>2, <2>3, <2>4 DEF TypeOK, SessionStatus
<1>10. ASSUME NEW p \in Positions
       PROVE  SeatPaid(hands', results', p)
  BY <1>1, <1>6 DEF SeatPaid
<1>11. \A p \in Positions : SeatPaid(hands, results, p)'
  BY <1>10 DEF SeatPaid
<1> QED BY <1>1, <1>8, <1>9, <1>11 DEF RoundInv

\* Passing the turn on, or ending the round, from a good table.
LEMMA PassTurnInv ==
  ASSUME RoundInv, NEW hs, NEW pos \in Positions \cup {NoPosition}, NEW due \in SUBSET Positions,
         TableOk(hs, results),
         \A p \in due : results[p] = 0,
         \A p \in Positions \ due : results[p] = 1 \/ hs[p][1].status # "absent",
         PassTurn(hs, pos, FirstHand(pos), due), turnVersion' \in Nat, bet' = bet
  PROVE  RoundInv'
<1>1. CASE pos = NoPosition
  <2>1. CloseRound(hs, due, dealer, bank, seatStatus, results)
    BY <1>1 DEF PassTurn
  <2>2. \A p \in Positions \ due : SeatPaid(hs, results, p)
    BY DEF TableOk, SeatInPlay, SeatPaid
  <2>3. /\ seatStatus \in [Positions -> SeatStatus]
        /\ bank \in [Positions -> Int]
        /\ dealer \in [up : AllRanks \cup {NoRank}, cards : CardHand]
    BY DEF RoundInv, TypeOK
  <2>4. /\ hs \in [Positions -> [HandIndices -> HandRow]]
        /\ results \in [Positions -> Nat]
        /\ \A p \in Positions : RowsOk(hs[p])
    BY DEF TableOk
  <2> QED BY <2>1, <2>2, <2>3, <2>4, CloseRoundInv
<1>2. CASE pos # NoPosition
  <2>1. KeepPlaying(hs, pos, 0) /\ pos \in Positions /\ 0 \in HandIndices
    BY <1>2 DEF PassTurn, FirstHand, HandIndices
  <2>2. hs[pos][0].status # "absent"
    BY <2>1 DEF TableOk, SeatInPlay
  <2> QED BY <2>1, <2>2, KeepPlayingInv
<1> QED BY <1>1, <1>2

-----------------------------------------------------------------------------
(* The invariant after a hand is played.                                   *)

\* Changing the rows of one unpaid seat keeps the table good.
LEMMA SeatReplaced ==
  ASSUME NEW hs, NEW rs, TableOk(hs, rs), NEW p \in Positions, rs[p] = 0,
         NEW rows, RowsOk(rows), rows[0].status # "absent",
         rows[1].status # "absent" \/ rows[0].status = "active"
  PROVE  TableOk([hs EXCEPT ![p] = rows], rs)
  BY DEF TableOk, RowsOk, SeatInPlay

\* A seat that may move is unpaid and on an existing active hand.
LEMMA MayActFacts ==
  ASSUME RoundInv, NEW p \in Positions, NEW action, MayAct(p, action)
  PROVE  /\ status = "in_progress"
         /\ position = p /\ handIndex \in HandIndices
         /\ p \in LoadedActive /\ results[p] = 0
         /\ CurrentRow(p) = hands[p][handIndex]
         /\ CurrentRow(p) \in HandRow
         /\ CurrentRow(p).status = "active"
         /\ TableOk(hands, results)
         /\ RowsOk(hands[p]) /\ hands[p][0].status # "absent"
<1>1. status = "in_progress" /\ position = p /\ p \in LoadedActive
  BY DEF MayAct, Playable
<1>2. /\ TableOk(hands, results)
      /\ handIndex \in HandIndices
  BY <1>1, TableInPlay
<1>3. /\ LoadedHand(p) = hands[p][handIndex]
      /\ LoadedHand(p) \in HandRow
      /\ LoadedHand(p).status = "active"
      /\ results[p] = 0
  BY <1>1, LoadedFacts
<1>4. RowsOk(hands[p]) /\ hands[p][0].status # "absent"
  BY <1>2 DEF TableOk, SeatInPlay
<1> QED BY <1>1, <1>2, <1>3, <1>4 DEF CurrentRow

(***************************************************************************)
(* Leaving a hand of a split seat: the turn stays with the seat or passes  *)
(* on, and the seats still due are unpaid.                                 *)
(***************************************************************************)
LEMMA LeaveHandInv ==
  ASSUME RoundInv, status = "in_progress", NEW p \in Positions, position = p, results[p] = 0,
         NEW rows, NEW a \in HandIndices, RowsOk(rows), rows[a].status # "absent",
         rows[1].status # "absent",
         LeaveHand(p, rows, a), turnVersion' \in Nat, bet' = bet
  PROVE  RoundInv'
<1>1. PICK draws \in [PendingHands(rows) -> Ranks] :
        LET step == AdvanceHand([rows EXCEPT ![a] = FinishedRow(@)], a, draws)
            hs == [hands EXCEPT ![p] = step.rows]
            pos == NextByCards(p)
        IN IF step.next # NoHand
           THEN KeepPlaying(hs, p, step.next)
           ELSE PassTurn(hs, pos, FirstHand(pos), LoadedActive \ {p})
  BY DEF LeaveHand
<1> DEFINE left == [rows EXCEPT ![a] = FinishedRow(rows[a])]
           step == AdvanceHand(left, a, draws)
           hs == [hands EXCEPT ![p] = step.rows]
           pos == NextByCards(p)
<1>2. RowsOk(left) /\ left[1].status # "absent" /\ left[0].status # "absent"
  <2>1. rows[a] \in HandRow
    BY DEF RowsOk
  <2>2. FinishedRow(rows[a]) \in HandRow /\ FinishedRow(rows[a]).status = "inactive"
    BY <2>1, FinishedRowType
  <2>3. RowsOk(left)
    BY <2>2, ReplaceRow
  <2>4. left[1].status # "absent"
    BY <2>2 DEF RowsOk, HandIndices
  <2>5. left[0].status # "absent"
    BY <2>3, <2>4 DEF RowsOk
  <2> QED BY <2>3, <2>4, <2>5
<1>3. PendingHands(rows) \in SUBSET HandIndices
  BY DEF PendingHands
<1>4. /\ RowsOk(step.rows)
      /\ \A i \in HandIndices : step.rows[i].status = "absent" <=> left[i].status = "absent"
      /\ step.next # NoHand =>
           step.next \in HandIndices /\ step.next > a /\ step.rows[step.next].status = "active"
  <2> HIDE DEF left
  <2> QED BY <1>2, <1>3, AdvanceHandFacts
<1> HIDE DEF step, left
<1>5. step.rows[0].status # "absent" /\ step.rows[1].status # "absent"
  BY <1>2, <1>4 DEF HandIndices
<1>6. TableOk(hands, results)
  BY TableInPlay
<1>7. TableOk(hs, results)
  BY <1>4, <1>5, <1>6, SeatReplaced
<1>8. hands \in [Positions -> [HandIndices -> HandRow]]
  BY <1>6 DEF TableOk
<1>9. CASE step.next # NoHand
  <2>1. KeepPlaying(hs, p, step.next)
    BY <1>1, <1>9 DEF step, left
  <2>2. hs[p][step.next].status # "absent"
    BY <1>4, <1>8, <1>9
  <2> HIDE DEF hs
  <2> QED BY <1>4, <1>7, <1>9, <2>1, <2>2, KeepPlayingInv
<1>10. CASE step.next = NoHand
  <2>1. PassTurn(hs, pos, FirstHand(pos), LoadedActive \ {p})
    BY <1>1, <1>10 DEF step, left
  <2>2. pos \in Positions \cup {NoPosition}
    BY NextSeat
  <2>3. \A q \in LoadedActive \ {p} : results[q] = 0
    BY LoadedFacts DEF LoadedActive
  <2>4. \A q \in Positions \ (LoadedActive \ {p}) : results[q] = 1 \/ hs[q][1].status # "absent"
    BY <1>5, <1>8, LoadedFacts
  <2>5. LoadedActive \ {p} \in SUBSET Positions
    BY DEF LoadedActive
  <2> HIDE DEF hs, pos
  <2> QED BY <1>7, <2>1, <2>2, <2>3, <2>4, <2>5, PassTurnInv
<1> QED BY <1>9, <1>10

\* Ending the hand under the turn with the row it ends with.
LEMMA FinishHandInv ==
  ASSUME RoundInv, NEW p \in Positions, NEW action, MayAct(p, action),
         NEW row \in HandRow, row.status = "active",
         FinishHand(p, row), turnVersion' \in Nat, bet' = bet
  PROVE  RoundInv'
<1> DEFINE rows == [hands[p] EXCEPT ![handIndex] = row]
           pos == NextPlayable(p)
           hs == [hands EXCEPT ![p] = rows]
<1>1. /\ status = "in_progress"
      /\ position = p /\ handIndex \in HandIndices
      /\ p \in LoadedActive /\ results[p] = 0
      /\ hands[p][handIndex].status = "active"
      /\ TableOk(hands, results)
      /\ RowsOk(hands[p]) /\ hands[p][0].status # "absent"
  BY MayActFacts
<1>2. RowsOk(rows)
  BY <1>1, ReplaceRow
<1>3. /\ rows[handIndex] = row
      /\ rows[0].status # "absent"
      /\ rows[1].status # "absent" \/ rows[0].status = "active"
  <2>1. rows[handIndex] = row
    BY <1>1 DEF RowsOk
  <2>2. CASE handIndex = 0
    BY <2>1, <2>2
  <2>3. CASE handIndex # 0
    <3>1. rows[1].status # "absent"
      BY <1>1, <1>2, <2>1, <2>3, SplitHasSecondHand
    <3>2. rows[0] = hands[p][0]
      BY <1>1, <2>3 DEF RowsOk, HandIndices
    <3> QED BY <1>1, <2>1, <3>1, <3>2
  <2> QED BY <2>1, <2>2, <2>3
<1>4. FinishHand(p, row) <=>
        IF \E i \in HandIndices : i > handIndex /\ rows[i].status = "active"
        THEN LeaveHand(p, rows, handIndex)
        ELSE PassTurn(hs, pos, FirstHand(pos), LoadedActive)
  BY DEF FinishHand, RowAfterTurn
<1>5. TableOk(hs, results)
  <2> HIDE DEF rows
  <2> QED BY <1>1, <1>2, <1>3, SeatReplaced
<1>6. hands \in [Positions -> [HandIndices -> HandRow]]
  BY <1>1 DEF TableOk
<1> HIDE DEF rows
<1>7. CASE \E i \in HandIndices : i > handIndex /\ rows[i].status = "active"
  <2>1. LeaveHand(p, rows, handIndex)
    BY <1>4, <1>7
  <2>2. PICK i \in HandIndices : i > handIndex /\ rows[i].status = "active"
    BY <1>7
  <2>3. i # 0 /\ rows[i].status # "absent"
    BY <1>1, <2>2 DEF HandIndices
  <2>4. rows[1].status # "absent"
    BY <1>2, <2>3, SplitHasSecondHand
  <2> QED BY <1>1, <1>2, <1>3, <2>1, <2>4, LeaveHandInv
<1>8. CASE ~ \E i \in HandIndices : i > handIndex /\ rows[i].status = "active"
  <2>1. PassTurn(hs, pos, FirstHand(pos), LoadedActive)
    BY <1>4, <1>8
  <2>2. pos \in Positions \cup {NoPosition}
    BY NextSeat
  <2>3. \A q \in LoadedActive : results[q] = 0
    BY <1>1, LoadedFacts DEF LoadedActive
  <2>4. \A q \in Positions \ LoadedActive : results[q] = 1 \/ hs[q][1].status # "absent"
    BY <1>1, <1>6, LoadedFacts
  <2>5. LoadedActive \in SUBSET Positions
    BY DEF LoadedActive
  <2> HIDE DEF hs, pos
  <2> QED BY <1>5, <2>1, <2>2, <2>3, <2>4, <2>5, PassTurnInv
<1> QED BY <1>7, <1>8

-----------------------------------------------------------------------------
(* One lemma per operation.                                                *)

\* The lobby satisfies the invariant.
LEMMA InitInv == Init => RoundInv
<1> SUFFICES ASSUME Init PROVE RoundInv
  OBVIOUS
<1>1. NoCards \in CardHand /\ NoRow \in HandRow
  BY DEF NoCards, NoRow, CardHand, HandRow, NoRank
<1>2. TypeOK
  BY <1>1, BanksAssumption, BetsAssumption
     DEF Init, TypeOK, SessionStatus, SeatStatus, NoPosition, NoHand
<1>3. HandRowsContiguous
  BY DEF Init, HandRowsContiguous, NoRow, HandIndices
<1> QED BY <1>2, <1>3 DEF Init, RoundInv

\* The opening deal.
LEMMA StartRoundInv ==
  ASSUME RoundInv, StartRound
  PROVE  RoundInv'
<1>1. PICK deal \in [Positions -> Ranks \X Ranks], dealerDeal \in Ranks \X Ranks :
        LET hs == [p \in Positions |-> DealtRows(deal[p], bet[p])]
            dealt == [up |-> dealerDeal[1], cards |-> OpeningHand(dealerDeal[1], dealerDeal[2])]
            st == [p \in Positions |-> "active"]
            first == Least({p \in Positions : CanAct(hs[p][0].cards)}, NoPosition)
        IN IF first = NoPosition
           THEN CloseRound(hs, Positions, dealt, bank, st, results)
           ELSE /\ status' = "in_progress"
                /\ position' = first
                /\ handIndex' = 0
                /\ timer' = TRUE
                /\ dealer' = dealt
                /\ hands' = hs
                /\ seatStatus' = st
                /\ UNCHANGED <<bank, insurance, results>>
  BY DEF StartRound
<1> DEFINE hs == [p \in Positions |-> DealtRows(deal[p], bet[p])]
           dealt == [up |-> dealerDeal[1], cards |-> OpeningHand(dealerDeal[1], dealerDeal[2])]
           st == [p \in Positions |-> "active"]
           able == {p \in Positions : CanAct(hs[p][0].cards)}
           first == Least(able, NoPosition)
<1>2. TypeOK /\ \A p \in Positions : results[p] = 0
  BY DEF RoundInv, StartRound
<1>3. ASSUME NEW p \in Positions
      PROVE  RowsOk(hs[p]) /\ hs[p][0].status = "active"
  <2>1. bet[p] \in Nat /\ deal[p][1] \in AllRanks /\ deal[p][2] \in AllRanks
    BY <1>2, RanksAssumption DEF TypeOK
  <2>2. OpeningHand(deal[p][1], deal[p][2]) \in CardHand
    BY <2>1, OpeningHandType
  <2>3. NoRow \in HandRow /\ NoRow.status = "absent"
    BY DEF NoRow, NoCards, CardHand, HandRow, NoRank
  <2>4. hs[p] = [i \in HandIndices |->
                  IF i = 0 THEN [status |-> "active",
                                 cards |-> OpeningHand(deal[p][1], deal[p][2]),
                                 bet |-> bet[p]]
                  ELSE NoRow]
    BY DEF DealtRows
  <2>5. [status |-> "active", cards |-> OpeningHand(deal[p][1], deal[p][2]), bet |-> bet[p]] \in HandRow
    BY <2>1, <2>2 DEF HandRow
  <2> HIDE DEF hs
  <2>6. hs[p] \in [HandIndices -> HandRow]
    BY <2>3, <2>4, <2>5
  <2>7. hs[p][0].status = "active" /\ \A i \in 1..3 : hs[p][i].status = "absent"
    BY <2>3, <2>4 DEF HandIndices
  <2> QED BY <2>6, <2>7 DEF RowsOk
<1>4. hs \in [Positions -> [HandIndices -> HandRow]]
  <2>1. \A p \in Positions : hs[p] \in [HandIndices -> HandRow]
    BY <1>3 DEF RowsOk
  <2> QED BY <2>1
<1>5. dealt \in [up : AllRanks \cup {NoRank}, cards : CardHand]
  <2>1. dealerDeal[1] \in AllRanks /\ dealerDeal[2] \in AllRanks
    BY RanksAssumption
  <2> QED BY <2>1, OpeningHandType
<1>6. st \in [Positions -> SeatStatus]
  BY DEF SeatStatus
<1>7. able # {} => first \in able
  <2>1. able \in SUBSET Nat
    BY SeatCountAssumption DEF Positions
  <2> HIDE DEF able
  <2> QED BY <2>1, LeastMember
<1>8. able = {} => first = NoPosition
  <2>1. able \in SUBSET Nat
    BY SeatCountAssumption DEF Positions
  <2> HIDE DEF able
  <2> QED BY <2>1, LeastMember
<1>9. bet' = bet /\ turnVersion' \in Nat
  BY <1>2, BumpType DEF StartRound
<1>10. CASE first = NoPosition
  <2>1. CloseRound(hs, Positions, dealt, bank, st, results)
    BY <1>1, <1>10
  <2>2. bank \in [Positions -> Int] /\ results \in [Positions -> Nat]
    BY <1>2 DEF TypeOK
  <2>3. \A p \in Positions : RowsOk(hs[p])
    BY <1>3
  <2> HIDE DEF hs, dealt, st
  <2> QED BY <1>2, <1>4, <1>5, <1>6, <1>9, <2>1, <2>2, <2>3, CloseRoundInv
<1>11. CASE first # NoPosition
  <2>1. /\ status' = "in_progress"
        /\ position' = first
        /\ handIndex' = 0
        /\ timer' = TRUE
        /\ dealer' = dealt
        /\ hands' = hs
        /\ seatStatus' = st
        /\ UNCHANGED <<bank, insurance, results>>
    BY <1>1, <1>11
  <2>2. first \in Positions
    BY <1>7, <1>8, <1>11
  <2> HIDE DEF hs, dealt, st, first
  <2>3. TableOk(hs, results)
    BY <1>2, <1>3, <1>4 DEF TableOk, SeatInPlay, TypeOK
  <2>4. hs[first][0].status # "absent" /\ results[first] = 0
    BY <1>2, <1>3, <2>2
  <2>5. insurance \in [Positions -> Nat] /\ bank \in [Positions -> Nat] /\ bet \in [Positions -> Nat]
    BY <1>2 DEF TypeOK
  <2>6. 0 \in HandIndices
    BY DEF HandIndices
  <2>7. TableOk(hands', results') /\ hands'[position'][handIndex'].status # "absent"
    BY <2>1, <2>3, <2>4
  <2>8. results'[position'] = 0
    BY <2>1, <2>4
  <2> QED BY <1>5, <1>6, <1>9, <2>1, <2>2, <2>5, <2>6, <2>7, <2>8, InProgressInv
<1> QED BY <1>10, <1>11

\* A hit keeps the turn or ends the hand.
LEMMA HitInv ==
  ASSUME RoundInv, NEW p \in Positions, Hit(p)
  PROVE  RoundInv'
<1>1. PICK r \in Ranks :
        LET row == [CurrentRow(p) EXCEPT !.cards = Draw(@, r)]
        IN IF Score(row.cards) < 21
           THEN KeepPlaying([hands EXCEPT ![p][handIndex] = row], p, handIndex)
           ELSE FinishHand(p, row)
  BY DEF Hit
<1> DEFINE row == [CurrentRow(p) EXCEPT !.cards = Draw(CurrentRow(p).cards, r)]
           rows == [hands[p] EXCEPT ![handIndex] = row]
           hs == [hands EXCEPT ![p] = rows]
<1>2. MayAct(p, "hit") /\ bet' = bet /\ turnVersion' \in Nat
  BY BumpType DEF Hit, RoundInv
<1>3. /\ status = "in_progress"
      /\ position = p /\ handIndex \in HandIndices
      /\ results[p] = 0
      /\ CurrentRow(p) = hands[p][handIndex]
      /\ CurrentRow(p) \in HandRow
      /\ CurrentRow(p).status = "active"
      /\ TableOk(hands, results)
      /\ RowsOk(hands[p]) /\ hands[p][0].status # "absent"
  BY <1>2, MayActFacts
<1>4. row \in HandRow /\ row.status = "active"
  <2>1. CurrentRow(p).cards \in CardHand /\ r \in AllRanks
    BY <1>3, RanksAssumption DEF HandRow
  <2>2. Draw(CurrentRow(p).cards, r) \in CardHand
    BY <2>1, HandTypes
  <2> QED BY <1>3, <2>2 DEF HandRow
<1> HIDE DEF row
<1>5. CASE Score(row.cards) < 21
  <2>1. hands \in [Positions -> [HandIndices -> HandRow]]
    BY <1>3 DEF TableOk
  <2>2. KeepPlaying(hs, p, handIndex)
    <3>1. hs = [hands EXCEPT ![p][handIndex] = row]
      BY <2>1
    <3> QED BY <1>1, <1>5, <3>1 DEF row
  <2>3. RowsOk(rows) /\ rows[handIndex].status = "active"
    BY <1>3, <1>4, ReplaceRow DEF RowsOk
  <2>4. rows[0].status # "absent" /\ (rows[1].status # "absent" \/ rows[0].status = "active")
    <3>1. CASE handIndex = 0
      BY <2>3, <3>1
    <3>2. CASE handIndex # 0
      <4>1. rows[1].status # "absent"
        BY <1>3, <2>3, <3>2, SplitHasSecondHand
      <4>2. rows[0].status # "absent"
        BY <2>3, <4>1 DEF RowsOk
      <4> QED BY <4>1, <4>2
    <3> QED BY <3>1, <3>2
  <2> HIDE DEF rows
  <2>5. TableOk(hs, results)
    BY <1>3, <2>3, <2>4, SeatReplaced
  <2>6. hs[p][handIndex].status # "absent"
    BY <2>1, <2>3
  <2> HIDE DEF hs
  <2> QED BY <1>2, <1>3, <2>2, <2>5, <2>6, KeepPlayingInv
<1>6. CASE ~ (Score(row.cards) < 21)
  <2>1. FinishHand(p, row)
    BY <1>1, <1>6 DEF row
  <2> QED BY <1>2, <1>4, <2>1, FinishHandInv
<1> QED BY <1>5, <1>6

\* A stand ends the hand as it is.
LEMMA StandInv ==
  ASSUME RoundInv, NEW p \in Positions, Stand(p)
  PROVE  RoundInv'
<1>1. MayAct(p, "stand") /\ FinishHand(p, CurrentRow(p)) /\ bet' = bet /\ turnVersion' \in Nat
  BY BumpType DEF Stand, RoundInv
<1>2. CurrentRow(p) \in HandRow /\ CurrentRow(p).status = "active"
  BY <1>1, MayActFacts
<1> QED BY <1>1, <1>2, FinishHandInv

\* A double ends the hand with one more card and twice the bet.
LEMMA DoubleInv ==
  ASSUME RoundInv, NEW p \in Positions, Double(p)
  PROVE  RoundInv'
<1>1. MayAct(p, "double") /\ bet' = bet /\ turnVersion' \in Nat
  BY BumpType DEF Double, RoundInv
<1>2. PICK r \in Ranks :
        FinishHand(p, [CurrentRow(p) EXCEPT !.cards = Draw(@, r), !.bet = 2 * @])
  BY DEF Double
<1>3. CurrentRow(p) \in HandRow /\ CurrentRow(p).status = "active"
  BY <1>1, MayActFacts
<1> DEFINE row == [CurrentRow(p) EXCEPT !.cards = Draw(CurrentRow(p).cards, r),
                                        !.bet = 2 * CurrentRow(p).bet]
<1>4. row \in HandRow /\ row.status = "active"
  <2>1. CurrentRow(p).cards \in CardHand /\ r \in AllRanks /\ CurrentRow(p).bet \in Nat
    BY <1>3, RanksAssumption DEF HandRow
  <2>2. Draw(CurrentRow(p).cards, r) \in CardHand
    BY <2>1, HandTypes
  <2>3. 2 * CurrentRow(p).bet \in Nat
    BY <2>1
  <2> QED BY <1>3, <2>2, <2>3 DEF HandRow
<1>5. FinishHand(p, row)
  BY <1>2
<1> HIDE DEF row
<1> QED BY <1>1, <1>4, <1>5, FinishHandInv

\* A split adds a hand right after the split one.
LEMMA SplitInv ==
  ASSUME RoundInv, NEW p \in Positions, Split(p)
  PROVE  RoundInv'
<1>1. /\ MayAct(p, "split") /\ IsPair(CurrentRow(p).cards)
      /\ HandCount(p) < 4
      /\ bet' = bet /\ turnVersion' \in Nat
  BY BumpType DEF Split, RoundInv
<1> DEFINE row == CurrentRow(p)
           seed == SeedHand(row.cards.rank)
           first(r) == [row EXCEPT !.cards = Draw(seed, r)]
           second == [row EXCEPT !.cards = seed]
           rows0(r) == [hands[p] EXCEPT ![handIndex] = first(r)]
           rows(r) == InsertHand(rows0(r), handIndex, second)
<1>2. PICK r \in Ranks :
        IF CanAct(first(r).cards)
        THEN KeepPlaying([hands EXCEPT ![p] = rows(r)], p, handIndex)
        ELSE LeaveHand(p, rows(r), handIndex)
  BY DEF Split
<1>3. /\ status = "in_progress"
      /\ position = p /\ handIndex \in HandIndices
      /\ results[p] = 0
      /\ row = hands[p][handIndex]
      /\ row \in HandRow
      /\ row.status = "active"
      /\ TableOk(hands, results)
      /\ RowsOk(hands[p]) /\ hands[p][0].status # "absent"
  BY <1>1, MayActFacts
<1>4. seed \in CardHand /\ Draw(seed, r) \in CardHand
  <2>1. row.cards \in CardHand /\ r \in AllRanks
    BY <1>3, RanksAssumption DEF HandRow
  <2>2. row.cards.rank \in AllRanks
    BY <1>1, <2>1 DEF IsPair, CardHand
  <2> QED BY <2>1, <2>2, HandTypes
<1>5. /\ first(r) \in HandRow /\ first(r).status = "active"
      /\ second \in HandRow /\ second.status = "active"
  <2> HIDE DEF seed, row
  <2> QED BY <1>3, <1>4 DEF HandRow
<1> HIDE DEF seed, first, second
<1>6. RowsOk(rows0(r)) /\ rows0(r)[handIndex] = first(r)
  BY <1>3, <1>5, ReplaceRow DEF RowsOk
<1> HIDE DEF rows0
<1>7. /\ RowsOk(rows(r))
      /\ rows(r)[handIndex] = first(r)
      /\ rows(r)[0].status # "absent"
      /\ handIndex < 3 => rows(r)[handIndex + 1] = second
  BY <1>3, <1>5, <1>6, InsertHandOk
<1> HIDE DEF rows
<1>8. rows(r)[1].status # "absent"
  <2>1. CASE handIndex = 0
    BY <1>5, <1>7, <2>1
  <2>2. CASE handIndex # 0
    BY <1>3, <1>5, <1>7, <2>2, SplitHasSecondHand
  <2> QED BY <2>1, <2>2
<1>9. CASE CanAct(first(r).cards)
  <2>1. KeepPlaying([hands EXCEPT ![p] = rows(r)], p, handIndex)
    BY <1>2, <1>9
  <2>2. TableOk([hands EXCEPT ![p] = rows(r)], results)
    BY <1>3, <1>7, <1>8, SeatReplaced
  <2>3. [hands EXCEPT ![p] = rows(r)][p][handIndex].status # "absent"
    BY <1>3, <1>5, <1>7 DEF TableOk
  <2> QED BY <1>1, <1>3, <2>1, <2>2, <2>3, KeepPlayingInv
<1>10. CASE ~ CanAct(first(r).cards)
  <2>1. LeaveHand(p, rows(r), handIndex)
    BY <1>2, <1>10
  <2>2. rows(r)[handIndex].status # "absent"
    BY <1>5, <1>7
  <2> QED BY <1>1, <1>3, <1>7, <1>8, <2>1, <2>2, LeaveHandInv
<1> QED BY <1>9, <1>10

\* Buying insurance moves money from the bank to the stake, nothing else.
LEMMA InsuranceInv ==
  ASSUME RoundInv, NEW p \in Positions, Insurance(p)
  PROVE  RoundInv'
<1> DEFINE stake == CurrentRow(p).bet \div 2
<1>1. MayAct(p, "insurance") /\ turnVersion' \in Nat
  BY BumpType DEF Insurance, RoundInv
<1>2. /\ bank[p] >= CurrentRow(p).bet + stake
      /\ bank' = [bank EXCEPT ![p] = bank[p] - stake]
      /\ insurance' = [insurance EXCEPT ![p] = stake]
      /\ UNCHANGED <<status, position, handIndex, timer, dealer, hands, seatStatus, bet, results>>
  BY DEF Insurance
<1>3. CurrentRow(p).bet \in Nat /\ bank[p] \in Nat
  BY <1>1, MayActFacts DEF HandRow, RoundInv, TypeOK
<1>4. stake \in Nat
  BY <1>3
<1> HIDE DEF stake
<1>5. bank[p] - stake \in Nat
  BY <1>2, <1>3, <1>4
<1>6. bank' \in [Positions -> Nat] /\ insurance' \in [Positions -> Nat]
  BY <1>2, <1>4, <1>5 DEF RoundInv, TypeOK
<1>7. status = "in_progress" /\ TableOk(hands, results)
      /\ position \in Positions /\ handIndex \in HandIndices
      /\ hands[position][handIndex].status # "absent"
      /\ (results[position] # 0 => handIndex = 0)
  BY <1>1, TableInPlay DEF MayAct
<1> QED BY <1>1, <1>2, <1>6, <1>7, InProgressInv DEF RoundInv, TypeOK

\* A timeout passes the turn on and leaves the hands alone.
LEMMA TimeoutInv ==
  ASSUME RoundInv, NEW p \in Positions, Timeout(p)
  PROVE  RoundInv'
<1> DEFINE pos == NextPlayable(p)
<1>1. /\ status = "in_progress"
      /\ PassTurn(hands, pos, FirstHand(pos), LoadedActive)
      /\ bet' = bet /\ turnVersion' \in Nat
  BY BumpType DEF Timeout, RoundInv
<1>2. TableOk(hands, results)
  BY <1>1, TableInPlay
<1>3. pos \in Positions \cup {NoPosition}
  BY NextSeat
<1>4. /\ LoadedActive \in SUBSET Positions
      /\ \A q \in LoadedActive : results[q] = 0
      /\ \A q \in Positions \ LoadedActive : results[q] = 1 \/ hands[q][1].status # "absent"
  BY <1>1, LoadedFacts DEF LoadedActive
<1> HIDE DEF pos
<1> QED BY <1>1, <1>2, <1>3, <1>4, PassTurnInv

(***************************************************************************)
(* A stop pays the leaver and closes its hand 0, so that no later          *)
(* transaction loads the seat as active again.                             *)
(***************************************************************************)
LEMMA PlayerStopInv ==
  ASSUME RoundInv, NEW p \in Positions, PlayerStop(p)
  PROVE  RoundInv'
<1> DEFINE delta == RowDelta(LoadedHand(p), dealer.cards) + InsuranceDelta(insurance[p], dealer.cards)
           bk == [bank EXCEPT ![p] = bank[p] + delta]
           hs == [hands EXCEPT ![p][0] = FinishedRow(hands[p][0])]
           st == [seatStatus EXCEPT ![p] = "inactive"]
           rs == [results EXCEPT ![p] = results[p] + 1]
           pos == IF position = p THEN NextPlayable(p) ELSE position
           remaining == LoadedActive \ {p}
<1>1. /\ status = "in_progress"
      /\ p \in LoadedActive
      /\ BankAllows(bk[p])
      /\ bet' = bet
      /\ IF remaining # {} /\ pos = NoPosition
         THEN /\ CloseRound(hs, remaining, dealer, bk, st, rs)
              /\ Bump(2)
         ELSE /\ status' = IF remaining = {} THEN "closed" ELSE "in_progress"
              /\ position' = IF remaining = {} THEN NoPosition ELSE pos
              /\ handIndex' = IF remaining = {} THEN NoHand ELSE 0
              /\ timer' = (remaining # {})
              /\ hands' = hs
              /\ bank' = bk
              /\ seatStatus' = st
              /\ results' = rs
              /\ Bump(1)
              /\ UNCHANGED <<dealer, insurance>>
  BY DEF PlayerStop
<1>2. turnVersion' \in Nat
  BY <1>1, BumpType DEF RoundInv
<1>3. /\ TableOk(hands, results)
      /\ position \in Positions
  BY <1>1, TableInPlay
<1>4. TypeOK
  BY DEF RoundInv
<1>5. bk \in [Positions -> Int] /\ bk \in [Positions -> Nat]
  <2>1. RowDelta(LoadedHand(p), dealer.cards) \in Int
    BY <1>1, <1>4, LoadedFacts, RowDeltaType DEF TypeOK
  <2>2. InsuranceDelta(insurance[p], dealer.cards) \in Int
    BY <1>4 DEF TypeOK, InsuranceDelta
  <2>3. delta \in Int
    BY <2>1, <2>2
  <2> HIDE DEF delta
  <2>4. bk[p] = bank[p] + delta /\ bank[p] \in Nat
    BY <1>4 DEF TypeOK
  <2>5. bank[p] + delta \in Nat
    BY <1>1, <2>3, <2>4 DEF BankAllows
  <2> QED BY <1>4, <2>5 DEF TypeOK
<1> HIDE DEF bk
<1>6. st \in [Positions -> SeatStatus]
  BY <1>4 DEF TypeOK, SeatStatus
<1>7. results[p] = 0 /\ rs \in [Positions -> Nat] /\ rs[p] = 1
      /\ \A q \in Positions \ {p} : rs[q] = results[q]
  BY <1>1, <1>4, LoadedFacts DEF TypeOK
<1> DEFINE left == [hands[p] EXCEPT ![0] = FinishedRow(hands[p][0])]
<1>8. hs = [hands EXCEPT ![p] = left]
  BY <1>3 DEF TableOk
<1>9. RowsOk(left) /\ left[0].status = "inactive"
  <2>1. RowsOk(hands[p]) /\ hands[p][0].status # "absent" /\ 0 \in HandIndices
    BY <1>3 DEF TableOk, SeatInPlay, HandIndices
  <2>2. hands[p][0] \in HandRow
    BY <2>1 DEF RowsOk
  <2>3. FinishedRow(hands[p][0]) \in HandRow /\ FinishedRow(hands[p][0]).status = "inactive"
    BY <2>2, FinishedRowType
  <2>4. RowsOk(left)
    BY <2>1, <2>3, ReplaceRow
  <2> QED BY <2>1, <2>3, <2>4 DEF RowsOk
<1> HIDE DEF left, rs, st
<1>10. TableOk(hs, rs)
  <2>1. hs \in [Positions -> [HandIndices -> HandRow]]
    BY <1>3, <1>8, <1>9 DEF TableOk, RowsOk
  <2>2. ASSUME NEW q \in Positions PROVE RowsOk(hs[q]) /\ SeatInPlay(hs, rs, q)
    <3>1. CASE q = p
      BY <1>3, <1>7, <1>8, <1>9, <3>1 DEF TableOk, SeatInPlay
    <3>2. CASE q # p
      BY <1>3, <1>7, <1>8, <3>2 DEF TableOk, SeatInPlay
    <3> QED BY <3>1, <3>2
  <2> QED BY <1>7, <2>1, <2>2 DEF TableOk
<1>11. /\ remaining \in SUBSET Positions
       /\ \A q \in remaining : rs[q] = 0
       /\ \A q \in Positions \ remaining : SeatPaid(hs, rs, q)
  <2>1. remaining \in SUBSET Positions
    BY DEF LoadedActive
  <2>2. \A q \in remaining : rs[q] = 0
    BY <1>1, <1>7, LoadedFacts DEF LoadedActive
  <2>3. ASSUME NEW q \in Positions \ remaining PROVE SeatPaid(hs, rs, q)
    <3>1. CASE q = p
      BY <1>7, <3>1 DEF SeatPaid
    <3>2. CASE q # p
      <4>1. results[q] = 1 \/ hands[q][1].status # "absent"
        BY <1>1, <3>2, LoadedFacts
      <4>2. hs[q] = hands[q] /\ rs[q] = results[q]
        BY <1>3, <1>7, <1>8, <3>2 DEF TableOk
      <4>3. rs[q] = 0 \/ rs[q] = 1
        BY <1>10 DEF TableOk, SeatInPlay
      <4> QED BY <4>1, <4>2, <4>3 DEF SeatPaid
    <3> QED BY <3>1, <3>2
  <2> QED BY <2>1, <2>2, <2>3
<1>12. /\ dealer \in [up : AllRanks \cup {NoRank}, cards : CardHand]
       /\ insurance \in [Positions -> Nat] /\ bet \in [Positions -> Nat]
  BY <1>4 DEF TypeOK
<1>13. /\ hs \in [Positions -> [HandIndices -> HandRow]]
       /\ \A q \in Positions : RowsOk(hs[q])
  BY <1>10 DEF TableOk
<1>14. pos \in Positions \cup {NoPosition}
  BY <1>3, NextSeat
<1> HIDE DEF hs, pos, remaining
<1>15. CASE remaining # {} /\ pos = NoPosition
  <2>1. CloseRound(hs, remaining, dealer, bk, st, rs)
    BY <1>1, <1>15 DEF hs, pos, remaining, bk, st, rs
  <2> QED BY <1>1, <1>2, <1>5, <1>6, <1>7, <1>11, <1>12, <1>13, <2>1, CloseRoundInv
<1>16. CASE ~ (remaining # {} /\ pos = NoPosition)
  <2>1. /\ status' = IF remaining = {} THEN "closed" ELSE "in_progress"
        /\ position' = IF remaining = {} THEN NoPosition ELSE pos
        /\ handIndex' = IF remaining = {} THEN NoHand ELSE 0
        /\ timer' = (remaining # {})
        /\ hands' = hs
        /\ bank' = bk
        /\ seatStatus' = st
        /\ results' = rs
        /\ UNCHANGED <<dealer, insurance>>
    BY <1>1, <1>16 DEF hs, pos, remaining, bk, st, rs
  <2>2. CASE remaining = {}
    <3>1. TypeOK'
      BY <1>1, <1>2, <1>5, <1>6, <1>7, <1>12, <1>13, <2>1, <2>2 DEF TypeOK, SessionStatus
    <3>2. HandRowsContiguous'
      BY <1>13, <2>1 DEF HandRowsContiguous, RowsOk
    <3>3. \A q \in Positions : SeatPaid(hands, results, q)'
      BY <1>11, <2>1, <2>2 DEF SeatPaid
    <3> QED BY <2>1, <2>2, <3>1, <3>2, <3>3 DEF RoundInv
  <2>3. CASE remaining # {}
    <3>1. /\ status' = "in_progress" /\ position' = pos /\ pos \in Positions
          /\ handIndex' = 0 /\ timer' = TRUE
      BY <1>14, <1>16, <2>1, <2>3
    <3>2. hs[pos][0].status # "absent"
      BY <1>10, <3>1 DEF TableOk, SeatInPlay
    <3>3. 0 \in HandIndices
      BY DEF HandIndices
    <3>4. TableOk(hands', results') /\ hands'[position'][handIndex'].status # "absent"
      BY <1>10, <2>1, <3>1, <3>2
    <3>5. bank' \in [Positions -> Nat] /\ seatStatus' \in [Positions -> SeatStatus]
      BY <1>5, <1>6, <2>1
    <3> QED BY <1>1, <1>2, <1>12, <2>1, <3>1, <3>3, <3>4, <3>5, InProgressInv
  <2> QED BY <2>2, <2>3
<1> QED BY <1>15, <1>16

-----------------------------------------------------------------------------
(* The theorems.                                                           *)

\* RoundInv does not depend on more than the variables.
LEMMA StutterInv ==
  ASSUME RoundInv, UNCHANGED vars
  PROVE  RoundInv'
  BY DEF RoundInv, TypeOK, HandRowsContiguous, SeatInPlay, SeatPaid, vars, session

\* Every operation keeps the invariant.
LEMMA StepInv ==
  ASSUME RoundInv, Next
  PROVE  RoundInv'
<1>1. CASE StartRound
  BY <1>1, StartRoundInv
<1>2. ASSUME NEW p \in Positions, PlayerMove(p)
      PROVE  RoundInv'
  BY <1>2, HitInv, StandInv, DoubleInv, SplitInv, InsuranceInv DEF PlayerMove
<1>3. ASSUME NEW p \in Positions, Timeout(p)
      PROVE  RoundInv'
  BY <1>3, TimeoutInv
<1>4. ASSUME NEW p \in Positions, PlayerStop(p)
      PROVE  RoundInv'
  BY <1>4, PlayerStopInv
<1> QED BY <1>1, <1>2, <1>3, <1>4 DEF Next

(***************************************************************************)
(* For every table, deck, bank and bet: RoundInv holds in every state the  *)
(* service can commit.                                                     *)
(***************************************************************************)
THEOREM RoundIsSound == Spec => []RoundInv
<1>1. Init => RoundInv
  BY InitInv
<1>2. RoundInv /\ [Next]_vars => RoundInv'
  BY StepInv, StutterInv
<1> QED BY <1>1, <1>2, PTL DEF Spec

(***************************************************************************)
(* A bank never goes below zero, a hand index never leaves its range and   *)
(* every column keeps its type, whatever the players do.                   *)
(***************************************************************************)
THEOREM TypeCorrect == Spec => []TypeOK
<1>1. RoundInv => TypeOK
  BY DEF RoundInv
<1> QED BY <1>1, RoundIsSound, PTL

\* Splits and re-splits never leave a gap between the hands of a seat.
THEOREM HandsContiguous == Spec => []HandRowsContiguous
<1>1. RoundInv => HandRowsContiguous
  BY DEF RoundInv
<1> QED BY <1>1, RoundIsSound, PTL

(***************************************************************************)
(* A seat is never paid twice, and one that did not split is paid before   *)
(* its round is closed.                                                    *)
(***************************************************************************)
THEOREM PaidOnce == Spec => []UnsplitSeatPaidOnce
<1>1. RoundInv => UnsplitSeatPaidOnce
  <2> SUFFICES ASSUME RoundInv, NEW p \in Positions
               PROVE  /\ results[p] <= 1
                      /\ status = "closed" /\ Unsplit(p) => results[p] = 1
    BY DEF UnsplitSeatPaidOnce
  <2>1. status \in {"lobby_open", "in_progress", "closed"}
    BY DEF RoundInv, TypeOK, SessionStatus
  <2>2. CASE status = "lobby_open"
    BY <2>2 DEF RoundInv
  <2>3. CASE status = "in_progress"
    BY <2>3 DEF RoundInv, SeatInPlay
  <2>4. CASE status = "closed"
    BY <2>4 DEF RoundInv, SeatPaid, Unsplit
  <2> QED BY <2>1, <2>2, <2>3, <2>4
<1> QED BY <1>1, RoundIsSound, PTL

=============================================================================
