---------------------------- MODULE BlackjackCards ----------------------------
(***************************************************************************)
(* Cards, hands and payouts of the game service.                           *)
(*                                                                         *)
(* A card is its rank: 1 is the ace and 11, 12, 13 are J, Q, K.  The suit  *)
(* never matters to the code that decides a move or a payout.  A hand is   *)
(* the digest of its cards that this code tells apart:                     *)
(*                                                                         *)
(*   sum  - the points of the cards with every ace counted as one          *)
(*   ace  - whether the hand holds an ace                                  *)
(*   n    - the number of cards, three standing for "three or more"        *)
(*   rank - the rank shared by all the cards of a hand of one or two       *)
(*          cards, NoRank when they differ or there are more               *)
(***************************************************************************)
EXTENDS Integers

AllRanks == 1..13
NoRank == 0

CardHand == [sum : Nat, ace : BOOLEAN, n : 1..3, rank : AllRanks \cup {NoRank}]

Points(r) == IF r > 10 THEN 10 ELSE r

SeedHand(r) == [sum |-> Points(r), ace |-> r = 1, n |-> 1, rank |-> r]

Draw(h, r) == [sum  |-> h.sum + Points(r),
               ace  |-> h.ace \/ r = 1,
               n    |-> IF h.n = 1 THEN 2 ELSE 3,
               rank |-> IF h.n = 1 /\ h.rank = r THEN r ELSE NoRank]

OpeningHand(first, second) == Draw(SeedHand(first), second)

\* At most one ace of a hand can count for eleven, whatever their number.
Score(h) == IF h.ace /\ h.sum + 10 <= 21 THEN h.sum + 10 ELSE h.sum

IsBlackjack(h) == h.n = 2 /\ Score(h) = 21

CanAct(h) == ~ IsBlackjack(h) /\ Score(h) < 21

IsPair(h) == h.n = 2 /\ h.rank # NoRank

(***************************************************************************)
(* The dealer draws until 17.  From every hand below 17 a full deck can    *)
(* reach each total from 17 to 26, so a run may restrict the totals it     *)
(* explores but never the rule.                                            *)
(***************************************************************************)
DealerStandScore == 17

DealerFinals(d, totals) ==
  IF Score(d) >= DealerStandScore
  THEN {d}
  ELSE {[sum |-> t, ace |-> FALSE, n |-> 3, rank |-> NoRank] : t \in totals}

\* What one hand wins or loses against the dealer's hand d.
HandDelta(h, bet, d) ==
  IF IsBlackjack(h) /\ ~ IsBlackjack(d) THEN (bet * 3) \div 2
  ELSE IF Score(h) > 21                 THEN -bet
  ELSE IF Score(d) > 21                 THEN bet
  ELSE IF Score(h) > Score(d)           THEN bet
  ELSE IF Score(h) = Score(d)           THEN 0
  ELSE                                       -bet

\* The stake left the bank when the insurance was bought: stake and winnings.
InsuranceDelta(stake, d) == IF IsBlackjack(d) THEN 3 * stake ELSE 0
=============================================================================
