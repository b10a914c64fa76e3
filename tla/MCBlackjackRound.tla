--------------------------- MODULE MCBlackjackRound ---------------------------
(***************************************************************************)
(* BlackjackRound for TLC.  The runs give the constants their values in    *)
(* their .cfg; this module checks, before each of them, that the digest    *)
(* BlackjackCards keeps of a hand decides everything the service reads off *)
(* the full list of cards.                                                 *)
(***************************************************************************)
EXTENDS RoundTurn, SequencesExt

MaxCards == 5
SampleRanks == {1, 2, 6, 10, 11, 12}
CardLists == UNION {[1..n -> SampleRanks] : n \in 1..MaxCards}

Digest(cards) == FoldSeq(LAMBDA r, h : Draw(h, r), SeedHand(Head(cards)), Tail(cards))

\* compute_score: every ace is one, then as many as fit become eleven.
RECURSIVE RaiseAces(_, _)
RaiseAces(total, aces) ==
  IF aces = 0 THEN total
  ELSE RaiseAces(IF total + 10 <= 21 THEN total + 10 ELSE total, aces - 1)

ComputeScore(cards) ==
  RaiseAces(FoldSeq(LAMBDA r, sum : sum + Points(r), 0, cards),
            Cardinality({i \in DOMAIN cards : cards[i] = 1}))

\* The score, the blackjack flag and the equal ranks a split asks for.
ASSUME DigestDecides ==
  \A cards \in CardLists :
    LET h == Digest(cards) IN
    /\ Score(h) = ComputeScore(cards)
    /\ IsBlackjack(h) <=> Len(cards) = 2 /\ ComputeScore(cards) = 21
    /\ IsPair(h) <=> Len(cards) = 2 /\ cards[1] = cards[2]
    /\ (h.n = 1) <=> (Len(cards) = 1)
=============================================================================
