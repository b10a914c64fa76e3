------------------------------ MODULE TableTurn ------------------------------
(***************************************************************************)
(* What the rest of the system relies on when it talks about a turn: the   *)
(* rounds of a table follow one another, a running round has one holder of *)
(* the turn, and every change of a running round leaves a newer            *)
(* turn_version.  The turn can stay with, or go to, a seat that has left   *)
(* or is settled.  Module RoundTurn shows that a round whose requests do   *)
(* not overlap is such a round; ChatTurns plays rounds like this one.      *)
(***************************************************************************)
EXTENDS Naturals

CONSTANTS
  Holders,   \* who may hold the turn: seats, or the players in them
  NoHolder

ASSUME NoHolderAssumption == NoHolder \notin Holders

VARIABLES
  round,    \* how many rounds were begun: the session id within a chat
  open,     \* whether the round is in progress
  version,  \* turn_version of the session
  holder,   \* the holder of the turn, NoHolder outside a round
  away      \* whether the holder's seat is inactive or settled

turn == <<round, open, version, holder, away>>

TurnInit ==
  round = 0 /\ open = FALSE /\ version = 0 /\ holder = NoHolder /\ away = FALSE

\* The turn goes to somebody, or the round is over.
HandOver ==
  \/ open' = TRUE /\ holder' \in Holders /\ away' \in BOOLEAN
  \/ open' = FALSE /\ holder' = NoHolder /\ away' = FALSE

\* Whoever is dealt cards plays.
Begin ==
  /\ ~open
  /\ round' = round + 1
  /\ version' = 1
  /\ HandOver
  /\ away' = FALSE

\* Only the last change of a round may count twice: a player who stops and so
\* sends the turn to the dealer.
Advance ==
  /\ open
  /\ UNCHANGED round
  /\ HandOver
  /\ version' = version + 1 \/ (~open' /\ version' = version + 2)

TurnNext == Begin \/ Advance

TurnSpec == TurnInit /\ [][TurnNext]_turn
=============================================================================
