------------------------------ MODULE RoundTurn ------------------------------
(***************************************************************************)
(* A round of module BlackjackRound is a round of module TableTurn: its    *)
(* lobby is no round yet, the seat on turn holds the turn, and is away     *)
(* when the hand that is loaded for it is over.                            *)
(***************************************************************************)
EXTENDS BlackjackRound

Turn == INSTANCE TableTurn WITH
          Holders  <- Positions,
          NoHolder <- NoPosition,
          round    <- IF status = "lobby_open" THEN 0 ELSE 1,
          open     <- status = "in_progress",
          version  <- turnVersion,
          holder   <- position,
          away     <- status = "in_progress" /\ position \notin LoadedActive

(***************************************************************************)
(* Every committed transaction of the game, one after another, is a step   *)
(* of the abstract turn: no move, timeout, stop or settlement reopens a    *)
(* round, leaves it without a holder, or reuses a turn_version, and a      *)
(* start gives the turn to a seat that can use it.  Two requests that      *)
(* overlap can reuse one: StaleRequestRefused in SessionRequests.          *)
(***************************************************************************)
TurnProtocol == Turn!TurnSpec
=============================================================================
