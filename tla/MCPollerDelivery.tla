--------------------------- MODULE MCPollerDelivery ---------------------------
(***************************************************************************)
(* PollerDelivery for TLC: two chats, each on a worker of its own.  In the *)
(* busy schedule one chat fills every queue on the way to its worker.      *)
(***************************************************************************)
EXTENDS PollerLedger

MCSource == <<"a", "b", "b", "a">>
MCBusySource == <<"a", "a", "a", "a", "a">>
MCPartition == [a |-> 1, b |-> 2]
=============================================================================
