----------------------------- MODULE PollerLedger -----------------------------
(***************************************************************************)
(* The poller of module PollerDelivery keeps the ledger of DeliveryLedger: *)
(* what it has taken is what its enqueue tasks have accepted since the     *)
(* start, and whatever else it holds.                                      *)
(***************************************************************************)
EXTENDS PollerDelivery

Ledger == INSTANCE DeliveryLedger WITH
            Updates <- Updates,
            waiting <- kept..UpdateCount,
            taken   <- accepted \cup {u \in Updates : InMemory(u)},
            topic   <- published

(***************************************************************************)
(* Over crashes and restarts, failing workers and offsets saved in any     *)
(* order, a getUpdates offset never makes Telegram forget an update that   *)
(* is neither published nor taken by the running process: only a process   *)
(* that ends with updates in its memory can lose them.                     *)
(***************************************************************************)
DeliveryKept == Ledger!LedgerSpec
=============================================================================
