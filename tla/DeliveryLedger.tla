---------------------------- MODULE DeliveryLedger ----------------------------
(***************************************************************************)
(* What a forwarder of updates promises to the source it takes them from:  *)
(* whatever it loses, it makes the source forget only updates that are in  *)
(* the topic or that it has taken itself since it was started.  A restart  *)
(* makes the source forget nothing that is not in the topic.               *)
(***************************************************************************)
CONSTANT Updates

VARIABLES
  waiting,  \* the updates the source still has
  taken,    \* the updates the forwarder has taken since its start
  topic     \* the updates it has forwarded

ledger == <<waiting, taken, topic>>

LedgerInit == waiting = Updates /\ taken = {} /\ topic = {}

\* The source forgets some updates and hands out others.
Fetch ==
  /\ waiting' \subseteq waiting
  /\ waiting \ waiting' \subseteq taken \cup topic
  /\ taken \subseteq taken'
  /\ taken' \ taken \subseteq waiting'
  /\ UNCHANGED topic

\* The forwarder may forget at once what it has forwarded.
Deliver ==
  /\ \E u \in taken :
       /\ topic' = topic \cup {u}
       /\ taken' \in {taken, taken \ {u}}
  /\ UNCHANGED waiting

\* An update that was handed out is dropped, or all of them with the process.
Discard ==
  /\ taken' \subseteq taken
  /\ UNCHANGED <<waiting, topic>>

LedgerNext == Fetch \/ Deliver \/ Discard

LedgerSpec == LedgerInit /\ [][LedgerNext]_ledger
=============================================================================
