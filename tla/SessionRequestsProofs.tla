-------------------------- MODULE SessionRequestsProofs --------------------------
(***************************************************************************)
(* Proofs about SessionRequests for any number of players, chats, sessions *)
(* and concurrent requests, any banks and any settlements.                 *)
(*                                                                         *)
(* A commit of any request is shown to be a Commits step: a new row and a  *)
(* new table of one session, right for one another and allowed to follow   *)
(* the old ones.  The invariant and the action properties follow from that *)
(* alone.  What a request has read stays true enough until its commit      *)
(* (RequestOk), however many commits come between.                         *)
(*                                                                         *)
(* That the banks add up is shown at the end, from what a step may do to   *)
(* the money (MoneyStep) and from lemmas about sums over seats.            *)
(***************************************************************************)
EXTENDS SessionRequests, LeastElement, TLAPS, FiniteSetTheorems

Tables == [Seats -> Seat]

\* A seat of a table that was dealt d times.
SeatOk(seat, d) ==
  /\ seat.player = NoPlayer => seat.status = "joined"
  /\ seat.paid <= d
  /\ seat.status = "active" => seat.paid < d
  /\ seat.status \in {"inactive", "settled"} => seat.paid >= 1

\* A session: its row, its table and how often it was dealt.
SessionOk(row, table, d) ==
  /\ \A i \in Seats : SeatOk(table[i], d)
  /\ row.status = "absent" => \A i \in Seats : table[i].player = NoPlayer
  /\ row.status = "in_progress" =>
       row.position \in Seats /\ table[row.position].status # "joined"
  /\ row.status # "in_progress" => row.position = NoPosition
  /\ row.status = "closed" => \A i \in Seats : table[i].status # "active"

OnTableKinds == {"action", "timeout", "stop"}

\* What a request under way has read and may still rely on.
RequestOk(rws, sts, r) ==
  /\ r.kind \in OnTableKinds \cup {"join", "start"} =>
       r.session \in Sessions /\ rws[r.session].status # "absent"
  /\ r.kind \in OnTableKinds =>
       r.position \in Seats /\ sts[r.session][r.position].status # "joined"
  /\ r.kind \in {"action", "stop"} => \E i \in Seats : sts[r.session][i].player = r.player
  /\ r.kind \in {"open", "start_single", "join", "action", "stop", "topup"} => r.player \in Players
  /\ r.kind \in {"open", "start_single"} => r.chat \in Chats

SessionInv ==
  /\ TypeOK
  /\ OneUnfinishedPerChat
  /\ \A s \in Sessions : SessionOk(rows[s], seats[s], deals[s])
  /\ \A k \in Requests : RequestOk(rows, seats, requests[k])

\* A table that may follow another: who sits stays, who was dealt stays dealt.
Follows(old, new) ==
  \A i \in Seats : /\ old[i].player # NoPlayer => new[i].player = old[i].player
                   /\ old[i].status # "joined" => new[i].status # "joined"

\* One session is written.
Commits(s, row, table, d) ==
  /\ rows' = [rows EXCEPT ![s] = row]
  /\ seats' = [seats EXCEPT ![s] = table]
  /\ deals' = [deals EXCEPT ![s] = d]
  /\ row.status # "absent"
  /\ IndexAllows(s, row)
  /\ SessionOk(row, table, d)
  /\ Follows(seats[s], table)
  /\ rows[s].status = "closed" /\ row.status # "closed" => d > deals[s]

SafeStep ==
  \/ UNCHANGED <<rows, seats, deals>>
  \/ \E s \in Sessions, row \in Row, table \in Tables, d \in Nat : Commits(s, row, table, d)

RequestStep ==
  \/ UNCHANGED requests
  \/ \E k \in Requests, r \in Request :
       RequestOk(rows, seats, r) /\ requests' = [requests EXCEPT ![k] = r]

MoneyOk ==
  /\ bank \in [Players -> Nat]
  /\ credited \in [Sessions -> [Seats -> Int]]
  /\ toppedUp \subseteq Players

StepOk == SafeStep /\ RequestStep /\ MoneyOk' /\ banned' \subseteq Players

-----------------------------------------------------------------------------
(* Least and greatest seats.                                               *)

LEMMA SeatsAreNaturals == Seats \subseteq Nat /\ Sessions \subseteq Nat
                          /\ NoPosition \notin Seats /\ NoSession \notin Sessions
  BY SessionsAssumption, CapacityAssumption DEF Seats, Sessions, NoPosition, NoSession

\* Least finds a member of a non-empty set.
LEMMA LeastMember ==
  ASSUME NEW S \in SUBSET Nat
  PROVE  IF S = {} THEN Least(S) = NoPosition ELSE Least(S) \in S
<1>1. CASE S = {}
  BY <1>1 DEF Least
<1>2. CASE S # {}
  <2>1. \E x \in S : \A y \in S : x <= y
    BY <1>2, LeastExists
  <2>2. (CHOOSE x \in S : \A y \in S : x <= y) \in S
    BY <2>1
  <2> QED BY <1>2, <2>2 DEF Least
<1> QED BY <1>1, <1>2

\* The seat found for the next turn is an active one.
LEMMA NextPlayableMember ==
  ASSUME NEW table \in Tables, NEW after
  PROVE  NextPlayable(table, after) = NoPosition
         \/ NextPlayable(table, after) \in ActiveSeats(table)
<1> DEFINE S == {i \in ActiveSeats(table) : i > after /\ table[i].open}
<1>1. S \in SUBSET Nat
  BY SeatsAreNaturals DEF ActiveSeats, Taken
<1>2. IF S = {} THEN Least(S) = NoPosition ELSE Least(S) \in S
  <2> HIDE DEF S
  <2> QED BY <1>1, LeastMember
<1> QED BY <1>2 DEF NextPlayable

\* SeatOf finds the seat of a player who has one.
LEMMA SeatOfMember ==
  ASSUME NEW table \in Tables, NEW p
  PROVE  IF \E i \in Seats : table[i].player = p
         THEN SeatOf(table, p) \in Seats /\ table[SeatOf(table, p)].player = p
         ELSE SeatOf(table, p) = NoPosition
<1> DEFINE S == {i \in Seats : table[i].player = p}
<1>1. S \in SUBSET Nat
  BY SeatsAreNaturals
<1>2. IF S = {} THEN Least(S) = NoPosition ELSE Least(S) \in S
  <2> HIDE DEF S
  <2> QED BY <1>1, LeastMember
<1> QED BY <1>2 DEF SeatOf

\* The seat written last is one of those that were paid.
LEMMA LastWrittenMember ==
  ASSUME NEW own \in SUBSET Seats, own # {}, NEW leaver
  PROVE  LastWritten(own, leaver) \in own
<1>1. CASE own \subseteq {leaver}
  BY <1>1 DEF LastWritten
<1>2. CASE ~ (own \subseteq {leaver})
  <2> DEFINE S == own \ {leaver}
  <2>1. S \in SUBSET (0..Capacity) /\ S # {} /\ Capacity \in Nat
    <3>1. Capacity \in Nat
      BY CapacityAssumption
    <3>2. \A i \in S : i \in 0..Capacity
      BY <3>1 DEF Seats
    <3>3. S # {}
      BY <1>2
    <3> QED BY <3>1, <3>2, <3>3
  <2>2. \E x \in S : \A y \in S : x >= y
    <3> HIDE DEF S
    <3> QED BY <2>1, GreatestExists
  <2>3. Max(S) \in S
    BY <2>2 DEF Max
  <2> QED BY <1>2, <2>3 DEF LastWritten
<1> QED BY <1>1, <1>2

-----------------------------------------------------------------------------
(* A step that writes one session keeps the invariant.                     *)

\* What a request relies on survives the commits of the others.
LEMMA RequestOkStable ==
  ASSUME TypeOK, SafeStep, NEW r \in Request, RequestOk(rows, seats, r)
  PROVE  RequestOk(rows', seats', r)
<1>1. CASE UNCHANGED <<rows, seats, deals>>
  BY <1>1
<1>2. ASSUME NEW s \in Sessions, NEW row \in Row, NEW table \in Tables, NEW d \in Nat,
             Commits(s, row, table, d)
      PROVE  RequestOk(rows', seats', r)
  <2>1. \A t \in Sessions :
          /\ rows[t].status # "absent" => rows'[t].status # "absent"
          /\ Follows(seats[t], seats'[t])
    BY <1>2 DEF TypeOK, Commits, Follows
  <2>2. \A t \in Sessions, i \in Seats : seats[t][i].player \in Players => seats'[t][i].player = seats[t][i].player
    BY <2>1, NoneAssumption DEF Follows
  <2> QED BY <2>1, <2>2 DEF RequestOk, Follows, OnTableKinds
<1> QED BY <1>1, <1>2 DEF SafeStep

\* One unfinished session per chat, because the index allows no second.
LEMMA CommitsKeepsOne ==
  ASSUME TypeOK, OneUnfinishedPerChat, NEW s \in Sessions, NEW row \in Row, NEW table, NEW d,
         Commits(s, row, table, d)
  PROVE  OneUnfinishedPerChat'
<1> SUFFICES ASSUME NEW t \in Sessions, NEW u \in Sessions,
                    Unfinished(t)', Unfinished(u)', rows'[t].chat = rows'[u].chat
             PROVE  t = u
  BY DEF OneUnfinishedPerChat
<1>1. \A v \in Sessions : rows'[v] = IF v = s THEN row ELSE rows[v]
  BY DEF Commits, TypeOK
<1>2. \A v \in Sessions \ {s} : Unfinished(v)' => Unfinished(v)
  BY <1>1 DEF Unfinished
<1>3. row.status = "closed" \/ \A v \in Sessions \ {s} : ~ (Unfinished(v) /\ rows[v].chat = row.chat)
  BY DEF Commits, IndexAllows, UnfinishedOf
<1>4. Unfinished(s)' => row.status # "closed"
  BY <1>1 DEF Unfinished
<1>5. CASE t # s /\ u # s
  BY <1>1, <1>2, <1>5 DEF OneUnfinishedPerChat
<1>6. CASE t = s /\ u # s
  BY <1>1, <1>2, <1>3, <1>4, <1>6
<1>7. CASE t # s /\ u = s
  BY <1>1, <1>2, <1>3, <1>4, <1>7
<1> QED BY <1>5, <1>6, <1>7

\* A step of the right form keeps the invariant.
LEMMA StepKeepsInv ==
  ASSUME SessionInv, StepOk
  PROVE  SessionInv'
<1>1. TypeOK
  BY DEF SessionInv
<1>2. /\ rows' \in [Sessions -> Row] /\ seats' \in [Sessions -> Tables]
      /\ deals' \in [Sessions -> Nat]
  <2>1. /\ rows \in [Sessions -> Row] /\ seats \in [Sessions -> Tables]
        /\ deals \in [Sessions -> Nat]
    BY <1>1 DEF TypeOK, Tables
  <2>2. CASE UNCHANGED <<rows, seats, deals>>
    BY <2>1, <2>2
  <2>3. ASSUME NEW s \in Sessions, NEW row \in Row, NEW table \in Tables, NEW d \in Nat,
               Commits(s, row, table, d)
        PROVE  /\ rows' \in [Sessions -> Row] /\ seats' \in [Sessions -> Tables]
               /\ deals' \in [Sessions -> Nat]
    BY <2>1, <2>3 DEF Commits
  <2> QED BY <2>2, <2>3 DEF StepOk, SafeStep
<1>3. requests' \in [Requests -> Request]
  BY <1>1 DEF StepOk, RequestStep, TypeOK
<1>4. TypeOK'
  BY <1>2, <1>3 DEF StepOk, MoneyOk, TypeOK, Tables
<1>5. OneUnfinishedPerChat'
  <2>1. CASE UNCHANGED <<rows, seats, deals>>
    BY <2>1 DEF SessionInv, OneUnfinishedPerChat, Unfinished
  <2>2. ASSUME NEW s \in Sessions, NEW row \in Row, NEW table \in Tables, NEW d \in Nat,
               Commits(s, row, table, d)
        PROVE  OneUnfinishedPerChat'
    BY <1>1, <2>2, CommitsKeepsOne DEF SessionInv
  <2> QED BY <2>1, <2>2 DEF StepOk, SafeStep
<1>6. \A s \in Sessions : SessionOk(rows'[s], seats'[s], deals'[s])
  <2>1. \A s \in Sessions : SessionOk(rows[s], seats[s], deals[s])
    BY DEF SessionInv
  <2>2. CASE UNCHANGED <<rows, seats, deals>>
    BY <2>1, <2>2
  <2>3. ASSUME NEW t \in Sessions, NEW row \in Row, NEW table \in Tables, NEW d \in Nat,
               Commits(t, row, table, d), NEW s \in Sessions
        PROVE  SessionOk(rows'[s], seats'[s], deals'[s])
    <3>1. CASE s = t
      <4>1. rows'[s] = row /\ seats'[s] = table /\ deals'[s] = d
        BY <1>1, <2>3, <3>1 DEF Commits, TypeOK
      <4> QED BY <2>3, <4>1 DEF Commits
    <3>2. CASE s # t
      <4>1. rows'[s] = rows[s] /\ seats'[s] = seats[s] /\ deals'[s] = deals[s]
        BY <1>1, <2>3, <3>2 DEF Commits, TypeOK
      <4> QED BY <2>1, <4>1
    <3> QED BY <3>1, <3>2
  <2> QED BY <2>2, <2>3 DEF StepOk, SafeStep
<1>7. \A k \in Requests : RequestOk(rows', seats', requests'[k])
  <2>1. \A k \in Requests : requests[k] \in Request /\ RequestOk(rows, seats, requests[k])
    BY <1>1 DEF SessionInv, TypeOK
  <2>2. \A k \in Requests : requests'[k] \in Request /\ RequestOk(rows, seats, requests'[k])
    BY <1>1, <2>1 DEF StepOk, RequestStep, TypeOK
  <2> QED BY <1>1, <2>2, RequestOkStable DEF StepOk
<1> QED BY <1>4, <1>5, <1>6, <1>7 DEF SessionInv

-----------------------------------------------------------------------------
(* The writes of a commit.                                                 *)

\* A table that is about to be written for a session dealt d times.
Ready(s, table, d) ==
  /\ \A i \in Seats : SeatOk(table[i], d)
  /\ Follows(seats[s], table)
  /\ rows[s].status = "closed" => d > deals[s]

Paid(seat, status) == [seat EXCEPT !.status = status, !.paid = @ + 1]

Dealt(seat, open) == [seat EXCEPT !.status = "active", !.open = open]

\* A seat paid by the dealer's settlement, and one paid to a player who leaves.
LEMMA PaidSeat ==
  ASSUME NEW seat \in Seat, NEW d \in Nat, SeatOk(seat, d), seat.status = "active",
         NEW status \in {"inactive", "settled"}
  PROVE  /\ Paid(seat, status) \in Seat
         /\ Paid(seat, status).player = seat.player
         /\ Paid(seat, status).status = status
         /\ SeatOk(Paid(seat, status), d)
<1> DEFINE new == Paid(seat, status)
<1>1. status \in {"joined", "active", "inactive", "settled"} /\ seat.paid + 1 \in Nat
  BY DEF Seat
<1>2. new \in Seat /\ new.player = seat.player /\ new.status = status /\ new.paid = seat.paid + 1
  BY <1>1 DEF Seat, Paid
<1>3. seat.paid \in Nat
  BY DEF Seat
<1> HIDE DEF new
<1>4. SeatOk(new, d)
  BY <1>2, <1>3 DEF SeatOk
<1> QED BY <1>2, <1>4 DEF new

\* A seat that is dealt.
LEMMA DealtSeat ==
  ASSUME NEW seat \in Seat, NEW d \in Nat, SeatOk(seat, d), seat.player # NoPlayer,
         NEW open \in BOOLEAN
  PROVE  /\ Dealt(seat, open) \in Seat
         /\ Dealt(seat, open).player = seat.player
         /\ Dealt(seat, open).status # "joined"
         /\ SeatOk(Dealt(seat, open), d + 1)
<1> DEFINE new == Dealt(seat, open)
<1>1. new \in Seat /\ new.player = seat.player /\ new.status = "active" /\ new.paid = seat.paid
  BY DEF Seat, Dealt
<1>2. seat.paid \in Nat
  BY DEF Seat
<1> HIDE DEF new
<1>3. SeatOk(new, d + 1)
  BY <1>1, <1>2 DEF SeatOk
<1> QED BY <1>1, <1>3 DEF new

\* A payout keeps the banks non-negative, whoever sits twice.
LEMMA PayOutMoney ==
  ASSUME MoneyOk, NEW s \in Sessions, NEW table \in Tables, NEW due \in SUBSET Seats,
         NEW leaver \in Seats \cup {NoPosition}, PayOut(s, table, due, leaver)
  PROVE  MoneyOk'
<1> DEFINE paid == due \cup ({leaver} \ {NoPosition})
           Own(p) == {i \in paid : table[i].player = p}
<1>1. PICK delta \in [paid -> Deltas] :
        /\ \A i \in paid : BankAllows(LoadedBank(table[i].player) + delta[i])
        /\ bank' = [p \in Players |->
                      IF Own(p) = {} THEN bank[p]
                      ELSE LoadedBank(p) + delta[LastWritten(Own(p), leaver)]]
        /\ credited' = [credited EXCEPT ![s] =
                          [i \in Seats |-> IF i \in paid THEN @[i] + delta[i] ELSE @[i]]]
        /\ UNCHANGED toppedUp
  BY Zenon DEF PayOut
<1>2. paid \subseteq Seats /\ \A i \in paid : delta[i] \in Int
  BY MoneyAssumption
<1> HIDE DEF paid
<1>3. bank' \in [Players -> Nat]
  <2> SUFFICES ASSUME NEW p \in Players
               PROVE  (IF Own(p) = {} THEN bank[p]
                       ELSE LoadedBank(p) + delta[LastWritten(Own(p), leaver)]) \in Nat
    BY <1>1
  <2>1. CASE Own(p) = {}
    BY <2>1 DEF MoneyOk
  <2>2. CASE Own(p) # {}
    <3>1. Own(p) \in SUBSET Seats
      BY <1>2
    <3>2. LastWritten(Own(p), leaver) \in Own(p)
      <4> HIDE DEF Own
      <4> QED BY <2>2, <3>1, LastWrittenMember
    <3>3. PICK i \in paid : i = LastWritten(Own(p), leaver) /\ table[i].player = p
      BY <3>2
    <3>4. LoadedBank(p) + delta[i] >= 0
      BY <1>1, <3>3 DEF BankAllows
    <3>5. LoadedBank(p) \in Nat /\ delta[i] \in Int
      BY <1>2 DEF LoadedBank, MoneyOk
    <3> QED BY <2>2, <3>3, <3>4, <3>5
  <2> QED BY <2>1, <2>2
<1>4. credited' \in [Sessions -> [Seats -> Int]]
  BY <1>1, <1>2 DEF MoneyOk
<1> QED BY <1>1, <1>3, <1>4 DEF MoneyOk

\* The money of a step that pays nobody.
LEMMA NoMoney ==
  ASSUME MoneyOk, UNCHANGED money
  PROVE  MoneyOk'
  BY DEF MoneyOk, money

\* A running table is written with the turn on a dealt seat.
LEMMA WriteCommits ==
  ASSUME NEW s \in Sessions, NEW row \in Row, NEW table \in Tables, NEW d \in Nat,
         Ready(s, table, d), row.status = "in_progress", row.position \in Seats,
         table[row.position].status # "joined",
         Write(s, row, table), deals' = [deals EXCEPT ![s] = d]
  PROVE  SafeStep
<1>1. SessionOk(row, table, d)
  BY DEF SessionOk, Ready
<1>2. Commits(s, row, table, d)
  BY <1>1 DEF Commits, Ready, Write
<1> QED BY <1>2 DEF SafeStep

\* A round is closed with every dealt seat paid.
LEMMA CloseRoundCommits ==
  ASSUME MoneyOk, NEW s \in Sessions, NEW row \in Row, NEW table \in Tables, NEW d \in Nat,
         NEW leaver \in Seats \cup {NoPosition}, Ready(s, table, d),
         CloseRound(s, row, table, leaver), deals' = [deals EXCEPT ![s] = d]
  PROVE  SafeStep /\ MoneyOk'
<1> DEFINE row2 == [row EXCEPT !.status = "closed", !.position = NoPosition]
           table2 == [i \in Seats |-> IF i \in DueSeats(table)
                                      THEN [table[i] EXCEPT !.status = "settled", !.paid = @ + 1]
                                      ELSE table[i]]
<1>1. Write(s, row2, table2) /\ PayOut(s, table, DueSeats(table), leaver)
  BY DEF CloseRound
<1>2. \A i \in Seats : table[i] \in Seat
  BY DEF Tables
<1>3. \A i \in Seats : i \in DueSeats(table) <=> table[i].status = "active"
  BY DEF DueSeats, ActiveSeats, Taken, Ready, SeatOk
<1>4. row2 \in Row /\ row2.status = "closed" /\ row2.position = NoPosition
  BY DEF Row
<1>5. \A i \in Seats : /\ table2[i] \in Seat
                       /\ table2[i].player = table[i].player
                       /\ table2[i].status # "active"
                       /\ table[i].status # "joined" => table2[i].status # "joined"
                       /\ SeatOk(table2[i], d)
  <2> SUFFICES ASSUME NEW i \in Seats
               PROVE  /\ table2[i] \in Seat
                      /\ table2[i].player = table[i].player
                      /\ table2[i].status # "active"
                      /\ table[i].status # "joined" => table2[i].status # "joined"
                      /\ SeatOk(table2[i], d)
    OBVIOUS
  <2>1. table[i] \in Seat /\ SeatOk(table[i], d)
    BY <1>2 DEF Ready
  <2>2. CASE table[i].status = "active"
    <3>1. table2[i] = Paid(table[i], "settled")
      BY <1>3, <2>2 DEF Paid
    <3> HIDE DEF table2
    <3> QED BY <2>1, <2>2, <3>1, PaidSeat
  <2>3. CASE table[i].status # "active"
    <3>1. table2[i] = table[i]
      BY <1>3, <2>3
    <3> HIDE DEF table2
    <3> QED BY <2>1, <2>3, <3>1
  <2> QED BY <2>2, <2>3
<1>6. table2 \in Tables
  BY <1>5 DEF Tables
<1>7. Follows(seats[s], table2)
  BY <1>5 DEF Ready, Follows
<1> HIDE DEF row2, table2
<1>8. SessionOk(row2, table2, d)
  BY <1>4, <1>5 DEF SessionOk
<1>9. Commits(s, row2, table2, d)
  BY <1>1, <1>4, <1>7, <1>8 DEF Commits, Write
<1>10. DueSeats(table) \in SUBSET Seats
  BY DEF DueSeats, ActiveSeats, Taken
<1> QED BY <1>1, <1>4, <1>6, <1>9, <1>10, PayOutMoney DEF SafeStep

\* The turn goes to an active seat, or the round is closed.
LEMMA PassTurnCommits ==
  ASSUME MoneyOk, NEW s \in Sessions, NEW row \in Row, NEW table \in Tables, NEW d \in Nat,
         NEW after, Ready(s, table, d), row.status = "in_progress",
         PassTurn(s, row, table, after), deals' = [deals EXCEPT ![s] = d]
  PROVE  SafeStep /\ MoneyOk'
<1> DEFINE next == NextPlayable(table, after)
<1>1. next = NoPosition \/ next \in ActiveSeats(table)
  BY NextPlayableMember
<1>2. CASE next = NoPosition
  <2>1. CloseRound(s, row, table, NoPosition)
    BY <1>2 DEF PassTurn
  <2> QED BY <2>1, CloseRoundCommits
<1>3. CASE next # NoPosition
  <2>1. Write(s, [row EXCEPT !.position = next], table) /\ UNCHANGED money
    BY <1>3 DEF PassTurn
  <2>2. next \in Seats /\ table[next].status # "joined"
    BY <1>1, <1>3 DEF ActiveSeats, Taken
  <2> HIDE DEF next
  <2>3. /\ [row EXCEPT !.position = next] \in Row
        /\ [row EXCEPT !.position = next].status = "in_progress"
        /\ [row EXCEPT !.position = next].position = next
    BY <2>2 DEF Row
  <2> QED BY <2>1, <2>2, <2>3, WriteCommits, NoMoney
<1> QED BY <1>2, <1>3

\* A deal makes every seat of the table active and counts as one more deal.
LEMMA DealCommits ==
  ASSUME TypeOK, MoneyOk, NEW s \in Sessions, NEW row \in Row, NEW table \in Tables,
         Follows(seats[s], table), \A i \in Seats : SeatOk(table[i], deals[s]),
         row.status = "in_progress", Deal(s, row, table)
  PROVE  SafeStep /\ MoneyOk'
<1>1. deals[s] \in Nat /\ deals' = [deals EXCEPT ![s] = deals[s] + 1]
  BY DEF TypeOK, Deal
<1>2. PICK open \in [Taken(table) -> BOOLEAN] :
        PassTurn(s, row,
          [i \in Seats |-> IF i \in Taken(table)
                           THEN [table[i] EXCEPT !.status = "active", !.open = open[i]]
                           ELSE table[i]],
          NoPosition)
  BY Zenon DEF Deal
<1> DEFINE dealt == [i \in Seats |-> IF i \in Taken(table)
                                     THEN [table[i] EXCEPT !.status = "active", !.open = open[i]]
                                     ELSE table[i]]
<1>3. \A i \in Seats : /\ dealt[i] \in Seat
                       /\ dealt[i].player = table[i].player
                       /\ table[i].status # "joined" => dealt[i].status # "joined"
                       /\ SeatOk(dealt[i], deals[s] + 1)
  <2> SUFFICES ASSUME NEW i \in Seats
               PROVE  /\ dealt[i] \in Seat
                      /\ dealt[i].player = table[i].player
                      /\ table[i].status # "joined" => dealt[i].status # "joined"
                      /\ SeatOk(dealt[i], deals[s] + 1)
    OBVIOUS
  <2>1. table[i] \in Seat /\ SeatOk(table[i], deals[s])
    BY DEF Tables
  <2>2. CASE i \in Taken(table)
    <3>1. dealt[i] = Dealt(table[i], open[i])
          /\ open[i] \in BOOLEAN /\ table[i].player # NoPlayer
      BY <2>2 DEF Taken, Dealt
    <3> HIDE DEF dealt
    <3>2. dealt[i] \in Seat /\ dealt[i].player = table[i].player /\ dealt[i].status # "joined"
          /\ SeatOk(dealt[i], deals[s] + 1)
      BY <1>1, <2>1, <3>1, DealtSeat
    <3> QED BY <3>2
  <2>3. CASE i \notin Taken(table)
    <3>1. dealt[i] = table[i] /\ table[i].status = "joined"
      BY <2>1, <2>3 DEF Taken, SeatOk
    <3> HIDE DEF dealt
    <3> QED BY <1>1, <2>1, <3>1 DEF Seat, SeatOk
  <2> QED BY <2>2, <2>3
<1> HIDE DEF dealt
<1>4. dealt \in Tables
  <2>1. dealt = [i \in Seats |-> dealt[i]]
    BY DEF dealt
  <2> QED BY <1>3, <2>1 DEF Tables
<1>5. Ready(s, dealt, deals[s] + 1)
  BY <1>1, <1>3 DEF Ready, Follows
<1>6. PassTurn(s, row, dealt, NoPosition)
  BY <1>2 DEF dealt
<1>7. deals[s] + 1 \in Nat
  BY <1>1
<1> QED BY <1>1, <1>4, <1>5, <1>6, <1>7, PassTurnCommits

-----------------------------------------------------------------------------
(* Reads, one lemma for each.                                              *)

\* The banks, credits and top-ups are typed.
LEMMA TypeMoney ==
  ASSUME TypeOK
  PROVE  MoneyOk
  BY DEF TypeOK, MoneyOk

\* A request that has left relies on nothing.
LEMMA IdleRequest ==
  Idle \in Request /\ RequestOk(rows, seats, Idle)
<1>1. Idle \in Request
  BY DEF Idle, Request, NoSession, NoPosition
<1>2. Idle.kind = "idle"
  BY DEF Idle
<1> QED BY <1>1, <1>2 DEF RequestOk, OnTableKinds

\* A request that leaves is a step of the requests.
LEMMA LeavesStep ==
  ASSUME TypeOK, NEW k \in Requests, Leaves(k)
  PROVE  RequestStep /\ banned' \subseteq Players
  BY IdleRequest DEF TypeOK, Leaves, RequestStep

\* A request that goes on with what it may rely on changes nothing else.
LEMMA GoesStep ==
  ASSUME TypeOK, NEW k \in Requests, NEW r \in Request, RequestOk(rows, seats, r), Goes(k, r)
  PROVE  StepOk
<1>1. SafeStep
  BY DEF Goes, SafeStep
<1>2. RequestStep
  BY DEF Goes, RequestStep
<1>3. MoneyOk' /\ banned' \subseteq Players
  BY TypeMoney, NoMoney DEF Goes, TypeOK
<1> QED BY <1>1, <1>2, <1>3 DEF StepOk

\* What a request on a table has read is right when it has read it.
LEMMA OnTableRequest ==
  ASSUME SessionInv, NEW s \in Sessions, NEW kind \in OnTableKinds \cup {"start"},
         NEW p \in Players \cup {NoPlayer},
         rows[s].status = (IF kind = "start" THEN "lobby_open" ELSE "in_progress"),
         kind \in {"action", "stop"} => p \in Players /\ \E i \in Seats : seats[s][i].player = p
  PROVE  OnTable(kind, p, s) \in Request /\ RequestOk(rows, seats, OnTable(kind, p, s))
<1> DEFINE r == OnTable(kind, p, s)
<1>1. rows[s] \in Row
  BY DEF SessionInv, TypeOK
<1>2. /\ r \in Request
      /\ r.kind = kind /\ r.player = p /\ r.session = s /\ r.position = rows[s].position
  BY <1>1, IdleRequest DEF OnTable, Idle, Request, Row, OnTableKinds
<1>3. kind \in OnTableKinds => rows[s].position \in Seats
                               /\ seats[s][rows[s].position].status # "joined"
  BY DEF SessionInv, SessionOk, OnTableKinds
<1> HIDE DEF r
<1>4. RequestOk(rows, seats, r)
  BY <1>2, <1>3 DEF RequestOk, OnTableKinds
<1> QED BY <1>2, <1>4 DEF r

\* The first reads of an opening or of a single start.
LEMMA LookOpenStep ==
  ASSUME SessionInv, NEW k \in Requests, NEW p \in Players, NEW c \in Chats, LookOpen(k, p, c)
  PROVE  StepOk
<1> DEFINE kind == IF c \in GroupChats THEN "open" ELSE "start_single"
           r == [Idle EXCEPT !.kind = kind, !.player = p, !.chat = c]
<1>1. r \in Request /\ r.kind \in {"open", "start_single"} /\ r.player = p /\ r.chat = c
  BY IdleRequest DEF Idle, Request
<1>2. Goes(k, r)
  BY DEF LookOpen, Reads
<1> HIDE DEF r
<1>3. RequestOk(rows, seats, r)
  BY <1>1 DEF RequestOk, OnTableKinds
<1> QED BY <1>1, <1>2, <1>3, GoesStep DEF SessionInv

\* The first reads of a join.
LEMMA LookJoinStep ==
  ASSUME SessionInv, NEW k \in Requests, NEW p \in Players, NEW s \in Sessions, LookJoin(k, p, s)
  PROVE  StepOk
<1> DEFINE r == [Idle EXCEPT !.kind = "join", !.player = p, !.session = s]
<1>1. r \in Request /\ r.kind = "join" /\ r.player = p /\ r.session = s
  BY IdleRequest DEF Idle, Request
<1>2. Goes(k, r) /\ rows[s].status = "lobby_open"
  BY DEF LookJoin, Reads
<1> HIDE DEF r
<1>3. RequestOk(rows, seats, r)
  BY <1>1, <1>2 DEF RequestOk, OnTableKinds
<1> QED BY <1>1, <1>2, <1>3, GoesStep DEF SessionInv

\* A place is always a number of seats plus one.
LEMMA PlaceIsNatural ==
  ASSUME NEW table
  PROVE  Cardinality(Taken(table)) + 1 \in Nat
<1>1. Capacity \in Nat
  BY CapacityAssumption
<1>2. IsFiniteSet(Seats)
  BY <1>1, FS_Interval DEF Seats
<1>3. IsFiniteSet(Taken(table))
  BY <1>2, FS_Subset DEF Taken
<1>4. Cardinality(Taken(table)) \in Nat
  BY <1>3, FS_CardinalityType
<1> QED BY <1>4

\* The choice of a place.
LEMMA ChoosePlaceStep ==
  ASSUME SessionInv, NEW k \in Requests, ChoosePlace(k)
  PROVE  StepOk
<1> DEFINE old == requests[k]
           place == Cardinality(Taken(seats[old.session])) + 1
           r == [old EXCEPT !.place = place]
<1>1. old \in Request /\ RequestOk(rows, seats, old)
  BY DEF SessionInv, TypeOK
<1>2. place \in Nat
  BY PlaceIsNatural
<1>3. Goes(k, r)
  BY DEF ChoosePlace
<1> HIDE DEF old, place
<1>4. /\ r \in Request
      /\ r.kind = old.kind /\ r.player = old.player /\ r.session = old.session
      /\ r.position = old.position /\ r.chat = old.chat
  BY <1>1, <1>2 DEF Request
<1> HIDE DEF r
<1>5. RequestOk(rows, seats, r)
  BY <1>1, <1>4 DEF RequestOk
<1> QED BY <1>3, <1>4, <1>5, GoesStep DEF SessionInv

\* The first reads of a start and of a timeout.
LEMMA LookSessionStep ==
  ASSUME SessionInv, NEW k \in Requests, NEW s \in Sessions, LookStart(k, s) \/ LookTimeout(k, s)
  PROVE  StepOk
<1>1. CASE LookStart(k, s)
  <2>1. Goes(k, OnTable("start", NoPlayer, s)) /\ rows[s].status = "lobby_open"
    BY <1>1 DEF LookStart, Reads
  <2>2. /\ OnTable("start", NoPlayer, s) \in Request
        /\ RequestOk(rows, seats, OnTable("start", NoPlayer, s))
    BY <2>1, OnTableRequest
  <2> QED BY <2>1, <2>2, GoesStep DEF SessionInv
<1>2. CASE LookTimeout(k, s)
  <2>1. Goes(k, OnTable("timeout", NoPlayer, s)) /\ rows[s].status = "in_progress"
    BY <1>2 DEF LookTimeout, Reads, Playing
  <2>2. /\ OnTable("timeout", NoPlayer, s) \in Request
        /\ RequestOk(rows, seats, OnTable("timeout", NoPlayer, s))
    BY <2>1, OnTableRequest DEF OnTableKinds
  <2> QED BY <2>1, <2>2, GoesStep DEF SessionInv
<1> QED BY <1>1, <1>2

\* The first reads of a move and of a stop: their player has a seat.
LEMMA LookPlayerStep ==
  ASSUME SessionInv, NEW k \in Requests, NEW p \in Players, NEW s \in Sessions,
         LookAction(k, p, s) \/ LookStop(k, p, s)
  PROVE  StepOk
<1>1. TypeOK /\ seats[s] \in Tables
  BY DEF SessionInv, TypeOK, Tables
<1>2. CASE LookAction(k, p, s)
  <2>1. /\ Goes(k, OnTable("action", p, s)) /\ rows[s].status = "in_progress"
        /\ rows[s].position = SeatOf(seats[s], p)
    BY <1>2 DEF LookAction, Reads, Playing
  <2>2. rows[s].position \in Seats
    BY <2>1 DEF SessionInv, SessionOk
  <2>3. \E i \in Seats : seats[s][i].player = p
    BY <1>1, <2>1, <2>2, SeatOfMember, SeatsAreNaturals
  <2>4. OnTable("action", p, s) \in Request /\ RequestOk(rows, seats, OnTable("action", p, s))
    BY <2>1, <2>3, OnTableRequest DEF OnTableKinds
  <2> QED BY <1>1, <2>1, <2>4, GoesStep
<1>3. CASE LookStop(k, p, s)
  <2>1. /\ Goes(k, OnTable("stop", p, s)) /\ rows[s].status = "in_progress"
        /\ SeatOf(seats[s], p) # NoPosition
    BY <1>3 DEF LookStop, Reads, Playing
  <2>2. \E i \in Seats : seats[s][i].player = p
    BY <1>1, <2>1, SeatOfMember
  <2>3. OnTable("stop", p, s) \in Request /\ RequestOk(rows, seats, OnTable("stop", p, s))
    BY <2>1, <2>2, OnTableRequest DEF OnTableKinds
  <2> QED BY <1>1, <2>1, <2>3, GoesStep
<1> QED BY <1>2, <1>3

\* The reads of an administrator, and a request that fails.
LEMMA LookTopUpStep ==
  ASSUME SessionInv, NEW k \in Requests, NEW p \in Players, LookTopUp(k, p)
  PROVE  StepOk
<1> DEFINE r == [Idle EXCEPT !.kind = "topup", !.player = p, !.bank = bank[p]]
<1>1. bank[p] \in Nat
  BY DEF SessionInv, TypeOK
<1>2. r \in Request /\ r.kind = "topup" /\ r.player = p
  BY <1>1, IdleRequest DEF Idle, Request
<1>3. Goes(k, r)
  BY DEF LookTopUp, Reads
<1> HIDE DEF r
<1>4. RequestOk(rows, seats, r)
  BY <1>2 DEF RequestOk, OnTableKinds
<1> QED BY <1>2, <1>3, <1>4, GoesStep DEF SessionInv

\* A request that fails leaves nothing behind.
LEMMA AbandonStep ==
  ASSUME SessionInv, NEW k \in Requests, Abandon(k)
  PROVE  StepOk
  BY IdleRequest, GoesStep DEF SessionInv, Abandon

-----------------------------------------------------------------------------
(* Commits, one lemma for each.                                            *)

\* The session a new row is given was absent, and nobody sat there.
LEMMA NewSessionAbsent ==
  ASSUME SessionInv, NewSession # NoSession, NEW p \in Players
  PROVE  /\ NewSession \in Sessions
         /\ rows[NewSession].status = "absent"
         /\ NewTable(p) \in Tables
         /\ Follows(seats[NewSession], NewTable(p))
         /\ \A i \in Seats : SeatOk(NewTable(p)[i], deals[NewSession])
<1> DEFINE S == {s \in Sessions : rows[s].status = "absent"}
<1>1. S \in SUBSET Nat
  BY SeatsAreNaturals
<1>2. IF S = {} THEN Least(S) = NoPosition ELSE Least(S) \in S
  <2> HIDE DEF S
  <2> QED BY <1>1, LeastMember
<1>3. NewSession \in S
  BY <1>2 DEF NewSession, NoSession, NoPosition
<1>4. deals[NewSession] \in Nat
  BY <1>3 DEF SessionInv, TypeOK
<1>5. \A i \in Seats : seats[NewSession][i].player = NoPlayer
                       /\ SeatOk(seats[NewSession][i], deals[NewSession])
  BY <1>3 DEF SessionInv, SessionOk
<1>6. \A i \in Seats : /\ NewTable(p)[i] \in Seat
                       /\ NewTable(p)[i].status = "joined"
                       /\ NewTable(p)[i].paid = 0
                       /\ NewTable(p)[i].player \in {p, NoPlayer}
  BY DEF NewTable, NoSeat, Seat
<1>7. NewTable(p) \in Tables
  <2>1. NewTable(p) = [i \in Seats |-> NewTable(p)[i]]
    BY DEF NewTable
  <2> QED BY <1>6, <2>1 DEF Tables
<1>8. Follows(seats[NewSession], NewTable(p))
  BY <1>5 DEF Follows, SeatOk
<1>9. \A i \in Seats : SeatOk(NewTable(p)[i], deals[NewSession])
  BY <1>4, <1>6 DEF SeatOk
<1> QED BY <1>3, <1>7, <1>8, <1>9

\* A lobby opened.
LEMMA CommitOpenStep ==
  ASSUME SessionInv, NEW k \in Requests, CommitOpen(k)
  PROVE  StepOk
<1> DEFINE r == requests[k]
           s == NewSession
           row == [NoRow EXCEPT !.chat = r.chat, !.status = "lobby_open"]
<1>1. TypeOK /\ r \in Request /\ RequestOk(rows, seats, r) /\ r.kind = "open"
  BY DEF SessionInv, TypeOK, CommitOpen
<1>2. s # NoSession /\ Write(s, row, NewTable(r.player)) /\ Leaves(k) /\ UNCHANGED <<deals, money>>
  BY DEF CommitOpen
<1>3. r.player \in Players /\ r.chat \in Chats
  BY <1>1 DEF RequestOk
<1> HIDE DEF r
<1>4. row \in Row /\ row.status = "lobby_open" /\ row.position = NoPosition
  BY <1>3 DEF Row, NoRow
<1> HIDE DEF row
<1>5. /\ s \in Sessions /\ rows[s].status = "absent" /\ NewTable(r.player) \in Tables
      /\ Follows(seats[s], NewTable(r.player))
      /\ \A i \in Seats : SeatOk(NewTable(r.player)[i], deals[s])
  BY <1>2, <1>3, NewSessionAbsent
<1> HIDE DEF s
<1>6. deals[s] \in Nat /\ deals' = [deals EXCEPT ![s] = deals[s]]
  BY <1>1, <1>2, <1>5 DEF TypeOK
<1>7. SessionOk(row, NewTable(r.player), deals[s])
  BY <1>4, <1>5 DEF SessionOk
<1>8. Commits(s, row, NewTable(r.player), deals[s])
  BY <1>2, <1>4, <1>5, <1>6, <1>7 DEF Commits, Write
<1>9. SafeStep
  BY <1>4, <1>5, <1>6, <1>8 DEF SafeStep
<1> QED BY <1>1, <1>2, <1>9, TypeMoney, NoMoney, LeavesStep DEF StepOk

\* A single session created and dealt.
LEMMA CommitStartSingleStep ==
  ASSUME SessionInv, NEW k \in Requests, CommitStartSingle(k)
  PROVE  StepOk
<1> DEFINE r == requests[k]
           s == NewSession
           row == [NoRow EXCEPT !.chat = r.chat, !.status = "in_progress", !.version = 1]
<1>1. TypeOK /\ r \in Request /\ RequestOk(rows, seats, r) /\ r.kind = "start_single"
  BY DEF SessionInv, TypeOK, CommitStartSingle
<1>2. s # NoSession /\ Deal(s, row, NewTable(r.player)) /\ Leaves(k)
  BY DEF CommitStartSingle
<1>3. r.player \in Players /\ r.chat \in Chats
  BY <1>1 DEF RequestOk
<1> HIDE DEF r
<1>4. row \in Row /\ row.status = "in_progress"
  BY <1>3 DEF Row, NoRow
<1> HIDE DEF row
<1>5. /\ s \in Sessions /\ NewTable(r.player) \in Tables
      /\ Follows(seats[s], NewTable(r.player))
      /\ \A i \in Seats : SeatOk(NewTable(r.player)[i], deals[s])
  BY <1>2, <1>3, NewSessionAbsent
<1> HIDE DEF s
<1>6. SafeStep /\ MoneyOk'
  BY <1>1, <1>2, <1>4, <1>5, TypeMoney, DealCommits
<1> QED BY <1>1, <1>2, <1>6, LeavesStep DEF StepOk

\* What a session that is written again looks like.
LEMMA OldTable ==
  ASSUME SessionInv, NEW s \in Sessions
  PROVE  /\ rows[s] \in Row /\ seats[s] \in Tables /\ deals[s] \in Nat
         /\ \A i \in Seats : seats[s][i] \in Seat /\ SeatOk(seats[s][i], deals[s])
         /\ Follows(seats[s], seats[s])
         /\ deals = [deals EXCEPT ![s] = deals[s]]
  BY DEF SessionInv, TypeOK, SessionOk, Follows, Tables

\* The row a late commit writes is a row.
LEMMA SeenRowType ==
  ASSUME SessionInv, NEW r \in Request, r.session \in Sessions, NEW bumps \in Nat
  PROVE  /\ SeenRow(r, bumps) \in Row
         /\ SeenRow(r, bumps).status = "in_progress"
         /\ SeenRow(r, bumps).position = r.position
<1>1. rows[r.session] \in Row
  BY OldTable
<1>2. r.version + bumps \in Nat /\ r.position \in Seats \cup {NoPosition}
  BY DEF Request
<1> QED BY <1>1, <1>2 DEF SeenRow, Row

\* A player seated at a place nobody has.
LEMMA CommitJoinStep ==
  ASSUME SessionInv, NEW k \in Requests, CommitJoin(k)
  PROVE  StepOk
<1> DEFINE r == requests[k]
           s == r.session
           new == [NoSeat EXCEPT !.player = r.player]
           table == [seats[s] EXCEPT ![r.place] = new]
<1>1. TypeOK /\ r \in Request /\ RequestOk(rows, seats, r) /\ r.kind = "join"
  BY DEF SessionInv, TypeOK, CommitJoin
<1>2. /\ PlaceFree(seats[s], r.place) /\ seats' = [seats EXCEPT ![s] = table]
      /\ Leaves(k) /\ UNCHANGED <<rows, deals, money>>
  BY DEF CommitJoin
<1>3. r.player \in Players /\ s \in Sessions /\ rows[s].status # "absent"
  BY <1>1 DEF RequestOk
<1> HIDE DEF r
<1>4. new \in Seat /\ new.status = "joined" /\ new.paid = 0 /\ new.player \in Players
  BY <1>3 DEF Seat, NoSeat
<1> HIDE DEF new, s
<1>5. /\ rows[s] \in Row /\ seats[s] \in Tables /\ deals[s] \in Nat
      /\ \A i \in Seats : seats[s][i] \in Seat /\ SeatOk(seats[s][i], deals[s])
      /\ deals' = [deals EXCEPT ![s] = deals[s]] /\ rows' = [rows EXCEPT ![s] = rows[s]]
  BY <1>1, <1>2, <1>3, OldTable DEF TypeOK
<1>6. SessionOk(rows[s], seats[s], deals[s])
  BY <1>3 DEF SessionInv
<1>7. \A i \in Seats : table[i] = IF i = r.place THEN new ELSE seats[s][i]
  BY <1>5 DEF Tables
<1>8. table \in Tables
  BY <1>4, <1>5 DEF Tables
<1>9. SeatOk(new, deals[s])
  BY <1>4, <1>5, NoneAssumption DEF SeatOk
<1>10. r.place \in Seats => seats[s][r.place].player = NoPlayer /\ seats[s][r.place].status = "joined"
  BY <1>2, <1>5 DEF PlaceFree, SeatOk
<1> HIDE DEF table
<1>11. Follows(seats[s], table)
  BY <1>7, <1>10 DEF Follows
<1>12. SessionOk(rows[s], table, deals[s])
  BY <1>3, <1>4, <1>6, <1>7, <1>9, <1>10 DEF SessionOk
<1>13. IndexAllows(s, rows[s])
  BY <1>3, <1>5 DEF IndexAllows, UnfinishedOf, SessionInv, OneUnfinishedPerChat, Unfinished, Row
<1>14. Commits(s, rows[s], table, deals[s])
  BY <1>2, <1>3, <1>5, <1>11, <1>12, <1>13 DEF Commits
<1>15. SafeStep
  BY <1>3, <1>5, <1>8, <1>14 DEF SafeStep
<1> QED BY <1>1, <1>2, <1>15, TypeMoney, NoMoney, LeavesStep DEF StepOk

\* A lobby dealt, whatever became of it since it was read.
LEMMA CommitStartStep ==
  ASSUME SessionInv, NEW k \in Requests, CommitStart(k)
  PROVE  StepOk
<1> DEFINE r == requests[k]
           s == r.session
<1>1. TypeOK /\ r \in Request /\ RequestOk(rows, seats, r) /\ r.kind = "start"
  BY DEF SessionInv, TypeOK, CommitStart
<1>2. Deal(s, SeenRow(r, 1), seats[s]) /\ Leaves(k)
  BY DEF CommitStart
<1>3. s \in Sessions
  BY <1>1 DEF RequestOk
<1> HIDE DEF r
<1>4. SeenRow(r, 1) \in Row /\ SeenRow(r, 1).status = "in_progress"
  BY <1>1, <1>3, SeenRowType
<1>5. SafeStep /\ MoneyOk'
  BY <1>1, <1>2, <1>3, <1>4, OldTable, TypeMoney, DealCommits
<1> QED BY <1>1, <1>2, <1>5, LeavesStep DEF StepOk

\* A session with an active seat is not closed, however old the request.
LEMMA ActiveNotClosed ==
  ASSUME SessionInv, NEW s \in Sessions, NEW i \in Seats, seats[s][i].status = "active"
  PROVE  rows[s].status # "closed"
  BY DEF SessionInv, SessionOk

\* A move on a hand that can still act.
LEMMA CommitActionStep ==
  ASSUME SessionInv, NEW k \in Requests, CommitAction(k)
  PROVE  StepOk
<1> DEFINE r == requests[k]
           s == r.session
           row == SeenRow(r, 1)
           i == SeatOf(seats[s], r.player)
<1>1. TypeOK /\ r \in Request /\ RequestOk(rows, seats, r) /\ r.kind = "action"
  BY DEF SessionInv, TypeOK, CommitAction
<1>2. /\ MayMove(seats[s][i]) /\ Leaves(k) /\ UNCHANGED deals
      /\ \/ Write(s, row, seats[s]) /\ UNCHANGED money
         \/ \E open \in BOOLEAN : PassTurn(s, row, [seats[s] EXCEPT ![i].open = open], i)
  BY Zenon DEF CommitAction
<1>3. /\ s \in Sessions /\ r.position \in Seats /\ seats[s][r.position].status # "joined"
      /\ \E j \in Seats : seats[s][j].player = r.player
  BY <1>1 DEF RequestOk, OnTableKinds
<1> HIDE DEF r
<1>4. row \in Row /\ row.status = "in_progress" /\ row.position = r.position
  BY <1>1, <1>3, SeenRowType
<1> HIDE DEF s, row
<1>5. /\ seats[s] \in Tables /\ deals[s] \in Nat
      /\ \A j \in Seats : seats[s][j] \in Seat /\ SeatOk(seats[s][j], deals[s])
      /\ Follows(seats[s], seats[s]) /\ deals' = [deals EXCEPT ![s] = deals[s]]
  BY <1>2, <1>3, OldTable
<1>6. i \in Seats
  BY <1>3, <1>5, SeatOfMember
<1> HIDE DEF i
<1>7. rows[s].status # "closed"
  BY <1>2, <1>3, <1>6, ActiveNotClosed DEF MayMove
<1>8. CASE Write(s, row, seats[s]) /\ UNCHANGED money
  <2>1. Ready(s, seats[s], deals[s])
    BY <1>5, <1>7 DEF Ready
  <2>2. SafeStep
    BY <1>3, <1>4, <1>5, <1>8, <2>1, WriteCommits
  <2> QED BY <1>1, <1>2, <1>8, <2>2, TypeMoney, NoMoney, LeavesStep DEF StepOk
<1>9. ASSUME NEW open \in BOOLEAN, PassTurn(s, row, [seats[s] EXCEPT ![i].open = open], i)
      PROVE  StepOk
  <2> DEFINE table == [seats[s] EXCEPT ![i].open = open]
  <2>1. \A j \in Seats : /\ table[j] \in Seat
                         /\ table[j].player = seats[s][j].player
                         /\ table[j].status = seats[s][j].status
                         /\ table[j].paid = seats[s][j].paid
    BY <1>5 DEF Tables, Seat
  <2>2. table \in Tables
    <3>1. table = [j \in Seats |-> table[j]]
      BY <1>5 DEF Tables
    <3> HIDE DEF table
    <3> QED BY <2>1, <3>1 DEF Tables
  <2>3. PassTurn(s, row, table, i)
    BY <1>9
  <2> HIDE DEF table
  <2>4. Ready(s, table, deals[s])
    BY <1>5, <1>7, <2>1 DEF Ready, SeatOk, Follows
  <2>5. SafeStep /\ MoneyOk'
    BY <1>1, <1>3, <1>4, <1>5, <2>2, <2>3, <2>4, TypeMoney, PassTurnCommits
  <2> QED BY <1>1, <1>2, <2>5, LeavesStep DEF StepOk
<1> QED BY <1>2, <1>8, <1>9

\* A turn passed because its holder took too long.
LEMMA CommitTimeoutStep ==
  ASSUME SessionInv, NEW k \in Requests, CommitTimeout(k)
  PROVE  StepOk
<1> DEFINE r == requests[k]
           s == r.session
           row == SeenRow(r, 1)
<1>1. TypeOK /\ r \in Request /\ RequestOk(rows, seats, r) /\ r.kind = "timeout"
  BY DEF SessionInv, TypeOK, CommitTimeout
<1>2. /\ TimesOut(seats[s][r.position]) /\ Leaves(k) /\ UNCHANGED deals
      /\ PassTurn(s, row, seats[s], r.position)
  BY DEF CommitTimeout
<1>3. s \in Sessions /\ r.position \in Seats
  BY <1>1 DEF RequestOk, OnTableKinds
<1> HIDE DEF r
<1>4. row \in Row /\ row.status = "in_progress"
  BY <1>1, <1>3, SeenRowType
<1> HIDE DEF s, row
<1>5. /\ seats[s] \in Tables /\ deals[s] \in Nat
      /\ \A j \in Seats : seats[s][j] \in Seat /\ SeatOk(seats[s][j], deals[s])
      /\ Follows(seats[s], seats[s]) /\ deals' = [deals EXCEPT ![s] = deals[s]]
  BY <1>2, <1>3, OldTable
<1>6. rows[s].status # "closed"
  BY <1>2, <1>3, ActiveNotClosed DEF TimesOut
<1>7. Ready(s, seats[s], deals[s])
  BY <1>5, <1>6 DEF Ready
<1>8. SafeStep /\ MoneyOk'
  BY <1>1, <1>2, <1>3, <1>4, <1>5, <1>7, TypeMoney, PassTurnCommits
<1> QED BY <1>1, <1>2, <1>8, LeavesStep DEF StepOk

\* A player leaves, paid; the others play on, or the round is closed.
LEMMA CommitStopStep ==
  ASSUME SessionInv, NEW k \in Requests, CommitStop(k)
  PROVE  StepOk
<1> DEFINE r == requests[k]
           s == r.session
           i == SeatOf(seats[s], r.player)
           table == [seats[s] EXCEPT ![i] = Left(@)]
           next == IF r.position = i THEN NextPlayable(table, i) ELSE r.position
           row == [SeenRow(r, 1) EXCEPT !.position = next]
           closed == [row EXCEPT !.status = "closed", !.position = NoPosition]
<1>1. TypeOK /\ r \in Request /\ RequestOk(rows, seats, r) /\ r.kind = "stop"
  BY DEF SessionInv, TypeOK, CommitStop
<1>2. /\ seats[s][i].status = "active" /\ Leaves(k) /\ UNCHANGED deals
      /\ IF ActiveSeats(table) = {}
         THEN Write(s, closed, table) /\ PayOut(s, table, {}, i)
         ELSE IF next = NoPosition
         THEN CloseRound(s, SeenRow(r, 2), table, i)
         ELSE Write(s, row, table) /\ PayOut(s, table, {}, i)
  BY DEF CommitStop
<1>3. /\ s \in Sessions /\ r.position \in Seats /\ seats[s][r.position].status # "joined"
      /\ \E j \in Seats : seats[s][j].player = r.player
  BY <1>1 DEF RequestOk, OnTableKinds
<1> HIDE DEF r
<1>4. /\ SeenRow(r, 1) \in Row /\ SeenRow(r, 1).status = "in_progress"
      /\ SeenRow(r, 2) \in Row /\ SeenRow(r, 2).status = "in_progress"
  BY <1>1, <1>3, SeenRowType
<1> HIDE DEF s
<1>5. /\ seats[s] \in Tables /\ deals[s] \in Nat
      /\ \A j \in Seats : seats[s][j] \in Seat /\ SeatOk(seats[s][j], deals[s])
      /\ deals' = [deals EXCEPT ![s] = deals[s]]
  BY <1>2, <1>3, OldTable
<1>6. i \in Seats
  BY <1>3, <1>5, SeatOfMember
<1> HIDE DEF i
<1>7. rows[s].status # "closed"
  BY <1>2, <1>3, <1>6, ActiveNotClosed
<1>8. /\ Paid(seats[s][i], "inactive") \in Seat
      /\ Paid(seats[s][i], "inactive").player = seats[s][i].player
      /\ Paid(seats[s][i], "inactive").status = "inactive"
      /\ SeatOk(Paid(seats[s][i], "inactive"), deals[s])
  BY <1>2, <1>5, <1>6, PaidSeat
<1>9. \A j \in Seats : table[j] = IF j = i THEN Paid(seats[s][i], "inactive") ELSE seats[s][j]
  BY <1>5, <1>6 DEF Tables, Left, Paid
<1>10. table \in Tables
  <2>1. table = [j \in Seats |-> table[j]]
    BY <1>5 DEF Tables
  <2> HIDE DEF table
  <2> QED BY <1>5, <1>8, <1>9, <2>1 DEF Tables
<1> HIDE DEF table
<1>11. Ready(s, table, deals[s])
  BY <1>5, <1>7, <1>8, <1>9 DEF Ready, Follows
<1>12. table[r.position].status # "joined"
  BY <1>3, <1>8, <1>9
<1>13. CASE ActiveSeats(table) = {}
  <2>1. Write(s, closed, table) /\ PayOut(s, table, {}, i)
    BY <1>2, <1>13
  <2>2. closed \in Row /\ closed.status = "closed" /\ closed.position = NoPosition
    <3>1. next \in Seats \cup {NoPosition}
      BY <1>3, <1>10, NextPlayableMember DEF ActiveSeats, Taken
    <3> HIDE DEF next
    <3> QED BY <1>4, <3>1 DEF Row
  <2> HIDE DEF closed
  <2>3. \A j \in Seats : table[j].status # "active"
    BY <1>11, <1>13 DEF ActiveSeats, Taken, Ready, SeatOk
  <2>4. SessionOk(closed, table, deals[s])
    BY <1>11, <2>2, <2>3 DEF SessionOk, Ready
  <2>5. Commits(s, closed, table, deals[s])
    BY <1>5, <1>11, <2>1, <2>2, <2>4 DEF Commits, Write, Ready
  <2>6. SafeStep
    BY <1>3, <1>5, <1>10, <2>2, <2>5 DEF SafeStep
  <2>7. MoneyOk'
    BY <1>1, <1>3, <1>6, <1>10, <2>1, TypeMoney, PayOutMoney
  <2> QED BY <1>1, <1>2, <2>6, <2>7, LeavesStep DEF StepOk
<1>14. CASE ActiveSeats(table) # {} /\ next = NoPosition
  <2>1. CloseRound(s, SeenRow(r, 2), table, i)
    BY <1>2, <1>14
  <2>2. SafeStep /\ MoneyOk'
    BY <1>1, <1>3, <1>4, <1>5, <1>6, <1>10, <1>11, <2>1, TypeMoney, CloseRoundCommits
  <2> QED BY <1>1, <1>2, <2>2, LeavesStep DEF StepOk
<1>15. CASE ActiveSeats(table) # {} /\ next # NoPosition
  <2>1. Write(s, row, table) /\ PayOut(s, table, {}, i)
    BY <1>2, <1>15
  <2>2. next \in Seats /\ table[next].status # "joined"
    BY <1>3, <1>10, <1>12, <1>15, NextPlayableMember DEF ActiveSeats, Taken
  <2> HIDE DEF next
  <2>3. row \in Row /\ row.status = "in_progress" /\ row.position = next
    BY <1>4, <2>2 DEF Row
  <2> HIDE DEF row
  <2>4. SafeStep
    BY <1>3, <1>5, <1>10, <1>11, <2>1, <2>2, <2>3, WriteCommits
  <2>5. MoneyOk'
    BY <1>1, <1>3, <1>6, <1>10, <2>1, TypeMoney, PayOutMoney
  <2> QED BY <1>1, <1>2, <2>4, <2>5, LeavesStep DEF StepOk
<1> QED BY <1>13, <1>14, <1>15

\* A top-up writes the bank it has read and the amount.
LEMMA CommitTopUpStep ==
  ASSUME SessionInv, NEW k \in Requests, CommitTopUp(k)
  PROVE  StepOk
<1> DEFINE r == requests[k]
<1>1. TypeOK /\ r \in Request /\ RequestOk(rows, seats, r) /\ r.kind = "topup"
  BY DEF SessionInv, TypeOK, CommitTopUp
<1>2. /\ bank' = [bank EXCEPT ![r.player] = r.bank + TopUp]
      /\ toppedUp' = toppedUp \cup {r.player}
      /\ Leaves(k) /\ UNCHANGED <<rows, seats, deals, credited>>
  BY DEF CommitTopUp
<1>3. r.player \in Players
  BY <1>1 DEF RequestOk
<1>4. r.bank + TopUp \in Nat
  BY <1>1, MoneyAssumption DEF Request
<1> HIDE DEF r
<1>5. MoneyOk'
  BY <1>1, <1>2, <1>3, <1>4 DEF MoneyOk, TypeOK
<1>6. SafeStep
  BY <1>2 DEF SafeStep
<1> QED BY <1>1, <1>2, <1>5, <1>6, LeavesStep DEF StepOk

-----------------------------------------------------------------------------
(* The invariant and what follows from it.                                 *)

\* A step that changes nothing.
LEMMA StutterStep ==
  ASSUME SessionInv, UNCHANGED vars
  PROVE  StepOk
  BY DEF SessionInv, TypeOK, vars, money, StepOk, SafeStep, RequestStep, MoneyOk

\* A ban changes no session.
LEMMA BanStep ==
  ASSUME SessionInv, NEW p \in Players, Ban(p)
  PROVE  StepOk
  BY DEF SessionInv, TypeOK, Ban, money, StepOk, SafeStep, RequestStep, MoneyOk

\* Every step of the service is of the right form.
LEMMA NextStep ==
  ASSUME SessionInv, [Next]_vars
  PROVE  StepOk
<1>1. CASE UNCHANGED vars
  BY <1>1, StutterStep
<1>2. CASE \E p \in Players : Ban(p)
  BY <1>2, BanStep
<1>3. ASSUME NEW k \in Requests,
             \/ \E p \in Players, c \in Chats : LookOpen(k, p, c)
             \/ \E p \in Players, s \in Sessions : LookJoin(k, p, s)
             \/ ChoosePlace(k)
             \/ \E s \in Sessions : LookStart(k, s) \/ LookTimeout(k, s)
             \/ \E p \in Players, s \in Sessions : LookAction(k, p, s) \/ LookStop(k, p, s)
             \/ \E p \in Players : LookTopUp(k, p)
             \/ Abandon(k)
      PROVE  StepOk
  BY <1>3, LookOpenStep, LookJoinStep, ChoosePlaceStep, LookSessionStep, LookPlayerStep,
     LookTopUpStep, AbandonStep
<1>4. ASSUME NEW k \in Requests,
             \/ CommitOpen(k) \/ CommitStartSingle(k) \/ CommitJoin(k) \/ CommitStart(k)
             \/ CommitTimeout(k) \/ CommitAction(k) \/ CommitStop(k) \/ CommitTopUp(k)
      PROVE  StepOk
  BY <1>4, CommitOpenStep, CommitStartSingleStep, CommitJoinStep, CommitStartStep,
     CommitTimeoutStep, CommitActionStep, CommitStopStep, CommitTopUpStep
<1> QED BY <1>1, <1>2, <1>3, <1>4 DEF Next

\* At the start no session exists and no request is under way.
LEMMA InitInv == Init => SessionInv
<1> SUFFICES ASSUME Init PROVE SessionInv
  OBVIOUS
<1>1. NoRow \in Row /\ NoRow.status = "absent" /\ NoRow.position = NoPosition
  BY DEF NoRow, Row
<1>2. NoSeat \in Seat /\ NoSeat.player = NoPlayer /\ NoSeat.status = "joined" /\ NoSeat.paid = 0
  BY DEF NoSeat, Seat
<1>3. TypeOK
  BY <1>1, <1>2, IdleRequest, MoneyAssumption DEF Init, TypeOK
<1>4. OneUnfinishedPerChat
  BY <1>1 DEF Init, OneUnfinishedPerChat, Unfinished
<1>5. \A s \in Sessions : SessionOk(rows[s], seats[s], deals[s])
  BY <1>1, <1>2 DEF Init, SessionOk, SeatOk
<1>6. \A k \in Requests : RequestOk(rows, seats, requests[k])
  BY IdleRequest DEF Init
<1> QED BY <1>3, <1>4, <1>5, <1>6 DEF SessionInv

\* The inductive invariant holds in every reachable state.
THEOREM SessionInvHolds == Spec => []SessionInv
<1>1. SessionInv /\ [Next]_vars => SessionInv'
  BY NextStep, StepKeepsInv
<1> QED BY <1>1, InitInv, PTL DEF Spec

\* Every variable keeps the shape of the rows it stands for, banks stay
\* non-negative included.
THEOREM TypeCorrect == Spec => []TypeOK
<1>1. SessionInv => TypeOK
  BY DEF SessionInv
<1> QED BY <1>1, SessionInvHolds, PTL

\* A chat never has two unfinished sessions (game_sessions, model.py).
THEOREM OneSessionPerChat == Spec => []OneUnfinishedPerChat
<1>1. SessionInv => OneUnfinishedPerChat
  BY DEF SessionInv
<1> QED BY <1>1, SessionInvHolds, PTL

\* No seat is paid twice for one deal (persist_resolution, stop).
THEOREM NoSeatPaidTwice == Spec => []PaidPerDeal
<1>1. SessionInv => PaidPerDeal
  BY DEF SessionInv, SessionOk, SeatOk, PaidPerDeal
<1> QED BY <1>1, SessionInvHolds, PTL

\* A closed session leaves no dealt seat unpaid or in play.
THEOREM ClosedMeansPaid == Spec => []ClosedSeatsPaid
<1>1. SessionInv => ClosedSeatsPaid
  <2> SUFFICES ASSUME SessionInv, NEW s \in Sessions, NEW i \in Seats, rows[s].status = "closed"
               PROVE  /\ seats[s][i].status # "active"
                      /\ seats[s][i].status # "joined" => seats[s][i].paid >= 1
    BY DEF ClosedSeatsPaid
  <2>1. seats[s][i] \in Seat /\ SeatOk(seats[s][i], deals[s]) /\ seats[s][i].status # "active"
    BY OldTable DEF SessionInv, SessionOk
  <2> QED BY <2>1 DEF Seat, SeatOk
<1> QED BY <1>1, SessionInvHolds, PTL

\* A running table always has its turn on a dealt seat.
THEOREM RunningHasTurn == Spec => []TurnOnDealtSeat
<1>1. SessionInv => TurnOnDealtSeat
  BY SeatsAreNaturals DEF SessionInv, SessionOk, TurnOnDealtSeat
<1> QED BY <1>1, SessionInvHolds, PTL

\* Only a deal reopens a closed session.
THEOREM OnlyDealReopens == Spec => ReopenedOnlyByDeal
<1>1. SessionInv /\ [Next]_vars =>
        [\A s \in Sessions : rows[s].status = "closed" /\ rows'[s].status # "closed" =>
           deals'[s] > deals[s]]_vars
  <2> SUFFICES ASSUME SessionInv, StepOk, NEW s \in Sessions,
                      rows[s].status = "closed", rows'[s].status # "closed"
               PROVE  deals'[s] > deals[s]
    BY NextStep
  <2>1. CASE UNCHANGED <<rows, seats, deals>>
    BY <2>1
  <2>2. ASSUME NEW t \in Sessions, NEW row \in Row, NEW table \in Tables, NEW d \in Nat,
               Commits(t, row, table, d)
        PROVE  deals'[s] > deals[s]
    BY <2>2 DEF Commits, SessionInv, TypeOK
  <2> QED BY <2>1, <2>2 DEF StepOk, SafeStep
<1> QED BY <1>1, SessionInvHolds, PTL DEF Spec, ReopenedOnlyByDeal

\* A seat, once taken, keeps its player.
THEOREM SeatsAreKept == Spec => SeatKeepsItsPlayer
<1>1. SessionInv /\ [Next]_vars =>
        [\A s \in Sessions, i \in Seats :
           seats[s][i].player # NoPlayer => seats'[s][i].player = seats[s][i].player]_vars
  <2> SUFFICES ASSUME SessionInv, StepOk, NEW s \in Sessions, NEW i \in Seats,
                      seats[s][i].player # NoPlayer
               PROVE  seats'[s][i].player = seats[s][i].player
    BY NextStep
  <2>1. CASE UNCHANGED <<rows, seats, deals>>
    BY <2>1
  <2>2. ASSUME NEW t \in Sessions, NEW row \in Row, NEW table \in Tables, NEW d \in Nat,
               Commits(t, row, table, d)
        PROVE  seats'[s][i].player = seats[s][i].player
    BY <2>2 DEF Commits, Follows, SessionInv, TypeOK
  <2> QED BY <2>1, <2>2 DEF StepOk, SafeStep
<1> QED BY <1>1, SessionInvHolds, PTL DEF Spec, SeatKeepsItsPlayer

-----------------------------------------------------------------------------
(***************************************************************************)
(* Sums over seats.  Credit is a fold over a set in an arbitrary order;    *)
(* what a settlement adds to it needs that the order does not matter.      *)
(***************************************************************************)

\* All the seats of all the sessions, and what may have been credited to them.
Places == Sessions \X Seats
Ledgers == [Sessions -> [Seats -> Int]]

At(c, x) == c[x[1]][x[2]]

\* The sum MapThenSumSet takes, as a function of the subsets of S.
SumStep(c, g, t) == IF t = {} THEN 0
                    ELSE At(c, CHOOSE x \in t : TRUE) + g[t \ {CHOOSE x \in t : TRUE}]
Sums(c, S, g) == g = [t \in SUBSET S |-> SumStep(c, g, t)]

Total(c, S) == MapThenSumSet(LAMBDA x : c[x[1]][x[2]], S)

\* There are finitely many places.
LEMMA PlacesFinite ==
  /\ IsFiniteSet(Places)
  /\ \A S \in SUBSET Places : IsFiniteSet(S) /\ Cardinality(S) \in Nat
<1>1. IsFiniteSet(Sessions)
  BY FS_Interval, SessionsAssumption DEF Sessions
<1>2. IsFiniteSet(Seats)
  BY FS_Interval, CapacityAssumption DEF Seats
<1>3. IsFiniteSet(Places)
  BY <1>1, <1>2, FS_Product DEF Places
<1> QED BY <1>3, FS_Subset, FS_CardinalityType

\* A set without one of its members is smaller.
LEMMA WithoutOne ==
  ASSUME NEW S \in SUBSET Places, NEW x \in S
  PROVE  /\ S \ {x} \in SUBSET Places
         /\ Cardinality(S \ {x}) = Cardinality(S) - 1
  BY PlacesFinite, FS_RemoveElement

\* Among sets of places there is a smallest.
LEMMA SmallestSet ==
  ASSUME NEW B \in SUBSET (SUBSET Places), B # {}
  PROVE  \E S \in B : \A T \in B : Cardinality(S) <= Cardinality(T)
<1> DEFINE N == {Cardinality(S) : S \in B}
<1>1. N \in SUBSET Nat /\ N # {}
  BY PlacesFinite
<1>2. PICK n \in N : \A m \in N : n <= m
  <2> HIDE DEF N
  <2> QED BY <1>1, LeastExists
<1>3. PICK S \in B : n = Cardinality(S)
  OBVIOUS
<1>4. \A T \in B : Cardinality(T) \in N
  OBVIOUS
<1> QED BY <1>2, <1>3, <1>4

\* The summing function exists.
LEMMA SumExists ==
  ASSUME NEW S \in SUBSET Places, NEW c
  PROVE  \E g : Sums(c, S, g)
<1> DEFINE Small(n) == {t \in SUBSET S : Cardinality(t) <= n}
           Upto(n) == \E g : g = [t \in Small(n) |-> SumStep(c, g, t)]
           N == {n \in Nat : ~ Upto(n)}
<1>1. ASSUME NEW n \in N, \A m \in N : n <= m
      PROVE  FALSE
  <2>1. CASE n = 0
    <3>1. \A t \in Small(0) : t = {}
      BY PlacesFinite, FS_EmptySet
    <3> DEFINE g == [t \in Small(0) |-> 0]
    <3>2. \A t \in Small(0) : SumStep(c, g, t) = 0
      BY <3>1 DEF SumStep
    <3> HIDE DEF Small
    <3>3. g = [t \in Small(0) |-> SumStep(c, g, t)]
      BY <3>2
    <3> QED BY <3>3, <2>1
  <2>2. CASE n # 0
    <3>1. n - 1 \in Nat /\ n - 1 < n
      BY <2>2
    <3>2. Upto(n - 1)
      <4>1. ~ (n <= n - 1)
        BY <3>1
      <4>2. n - 1 \notin N
        <5> HIDE DEF N
        <5> QED BY <1>1, <4>1
      <4> HIDE DEF Upto
      <4> QED BY <3>1, <4>2
    <3>3. PICK g : g = [t \in Small(n - 1) |-> SumStep(c, g, t)]
      BY <3>2
    <3> DEFINE h == [t \in Small(n) |-> SumStep(c, g, t)]
    <3>4. ASSUME NEW t \in Small(n)
          PROVE  SumStep(c, g, t) = SumStep(c, h, t)
      <4>1. CASE t = {}
        BY <4>1 DEF SumStep
      <4>2. CASE t # {}
        <5> DEFINE x == CHOOSE x \in t : TRUE
                   u == t \ {x}
        <5>1. x \in t
          BY <4>2
        <5> HIDE DEF x
        <5>2. u \in SUBSET S /\ Cardinality(u) = Cardinality(t) - 1
          BY <5>1, WithoutOne
        <5>3. Cardinality(t) <= n /\ Cardinality(t) \in Nat
          BY PlacesFinite
        <5>4. u \in Small(n - 1) /\ u \in Small(n)
          BY <5>2, <5>3, <3>1
        <5> HIDE DEF Small, u
        <5>5. g[u] = SumStep(c, g, u) /\ h[u] = SumStep(c, g, u)
          BY <3>3, <5>4
        <5> QED BY <5>5, <4>2 DEF SumStep, x, u
      <4> QED BY <4>1, <4>2
    <3> HIDE DEF Small
    <3>5. h = [t \in Small(n) |-> SumStep(c, h, t)]
      BY <3>4
    <3> QED BY <3>5
  <2> QED BY <2>1, <2>2
<1>2. N = {}
  <2> HIDE DEF N
  <2>1. N \in SUBSET Nat
    BY DEF N
  <2> QED BY <1>1, <2>1, LeastExists
<1>3. Upto(Cardinality(S))
  BY <1>2, PlacesFinite
<1>4. Small(Cardinality(S)) = SUBSET S
  BY PlacesFinite, FS_Subset
<1> QED BY <1>3, <1>4 DEF Sums

\* Its sums are integers.
LEMMA SumsAreInt ==
  ASSUME NEW S \in SUBSET Places, NEW c \in Ledgers, NEW g, Sums(c, S, g)
  PROVE  \A t \in SUBSET S : g[t] \in Int
<1> DEFINE B == {t \in SUBSET S : g[t] \notin Int}
<1>1. ASSUME NEW t \in B, \A u \in B : Cardinality(t) <= Cardinality(u)
      PROVE  FALSE
  <2>1. g[t] = SumStep(c, g, t) /\ t # {}
    BY DEF Sums, SumStep
  <2> DEFINE x == CHOOSE x \in t : TRUE
  <2>2. x \in t
    BY <2>1
  <2>3. g[t] = At(c, x) + g[t \ {x}]
    BY <2>1 DEF SumStep
  <2> HIDE DEF x
  <2>4. g[t \ {x}] \in Int
    BY <1>1, <2>2, WithoutOne, PlacesFinite
  <2>5. At(c, x) \in Int
    BY <2>2 DEF At, Ledgers, Places
  <2> QED BY <2>3, <2>4, <2>5
<1>2. B = {}
  <2>1. B \in SUBSET (SUBSET Places)
    OBVIOUS
  <2> HIDE DEF B
  <2> QED BY <1>1, <2>1, SmallestSet
<1> QED BY <1>2

\* The order of the sum does not matter: any member may come off first.
LEMMA SumsTakeAny ==
  ASSUME NEW S \in SUBSET Places, NEW c \in Ledgers, NEW g, Sums(c, S, g)
  PROVE  \A t \in SUBSET S : \A x \in t : g[t] = At(c, x) + g[t \ {x}]
<1> DEFINE B == {t \in SUBSET S : \E x \in t : g[t] # At(c, x) + g[t \ {x}]}
<1>1. ASSUME NEW t \in B, \A u \in B : Cardinality(t) <= Cardinality(u)
      PROVE  FALSE
  <2>1. PICK x \in t : g[t] # At(c, x) + g[t \ {x}]
    OBVIOUS
  <2> DEFINE y == CHOOSE z \in t : TRUE
  <2>2. y \in t
    BY <2>1
  <2>3. g[t] = At(c, y) + g[t \ {y}]
    BY <2>1 DEF Sums, SumStep
  <2> HIDE DEF y
  <2>4. x # y
    BY <2>1, <2>3
  <2>5. t \ {x} \notin B /\ t \ {y} \notin B
    <3>1. /\ Cardinality(t \ {x}) = Cardinality(t) - 1
          /\ Cardinality(t \ {y}) = Cardinality(t) - 1
      BY <2>1, <2>2, WithoutOne
    <3>2. Cardinality(t) \in Nat
      BY PlacesFinite
    <3> HIDE DEF B
    <3> QED BY <1>1, <3>1, <3>2
  <2>6. g[t \ {x}] = At(c, y) + g[(t \ {x}) \ {y}]
    BY <2>2, <2>4, <2>5
  <2>7. g[t \ {y}] = At(c, x) + g[(t \ {y}) \ {x}]
    BY <2>1, <2>4, <2>5
  <2>8. (t \ {x}) \ {y} = (t \ {y}) \ {x}
    OBVIOUS
  <2>9. At(c, x) \in Int /\ At(c, y) \in Int
    BY <2>1, <2>2 DEF At, Ledgers, Places
  <2>10. g[(t \ {y}) \ {x}] \in Int
    <3>1. (t \ {y}) \ {x} \in SUBSET S
      OBVIOUS
    <3> HIDE DEF B
    <3> QED BY <3>1, SumsAreInt
  <2> DEFINE a == At(c, x)
             b == At(c, y)
             rest == g[(t \ {y}) \ {x}]
  <2>11. a \in Int /\ b \in Int /\ rest \in Int
    BY <2>9, <2>10
  <2>12. g[t \ {x}] = b + rest /\ g[t] = b + (a + rest) /\ g[t] # a + g[t \ {x}]
    BY <2>1, <2>3, <2>6, <2>7, <2>8
  <2> HIDE DEF a, b, rest, B
  <2> QED BY <2>11, <2>12
<1>2. B = {}
  <2>1. B \in SUBSET (SUBSET Places)
    OBVIOUS
  <2> HIDE DEF B
  <2> QED BY <1>1, <2>1, SmallestSet
<1> QED BY <1>2

\* Two sums over what they agree on are the same.
LEMMA SumsAgree ==
  ASSUME NEW S \in SUBSET Places, NEW T \in SUBSET Places, NEW c, NEW d, NEW g, NEW h,
         Sums(c, S, g), Sums(d, T, h),
         NEW U \in SUBSET (S \cap T), \A x \in U : At(c, x) = At(d, x)
  PROVE  g[U] = h[U]
<1> DEFINE B == {t \in SUBSET U : g[t] # h[t]}
<1>1. ASSUME NEW t \in B, \A u \in B : Cardinality(t) <= Cardinality(u)
      PROVE  FALSE
  <2>1. g[t] = SumStep(c, g, t) /\ h[t] = SumStep(d, h, t)
    BY DEF Sums
  <2>2. t # {}
    BY <2>1 DEF SumStep
  <2> DEFINE y == CHOOSE z \in t : TRUE
  <2>3. y \in t
    BY <2>2
  <2>4. g[t] = At(c, y) + g[t \ {y}] /\ h[t] = At(d, y) + h[t \ {y}]
    BY <2>1, <2>2 DEF SumStep
  <2> HIDE DEF y
  <2>5. g[t \ {y}] = h[t \ {y}]
    BY <1>1, <2>3, WithoutOne, PlacesFinite
  <2> QED BY <2>3, <2>4, <2>5
<1>2. B = {}
  <2>1. B \in SUBSET (SUBSET Places)
    OBVIOUS
  <2> HIDE DEF B
  <2> QED BY <1>1, <2>1, SmallestSet
<1> QED BY <1>2

\* Total is such a sum.
LEMMA TotalSums ==
  ASSUME NEW S \in SUBSET Places, NEW c
  PROVE  \E g : Sums(c, S, g) /\ Total(c, S) = g[S]
<1> DEFINE f == CHOOSE g : Sums(c, S, g)
<1>1. Sums(c, S, f)
  BY SumExists
<1>2. Total(c, S) = f[S]
  BY DEF Total, MapThenSumSet, MapThenFoldSet, Sums, SumStep, At
<1> QED BY <1>1, <1>2

\* Three facts of the total that need no function.
LEMMA TotalFacts ==
  ASSUME NEW S \in SUBSET Places, NEW c \in Ledgers
  PROVE  /\ Total(c, S) \in Int
         /\ \A x \in S : Total(c, S) = At(c, x) + Total(c, S \ {x})
         /\ \A d \in Ledgers : (\A x \in S : At(c, x) = At(d, x)) => Total(c, S) = Total(d, S)
<1>1. PICK g : Sums(c, S, g) /\ Total(c, S) = g[S]
  BY TotalSums
<1>2. Total(c, S) \in Int
  BY <1>1, SumsAreInt
<1>3. ASSUME NEW x \in S
      PROVE  Total(c, S) = At(c, x) + Total(c, S \ {x})
  <2> DEFINE T == S \ {x}
  <2>1. T \in SUBSET Places /\ T \in SUBSET (S \cap T)
    OBVIOUS
  <2> HIDE DEF T
  <2>2. PICK h : Sums(c, T, h) /\ Total(c, T) = h[T]
    BY <2>1, TotalSums
  <2>3. g[T] = h[T]
    BY <1>1, <2>1, <2>2, SumsAgree
  <2>4. g[S] = At(c, x) + g[T]
    BY <1>1, SumsTakeAny DEF T
  <2> QED BY <1>1, <2>2, <2>3, <2>4 DEF T
<1>4. ASSUME NEW d \in Ledgers, \A x \in S : At(c, x) = At(d, x)
      PROVE  Total(c, S) = Total(d, S)
  <2>1. PICK h : Sums(d, S, h) /\ Total(d, S) = h[S]
    BY TotalSums
  <2>2. S \in SUBSET (S \cap S)
    OBVIOUS
  <2> QED BY <1>1, <1>4, <2>1, <2>2, SumsAgree
<1> QED BY <1>2, <1>3, <1>4

\* Places with no credit add nothing.
LEMMA TotalOfZeros ==
  ASSUME NEW c \in Ledgers, NEW S \in SUBSET Places, NEW T \in SUBSET Places, S \subseteq T,
         \A x \in T \ S : At(c, x) = 0
  PROVE  Total(c, T) = Total(c, S)
<1> DEFINE B == {U \in SUBSET T : S \subseteq U /\ Total(c, U) # Total(c, S)}
<1>1. ASSUME NEW U \in B, \A V \in B : Cardinality(U) <= Cardinality(V)
      PROVE  FALSE
  <2>1. PICK x \in U : x \notin S
    OBVIOUS
  <2>2. Total(c, U) = At(c, x) + Total(c, U \ {x})
    BY TotalFacts
  <2>3. At(c, x) = 0 /\ Total(c, U \ {x}) \in Int
    BY <2>1, TotalFacts
  <2>4. Total(c, U \ {x}) = Total(c, U)
    BY <2>2, <2>3
  <2>5. U \ {x} \in B
    BY <2>1, <2>4
  <2>6. Cardinality(U \ {x}) = Cardinality(U) - 1 /\ Cardinality(U) \in Nat
    BY WithoutOne, PlacesFinite
  <2> HIDE DEF B
  <2> QED BY <1>1, <2>5, <2>6
<1>2. B = {}
  <2>1. B \in SUBSET (SUBSET Places)
    OBVIOUS
  <2> HIDE DEF B
  <2> QED BY <1>1, <2>1, SmallestSet
<1> QED BY <1>2

-----------------------------------------------------------------------------
(***************************************************************************)
(* What a step may do to the money: nothing, a top-up of one player, or a  *)
(* settlement that pays seats of one session, each with its player on it.  *)
(***************************************************************************)

Paying(due, leaver) == due \cup ({leaver} \ {NoPosition})

Pays(s, table, due, leaver) ==
  /\ PayOut(s, table, due, leaver)
  /\ \A i \in Seats : seats'[s][i].player = table[i].player
  /\ Paying(due, leaver) \subseteq Taken(table)

TopsUp(p) ==
  /\ UNCHANGED <<seats, credited>>
  /\ toppedUp' = toppedUp \cup {p}
  /\ \A q \in Players \ {p} : bank'[q] = bank[q]

MoneyStep ==
  \/ UNCHANGED money
  \/ \E p \in Players : TopsUp(p)
  \/ \E s \in Sessions, table \in Tables : \E due, leaver : Pays(s, table, due, leaver)

\* Closing a round pays the active seats and the leaver.
LEMMA CloseRoundPays ==
  ASSUME TypeOK, NEW s \in Sessions, NEW row, NEW table \in Tables, NEW leaver,
         leaver = NoPosition \/ leaver \in Taken(table), CloseRound(s, row, table, leaver)
  PROVE  MoneyStep
<1> DEFINE table2 == [i \in Seats |-> IF i \in DueSeats(table)
                                      THEN [table[i] EXCEPT !.status = "settled", !.paid = @ + 1]
                                      ELSE table[i]]
<1>1. PayOut(s, table, DueSeats(table), leaver) /\ seats' = [seats EXCEPT ![s] = table2]
  BY DEF CloseRound, Write
<1>2. \A i \in Seats : table2[i].player = table[i].player
  BY DEF Tables, Seat
<1> HIDE DEF table2
<1>3. \A i \in Seats : seats'[s][i].player = table[i].player
  BY <1>1, <1>2 DEF TypeOK
<1>4. Paying(DueSeats(table), leaver) \subseteq Taken(table)
  BY DEF Paying, DueSeats, ActiveSeats
<1>5. Pays(s, table, DueSeats(table), leaver)
  BY <1>1, <1>3, <1>4 DEF Pays
<1> QED BY <1>5 DEF MoneyStep

\* A turn passed on moves no money, and the last one closes the round.
LEMMA PassTurnPays ==
  ASSUME TypeOK, NEW s \in Sessions, NEW row, NEW table \in Tables, NEW after,
         PassTurn(s, row, table, after)
  PROVE  MoneyStep
<1>1. CloseRound(s, row, table, NoPosition) \/ UNCHANGED money
  BY DEF PassTurn
<1> QED BY <1>1, CloseRoundPays DEF MoneyStep

\* A deal pays when nobody can play.
LEMMA DealPays ==
  ASSUME TypeOK, NEW s \in Sessions, NEW row, NEW table \in Tables, Deal(s, row, table)
  PROVE  MoneyStep
<1>1. PICK open \in [Taken(table) -> BOOLEAN] :
        PassTurn(s, row,
          [i \in Seats |-> IF i \in Taken(table)
                           THEN [table[i] EXCEPT !.status = "active", !.open = open[i]]
                           ELSE table[i]],
          NoPosition)
  BY Zenon DEF Deal
<1> DEFINE dealt == [i \in Seats |-> IF i \in Taken(table)
                                     THEN [table[i] EXCEPT !.status = "active", !.open = open[i]]
                                     ELSE table[i]]
<1>2. dealt \in Tables
  <2>1. \A i \in Seats : dealt[i] \in Seat
    <3> SUFFICES ASSUME NEW i \in Seats PROVE dealt[i] \in Seat
      OBVIOUS
    <3>1. table[i] \in Seat
      BY DEF Tables
    <3>2. i \in Taken(table) => open[i] \in BOOLEAN
      OBVIOUS
    <3> QED BY <3>1, <3>2 DEF Seat
  <2> HIDE DEF dealt
  <2>2. dealt = [i \in Seats |-> dealt[i]]
    BY DEF dealt
  <2> QED BY <2>1, <2>2 DEF Tables
<1>3. PassTurn(s, row, dealt, NoPosition)
  BY <1>1
<1> HIDE DEF dealt
<1> QED BY <1>2, <1>3, PassTurnPays

\* The table of a move is the old one with the hand of the mover.
LEMMA CommitActionPays ==
  ASSUME SessionInv, NEW k \in Requests, CommitAction(k)
  PROVE  MoneyStep
<1> DEFINE r == requests[k]
           s == r.session
           i == SeatOf(seats[s], r.player)
<1>1. TypeOK /\ r \in Request /\ RequestOk(rows, seats, r) /\ r.kind = "action"
  BY DEF SessionInv, TypeOK, CommitAction
<1>2. \/ UNCHANGED money
      \/ \E open \in BOOLEAN :
           PassTurn(s, SeenRow(r, 1), [seats[s] EXCEPT ![i].open = open], i)
  BY Zenon DEF CommitAction
<1>3. s \in Sessions
  BY <1>1 DEF RequestOk, OnTableKinds
<1> HIDE DEF s, i, r
<1>4. seats[s] \in Tables
  BY <1>3, OldTable
<1>5. ASSUME NEW open \in BOOLEAN
      PROVE  [seats[s] EXCEPT ![i].open = open] \in Tables
  BY <1>4 DEF Tables, Seat
<1> QED BY <1>1, <1>2, <1>3, <1>5, PassTurnPays DEF MoneyStep

\* A player who stops is paid at the seat left.
LEMMA CommitStopPays ==
  ASSUME SessionInv, NEW k \in Requests, CommitStop(k)
  PROVE  MoneyStep
<1> DEFINE r == requests[k]
           s == r.session
           i == SeatOf(seats[s], r.player)
           table == [seats[s] EXCEPT ![i] = Left(@)]
<1>1. TypeOK /\ r \in Request /\ RequestOk(rows, seats, r) /\ r.kind = "stop"
  BY DEF SessionInv, TypeOK, CommitStop
<1>2. \/ CloseRound(s, SeenRow(r, 2), table, i)
      \/ PayOut(s, table, {}, i) /\ \E row : Write(s, row, table)
  BY Zenon DEF CommitStop
<1>3. s \in Sessions /\ r.player \in Players /\ \E j \in Seats : seats[s][j].player = r.player
  BY <1>1 DEF RequestOk, OnTableKinds
<1>4. seats[s] \in Tables
  BY <1>3, OldTable
<1> HIDE DEF s, r
<1>5. i \in Seats /\ seats[s][i].player = r.player
  BY <1>3, <1>4, SeatOfMember
<1> HIDE DEF i
<1>6. Left(seats[s][i]) \in Seat /\ Left(seats[s][i]).player = r.player
  <2> DEFINE seat == seats[s][i]
  <2>1. seat \in Seat /\ seat.player = r.player
    BY <1>4, <1>5 DEF Tables
  <2> HIDE DEF seat
  <2>2. seat.paid + 1 \in Nat
    BY <2>1 DEF Seat
  <2>3. Left(seat) \in Seat /\ Left(seat).player = r.player
    BY <2>1, <2>2 DEF Left, Seat
  <2> QED BY <2>3 DEF seat
<1>7. table \in Tables /\ i \in Taken(table)
  BY <1>3, <1>4, <1>5, <1>6, NoneAssumption DEF Tables, Taken
<1> HIDE DEF table
<1>8. CASE CloseRound(s, SeenRow(r, 2), table, i)
  BY <1>1, <1>3, <1>7, <1>8, CloseRoundPays
<1>9. ASSUME NEW row, PayOut(s, table, {}, i), Write(s, row, table)
      PROVE  MoneyStep
  <2>1. \A j \in Seats : seats'[s][j].player = table[j].player
    BY <1>1, <1>3, <1>9 DEF Write, TypeOK
  <2>2. Paying({}, i) \subseteq Taken(table)
    BY <1>7 DEF Paying
  <2>3. Pays(s, table, {}, i)
    BY <1>9, <2>1, <2>2 DEF Pays
  <2> QED BY <1>3, <1>7, <2>3 DEF MoneyStep
<1> QED BY <1>2, <1>8, <1>9

\* Every step of the service moves money in one of these ways.
LEMMA NextMoney ==
  ASSUME SessionInv, [Next]_vars
  PROVE  MoneyStep
<1>1. ASSUME NEW k \in Requests, CommitStartSingle(k)
      PROVE  MoneyStep
  <2> DEFINE r == requests[k]
  <2>1. TypeOK /\ r \in Request /\ RequestOk(rows, seats, r) /\ r.kind = "start_single"
    BY <1>1 DEF SessionInv, TypeOK, CommitStartSingle
  <2>2. \E row : NewSession # NoSession /\ Deal(NewSession, row, NewTable(r.player))
    BY <1>1 DEF CommitStartSingle
  <2>3. r.player \in Players
    BY <2>1 DEF RequestOk
  <2> HIDE DEF r
  <2> QED BY <2>1, <2>2, <2>3, NewSessionAbsent, DealPays
<1>2. ASSUME NEW k \in Requests, CommitStart(k) \/ CommitTimeout(k)
      PROVE  MoneyStep
  <2> DEFINE r == requests[k]
  <2>1. TypeOK /\ r \in Request /\ RequestOk(rows, seats, r) /\ r.kind \in {"start", "timeout"}
    BY <1>2 DEF SessionInv, TypeOK, CommitStart, CommitTimeout
  <2>2. \/ Deal(r.session, SeenRow(r, 1), seats[r.session])
        \/ PassTurn(r.session, SeenRow(r, 1), seats[r.session], r.position)
    BY <1>2 DEF CommitStart, CommitTimeout
  <2>3. r.session \in Sessions
    BY <2>1 DEF RequestOk, OnTableKinds
  <2> HIDE DEF r
  <2> QED BY <2>1, <2>2, <2>3, OldTable, DealPays, PassTurnPays
<1>3. ASSUME NEW k \in Requests, CommitTopUp(k)
      PROVE  MoneyStep
  <2> DEFINE r == requests[k]
  <2>1. TypeOK /\ r \in Request /\ RequestOk(rows, seats, r) /\ r.kind = "topup"
    BY <1>3 DEF SessionInv, TypeOK, CommitTopUp
  <2>2. /\ bank' = [bank EXCEPT ![r.player] = r.bank + TopUp]
        /\ toppedUp' = toppedUp \cup {r.player} /\ UNCHANGED <<seats, credited>>
    BY <1>3 DEF CommitTopUp
  <2>3. r.player \in Players
    BY <2>1 DEF RequestOk
  <2> HIDE DEF r
  <2>4. TopsUp(r.player)
    BY <2>1, <2>2 DEF TopsUp, TypeOK
  <2> QED BY <2>3, <2>4 DEF MoneyStep
<1>4. \/ UNCHANGED money
      \/ \E k \in Requests : \/ CommitStartSingle(k) \/ CommitStart(k) \/ CommitTimeout(k)
                             \/ CommitAction(k) \/ CommitStop(k) \/ CommitTopUp(k)
  BY DEF Next, vars, LookOpen, LookJoin, ChoosePlace, LookStart, LookTimeout, LookAction,
     LookStop, LookTopUp, Abandon, Reads, Goes, Ban, CommitOpen, CommitJoin, money
<1> QED BY <1>1, <1>2, <1>3, <1>4, CommitActionPays, CommitStopPays DEF MoneyStep

-----------------------------------------------------------------------------
(* Banks add up.                                                           *)

\* The places of a player.
PlacesOf(p) == {x \in Places : seats[x[1]][x[2]].player = p}

\* No credit lies at an empty seat, so a player who sits down brings none.
NoStrayCredit ==
  \A s \in Sessions, i \in Seats : seats[s][i].player = NoPlayer => credited[s][i] = 0

MoneyInv == NoStrayCredit /\ BankExplained

\* Credit is the total of what was credited at the places of the player.
LEMMA CreditIsTotal ==
  /\ \A p : Credit(p) = Total(credited, PlacesOf(p))
  /\ \A p : Credit(p)' = Total(credited', PlacesOf(p)')
  BY DEF Credit, Total, PlacesOf, Places, MapThenSumSet, MapThenFoldSet

\* Who sits stays seated, and who sat twice keeps both seats.
LEMMA PlayersStay ==
  ASSUME SessionInv, StepOk
  PROVE  /\ \A s \in Sessions, i \in Seats : seats[s][i].player # NoPlayer =>
              seats'[s][i].player = seats[s][i].player
         /\ \A p \in Players : SatTwice(p) => SatTwice(p)'
<1>1. ASSUME NEW s \in Sessions, NEW i \in Seats, seats[s][i].player # NoPlayer
      PROVE  seats'[s][i].player = seats[s][i].player
  <2>1. CASE UNCHANGED <<rows, seats, deals>>
    BY <2>1
  <2>2. ASSUME NEW t \in Sessions, NEW row \in Row, NEW table \in Tables, NEW d \in Nat,
               Commits(t, row, table, d)
        PROVE  seats'[s][i].player = seats[s][i].player
    BY <1>1, <2>2 DEF Commits, Follows, SessionInv, TypeOK
  <2> QED BY <2>1, <2>2 DEF StepOk, SafeStep
<1> QED BY <1>1, NoneAssumption DEF SatTwice

\* The seats a player takes bring no credit.
LEMMA CreditBefore ==
  ASSUME SessionInv, NoStrayCredit, StepOk, NEW p \in Players
  PROVE  /\ credited \in Ledgers /\ credited' \in Ledgers
         /\ PlacesOf(p)' \in SUBSET Places
         /\ Total(credited, PlacesOf(p)') = Credit(p)
<1>1. credited \in Ledgers /\ credited' \in Ledgers
  BY DEF SessionInv, TypeOK, StepOk, MoneyOk, Ledgers
<1>2. PlacesOf(p) \in SUBSET Places /\ PlacesOf(p)' \in SUBSET Places
  BY DEF PlacesOf
<1>3. PlacesOf(p) \subseteq PlacesOf(p)'
  BY PlayersStay, NoneAssumption DEF PlacesOf, Places
<1>4. ASSUME NEW x \in PlacesOf(p)' \ PlacesOf(p)
      PROVE  At(credited, x) = 0
  <2>1. x[1] \in Sessions /\ x[2] \in Seats
        /\ seats'[x[1]][x[2]].player = p /\ seats[x[1]][x[2]].player # p
    BY <1>4 DEF PlacesOf, Places
  <2>2. seats[x[1]][x[2]].player = NoPlayer
    BY <2>1, PlayersStay
  <2> QED BY <2>1, <2>2 DEF NoStrayCredit, At
<1>5. Total(credited, PlacesOf(p)') = Total(credited, PlacesOf(p))
  BY <1>1, <1>2, <1>3, <1>4, TotalOfZeros
<1> QED BY <1>1, <1>2, <1>5, CreditIsTotal

\* A settlement that pays a player at one seat adds the same to bank and credit.
LEMMA PaysExplained ==
  ASSUME SessionInv, MoneyInv, StepOk, NEW s \in Sessions, NEW table \in Tables,
         NEW due, NEW leaver, Pays(s, table, due, leaver)
  PROVE  MoneyInv'
<1> DEFINE paid == Paying(due, leaver)
           Own(p) == {i \in paid : table[i].player = p}
<1>1. PICK delta \in [paid -> Deltas] :
        /\ bank' = [p \in Players |->
                      IF Own(p) = {} THEN bank[p]
                      ELSE LoadedBank(p) + delta[LastWritten(Own(p), leaver)]]
        /\ credited' = [credited EXCEPT ![s] =
                          [i \in Seats |-> IF i \in paid THEN @[i] + delta[i] ELSE @[i]]]
        /\ UNCHANGED toppedUp
  BY Zenon DEF Pays, PayOut, Paying
<1>2. /\ paid \subseteq Seats /\ \A i \in paid : table[i].player # NoPlayer
      /\ \A i \in Seats : seats'[s][i].player = table[i].player
  BY DEF Pays, Taken
<1>3. \A i \in paid : delta[i] \in Int
  BY MoneyAssumption
<1> HIDE DEF paid
<1>4. credited \in Ledgers /\ credited' \in Ledgers
  BY DEF SessionInv, TypeOK, StepOk, MoneyOk, Ledgers
<1>5. \A x \in Places : At(credited', x) = IF x[1] = s /\ x[2] \in paid
                                           THEN At(credited, x) + delta[x[2]]
                                           ELSE At(credited, x)
  BY <1>1, <1>4 DEF At, Places, Ledgers
<1>6. NoStrayCredit'
  <2> SUFFICES ASSUME NEW t \in Sessions, NEW i \in Seats, seats'[t][i].player = NoPlayer
               PROVE  credited'[t][i] = 0
    BY DEF NoStrayCredit
  <2>1. seats[t][i].player = NoPlayer
    BY PlayersStay
  <2>2. credited[t][i] = 0
    BY <2>1 DEF MoneyInv, NoStrayCredit
  <2>3. ~ (t = s /\ i \in paid)
    BY <1>2
  <2> QED BY <1>1, <1>4, <2>2, <2>3 DEF Ledgers
<1>7. ASSUME NEW p \in Players, p \notin toppedUp', ~ SatTwice(p)'
      PROVE  bank'[p] = StartBank + Credit(p)'
  <2>1. bank[p] = StartBank + Credit(p) /\ bank[p] \in Int
    BY <1>1, <1>7, PlayersStay DEF MoneyInv, BankExplained, SessionInv, TypeOK
  <2>2. \A x \in PlacesOf(p)' : x \in Places /\ seats'[x[1]][x[2]].player = p
    BY DEF PlacesOf
  <2>3. CASE Own(p) = {}
    <3>1. \A x \in PlacesOf(p)' : ~ (x[1] = s /\ x[2] \in paid)
      BY <1>2, <2>2, <2>3
    <3>2. \A x \in PlacesOf(p)' : At(credited', x) = At(credited, x)
      BY <1>5, <2>2, <3>1
    <3>3. bank'[p] = bank[p]
      BY <1>1, <2>3
    <3>4. Total(credited', PlacesOf(p)') = Total(credited, PlacesOf(p)')
      BY <1>4, <3>2, CreditBefore, TotalFacts DEF MoneyInv
    <3> QED BY <2>1, <3>3, <3>4, CreditBefore, CreditIsTotal DEF MoneyInv
  <2>4. CASE Own(p) # {}
    <3>1. PICK i \in paid : table[i].player = p
      BY <2>4
    <3>2. \A j \in Own(p) : j = i
      BY <1>2, <1>7, <3>1 DEF SatTwice
    <3>3. LastWritten(Own(p), leaver) = i
      <4>1. Own(p) \in SUBSET Seats
        BY <1>2
      <4> HIDE DEF Own
      <4> QED BY <2>4, <3>2, <4>1, LastWrittenMember
    <3>4. bank'[p] = bank[p] + delta[i]
      BY <1>1, <2>4, <3>3 DEF LoadedBank
    <3> DEFINE x == <<s, i>>
               all == PlacesOf(p)'
               others == all \ {x}
    <3>5. x \in all /\ At(credited', x) = At(credited, x) + delta[i]
          /\ At(credited, x) \in Int /\ delta[i] \in Int
      BY <1>2, <1>3, <1>4, <1>5, <3>1 DEF PlacesOf, Places, At, Ledgers
    <3>6. \A y \in others : At(credited', y) = At(credited, y)
      <4> SUFFICES ASSUME NEW y \in others PROVE ~ (y[1] = s /\ y[2] \in paid)
        BY <1>5, <2>2
      <4>1. y = <<y[1], y[2]>>
        BY <2>2 DEF Places
      <4> QED BY <1>2, <2>2, <3>2, <4>1
    <3>7. all \in SUBSET Places /\ others \in SUBSET Places /\ Total(credited, all) = Credit(p)
      BY CreditBefore DEF MoneyInv
    <3> HIDE DEF all
    <3>8. Total(credited', others) = Total(credited, others) /\ Total(credited, others) \in Int
      BY <1>4, <3>6, <3>7, TotalFacts
    <3>9. /\ Total(credited', all) = At(credited', x) + Total(credited', others)
          /\ Total(credited, all) = At(credited, x) + Total(credited, others)
      BY <1>4, <3>5, <3>7, TotalFacts
    <3>10. Credit(p)' = Total(credited', all)
      BY CreditIsTotal DEF all
    <3> HIDE DEF x, others
    <3>11. Credit(p)' = Credit(p) + delta[i]
      BY <3>5, <3>7, <3>8, <3>9, <3>10
    <3>12. Credit(p) \in Int
      BY <1>4, <3>7, TotalFacts
    <3> QED BY <2>1, <3>4, <3>5, <3>11, <3>12, MoneyAssumption
  <2> QED BY <2>3, <2>4
<1> QED BY <1>6, <1>7 DEF MoneyInv, BankExplained

\* Every step keeps the books.
LEMMA MoneyStepExplained ==
  ASSUME SessionInv, MoneyInv, StepOk, MoneyStep
  PROVE  MoneyInv'
<1>1. ASSUME UNCHANGED credited
      PROVE  NoStrayCredit' /\ \A p \in Players : Credit(p)' = Credit(p)
  <2>1. NoStrayCredit'
    BY <1>1, PlayersStay DEF MoneyInv, NoStrayCredit
  <2>2. \A p \in Players : Credit(p)' = Credit(p)
    BY <1>1, CreditBefore, CreditIsTotal DEF MoneyInv
  <2> QED BY <2>1, <2>2
<1>2. CASE UNCHANGED money
  BY <1>1, <1>2, PlayersStay DEF MoneyInv, BankExplained, money
<1>3. ASSUME NEW p \in Players, TopsUp(p)
      PROVE  MoneyInv'
  BY <1>1, <1>3, PlayersStay DEF MoneyInv, BankExplained, TopsUp
<1> QED BY <1>2, <1>3, PaysExplained DEF MoneyStep

(***************************************************************************)
(* The bank of a player nobody topped up, who never sat twice at a table,  *)
(* is what the settlements of all the tables add up to                     *)
(* (load_context with locked banks, persist_resolution, stop).             *)
(***************************************************************************)
THEOREM BanksAddUp == Spec => []BankExplained
<1>1. Init => MoneyInv
  <2> SUFFICES ASSUME Init PROVE MoneyInv
    OBVIOUS
  <2>1. NoStrayCredit /\ credited \in Ledgers /\ \A x \in Places : At(credited, x) = 0
    BY DEF Init, NoStrayCredit, Ledgers, At, Places
  <2>2. ASSUME NEW p \in Players
        PROVE  Credit(p) = 0
    <3>1. {} \in SUBSET Places /\ PlacesOf(p) = {}
      BY NoneAssumption DEF Init, PlacesOf, Places, NoSeat
    <3>2. PICK g : Sums(credited, {}, g) /\ Total(credited, {}) = g[{}]
      BY <3>1, TotalSums
    <3>3. g[{}] = 0
      BY <3>2 DEF Sums, SumStep
    <3> QED BY <3>1, <3>2, <3>3, CreditIsTotal
  <2> QED BY <2>1, <2>2, MoneyAssumption DEF Init, MoneyInv, BankExplained
<1>2. SessionInv /\ MoneyInv /\ [Next]_vars => MoneyInv'
  BY NextStep, NextMoney, MoneyStepExplained
<1>3. MoneyInv => BankExplained
  BY DEF MoneyInv
<1> QED BY <1>1, <1>2, <1>3, SessionInvHolds, PTL DEF Spec
=============================================================================
