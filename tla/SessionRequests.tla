--------------------------- MODULE SessionRequests ---------------------------
(***************************************************************************)
(* Requests of several clients to the game service at the same time.       *)
(*                                                                         *)
(* Every bot operation reads the session, its seats and the player first,  *)
(* without a lock, and writes later.  An operation on a running table      *)
(* then locks the session's rows and reads them again (load_context), but  *)
(* the ORM keeps the attributes it already holds of the game_sessions row: *)
(* seats, hands and banks are fresh under the lock, the status, the turn   *)
(* version and the position are those of the first read.  So a request     *)
(* here is two or three steps, its reads (Look...) and its commit          *)
(* (Commit...), and anything may happen between them.  A commit that       *)
(* breaks a constraint of the database is not a step; Abandon is the       *)
(* request that answers with an error and leaves nothing behind.           *)
(*                                                                         *)
(* A round is abstracted from module BlackjackRound: a hand is open while  *)
(* it can act, nobody splits or insures, and a settlement credits a seat   *)
(* with any of Deltas.                                                     *)
(***************************************************************************)
EXTENDS Integers, FiniteSetsExt

CONSTANTS
  Players,      \* the players of the bot
  GroupChats,   \* chats with a lobby
  SingleChats,  \* private chats
  Requests,     \* how many requests the service handles at a time
  MaxSessions,  \* bound: sessions ever created
  Capacity,     \* count_players of a group lobby
  StartBank,    \* the bank of a new player
  Bet,          \* every stake
  Deltas,       \* what the settlement of a seat may credit
  TopUp,        \* the amount of an administrator's top-up
  MaxVersion,   \* bound: no request on a table whose version reached it
  MaxBans,      \* bound: players ever banned
  MaxTopUps,    \* bound: players ever topped up, once each
  NoPlayer, NoChat

ASSUME ChatsAssumption == GroupChats \cap SingleChats = {}
ASSUME SessionsAssumption == MaxSessions \in Nat /\ MaxVersion \in Nat
ASSUME CapacityAssumption == Capacity \in 1..8  \* ck_player_position_range
ASSUME MoneyAssumption ==
  StartBank \in Nat /\ Bet \in Nat \ {0} /\ TopUp \in Nat \ {0} /\ Deltas \subseteq Int
ASSUME NoneAssumption == NoPlayer \notin Players /\ NoChat \notin GroupChats \cup SingleChats

Chats == GroupChats \cup SingleChats
Sessions == 1..MaxSessions
Seats == 1..Capacity
NoSession == 0
NoPosition == 0

\* A row of game_sessions; status "absent" stands for an id not given out yet.
Row == [chat     : Chats \cup {NoChat},
        status   : {"absent", "lobby_open", "in_progress", "closed"},
        version  : Nat,
        position : Seats \cup {NoPosition}]

\* A row of player_to_session with its hand: open while the hand can act.
\* paid counts the "result" records of the seat.
Seat == [player : Players \cup {NoPlayer},
         status : {"joined", "active", "inactive", "settled"},
         open   : BOOLEAN,
         paid   : Nat]

\* A request under way with what it has read; place is a seat a join has chosen.
Request == [kind     : {"idle", "open", "start_single", "join", "start", "action",
                        "timeout", "stop", "topup"},
            player   : Players \cup {NoPlayer},
            chat     : Chats \cup {NoChat},
            session  : Sessions \cup {NoSession},
            version  : Nat,
            position : Seats \cup {NoPosition},
            place    : Nat,
            bank     : Nat]

NoRow == [chat |-> NoChat, status |-> "absent", version |-> 0, position |-> NoPosition]
NoSeat == [player |-> NoPlayer, status |-> "joined", open |-> FALSE, paid |-> 0]
Idle == [kind |-> "idle", player |-> NoPlayer, chat |-> NoChat, session |-> NoSession,
         version |-> 0, position |-> NoPosition, place |-> 0, bank |-> 0]

VARIABLES
  rows,      \* game_sessions
  seats,     \* player_to_session and player_hands, by session and position
  bank,      \* players.bank
  banned,    \* the players with is_banned
  requests,  \* the requests under way
  deals,     \* history, not in the code: committed deals of each session
  credited,  \* history, not in the code: what settlements credited to each seat
  toppedUp   \* history, not in the code: players an administrator topped up

money == <<bank, credited, toppedUp>>
vars == <<rows, seats, banned, requests, deals, money>>

-----------------------------------------------------------------------------
(* Reads.                                                                  *)

Unfinished(s) == rows[s].status \in {"lobby_open", "in_progress"}

UnfinishedOf(c) == {s \in Sessions : rows[s].chat = c /\ Unfinished(s)}

Taken(table) == {i \in Seats : table[i].player # NoPlayer}

\* _ensure_player_has_no_unfinished_session looks for one.
Busy(p) == \E s \in Sessions : Unfinished(s) /\ \E i \in Seats : seats[s][i].player = p

Least(S) == IF S = {} THEN NoPosition ELSE CHOOSE i \in S : \A j \in S : i <= j

\* _get_machine_player_by_telegram_id: the first seat of the player.
SeatOf(table, p) == Least({i \in Seats : table[i].player = p})

ActiveSeats(table) == {i \in Taken(table) : table[i].status = "active"}

\* next_playable_position, and first_playable_position from NoPosition.
NextPlayable(table, after) == Least({i \in ActiveSeats(table) : i > after /\ table[i].open})

-----------------------------------------------------------------------------
(* Writes.                                                                 *)

IndexDropped(s, row) == TRUE

\* uq_unfinished_session_per_deck
IndexAllows(s, row) == row.status = "closed" \/ UnfinishedOf(row.chat) \subseteq {s}

Write(s, row, table) ==
  /\ IndexAllows(s, row)
  /\ rows' = [rows EXCEPT ![s] = row]
  /\ seats' = [seats EXCEPT ![s] = table]

SeenRowOffTurn(r, bumps) ==
  [chat |-> rows[r.session].chat, status |-> "in_progress",
   version |-> r.version + bumps, position |-> NoPosition]

\* The whole row is written, from the version and the position first read.
SeenRow(r, bumps) ==
  [chat |-> rows[r.session].chat, status |-> "in_progress",
   version |-> r.version + bumps, position |-> r.position]

BankUnchecked(amount) == TRUE

\* ck_players_bank_non_negative
BankAllows(amount) == amount >= 0

BankFirstRead(p) == StartBank

\* The bank a seat is loaded with, under the lock.
LoadedBank(p) == bank[p]

(***************************************************************************)
(* Every paid seat writes the bank that was loaded with it plus its own    *)
(* delta: of two seats of one player the last one written decides.  The    *)
(* seat that leaves is written before those the dealer settles.            *)
(***************************************************************************)
LastWritten(own, leaver) == IF own \subseteq {leaver} THEN leaver ELSE Max(own \ {leaver})

PayOut(s, table, due, leaver) ==
  LET paid == due \cup ({leaver} \ {NoPosition})
      Own(p) == {i \in paid : table[i].player = p}
  IN \E delta \in [paid -> Deltas] :
       /\ \A i \in paid : BankAllows(LoadedBank(table[i].player) + delta[i])
       /\ bank' = [p \in Players |->
                     IF Own(p) = {} THEN bank[p]
                     ELSE LoadedBank(p) + delta[LastWritten(Own(p), leaver)]]
       /\ credited' = [credited EXCEPT ![s] = [i \in Seats |-> IF i \in paid THEN @[i] + delta[i] ELSE @[i]]]
       /\ UNCHANGED toppedUp

OpenSeats(table) == {i \in ActiveSeats(table) : table[i].open}

\* The seats settlement pays: all that are still active under the lock.
DueSeats(table) == ActiveSeats(table)

\* The dealer's turn and persist_resolution, after a leaver was paid or not.
CloseRound(s, row, table, leaver) ==
  /\ Write(s, [row EXCEPT !.status = "closed", !.position = NoPosition],
           [i \in Seats |-> IF i \in DueSeats(table)
                            THEN [table[i] EXCEPT !.status = "settled", !.paid = @ + 1]
                            ELSE table[i]])
  /\ PayOut(s, table, DueSeats(table), leaver)

PassTurn(s, row, table, after) ==
  LET next == NextPlayable(table, after)
  IN IF next = NoPosition
     THEN CloseRound(s, row, table, NoPosition)
     ELSE Write(s, [row EXCEPT !.position = next], table) /\ UNCHANGED money

\* start_session: every seat is dealt, whatever it did before.
Deal(s, row, table) ==
  /\ \E open \in [Taken(table) -> BOOLEAN] :
       PassTurn(s, row,
         [i \in Seats |-> IF i \in Taken(table)
                          THEN [table[i] EXCEPT !.status = "active", !.open = open[i]]
                          ELSE table[i]],
         NoPosition)
  /\ deals' = [deals EXCEPT ![s] = @ + 1]

-----------------------------------------------------------------------------
(* Opening a lobby, starting a single session.                             *)

Init ==
  /\ rows = [s \in Sessions |-> NoRow]
  /\ seats = [s \in Sessions |-> [i \in Seats |-> NoSeat]]
  /\ bank = [p \in Players |-> StartBank]
  /\ banned = {}
  /\ requests = [k \in Requests |-> Idle]
  /\ deals = [s \in Sessions |-> 0]
  /\ credited = [s \in Sessions |-> [i \in Seats |-> 0]]
  /\ toppedUp = {}

\* A request has read what it needs and goes on with r; only itself moves.
Goes(k, r) ==
  /\ requests' = [requests EXCEPT ![k] = r]
  /\ UNCHANGED <<rows, seats, banned, deals, money>>

Reads(k, r) == requests[k] = Idle /\ Goes(k, r)

\* A request leaves with its commit.
Leaves(k) == requests' = [requests EXCEPT ![k] = Idle] /\ UNCHANGED banned

\* What open, join and the single start ask of a player.
MayPlay(p) == p \notin banned /\ bank[p] >= Bet /\ ~Busy(p)

LookOpen(k, p, c) ==
  /\ MayPlay(p)
  /\ UnfinishedOf(c) = {}
  /\ Reads(k, [Idle EXCEPT !.kind = IF c \in GroupChats THEN "open" ELSE "start_single",
                           !.player = p, !.chat = c])

NewSession == Least({s \in Sessions : rows[s].status = "absent"})

NewTable(p) == [i \in Seats |-> IF i = 1 THEN [NoSeat EXCEPT !.player = p] ELSE NoSeat]

CommitOpen(k) ==
  LET r == requests[k]
      s == NewSession
  IN /\ r.kind = "open"
     /\ s # NoSession
     /\ Write(s, [NoRow EXCEPT !.chat = r.chat, !.status = "lobby_open"], NewTable(r.player))
     /\ Leaves(k)
     /\ UNCHANGED <<deals, money>>

\* The session is created and dealt in one transaction.
CommitStartSingle(k) ==
  LET r == requests[k]
      s == NewSession
  IN /\ r.kind = "start_single"
     /\ s # NoSession
     /\ Deal(s, [NoRow EXCEPT !.chat = r.chat, !.status = "in_progress", !.version = 1],
             NewTable(r.player))
     /\ Leaves(k)

-----------------------------------------------------------------------------
(* Joining a lobby.                                                        *)

LookJoin(k, p, s) ==
  /\ rows[s].status = "lobby_open"
  /\ rows[s].chat \in GroupChats
  /\ MayPlay(p)
  /\ Reads(k, [Idle EXCEPT !.kind = "join", !.player = p, !.session = s])

\* _next_free_position, a query of its own.
ChoosePlace(k) ==
  LET r == requests[k]
      place == Cardinality(Taken(seats[r.session])) + 1
  IN /\ r.kind = "join"
     /\ r.place = 0
     /\ place <= Capacity
     /\ Goes(k, [r EXCEPT !.place = place])

PlaceUnchecked(table, i) == TRUE

\* uq_session_position
PlaceFree(table, i) == table[i].player = NoPlayer

CommitJoin(k) ==
  LET r == requests[k]
      table == seats[r.session]
  IN /\ r.kind = "join"
     /\ r.place # 0
     /\ PlaceFree(table, r.place)
     /\ seats' = [seats EXCEPT ![r.session][r.place] = [NoSeat EXCEPT !.player = r.player]]
     /\ Leaves(k)
     /\ UNCHANGED <<rows, deals, money>>

-----------------------------------------------------------------------------
(* Starting a lobby and playing.                                           *)

\* A request on a table remembers the row it has read.
OnTable(kind, p, s) ==
  [Idle EXCEPT !.kind = kind, !.player = p, !.session = s,
               !.version = rows[s].version, !.position = rows[s].position]

LookStart(k, s) ==
  /\ rows[s].status = "lobby_open"
  /\ \A i \in Taken(seats[s]) : bank[seats[s][i].player] >= Bet
  /\ Reads(k, OnTable("start", NoPlayer, s))

\* validate_can_start sees the status first read, which was lobby_open.
CommitStart(k) ==
  LET r == requests[k]
  IN /\ r.kind = "start"
     /\ Deal(r.session, SeenRow(r, 1), seats[r.session])
     /\ Leaves(k)

Playing(s) == rows[s].status = "in_progress" /\ rows[s].version < MaxVersion

\* A request for the turn of another player, or for another version, is refused.
LookAction(k, p, s) ==
  /\ Playing(s)
  /\ rows[s].position = SeatOf(seats[s], p)
  /\ Reads(k, OnTable("action", p, s))

MayMoveByCards(seat) == seat.open

\* validate_player_move, on the seat as it is under the lock.
MayMove(seat) == seat.status = "active" /\ seat.open

\* A hit that leaves the hand open keeps the turn; a hit to 21 or more, a
\* stand or a double passes it.
CommitAction(k) ==
  LET r == requests[k]
      table == seats[r.session]
      i == SeatOf(table, r.player)
  IN /\ r.kind = "action"
     /\ MayMove(table[i])
     /\ \/ Write(r.session, SeenRow(r, 1), table) /\ UNCHANGED money
        \/ \E open \in BOOLEAN :
             PassTurn(r.session, SeenRow(r, 1), [table EXCEPT ![i].open = open], i)
     /\ Leaves(k)
     /\ UNCHANGED deals

LookTimeout(k, s) ==
  /\ Playing(s)
  /\ Reads(k, OnTable("timeout", NoPlayer, s))

\* Nothing happens to a seat that left or was settled meanwhile.
TimesOut(seat) == seat.status = "active"

CommitTimeout(k) ==
  LET r == requests[k]
      table == seats[r.session]
  IN /\ r.kind = "timeout"
     /\ TimesOut(table[r.position])
     /\ PassTurn(r.session, SeenRow(r, 1), table, r.position)
     /\ Leaves(k)
     /\ UNCHANGED deals

LookStop(k, p, s) ==
  /\ Playing(s)
  /\ rows[s].chat \in GroupChats
  /\ SeatOf(seats[s], p) # NoPosition
  /\ Reads(k, OnTable("stop", p, s))

LeftButActive(seat) == [seat EXCEPT !.paid = @ + 1]

\* The seat of a player who stops is paid and out.
Left(seat) == [seat EXCEPT !.status = "inactive", !.paid = @ + 1]

CommitStop(k) ==
  LET r == requests[k]
      s == r.session
      i == SeatOf(seats[s], r.player)
      table == [seats[s] EXCEPT ![i] = Left(@)]
      next == IF r.position = i THEN NextPlayable(table, i) ELSE r.position
      row == [SeenRow(r, 1) EXCEPT !.position = next]
  IN /\ r.kind = "stop"
     /\ seats[s][i].status = "active"
     /\ IF ActiveSeats(table) = {}
        THEN /\ Write(s, [row EXCEPT !.status = "closed", !.position = NoPosition], table)
             /\ PayOut(s, table, {}, i)
        ELSE IF next = NoPosition
        THEN CloseRound(s, SeenRow(r, 2), table, i)
        ELSE Write(s, row, table) /\ PayOut(s, table, {}, i)
     /\ Leaves(k)
     /\ UNCHANGED deals

-----------------------------------------------------------------------------
(* The administrator, and requests that fail.                              *)

LookTopUp(k, p) ==
  /\ p \notin toppedUp
  /\ Cardinality(toppedUp) < MaxTopUps
  /\ Reads(k, [Idle EXCEPT !.kind = "topup", !.player = p, !.bank = bank[p]])

CommitTopUp(k) ==
  LET r == requests[k]
  IN /\ r.kind = "topup"
     /\ bank' = [bank EXCEPT ![r.player] = r.bank + TopUp]
     /\ toppedUp' = toppedUp \cup {r.player}
     /\ Leaves(k)
     /\ UNCHANGED <<rows, seats, deals, credited>>

Ban(p) ==
  /\ Cardinality(banned) < MaxBans
  /\ banned' = banned \cup {p}
  /\ UNCHANGED <<rows, seats, requests, deals, money>>

\* Refused under the lock or by a constraint, or lost with its connection.
Abandon(k) == requests[k] # Idle /\ Goes(k, Idle)

Next ==
  \/ \E k \in Requests :
       \/ \E p \in Players, c \in Chats : LookOpen(k, p, c)
       \/ CommitOpen(k) \/ CommitStartSingle(k)
       \/ \E p \in Players, s \in Sessions : LookJoin(k, p, s)
       \/ ChoosePlace(k) \/ CommitJoin(k)
       \/ \E s \in Sessions : LookStart(k, s) \/ LookTimeout(k, s)
       \/ CommitStart(k) \/ CommitTimeout(k)
       \/ \E p \in Players, s \in Sessions : LookAction(k, p, s) \/ LookStop(k, p, s)
       \/ CommitAction(k) \/ CommitStop(k)
       \/ \E p \in Players : LookTopUp(k, p)
       \/ CommitTopUp(k)
       \/ Abandon(k)
  \/ \E p \in Players : Ban(p)

Spec == Init /\ [][Next]_vars

-----------------------------------------------------------------------------
(* Properties.                                                             *)

\* Every variable keeps the shape of the rows it stands for.
TypeOK ==
  /\ rows \in [Sessions -> Row]
  /\ seats \in [Sessions -> [Seats -> Seat]]
  /\ bank \in [Players -> Nat]
  /\ banned \subseteq Players
  /\ requests \in [Requests -> Request]
  /\ deals \in [Sessions -> Nat]
  /\ credited \in [Sessions -> [Seats -> Int]]
  /\ toppedUp \subseteq Players

(***************************************************************************)
(* A chat has at most one unfinished session, however many lobbies are     *)
(* opened at once and however late a start comes: the lookups that take    *)
(* "the" session of a chat depend on it.                                   *)
(***************************************************************************)
OneUnfinishedPerChat ==
  \A s, t \in Sessions :
    Unfinished(s) /\ Unfinished(t) /\ rows[s].chat = rows[t].chat => s = t

(***************************************************************************)
(* A seat is paid at most once for each time the table was dealt: no       *)
(* interleaving of stops, moves and timeouts on stale rows pays it again.  *)
(***************************************************************************)
PaidPerDeal == \A s \in Sessions, i \in Seats : seats[s][i].paid <= deals[s]

(***************************************************************************)
(* Whoever closes the round, and from however old a read of the session,   *)
(* no seat that was dealt is left unpaid or in play.                       *)
(***************************************************************************)
ClosedSeatsPaid ==
  \A s \in Sessions, i \in Seats :
    rows[s].status = "closed" =>
      /\ seats[s][i].status # "active"
      /\ seats[s][i].status # "joined" => seats[s][i].paid >= 1

(***************************************************************************)
(* A running table always has a turn, on a seat that was dealt, even when  *)
(* the last writer had read an older turn: a table without one would       *)
(* refuse every action and every timeout.                                  *)
(***************************************************************************)
TurnOnDealtSeat ==
  \A s \in Sessions :
    IF rows[s].status = "in_progress"
    THEN rows[s].position # NoPosition /\ seats[s][rows[s].position].status # "joined"
    ELSE rows[s].position = NoPosition

(***************************************************************************)
(* The bank of a player nobody topped up, and who never sat twice at one   *)
(* table, is what all the settlements of all the tables add up to.         *)
(***************************************************************************)
SatTwice(p) == \E s \in Sessions, i, j \in Seats :
                 i # j /\ seats[s][i].player = p /\ seats[s][j].player = p

Credit(p) ==
  LET own == {x \in Sessions \X Seats : seats[x[1]][x[2]].player = p}
  IN MapThenSumSet(LAMBDA x : credited[x[1]][x[2]], own)

BankExplained ==
  \A p \in Players : p \in toppedUp \/ SatTwice(p) \/ bank[p] = StartBank + Credit(p)

(***************************************************************************)
(* A closed session comes back only when a start that had still seen its   *)
(* lobby deals it again; a late move, stop or timeout never reopens it.    *)
(***************************************************************************)
ReopenedOnlyByDeal ==
  [][\A s \in Sessions : rows[s].status = "closed" /\ rows'[s].status # "closed" =>
       deals'[s] > deals[s]]_vars

\* Two joins that chose the same place do not take it from one another.
SeatKeepsItsPlayer ==
  [][\A s \in Sessions, i \in Seats :
       seats[s][i].player # NoPlayer => seats'[s][i].player = seats[s][i].player]_vars

(***************************************************************************)
(* What the documentation says of turn_version: it protects a table from   *)
(* stale actions and timeouts.  A request that changes a table carries the *)
(* version the table has when the change is made.                          *)
(***************************************************************************)
StaleRequestRefused ==
  [][\A k \in Requests :
       LET r == requests[k]
       IN r.kind \in {"action", "timeout"} /\ requests'[k] = Idle /\ rows' # rows =>
            r.version = rows[r.session].version]_vars
=============================================================================
