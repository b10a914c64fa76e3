# A verification development for the blackjack Telegram bot

The repository runs three services and their stores:

```
Telegram -> poller -> Kafka (telegram.updates.raw) -> orchestrator -> HTTP -> game -> PostgreSQL
                                                          |
                                                        Redis (contexts, dedup keys, timers)
```

This directory models the parts of them whose correctness depends on the order of
events: the round of blackjack the game service plays, the requests that reach the game at
the same time, the updates of a chat and its turn timers in the orchestrator, the buttons a
chat is offered, and the pipeline that takes updates from Telegram to Kafka. TLC checks the
models on small instances; TLAPS proves every safety property that the passing runs check for
every instance, four of them under the hypotheses section 5 names. `PROJECT.json` lists the runs,
the source lines behind every definition, the hazards and the findings.

## 1. Inventory

| Component (under `src/`) | State | Operations | What is hard, and what makes it correct |
|---|---|---|---|
| **game: round engine** `game/app/services`, `game/app/domain/blackjack` | `game_sessions` (status, turn_version, position, hand index, timer, dealer cards), `player_hands`, `player_to_session`, `players.bank`, `states` | start, hit, stand, double, split, insurance, timeout; the dealer's turn and the settlement follow by themselves | splits shift rows and share a bank; which hand stands for a seat depends on who is on turn; several code paths close a round. Correct: every seat paid exactly once, the turn always on a hand that can act, stakes covered, a seat that left left alone, a newer version after every change |
| **game: bot accessors** `game/app/accessors/bot` | none of their own | open, join, start a lobby; start a single session; action, timeout, player stop, single stop, queries | sessions are read without a lock, locked later, and the ORM keeps what was read first. Correct: one unfinished session per chat, no seat paid twice or left unpaid, no seat taken from its player |
| **game: admin** `game/app/accessors/bot/admin.py` | `players.bank`, `is_banned` | top-up, ban | a top-up between a read and a settlement |
| **game: web accessor, catalog, HTTP, schemas, snapshots** | - | the same operations for a browser; serialisation | nothing of their own |
| **game: models and migrations** | the schema | - | the constraints the operations rely on |
| **poller: runtime** `poller/app/runtime`, `lifecycle.py` | producer offset, intake queue, worker queues, ack tracker, shutdown event | poll, enqueue, dispatch, publish, acknowledge, drain, cancel | bounded queues between coroutines, failing workers, two different cancellations. Correct: the stored offset never skips, order per chat, shutdown ends, nothing lost; a signal can come at any point of a start |
| **poller: Telegram client, Kafka sink, offset store** | the offset file | getUpdates, send_and_wait, atomic replace | lost answers, appends without an acknowledgement, writes that outlive their task |
| **orchestrator: consumer, normalizer, pipeline, dedup** `orchestrator/app/upstream`, `routing` | Kafka offset, dedup keys | normalise, deduplicate, dispatch, store the context, cancel and schedule timers, answer | redelivery, a mark before the effect, keys built from a mutable context. Correct: one update changes the round once |
| **orchestrator: timers** `orchestrator/app/timers` | Redis: index, payload, claim and done keys | schedule, cancel, claim, execute, retry | interleavings at every Redis call, claim expiry, no next timer after a timeout. Correct: a scheduled turn keeps its timer until it is over, and ends |
| **orchestrator: sender and presenter** `orchestrator/app/sender` | the messages in the chat | present an answer, delete the previous message | labels and callbacks written here are read by tables of the normalizer. Correct: what is offered is understood |
| **orchestrator: session context, dedup store** `orchestrator/app/state` | Redis: contexts with turn_version, message id and hint | read, replace | a context that is older than the round it describes |
| **configuration and deployment** | - | - | nothing to check |

Interaction: the poller and the orchestrator share only the topic; the orchestrator
calls the game over HTTP with the `turn_version` it last saw; the game serialises
requests by PostgreSQL row locks; timers are an orchestrator matter, and the game only
compares `current_timer` with the clock when somebody calls it.

## 2. Modules

| Module | Models | Depends on |
|---|---|---|
| `BlackjackCards` | cards as ranks, a hand as a digest (points, ace, count, shared rank), scores, the dealer's totals, payouts | - |
| `BlackjackRound` | one round: every committed transaction of the game service as one action | `BlackjackCards` |
| `MCBlackjackRound` | TLC instance; also checks the digest against `compute_score` over every list of up to five cards of six ranks | `RoundTurn` |
| `TableTurn` | abstract: the turn of a table as the other services see it | - |
| `RoundTurn` | the refinement mapping from `BlackjackRound` to `TableTurn` | `BlackjackRound` |
| `SessionRequests` | concurrent requests to the game: what each reads, and its commit | - |
| `MCSessionRequests` | TLC instance: credits, symmetry | `SessionRequests` |
| `TurnTimers` | the timer worker, one command to Redis at a time, and the keys it uses | `TableTurn` |
| `ChatTurns` | the updates of one chat in the orchestrator, composed with its timers and the rounds of the game | `TurnTimers` |
| `ChatDialog` | what a chat offers to press and what the orchestrator makes of it | - |
| `PollerDelivery` | producer, queues, dispatcher, workers, tracker, monitor, shutdown; Telegram and the broker as environment; crashes and restarts | - |
| `DeliveryLedger` | abstract: what a forwarder of updates promises to its source | - |
| `PollerLedger` | the refinement mapping from `PollerDelivery` to `DeliveryLedger` | `PollerDelivery` |
| `MCPollerDelivery` | TLC instances: which chat each update belongs to | `PollerLedger` |
| `LeastElement` | every non-empty set of naturals has a least element, every bounded one a greatest | - |
| `BlackjackRoundProofs`, `RoundTurnProofs`, `RoundTableProofs` | theorems about the round | `BlackjackRound`, `RoundTurn` |
| `SessionRequestsProofs` | theorems about concurrent requests | `SessionRequests` |
| `ChatTurnsProofs` | theorems about updates and timers | `ChatTurns` |
| `ChatDialogProofs` | theorems about what a chat is offered | `ChatDialog` |
| `PollerProofs` | theorems about the poller, and that it keeps the ledger | `PollerLedger` |

`TableTurn` is where the services meet: `RoundTurn` shows that a round as the game plays it is
such a turn, and `ChatTurns` plays its rounds with nothing else.

### How BlackjackRound corresponds to the code

An action is a whole transaction: `load_context` (the operators `LoadedHand`,
`LoadedActive`), the guards of `turn_rules` and of the accessor (`MayAct`), the writes of
`persist_player_move` and the terminal phases `_drain_terminal_phases` runs before the
commit (`PassTurn`, `CloseRound`). An error rolls the transaction back, so a rejected
request is no step; in particular a settlement that would make `players.bank` negative
(`BankAllows`, the CHECK constraint) blocks the step, as it makes the request fail.

* `hands[p][i]` is the row of `player_hands` with that `hand_index`; `"absent"` means no row.
  `seatStatus` and `bet` are the columns of `player_to_session`; its `cards` column, a mirror
  for display, is left out.
* Three different rules find the next turn in the code, and all three are here:
  `NextPlayable` (`turn_rules`, status and cards), `NextByCards` (the repository after the last
  split hand, cards only) and hand 0 after a stop.
* `RowAfterTurn` keeps the status of the hand just finished, as the code does: `player_hands`
  stays `active` after a plain stand, and that is what the settlement relies on.
* The second card of a split hand is stored with the split and shown when the hand comes
  up. Nobody reads it before, so `AdvanceHand` draws it then.
* Cards are drawn with replacement (`draw_card`); the dealer is abstracted to the totals a
  drawing dealer can end with.
* A transaction is atomic here: what a request has read before it holds its locks is the
  subject of `SessionRequests`. A timeout may happen whenever a timer is set: the clock is not
  modelled. `single_stop` is a `Stand`. `turn_version` is unbounded: a round is finite.

### How PollerDelivery corresponds to the code

An action is what one coroutine does between two awaits that can suspend it. `runner` is
the state of `PollingRunner.run`; `putting` is the enqueue task `enqueue_update` races
against the monitor; it goes on as an orphan when its producer is cancelled (`OrphanPut`).
`Close` is the queue sentinel. `KafkaAppend` and `KafkaAck` separate the record reaching
the topic from the worker learning it; between them the worker may fail or the process die.
`SaveOffset` runs in a thread, so a cancelled worker's save still lands, and `Exit` waits for
it, as closing the event loop does. `CancelRunner` is the cancellation that
`wait_for_shutdown` sends on a signal (`SignalCancel`) and the one `stop` sends after
`shutdown_timeout` (`DrainTimeout`): a `CancelledError` is no `Exception`, so the first starts
the drain, and one that arrives during the drain ends it. Poll may return any prefix of what
Telegram keeps, including nothing: an empty or a lost answer, after which `fetch_updates` is
retried.

* `Boot` begins `PollerApplication.start`, which connects the Kafka producer; `Started` is its end,
  where the runner begins. A `Signal` in between is lost: `stop` returns because nothing is started,
  and `stopStarted`, the flag of `run.py`, makes every later signal a no-op.
* `QueuesDrained` needs every worker to have taken its sentinel: `task_done` of a sentinel is called
  by whoever takes it, so the queue of a failed worker is never joined, and only the shutdown
  timeout ends that drain. Left out: a join that is already waiting while its worker fails on the
  last item before the dispatcher has put the sentinel would return, and the drain then end by
  raising the worker's error.

### How SessionRequests corresponds to the code

A request is its reads (`Look...`) and its commit (`Commit...`). The reads are those the
accessors do before they lock anything: the session's row, the check for another unfinished
session, the bank. `load_context` then locks session, seats and players with
`SELECT ... FOR UPDATE`, but the session's row is already in the ORM's identity map, which keeps
the attributes it has (no `populate_existing`, no `refresh`). So a commit uses `rows` of the
first read (`r.version`, `r.position`, and a status that was right then) and `seats` and `bank` of
now, and writes the whole row back (`SeenRow`).

* `IndexAllows`, `PlaceFree` and `BankAllows` are the database's constraints: a commit that breaks
  one is not a step. `Abandon` is a request that fails for whatever reason.
* A join reads the number of seats with a query of its own (`ChoosePlace`).
* `PayOut` keeps the order in which `persist_resolution` and the stop write banks: a player with
  two seats at one table gets the last one's.
* A round is abstracted: a hand is open or not, nobody splits or insures, a settled seat is
  credited with any of `Deltas`. What a transaction does inside a round is `BlackjackRound`.

### How TurnTimers and ChatTurns correspond to the code

A step is one command to Redis, one request to the game together with its answer, or one
message to the chat: between two of them the other task of the event loop may run, and the
process may die. `worker` is the loop of `RedisTimerWorker`, `job` the envelope that
`UpdateConsumer` has taken and `pipeline.py` is handling. `Begun` is one step although it reads
the context and sets the dedup key: the context changes only in this task, so the two
commute with every step of the timers. The saves and deletions that write what the
context already holds are no steps.

* `t = <<round, version>>` is the timer id, a session of the chat with its `turn_version`.
* `late` is the clock: a deadline passes once, and a timeout before it is refused.
* `away` says that the seat on turn is inactive or settled as the game loads it. Its moves are refused,
  and so are its stops; its timeout is answered by a success that changes nothing
  (`TimeoutInVain`, `accessors/bot/common.py:85-86`), which the executor announces and the worker marks
  done like one that was applied. `Abandoned(t)` is such a turn. When the turn comes to such a
  seat is left open by `TableTurn`, except that a start gives it to a seat that plays.
* A move of the right player with the right version may still be refused, by a rule or for the bank
  (`Refused`).
* `Guarded` is `handle_player_action` before it asks; `Welcome` is what the game accepts; the game
  itself is `TableTurn`.
* `Cancels` goes by the context read before the command (`job.old`), as `pipeline.py` does.
* `Crash` loses `job` and `worker`; Redis, Kafka and the game live on. Kafka commits offsets by a
  timer, so a restart goes back to some position since the last one. `Republish` is the
  poller's own at-least-once delivery.
* `MaxFaults` bounds what goes wrong: a crash, an update published twice, a request or an
  answer that is lost, an answer 5xx, a message Telegram refuses.

### How ChatDialog corresponds to the code

One step is one update, from the control somebody presses to the hint the answer leaves.
`TextMeaning`, `OfText` and `CallbackMeaning` are the tables and checks of the normalizer, `Present`
and `PresentError` the keyboards of the presenter, `HintAfter` and `Deletes` the pipeline's two
rules. `last` is the message the context remembers, `older` the buttons of messages it has
forgotten: they stay in the chat and can be pressed. The game accepts or refuses with the
session's status as the only reason the model knows; any other reason is left open.

## 3. Runs

| Run | Question | Instance |
|---|---|---|
| `single_round` | Does a round with splits of splits, doubles, insurance and timeouts keep hands in order and the turn on a playable hand? | 1 seat, ranks A, 8, 10, bank 16 for a bet of 2: enough for every stake; 312 thousand states |
| `group_round` | Is a seat that never split paid exactly once, and is every bank movement on record, is a seat that left left alone, while others split, insure and stop? | 2 seats, bank 4 for a bet of 2; 275 thousand |
| `table_round` | At a table without splits: is every seat settled, are all stakes covered, and is every transaction a step of `TableTurn`? | 3 seats, banks 3 and 4 around the boundary of a double; 600 thousand |
| `lobby_requests` | Do requests that open, join, start, leave and top up at the same time keep one unfinished session per chat, and every bank the sum of its settlements? | 2 players, a group and a private chat, 2 requests, 2 sessions; 901 thousand |
| `table_requests` | Do stale moves, stops, starts and timeouts on one table pay every seat and take none from its player? | 3 players, 2 requests, three turns; 959 thousand |
| `chat_turns` | Over redelivery, crashes and lost requests: does a button count once, does a scheduled turn keep its timer and end, is a refused timeout never announced? | 2 players, 2 rounds of up to 2 turns, 2 updates, 1 fault; 878 thousand |
| `chat_dialog` | Is everything the bot offers understood, and what takes the start of a round away? | both types of chat, every control; 15 thousand |
| `poller_restart` | Is the offset file always safe, does a normal shutdown publish all, is the order of each chat kept, is the ledger of `DeliveryLedger` kept? | 4 updates of 2 chats, 2 workers, queues of 2 and 1, 2 starts, every failure; 467 thousand |
| `poller_progress` | Does a failure, or a signal that finds the runner started, always end the process, does every update move on? | 5 updates of one chat, queues of 1: they fill every queue and block the producer; 21 thousand |
| `split_seat_unpaid`, `stale_request_applied`, `turn_never_times_out` | three promises of the documentation that the code breaks (section 6) | the smallest instance that shows each |

Why the bounds are enough.

* Round. A seat interacts with the others only through the order of positions and the rule for
  the next turn, so two seats show every pair and three show a seat skipped in between. Four
  hands is the code's own limit. Ranks 1, 8 and 10 give blackjacks, soft and hard hands, pairs,
  busts and hands that can act; bank 4 for a bet of 2 is the exact boundary of a raise, 3 is below
  it. `single_round` leaves hits out to keep the splits deep; `table_round` has them.
* Requests. What a request does depends on one other commit between its read and its own, so two
  requests at a time show every race of a pair; the other requests of a long race come one after
  another on the same two slots, which are reused. Three seats are needed for a stop that
  leaves two others; `MaxVersion` stops new requests, not those under way. `lobby_requests` stops
  there at once, so its rounds end only when every hand is dealt 21, which leaves room for two
  sessions. Credits are -1 and 1 on a bank of 1: a bank can reach 0 and be refused.
* Chat. Two players, two rounds and two turns give a timer of an older turn, of an older round and
  of the turn being scheduled. Two updates are enough to overtake a timeout and to be
  delivered again; the second fault would only repeat the first at another step, and the proofs
  below do not bound faults, updates, rounds or players.
* Poller. Five updates are the least that fill a queue of one at each stage and leave the
  producer blocked behind a dead worker. The bound on starts allows one restart, which is when the
  stored offset is used.

`lobby_requests`, `table_requests` and `stale_request_applied` use symmetry over players and
requests. No definition tells two of them apart, and none of these runs checks liveness.

`CHECK_DEADLOCK` is off where a model ends: a closed round ends `BlackjackRound`; the bounds on
sessions and versions end `SessionRequests`, those on updates and rounds `ChatTurns`, the bound on
the starts `PollerDelivery`. `chat_dialog` has no bound and checks for deadlock.

Fairness. In `chat_turns` and `turn_never_times_out`: weak fairness of the pipeline and of the
timer loop (tasks of one event loop, and every request they make ends by its own timeout), of
time (a deadline passes) and of the expiry of claims (a time to live). Players, faults and
redelivery are not fair: nobody has to write to the bot. In `poller_progress`: weak fairness of
each task, of the broker's answer (`send_and_wait` ends by success or by aiokafka's own
timeout), of the two shutdown cancellations (a callback and a timer) and of the process exit;
polls, starts and failures are not fair. `BlackjackRound` and `SessionRequests` have none: nothing
inside the game service makes anybody act.

### Single-fault variants

Definitions such as `BumpForgotten`, `IndexDropped` or `ClaimWithoutExpiry`, which stand before the
definition they vary and are used by no specification, are versions of it with one plausible
fault. `PROJECT.json` pairs each with a property that fails when it replaces the original: it
documents what that property protects against.

## 4. Properties and hazards

Round. `HandRowsContiguous` and `SplitHandsPlayedInOrder`: splits of splits shift rows in place.
`TurnHolderCanAct`: an open round always has a hand that can be played and a deadline, the
condition under which a table cannot get stuck. `UnsplitSeatPaidOnce`: a stop, a timeout and
the settlement each decide from different statuses who has been paid. `EverySeatSettled`,
`StakesCovered`: what holds for tables without splits and fails with them.
`LeaverIsLeftAlone`: a seat paid by its stop can still have active split hands, the turn can come
back to it, and the settlement loads it again; none of this may change its bank, hands or result.
`BankMovesAreRecorded`, `TurnMovesForward`: action properties over all interleavings.
`TurnProtocol`: the refinement, the contract every other service relies on, for transactions that
follow one another. Two requests that overlap can leave two changes under one `turn_version`
(`StaleRequestRefused`), so no property here says that a version names one state of the table.

Requests. `OneUnfinishedPerChat`, `SeatKeepsItsPlayer`: races that only a constraint of the database
decides. `PaidPerDeal`, `ClosedSeatsPaid`, `TurnOnDealtSeat`, `ReopenedOnlyByDeal`: what a commit
computed from an old row must still not break. `BankExplained` leaves out two kinds of players for
whom it fails: those an administrator topped up during a settlement, and those who sit twice at one
table (both in section 6). `StaleRequestRefused` is what the documentation says of
`turn_version`, and fails.

Chat. `CommandAppliedOnce` leaves out typed moves, whose dedup key changes with the context (section
6). `DoneMeansOver`, `NoticeIsAnswered`, `TimerKeptUntilOver`: the worker and the pipeline change the same
keys one command at a time. Each has the exceptions the code makes: a timeout the game failed
(`refusals`), and a turn that is `Abandoned`, whose timeout is announced, marked done and dropped
although it changed nothing. `NoticeIsTrue`, which the documentation states, fails for the second
(section 6). `ScheduledTurnEnds` speaks of turns that were scheduled and are with a player at the
table; `EveryTurnEnds`, which speaks of all players at the table, fails. `OfferedIsUnderstood`, `OnlyCurrentTakesStartAway`: the presenter and the
normalizer are two tables nobody compares.

Poller. `OffsetCoversPublished`: the file never covers an update that this start accepted
and has not published, nor one that only Telegram still has. `DrainedAllPublished`: a drain that
ends normally has published what was accepted, with no gap in the tracker; the file itself may be
behind, because two saves can overlap. `SourceOrder`, and the liveness properties
`FailureEndsProcess`, `ShutdownCompletes` (for signals that find the runner started; one that comes
earlier is lost, section 6), `UpdatesMoveOn`. `DeliveryKept`: over restarts, only a process that ends with updates in its memory
can lose them. `AtLeastOnce` is what the documentation promises and does not hold.

## 5. Proofs

Every theorem is for all values of the constants, from the ASSUMEs of the modules alone; the five of
`RoundTableProofs` have a hypothesis each, given below.

| Module | Theorems |
|---|---|
| `BlackjackRoundProofs` | `TypeCorrect` (with it, no bank is ever negative), `HandsContiguous`, `RoundIsSound`, `PaidOnce` |
| `RoundTurnProofs` | `RoundImplementsTurn`: `Spec => TurnProtocol`; `TurnGoesForward`, `RecordsExplainBanks`, `LeaversKeepTheirPay` |
| `RoundTableProofs` | tables without splits: `TableKeepsTurn`, `TableSettlesAll`, `TableStakesCovered`; single chats: `SingleKeepsTurn`, `SinglePlaysInOrder` |
| `SessionRequestsProofs` | `TypeCorrect`, `OneSessionPerChat`, `NoSeatPaidTwice`, `ClosedMeansPaid`, `RunningHasTurn`, `OnlyDealReopens`, `SeatsAreKept`, `BanksAddUp` |
| `ChatTurnsProofs` | `ChatTypes`, `CommandsApplyOnce`, `DoneTurnsAreOver`, `NoticesAreAnswered`, `TimersAreKept` |
| `ChatDialogProofs` | `DialogIsSound`, `ControlsAreUnderstood`, `StartStaysInLobby` |
| `PollerProofs` | `PollerIsSound`, `TypesKept`, `RestartSkipsNothing`, `DrainPublishesAll`, `SourcesInOrder`; `PollerKeepsLedger`: `Spec => DeliveryKept` |

**The round.** `UnsplitSeatPaidOnce` is not inductive: whether a seat is paid when the round
closes depends on the status of one row, that of the hand under the turn for the seat on turn
and that of hand 0 for the others. `RoundInv` says what those rows must show: a seat in play that
did not split keeps hand 0 active; a seat that was paid keeps it closed; and if the turn
ever reaches a paid seat (which `NextByCards` allows), it is on hand 0, whose closed row shuts
out every move. The proof goes through the helpers first (rows after an insertion, after
`AdvanceHand`, after `CloseRound`), then has one lemma per action and combines them with PTL.
`RoundInv` is also checked by TLC (`group_round`).

**The turn.** Every operation ends by keeping the turn, passing it or closing the round. One
lemma per helper and operation says which of these it does and what becomes of position and
banks. Beside `RoundInv` the refinement needs that nobody is on turn outside a round, so that a
start begins an abstract one, and that a start puts the turn on a seat that is loaded as active
(`FirstTurnLoaded`). `LeaversKeepTheirPay` rests on the same part of `RoundInv` as `PaidOnce`: a seat that
was paid while the round runs has left, its hand 0 is closed, and when the turn is on it, it is on hand 0. So
it is never among the loaded active seats, and only those are written, paid or asked for a move.

**Tables without splits.** `TurnHolderCanAct`, `EverySeatSettled` and `StakesCovered` fail at a table of
several seats with splits (section 6). The theorems say that splits are the only reason: they assume
`"split" \notin PlayerActions`, a setting the code supports (`player_actions`,
`game/app/domain/blackjack/settings.py`; the tests of turn order and of timeout races use such
sets), and nothing else about seats, ranks, banks, bets, stops and timeouts. `TableInv` says that every seat has hand 0 only,
that the pointer is on it, that the bank of a seat not paid yet covers the bet of its hand, and that
the turn is on a hand that can act. Then the three rules for the next turn agree: whoever leaves
or finishes, `NextPlayable` and hand 0 are the hand the seat plays. `EverySeatSettled` and `StakesCovered`
follow from `RoundInv` and `TableInv` together.

**Single chats.** `ChatMode = "single"`, where `SingleChatAssumption` gives one seat. The player may split
splits. `InOrder(rows, a)` says that the hands before `a` are over and those after it wait with one card;
it does not look at hand `a`, so a move on that hand keeps it, `InsertHand` of a split keeps it, and
`AdvanceHand` moves it to the next hand that can act, finishing those it passes. When no hand is left
nobody else is on turn, and the round closes. TLC had found no counterexample to `SingleInv` in all of
`single_round`, nor to `TableInv` at tables without splits, before they were proved.

**Requests.** `SessionInv` has the types, `OneUnfinishedPerChat`, `SessionOk` for each session (row,
table and number of deals fit one another) and `RequestOk` for each request under way (what it
has read and may still rely on: the session exists, its seat was dealt, its player sits there).
Every commit is shown to be a `Commits` step, which writes a good row and a table that follows the
old one; the theorems follow from that alone. `RequestOk` is kept by whatever other requests
commit, because who sits stays and who was dealt stays dealt. A table without active seats cannot
be paid, which makes a late stop or timeout on a closed round harmless.

**Banks.** `Credit` is a fold over the places of a player in whatever order `CHOOSE` takes them, and a
settlement changes one summand. The section on sums shows by the smallest counterexample (a set of least
cardinality, `SmallestSet`) that the recursive function of the fold exists, that its values are
integers and that any member may be taken off first; after that `TotalFacts` and `TotalOfZeros` are all
the proof uses. `MoneyStep` says what a step may do: nothing to the money, a top-up of one player, or
a settlement that pays seats of one session with their players on them. `MoneyInv` adds to
`BankExplained` that no credit lies at an empty seat, so who sits down brings none. A player paid at
one seat gets the same into bank and credit because the bank is loaded under the lock (`LoadedBank`).

**The chat.** `ChatInv` has four parts: the turn within its bounds; what the timer worker may rely on
in each phase (a timer it announces was answered by a success; one it marks is over, failed or
abandoned, `Ended`); what the pipeline may rely on (what it schedules was issued); and how an update, its
dedup key and its effect belong together (a command that had an effect has its key in the store;
one the game is being asked for has the key and no effect yet). A step of the turn matters to the
other parts only in that a turn once issued stays issued, and one that is over or abandoned stays so
(`TurnGrows`). `TimerKeptUntilOver` needs more: what the worker and the pipeline are about to remove
is over already, and what is indexed has its payload (`WorkerKeeps`, `JobKeeps`).

**The dialog.** The model is finite, and TLC has seen all of it; the proofs say why it is right.
`ControlsAreUnderstood` needs `PrivateOk`: a private chat has no control of a lobby and no label of one,
because the normalizer refuses the commands of a lobby typed there and the presenter goes by the chat's
type or the session's mode.
`StartStaysInLobby` needs `StartShown`: a lobby whose hint would start the round on the label also shows the
start button, so the answers that reset the hint do not take the last control away.

**The poller.** None of its invariants is inductive: whether the file is safe depends on where every
update is. Within one start the update with the sequence number `n` is `base + n - 1`, where `base`
is the first update of the start. `FlowInv(base)` says where each number is: below `nextSequence`,
and published; in the tracker, and published; or in one of the stages between the producer and a
worker's hand, each stage in order and ahead of the one before it. A worker that has not failed
has lost none of its numbers (`NothingLost`), a sentinel is the last thing in a queue (`ClosingOk`),
and what is missing before a published update of its source lies below `base` (`SourcesOk`). `base`
changes only when the process ends (to the stored offset) and at a poll that has numbered nothing yet (to
what Telegram still keeps). `ReleasedFacts` is the lemma about the tracker: it releases a run of
numbers from `nextSequence` to the first missing one. The four theorems follow from `FlowInv`; the
refinement needs it only for a poll and a record in the topic, every other step drops updates or moves them.

Only model-checked: the liveness properties (`ScheduledTurnEnds`, `FailureEndsProcess`,
`ShutdownCompletes`, `UpdatesMoveOn`), since liveness and ENABLED are outside what the prover does; and the
digest of a hand against `compute_score`, a RECURSIVE operator over lists. `TurnHolderCanAct` and
`SplitHandsPlayedInOrder` need their hypotheses: at a table of two seats with splits TLC refutes both.

## 6. What the runs found

With a run:

1. When the last split hands finish by the cards they draw, the round closes and that seat
   gets no result and no payment (`split_seat_unpaid`).
2. `turn_version` is compared before the lock and never again: the second of two requests with one
   version is applied to the turn after it (`stale_request_applied`;
   `game/docs/service_overview.md:57`).
3. Nothing schedules the turn that follows a timeout: at a table of silent players the second turn
   never ends (`turn_never_times_out`; `presentation/plan.md:5`).

Met on the way, without a run; `PROJECT.json` has the lines:

* Splits. A timeout on a split hand goes to the next seat or the dealer although the seat's next
  hand waits. A stop resets the hand pointer of whoever is on turn, and the search after the last
  split hand ignores who has left, so the turn can be put on a finished hand. A timeout changes
  nothing there, so only the stops of all the others end the round; when one of two players stops
  while the other is on the second split hand, no request can end it any more. Double and split compare the bank with one hand only, so a split
  seat can owe more than it has, and the settlement is then rejected every time.
* Races in the game. A player can sit in two sessions, or twice at one table, where one settlement
  overwrites the other. Two starts of one lobby both deal. Two stops at once leave the turn on a seat
  that has left, with the same consequence. A join that commits after the start sits without cards. A top-up overwrites a
  settlement, or the reverse.
* Timers. A timeout leaves the context old, so the guards refuse the buttons of its own notice. A
  timeout whose answer is lost is never announced. A turn whose message Telegram refuses is
  never scheduled. A 5xx answer counts as a refusal, and the timer is marked done. The timeout of a
  seat that has left is a success without effect: the chat reads that the player was made to stand,
  because the executor looks for a status that the snapshot's `current_player` does not have, and the timer
  is dropped while the turn runs on (`NoticeIsTrue` in `ChatTurns`).
* Updates. A typed move delivered again after it was applied has another dedup key and is applied to
  the next turn.
* Dialog. A `not_found` in a group offers to start a single session there (`StartFitsChat`). `/current`
  deletes the lobby's message with its start button. A balance asked for in a lobby resets the
  hint, and "Начать игру" then means a second lobby. `single_stop` on a split hand is presented as
  the end of the game.
* Poller. A signal can cancel the drain it has itself started, and lose updates Telegram was already
  told to forget, with exit status 0. It fetches from the enqueued, not the confirmed, offset.
  A signal during start-up is lost, and every later one with it: the poller runs on.
* Documents. Insurance is documented as unsupported; a player stop is accepted off turn where the API
  documents a 409; a no-op timeout answers 200 where the API documents an error.

## 7. Not modelled, and the plan

Not modelled:

* game: registration of sessions and players through the web catalog; HTTP, schemas, snapshots,
  middlewares, migrations. They keep no state a property is about.
* orchestrator: the automatic registration and retry of a command of an unknown player
  (`handlers/base.py`), the check of `available_moves`, which repeats rules of the game, the
  commands of an administrator, texts and formatting. Contexts and dedup keys expire, but later
  than any run of the models lasts.
* poller: retry delays, the backpressure monitors, which only log, and updates without an integer
  `update_id`, which Telegram does not send.
* configuration, logging, deployment.

The plan:

1. A composition of two chats of one player at the level of the round, for the races over `players.bank`
   that span chats; `SessionRequests` has them with rounds abstracted to their credits.
