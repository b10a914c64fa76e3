---------------------------- MODULE PollerDelivery ----------------------------
(***************************************************************************)
(* The poller: from Telegram's getUpdates to the Kafka topic.              *)
(*                                                                         *)
(*   producer -> ingress queue -> dispatcher -> worker queues -> workers   *)
(*                                                                         *)
(* The tasks of the process are coroutines of one event loop: an action is *)
(* what one of them does between two awaits that can suspend it.  Telegram *)
(* and the Kafka broker are the environment.  Updates are numbered as      *)
(* Telegram numbers them.  The history variable accepted is not in the     *)
(* code.                                                                   *)
(***************************************************************************)
EXTENDS Integers, Sequences, FiniteSets, SequencesExt

CONSTANTS
  UpdateCount,   \* Telegram sends the updates 1..UpdateCount
  Source,        \* the source key (chat or user) of each update
  WorkerCount,   \* worker_count
  Partition,     \* the worker each source is hashed to
  PollLimit,     \* telegram_poll_limit
  QueueMax,      \* max_in_flight_updates
  MaxStarts,     \* bound: how often the process is started
  Disturbances   \* what may go wrong: see DisturbancesAssumption

Updates == 1..UpdateCount
Workers == 1..WorkerCount

ASSUME CountsAssumption ==
  /\ UpdateCount \in Nat /\ MaxStarts \in Nat
  /\ WorkerCount \in Nat \ {0} /\ PollLimit \in Nat \ {0} /\ QueueMax \in Nat \ {0}
ASSUME PartitionAssumption ==
  \A u \in Updates : u \in DOMAIN Source /\ Partition[Source[u]] \in Workers
ASSUME DisturbancesAssumption ==
  Disturbances \subseteq {"crash",           \* the process dies at any point
                          "worker_error",    \* a publication or a save fails
                          "telegram_error",  \* a fatal error of getUpdates
                          "slow_drain"}      \* the shutdown timeout expires

\* A QueuedUpdate; Close is the queue sentinel, Nothing stands for no item.
Item(u, n) == [update |-> u, seq |-> n]
Items == [update : Updates, seq : Nat \ {0}]
Close == Item(0, 0)
Nothing == Item(0, -1)

WorkerQueueMax == Max({1, QueueMax \div WorkerCount})

VARIABLES
  kept,       \* Telegram: the first update it has not been told to forget
  published,  \* Kafka: the updates in the topic
  stored,     \* the offset in the state file, 0 when there is none
  starts,     \* how often the process was started
  runner,     \* what PollingRunner.run is doing, or how it ended
  stopStarted, \* stop_started: a signal was handled, later ones are not
  shutdown,   \* the shutdown event
  cancels,    \* cancellations the runner's task has received
  noticed,    \* the monitor has seen a task fail
  offset,     \* the producer's next getUpdates offset
  batch,      \* fetched updates not yet enqueued
  seqno,      \* the producer's last sequence number
  putting,    \* the item of the pending enqueue task
  accepted,   \* history: updates whose enqueue completed in this start
  ingress,    \* the intake queue
  held,       \* the item the dispatcher has taken and not yet passed on
  closed,     \* how many worker queues the dispatcher has closed
  queues,     \* the worker queues
  work,       \* each worker: its phase, its item, the offset it saves
  nextSequence, \* the tracker's next sequence number
  completed   \* the tracker's completed items

external == <<kept, published>>
producer == <<offset, batch, seqno, putting, accepted>>
dispatcher == <<ingress, held, closed>>
tracker == <<nextSequence, completed>>
control == <<starts, runner, stopStarted, shutdown, cancels, noticed>>
vars == <<external, stored, control, producer, dispatcher, queues, work, tracker>>

Idle == [phase |-> "idle", item |-> Nothing, offset |-> 0]

Up == runner # "down"

\* The dispatcher and the workers run until they end or are cancelled.
TasksRun == runner \in {"polling", "draining", "cancelled"}

RoomAlways(queue, max) == TRUE
Room(queue, max) == Len(queue) < max

PartitionByUpdate(u) == (u % WorkerCount) + 1
\* One source, one worker: resolve_partition_index hashes the source key.
WorkerFor(u) == Partition[Source[u]]

-----------------------------------------------------------------------------
(* The process.                                                            *)

Memory == <<cancels, noticed, batch, seqno, putting, accepted, dispatcher, queues, work, tracker>>

Init ==
  /\ kept = 1 /\ published = {} /\ stored = 0
  /\ starts = 0 /\ runner = "down" /\ stopStarted = FALSE /\ shutdown = FALSE
  /\ cancels = {} /\ noticed = FALSE
  /\ offset = 0 /\ batch = <<>> /\ seqno = 0 /\ putting = Nothing /\ accepted = {}
  /\ ingress = <<>> /\ held = Nothing /\ closed = 0
  /\ queues = [w \in Workers |-> <<>>]
  /\ work = [w \in Workers |-> Idle]
  /\ nextSequence = 1 /\ completed = {}

\* start() connects the Kafka producer before there is a runner.
Boot ==
  /\ runner = "down"
  /\ starts < MaxStarts
  /\ starts' = starts + 1
  /\ runner' = "starting"
  /\ UNCHANGED <<external, stored, stopStarted, shutdown, offset, Memory>>

\* The runner begins; the stored offset is where its first getUpdates begins.
Started ==
  /\ runner = "starting"
  /\ runner' = "polling"
  /\ offset' = stored
  /\ UNCHANGED <<external, stored, starts, stopStarted, shutdown, Memory>>

\* Nothing in the memory of the process survives it.
Down ==
  /\ runner' = "down" /\ stopStarted' = FALSE /\ shutdown' = FALSE
  /\ cancels' = {} /\ noticed' = FALSE
  /\ offset' = 0 /\ batch' = <<>> /\ seqno' = 0 /\ putting' = Nothing /\ accepted' = {}
  /\ ingress' = <<>> /\ held' = Nothing /\ closed' = 0
  /\ queues' = [w \in Workers |-> <<>>]
  /\ work' = [w \in Workers |-> Idle]
  /\ nextSequence' = 1 /\ completed' = {}

\* The loop waits for the threads that write the state file before it closes.
Exit ==
  /\ runner \in {"drained", "raised", "cancelled"}
  /\ \A w \in Workers : work[w].phase # "saving"
  /\ Down
  /\ UNCHANGED <<external, stored, starts>>

Crash ==
  /\ "crash" \in Disturbances
  /\ Up
  /\ Down
  /\ UNCHANGED <<external, stored, starts>>

\* stop() returns at once when start() is not over; the signal is lost then, and
\* with it every later one.
Signal ==
  /\ runner \in {"starting", "polling"}
  /\ ~ stopStarted
  /\ stopStarted' = TRUE
  /\ shutdown' = (runner = "polling")
  /\ UNCHANGED <<external, stored, starts, runner, offset, Memory>>

CancelSwallowed(state) == IF state = "polling" THEN "draining" ELSE state
\* CancelledError is no Exception: it starts the drain, or aborts it.
AfterCancel(state) == IF state = "polling" THEN "draining" ELSE "cancelled"

CancelRunner(by) ==
  /\ shutdown
  /\ runner \in {"polling", "draining"}
  /\ by \notin cancels
  /\ cancels' = cancels \cup {by}
  /\ runner' = AfterCancel(runner)
  /\ batch' = <<>>
  /\ UNCHANGED <<external, stored, starts, stopStarted, shutdown, noticed, offset, seqno, putting,
                 accepted, dispatcher, queues, work, tracker>>

\* wait_for_shutdown cancels what is pending when the event is set.
SignalCancel == CancelRunner("signal")

\* stop() gives the runner shutdown_timeout seconds, then cancels it.
DrainTimeout ==
  /\ "slow_drain" \in Disturbances
  /\ "signal" \in cancels
  /\ CancelRunner("timeout")

-----------------------------------------------------------------------------
(* The producer.                                                           *)

\* getUpdates forgets what is below the offset; the answer may be lost.
Poll ==
  /\ runner = "polling"
  /\ ~ shutdown
  /\ ~ noticed
  /\ batch = <<>>
  /\ putting = Nothing
  /\ LET first == Max({kept, offset}) IN
       /\ kept' = first
       /\ \E n \in 0..PollLimit :
            /\ first + n - 1 <= UpdateCount
            /\ batch' = [i \in 1..n |-> first + i - 1]
  /\ UNCHANGED <<published, stored, control, offset, seqno, putting, accepted,
                 dispatcher, queues, work, tracker>>

BeginPut ==
  /\ runner = "polling"
  /\ ~ shutdown
  /\ batch # <<>>
  /\ putting = Nothing
  /\ seqno' = seqno + 1
  /\ putting' = Item(Head(batch), seqno + 1)
  /\ batch' = Tail(batch)
  /\ UNCHANGED <<external, stored, control, offset, accepted, dispatcher, queues, work, tracker>>

\* The offset moves as soon as the update is in the queue.
CompletePut ==
  /\ runner = "polling"
  /\ putting # Nothing
  /\ ~ noticed
  /\ Room(ingress, QueueMax)
  /\ ingress' = Append(ingress, putting)
  /\ putting' = Nothing
  /\ offset' = putting.update + 1
  /\ accepted' = accepted \cup {putting.update}
  /\ UNCHANGED <<external, stored, control, batch, seqno, held, closed, queues, work, tracker>>

\* The enqueue task of a cancelled producer goes on by itself.
OrphanPut ==
  /\ runner \in {"draining", "cancelled"}
  /\ putting # Nothing
  /\ Room(ingress, QueueMax)
  /\ ingress' = Append(ingress, putting)
  /\ putting' = Nothing
  /\ UNCHANGED <<external, stored, control, offset, batch, seqno, accepted, held, closed,
                 queues, work, tracker>>

Monitor ==
  /\ runner = "polling"
  /\ ~ noticed
  /\ \E w \in Workers : work[w].phase = "failed"
  /\ noticed' = TRUE
  /\ UNCHANGED <<external, stored, starts, runner, stopStarted, shutdown, cancels, producer,
                 dispatcher, queues, work, tracker>>

SeesFailureBetweenPolls == noticed /\ ~ shutdown /\ putting = Nothing
\* Checked before each poll and raced against each enqueue.
SeesFailure == noticed /\ (~ shutdown \/ putting # Nothing)

Raise ==
  /\ runner = "polling"
  /\ runner' = "raised"
  /\ putting' = Nothing
  /\ UNCHANGED <<external, stored, starts, stopStarted, shutdown, cancels, noticed, offset, batch,
                 seqno, accepted, dispatcher, queues, work, tracker>>

FailFast == SeesFailure /\ Raise

PollFails ==
  /\ "telegram_error" \in Disturbances
  /\ ~ shutdown /\ ~ noticed
  /\ batch = <<>>
  /\ putting = Nothing
  /\ Raise

StopProducing ==
  /\ runner = "polling"
  /\ shutdown
  /\ putting = Nothing
  /\ runner' = "draining"
  /\ batch' = <<>>
  /\ UNCHANGED <<external, stored, starts, stopStarted, shutdown, cancels, noticed, offset, seqno,
                 putting, accepted, dispatcher, queues, work, tracker>>

-----------------------------------------------------------------------------
(* The drain.                                                              *)

Sentinel == held = Close \/ Close \in ToSet(ingress)

DrainClose ==
  /\ runner = "draining"
  /\ ~ Sentinel
  /\ Room(ingress, QueueMax)
  /\ ingress' = Append(ingress, Close)
  /\ UNCHANGED <<external, stored, control, producer, held, closed, queues, work, tracker>>

IngressDrained == ingress = <<>> /\ held = Close

\* Both joins passed and every task over.  A sentinel counts as done when it is
\* taken, so the queue of a worker that failed is never joined.
QueuesDrained ==
  /\ ingress = <<>> /\ held = Close /\ closed = WorkerCount
  /\ \A w \in Workers : work[w].phase = "exited"

DrainDone ==
  /\ runner = "draining"
  /\ QueuesDrained
  /\ runner' = "drained"
  /\ UNCHANGED <<external, stored, starts, stopStarted, shutdown, cancels, noticed, producer,
                 dispatcher, queues, work, tracker>>

-----------------------------------------------------------------------------
(* The dispatcher.                                                         *)

DispatchTake ==
  /\ TasksRun
  /\ held = Nothing
  /\ ingress # <<>>
  /\ held' = Head(ingress)
  /\ ingress' = Tail(ingress)
  /\ UNCHANGED <<external, stored, control, producer, closed, queues, work, tracker>>

DispatchPut ==
  /\ TasksRun
  /\ held \notin {Nothing, Close}
  /\ LET w == WorkerFor(held.update) IN
       /\ Room(queues[w], WorkerQueueMax)
       /\ queues' = [queues EXCEPT ![w] = Append(@, held)]
  /\ held' = Nothing
  /\ UNCHANGED <<external, stored, control, producer, ingress, closed, work, tracker>>

CloseQueue ==
  /\ TasksRun
  /\ held = Close
  /\ closed < WorkerCount
  /\ Room(queues[closed + 1], WorkerQueueMax)
  /\ queues' = [queues EXCEPT ![closed + 1] = Append(@, Close)]
  /\ closed' = closed + 1
  /\ UNCHANGED <<external, stored, control, producer, ingress, held, work, tracker>>

-----------------------------------------------------------------------------
(* The workers and the tracker.                                            *)

WorkerTake(w) ==
  /\ TasksRun
  /\ work[w].phase = "idle"
  /\ queues[w] # <<>>
  /\ queues' = [queues EXCEPT ![w] = Tail(@)]
  /\ work' = [work EXCEPT ![w] =
       IF Head(queues[w]) = Close
       THEN [Idle EXCEPT !.phase = "exited"]
       ELSE [Idle EXCEPT !.phase = "publishing", !.item = Head(queues[w])]]
  /\ UNCHANGED <<external, stored, control, producer, dispatcher, tracker>>

\* A record that was sent may reach the topic even if its sender is cancelled.
KafkaAppend(w) ==
  /\ Up
  /\ work[w].phase = "publishing"
  /\ published' = published \cup {work[w].item.update}
  /\ work' = [work EXCEPT ![w].phase = "appended"]
  /\ UNCHANGED <<kept, stored, control, producer, dispatcher, queues, tracker>>

ReleasedAnyway(items) == items
\* The completed items whose sequence numbers follow on from nextSequence.
Released(items) ==
  {i \in items : \A n \in nextSequence..i.seq : \E j \in items : j.seq = n}

\* mark_processed: release the contiguous prefix and commit its last offset.
KafkaAck(w) ==
  /\ TasksRun
  /\ work[w].phase = "appended"
  /\ LET done == completed \cup {work[w].item}
         released == Released(done)
     IN /\ nextSequence' = nextSequence + Cardinality(released)
        /\ completed' = done \ released
        /\ work' = [work EXCEPT ![w] =
             IF released = {} THEN Idle
             ELSE [phase |-> "saving", item |-> Nothing,
                   offset |-> Max({i.update : i \in released}) + 1]]
  /\ UNCHANGED <<external, stored, control, producer, dispatcher, queues>>

\* The write happens in a thread: cancelling the worker does not stop it.
SaveOffset(w) ==
  /\ Up
  /\ work[w].phase = "saving"
  /\ stored' = work[w].offset
  /\ work' = [work EXCEPT ![w] = Idle]
  /\ UNCHANGED <<external, control, producer, dispatcher, queues, tracker>>

WorkerFails(w) ==
  /\ "worker_error" \in Disturbances
  /\ TasksRun
  /\ work[w].phase \in {"publishing", "appended", "saving"}
  /\ work' = [work EXCEPT ![w] = [Idle EXCEPT !.phase = "failed"]]
  /\ UNCHANGED <<external, stored, control, producer, dispatcher, queues, tracker>>

-----------------------------------------------------------------------------
Producer == BeginPut \/ CompletePut \/ FailFast \/ StopProducing
Drain == DrainClose \/ DrainDone
Dispatcher == DispatchTake \/ DispatchPut \/ CloseQueue
Worker(w) == WorkerTake(w) \/ KafkaAppend(w) \/ KafkaAck(w) \/ SaveOffset(w)

Next ==
  \/ Boot \/ Started \/ Exit \/ Crash \/ Signal \/ SignalCancel \/ DrainTimeout
  \/ Poll \/ PollFails \/ Producer \/ OrphanPut \/ Monitor
  \/ Drain \/ Dispatcher
  \/ \E w \in Workers : Worker(w) \/ WorkerFails(w)

(***************************************************************************)
(* The event loop runs every task that is ready, the broker answers every  *)
(* publication, the timers of the shutdown expire and an ended runner ends *)
(* the process.  Nothing makes Telegram answer, an operator restart the    *)
(* process or anything fail.                                               *)
(***************************************************************************)
Fairness ==
  /\ WF_vars(Producer) /\ WF_vars(OrphanPut) /\ WF_vars(Monitor)
  /\ WF_vars(Drain) /\ WF_vars(Dispatcher)
  /\ WF_vars(SignalCancel) /\ WF_vars(DrainTimeout) /\ WF_vars(Exit)
  /\ \A w \in Workers : WF_vars(Worker(w))

Spec == Init /\ [][Next]_vars
FairSpec == Spec /\ Fairness

-----------------------------------------------------------------------------
(* Properties.                                                             *)

QueueItems == Items \cup {Close}

\* Every variable has its type, and no queue grows past its bound.
TypeOK ==
  /\ kept \in 1..(UpdateCount + 1)
  /\ published \subseteq Updates
  /\ stored \in 0..(UpdateCount + 1)
  /\ starts \in 0..MaxStarts
  /\ runner \in {"down", "starting", "polling", "draining", "drained", "raised", "cancelled"}
  /\ stopStarted \in BOOLEAN
  /\ shutdown \in BOOLEAN
  /\ cancels \subseteq {"signal", "timeout"}
  /\ noticed \in BOOLEAN
  /\ offset \in 0..(UpdateCount + 1)
  /\ batch \in Seq(Updates) /\ Len(batch) <= PollLimit
  /\ seqno \in Nat
  /\ putting \in Items \cup {Nothing}
  /\ accepted \subseteq Updates
  /\ ingress \in Seq(QueueItems) /\ Len(ingress) <= QueueMax
  /\ held \in QueueItems \cup {Nothing}
  /\ closed \in 0..WorkerCount
  /\ queues \in [Workers -> Seq(QueueItems)]
  /\ \A w \in Workers : Len(queues[w]) <= WorkerQueueMax
  /\ work \in [Workers -> [phase : {"idle", "publishing", "appended", "saving", "failed", "exited"},
                           item : Items \cup {Nothing},
                           offset : 0..(UpdateCount + 1)]]
  /\ nextSequence \in Nat \ {0}
  /\ completed \subseteq Items

\* The updates the process holds and has not handed to the broker.
InMemory(u) ==
  \/ u \in ToSet(batch)
  \/ putting.update = u \/ held.update = u
  \/ \E w \in Workers : work[w].phase = "publishing" /\ work[w].item.update = u
  \/ \E i \in ToSet(ingress) \cup UNION {ToSet(queues[w]) : w \in Workers} : i.update = u

(***************************************************************************)
(* The state file never covers an update this start still has to publish,  *)
(* nor one that only Telegram has: whatever order the workers finish in,   *)
(* fail in, or write their offsets in, a restart from the file skips       *)
(* nothing that could still be published.                                  *)
(***************************************************************************)
OffsetCoversPublished ==
  \A u \in Updates : u < stored => u \in published \/ (u < kept /\ u \notin accepted)

(***************************************************************************)
(* A shutdown that ends normally has published every update it accepted,   *)
(* and its tracker has given every one of them out to be saved: no worker  *)
(* failed on the way and no gap held the offset back.                      *)
(***************************************************************************)
DrainedAllPublished ==
  runner = "drained" =>
    /\ accepted \subseteq published
    /\ completed = {}

(***************************************************************************)
(* The updates of one chat or user reach the topic for the first time in   *)
(* the order Telegram sent them, over any number of failures and restarts. *)
(***************************************************************************)
SourceOrder ==
  [][\A u \in published' \ published, v \in published :
       Source[v] = Source[u] => v < u]_vars

(***************************************************************************)
(* A worker that fails takes the process down: it does not go on half      *)
(* alive, blocked on the queue nobody reads any more.                      *)
(***************************************************************************)
FailureEndsProcess ==
  \A w \in Workers : work[w].phase = "failed" ~> runner = "down"

\* A signal that finds the runner started ends the process, whatever its tasks
\* are blocked on: full queues, a dead worker, a drain that cannot end.
ShutdownCompletes == shutdown ~> runner = "down"

\* No task waits for ever on another: every fetched update leaves the memory.
UpdatesMoveOn == \A u \in Updates : InMemory(u) ~> ~ InMemory(u)

\* Every update is published, or can still be: in memory or kept by Telegram.
\* Does not hold: a signal can cancel the drain it has itself begun.
AtLeastOnce == \A u \in Updates : u \in published \/ InMemory(u) \/ u >= kept
=============================================================================
