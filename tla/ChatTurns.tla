------------------------------ MODULE ChatTurns ------------------------------
(***************************************************************************)
(* The updates of one chat on their way through the orchestrator, together *)
(* with its turn timers (module TurnTimers) and the rounds of the game     *)
(* (module TableTurn).                                                     *)
(*                                                                         *)
(* The consumer handles one update after another: load the context,        *)
(* normalize, mark the command in the dedup store, check the context, ask  *)
(* the game, store the new context, cancel the old timer, answer in the    *)
(* chat, schedule the next timer.  A step ends where another task may run. *)
(* The context after the message is saved is the one Remember stored, so   *)
(* that save is no step; neither is the deletion of the previous message.  *)
(***************************************************************************)
EXTENDS TurnTimers, Sequences, FiniteSets

CONSTANT MaxUpdates   \* bound: updates the players send

ASSUME UpdatesAssumption == MaxUpdates \in Nat

Kinds == {"start", "button", "text", "current", "stop", "register"}
Moves == {"button", "text"}

\* An update of the topic; version is the tv of a pressed action button.
Update == [id : 1..MaxUpdates, kind : Kinds, actor : Holders, version : Nat]

\* SessionContext: what is null is 0 or NoHolder.
Context == [session : Nat, version : Nat, holder : Holders \cup {NoHolder}]
Unknown == [session |-> 0, version |-> 0, holder |-> NoHolder]

JobPhases == {"idle", "ask", "refresh", "remember", "unindex", "forget", "send",
              "plan", "store", "enqueue"}

VARIABLES
  topic,     \* the updates in Kafka
  position,  \* how many of them the consumer has taken
  committed, \* how many of them a restart will certainly not take again
  ctx,       \* session_ctx of the chat
  dedup,     \* the dedup keys, as pairs of update and turn_version
  job,       \* the envelope in the pipeline
  effects    \* history, not in the code: changes of the round by each update

upstream == <<topic, position, committed>>
chat == <<upstream, ctx, dedup, job, effects>>
vars == <<turn, timers, chat>>

NoJob == [phase |-> "idle", id |-> 0, kind |-> "current", actor |-> NoHolder, version |-> 0,
          old |-> Unknown, ok |-> FALSE, snap |-> Unknown]

Init ==
  /\ TurnInit /\ TimersInit
  /\ topic = <<>> /\ position = 0 /\ committed = 0
  /\ ctx = Unknown /\ dedup = {} /\ job = NoJob
  /\ effects = [u \in 1..MaxUpdates |-> 0]

In(phase) == job.phase = phase
Goto(phase) == job' = [job EXCEPT !.phase = phase]
\* From here on only the answer matters.
Answer == job' = [NoJob EXCEPT !.phase = "send", !.kind = job.kind, !.ok = job.ok, !.snap = job.snap]

-----------------------------------------------------------------------------
(* The consumer.                                                           *)

\* normalize: a typed move takes the turn_version of the context.
VersionOf(u) == IF u.kind = "text" THEN ctx.version ELSE u.version

\* build_dedup_key: one actor and one action belong to an update.
Key(u) == <<u.id, VersionOf(u)>>

KeyAlwaysFree(u) == TRUE
KeyFree(u) == Key(u) \notin dedup

\* The context is loaded, and check_and_mark lets the command through or not.
Begun(u) ==
  /\ dedup' = dedup \cup {Key(u)}
  /\ job' = IF KeyFree(u)
            THEN [NoJob EXCEPT !.phase = "ask", !.id = u.id, !.kind = u.kind, !.actor = u.actor,
                               !.version = VersionOf(u), !.old = ctx]
            ELSE NoJob

\* Somebody writes a command or presses a button that is in the chat.
Fresh(u) ==
  /\ u.kind = "button" <=> u.version # 0
  /\ u.kind = "button" => u.version \in shown
  /\ u.kind = "start" => round < MaxRounds

SentUpdates == {topic[i].id : i \in 1..Len(topic)}

TakeNew ==
  /\ In("idle") /\ position = Len(topic)
  /\ \E k \in Kinds, a \in Holders, v \in {0} \cup shown :
       LET u == [id |-> Cardinality(SentUpdates) + 1, kind |-> k, actor |-> a, version |-> v] IN
       /\ u.id <= MaxUpdates
       /\ Fresh(u)
       /\ topic' = Append(topic, u)
       /\ Begun(u)
  /\ position' = position + 1
  /\ UNCHANGED <<turn, timers, committed, ctx, effects>>

\* An update that was delivered before, or published twice.
TakeAgain ==
  /\ In("idle") /\ position < Len(topic)
  /\ Begun(topic[position + 1])
  /\ position' = position + 1
  /\ UNCHANGED <<turn, timers, topic, committed, ctx, effects>>

\* The poller publishes again what it published before it crashed.
Republish ==
  /\ Fault
  /\ \E i \in 1..Len(topic) : topic' = Append(topic, topic[i])
  /\ UNCHANGED <<turn, redis, worker, late, shown, history, position, committed, ctx, dedup, job,
                 effects>>

\* The offset of what was taken is committed from time to time; a restart goes
\* back to some offset since the last one.  Redis and the game live on.
Crash ==
  /\ Fault
  /\ \E p \in committed..position : position' = p /\ committed' = p
  /\ job' = NoJob
  /\ worker' = Resting
  /\ UNCHANGED <<turn, redis, late, shown, history, topic, ctx, dedup, effects>>

-----------------------------------------------------------------------------
(* The pipeline.                                                           *)

IsMove == job.kind \in Moves

\* The checks of handle_player_action before it asks the game.
Guarded ==
  IsMove =>
    /\ job.version # 0
    /\ ctx.version \in {0, job.version}
    /\ ctx.holder \in {NoHolder, job.actor}

\* The game accepts the command.
Welcome ==
  \/ job.kind = "start" /\ ~open /\ round < MaxRounds
  \/ IsMove /\ open /\ ~away /\ job.version = version /\ job.actor = holder
  \/ job.kind \in {"stop", "current"} /\ open
  \/ job.kind = "register"

Changes == job.kind \in Moves \cup {"start", "stop"}

\* What the game does for a command it accepts.
Effect ==
  IF Changes
  THEN /\ IF job.kind = "start" THEN Begin ELSE Move
       /\ effects' = [effects EXCEPT ![job.id] = @ + 1]
  ELSE UNCHANGED <<turn, effects>>

\* The registration of a player answers with no session.
Snapshot == IF job.kind = "register" THEN Unknown
            ELSE [session |-> round', version |-> version', holder |-> holder']

Accepted ==
  /\ Welcome
  /\ Effect
  /\ job' = [job EXCEPT !.phase = "remember", !.ok = TRUE, !.snap = Snapshot]
  /\ UNCHANGED faults

\* A stale turn makes the handler look at the session before it answers.  The
\* game refuses other commands too: a rule, a bank or a seat is against them.
Refused ==
  /\ ~Welcome \/ Changes
  /\ IF IsMove /\ open /\ job.version # version THEN Goto("refresh") ELSE Answer
  /\ UNCHANGED <<turn, effects, faults>>

\* The request is lost, or its answer.
AnswerLost ==
  /\ Fault
  /\ (Welcome /\ Effect) \/ UNCHANGED <<turn, effects>>
  /\ Answer

Ask ==
  /\ In("ask")
  /\ IF Guarded THEN Accepted \/ Refused \/ AnswerLost
     ELSE Answer /\ UNCHANGED <<turn, effects, faults>>
  /\ UNCHANGED <<redis, worker, late, shown, history, upstream, ctx, dedup>>

\* _refresh_context; there may be no session any more, or no answer.
Refresh ==
  /\ In("refresh")
  /\ \/ open /\ ctx' = [session |-> round, version |-> version, holder |-> holder]
     \/ ~open /\ UNCHANGED ctx
  /\ Answer
  /\ UNCHANGED <<turn, timers, upstream, dedup, effects>>

\* _cancel_timeout_if_needed goes by the context the command was read with.
Cancels ==
  IsMove /\ job.ok /\ job.old.session # 0 /\ job.old.holder = job.actor

Remember ==
  /\ In("remember")
  /\ ctx' = job.snap
  /\ IF Cancels THEN Goto("unindex") ELSE Answer
  /\ UNCHANGED <<turn, timers, upstream, dedup, effects>>

OldTimer == <<job.old.session, job.version>>
NewTimer == <<job.snap.session, job.snap.version>>

CancelIndex ==
  /\ In("unindex")
  /\ index' = index \ {OldTimer}
  /\ Goto("forget")
  /\ UNCHANGED <<turn, payload, claims, done, worker, late, shown, faults, history,
                 upstream, ctx, dedup, effects>>

CancelKeys ==
  /\ In("forget")
  /\ payload' = payload \ {OldTimer}
  /\ claims' = claims \ {OldTimer}
  /\ Answer
  /\ UNCHANGED <<turn, index, done, worker, late, shown, faults, history, upstream, ctx,
                 dedup, effects>>

RunningOrOver == job.snap.session # 0
\* current_timer is set in the answer.
Running == job.snap.holder # NoHolder

\* The message of a stop has no action buttons.
ActionButtons ==
  IF job.ok /\ Running /\ job.kind # "stop" THEN {job.snap.version} ELSE {}

\* A message that cannot be sent ends the envelope; an answer with a running
\* turn has its timeout scheduled.
Send ==
  /\ In("send")
  /\ \/ /\ shown' = shown \cup ActionButtons
        /\ IF job.ok /\ Running THEN Goto("plan") ELSE job' = NoJob
        /\ UNCHANGED faults
     \/ Fault /\ job' = NoJob /\ UNCHANGED shown
  /\ UNCHANGED <<turn, redis, worker, late, history, upstream, ctx, dedup, effects>>

\* schedule_timeout
Plan ==
  /\ In("plan")
  /\ IF NewTimer \in done THEN job' = NoJob ELSE Goto("store")
  /\ UNCHANGED <<turn, timers, upstream, ctx, dedup, effects>>

StorePayload ==
  /\ In("store")
  /\ payload' = payload \cup {NewTimer}
  /\ Goto("enqueue")
  /\ UNCHANGED <<turn, index, claims, done, worker, late, shown, faults, history, upstream,
                 ctx, dedup, effects>>

IndexTimer ==
  /\ In("enqueue")
  /\ index' = index \cup {NewTimer}
  /\ job' = NoJob
  /\ UNCHANGED <<turn, payload, claims, done, worker, late, shown, faults, history, upstream,
                 ctx, dedup, effects>>

PipelineStep ==
  \/ TakeAgain \/ Ask \/ Refresh \/ Remember
  \/ CancelIndex \/ CancelKeys \/ Send \/ Plan \/ StorePayload \/ IndexTimer

TimerStep == WorkerStep /\ UNCHANGED chat
TimePasses == (\E t \in Timers : DeadlinePasses(t)) /\ UNCHANGED chat
KeyExpires == (\E t \in Timers : ClaimExpires(t)) /\ UNCHANGED chat

Next ==
  \/ TakeNew \/ Republish \/ Crash
  \/ PipelineStep \/ TimerStep \/ TimePasses \/ KeyExpires

Spec == Init /\ [][Next]_vars

\* The event loop runs both tasks, time passes, and keys expire; nobody has to
\* write to the bot.
Fairness ==
  WF_vars(PipelineStep) /\ WF_vars(TimerStep) /\ WF_vars(TimePasses) /\ WF_vars(KeyExpires)

FairSpec == Spec /\ Fairness

-----------------------------------------------------------------------------
(* Properties.                                                             *)

\* Every variable keeps the shape of the key, the row or the record it stands for.
TypeOK ==
  /\ round \in 0..MaxRounds /\ open \in BOOLEAN /\ version \in 0..MaxVersion + 2
  /\ holder \in Holders \cup {NoHolder} /\ away \in BOOLEAN
  /\ index \subseteq Timers /\ payload \subseteq Timers
  /\ claims \subseteq Timers /\ done \subseteq Timers
  /\ worker.phase \in Phases /\ worker.timer \in Timers \cup {NoTimer}
  /\ late \subseteq Timers /\ shown \subseteq 1..MaxVersion
  /\ faults \in 0..MaxFaults
  /\ topic \in Seq(Update) /\ committed <= position /\ position <= Len(topic)
  /\ ctx \in Context
  /\ job.phase \in JobPhases /\ job.snap \in Context /\ job.old \in Context
  /\ effects \in [1..MaxUpdates -> Nat]

(***************************************************************************)
(* At least once delivery, the dedup mark and the turn_version together:   *)
(* whatever crashes, is published or delivered twice, a pressed button or  *)
(* a command changes the round at most once.  A typed move is left out:    *)
(* its dedup key has the turn_version of the moment it is read.            *)
(***************************************************************************)
CommandAppliedOnce ==
  \A i \in 1..Len(topic) : topic[i].kind # "text" => effects[topic[i].id] <= 1

(***************************************************************************)
(* A done mark keeps a timer from ever running again, so it stands only    *)
(* for a turn that is over, one whose timeout the game itself failed, or   *)
(* one that is abandoned: a running turn of a player who is at the table   *)
(* is never given up.                                                      *)
(***************************************************************************)
DoneMeansOver == \A t \in done : MovedPast(t) \/ t \in refusals \/ Abandoned(t)

(***************************************************************************)
(* A timeout the game refused (the turn was over, or not late) leaves no   *)
(* notice in the chat, however often it is retried: what is announced was  *)
(* applied, or answered by a success for a seat that is out of the game.   *)
(* The second is one notice too many: NoticeIsTrue does not hold.          *)
(***************************************************************************)
NoticeIsAnswered == notices \subseteq forced \cup vain

\* The chat reads that a player was made to stand only if that happened.
\* Does not hold: a timeout in vain is announced like one that was applied.
NoticeIsTrue == notices \subseteq forced

\* The worker will find the timer and execute it.
Armed(t) == t \in index /\ t \in payload

(***************************************************************************)
(* A scheduled turn keeps its timer until it is over: neither the          *)
(* pipeline, which cancels by an old context, nor the worker, which cleans *)
(* up while the pipeline schedules, takes it away before.  Two exceptions: *)
(* the game itself failed the timeout, or the turn is abandoned.           *)
(***************************************************************************)
TimerKeptUntilOver ==
  [][\A t \in Timers :
       Armed(t) /\ ~Armed(t)' => MovedPast(t)' \/ t \in refusals' \/ Abandoned(t)']_vars

(***************************************************************************)
(* A turn that was scheduled and is with a player at the table ends, by a  *)
(* move or by its timeout, whichever process dies and whichever claim it   *)
(* leaves behind.                                                          *)
(***************************************************************************)
Waiting(t) == Armed(t) /\ ~MovedPast(t) /\ t \notin refusals /\ ~Abandoned(t)

ScheduledTurnEnds ==
  (\E t \in Timers : Waiting(t)) ~> (\A t \in Timers : ~Waiting(t))

(***************************************************************************)
(* Every turn of a player at the table ends although nobody does anything. *)
(***************************************************************************)
EveryTurnEnds ==
  \A t \in Timers : (open /\ Current = t) ~> (MovedPast(t) \/ Abandoned(t))
=============================================================================
