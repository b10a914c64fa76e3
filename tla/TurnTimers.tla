------------------------------ MODULE TurnTimers ------------------------------
(***************************************************************************)
(* The turn timers of the orchestrator: a sorted set of due times, a       *)
(* payload, a claim and a done mark per timer, all keys of Redis, and the  *)
(* loop that executes due timers at the game service.                      *)
(*                                                                         *)
(* The game is the abstract turn of module TableTurn; a turn may be with a *)
(* seat that is out of the game.  A step is one command to Redis, one      *)
(* request to the game with its answer, or one message to the chat:        *)
(* between any two of them the pipeline runs (module ChatTurns), and the   *)
(* process may die.                                                        *)
(***************************************************************************)
EXTENDS TableTurn

CONSTANTS
  MaxRounds,   \* bound: rounds of the table
  MaxVersion,  \* bound: a round that reached this turn_version can only end
  MaxFaults    \* bound: how many things go wrong

ASSUME TimerBoundsAssumption ==
  MaxRounds \in Nat /\ MaxVersion \in Nat \ {0} /\ MaxFaults \in Nat

\* timer_id: the session of a chat and its turn_version.
Timers == (1..MaxRounds) \X (1..MaxVersion)
NoTimer == <<0, 0>>

Phases == {"idle", "claim", "load", "execute", "announce", "mark", "unindex", "clean",
           "retry", "drop", "release"}

VARIABLES
  index,    \* timer:index, the sorted set
  payload,  \* the timers with a timer:payload key
  claims,   \* the timers with a timer:claim key
  done,     \* the timers with a timer:done key
  worker,   \* the loop: the timer it is at, its claim, the buttons of its notice
  late,     \* the turns whose deadline has passed
  shown,    \* the turn_versions on the action buttons in the chat
  faults,   \* how many things went wrong
  forced,   \* history, not in the code: timers the game executed
  vain,     \* history, not in the code: timers answered by a success that changed nothing
  notices,  \* history, not in the code: timers announced in the chat
  refusals  \* history, not in the code: timers the game answered with a failure of its own

redis == <<index, payload, claims, done>>
history == <<forced, vain, notices, refusals>>
timers == <<redis, worker, late, shown, faults, history>>

Resting == [phase |-> "idle", timer |-> NoTimer, held |-> FALSE, buttons |-> 0]

Current == <<round, version>>

\* The turn of a timer is over.
MovedPast(t) == t[1] < round \/ (t[1] = round /\ (t[2] < version \/ ~open))

\* The seat on turn has left or is settled: neither it nor a timeout moves the round on.
Abandoned(t) == open /\ away /\ t = Current

Fault == faults < MaxFaults /\ faults' = faults + 1

\* A change of the running round, within the bounds.
Move == Advance /\ (open' => version' <= MaxVersion)

\* The buttons of a message that presents the round.
Buttons == IF open' THEN version' ELSE 0

-----------------------------------------------------------------------------
(* The environment.                                                        *)

\* current_timer of a turn lies in the past.
DeadlinePasses(t) ==
  /\ t \notin late
  /\ t \in index \/ (open /\ t = Current)
  /\ late' = late \cup {t}
  /\ UNCHANGED <<turn, redis, worker, shown, faults, history>>

ClaimWithoutExpiry(t) == FALSE
\* The time to live of a claim: longer than the requests of whoever holds it
\* may take, so a claim that expires was left behind.
ClaimExpires(t) ==
  /\ t \in claims
  /\ ~(worker.held /\ worker.timer = t)
  /\ claims' = claims \ {t}
  /\ UNCHANGED <<turn, index, payload, done, worker, late, shown, faults, history>>

-----------------------------------------------------------------------------
(* RedisTimerWorker.                                                       *)

TimersInit ==
  /\ index = {} /\ payload = {} /\ claims = {} /\ done = {}
  /\ worker = Resting
  /\ late = {} /\ shown = {} /\ faults = 0
  /\ forced = {} /\ vain = {} /\ notices = {} /\ refusals = {}

At(phase) == worker.phase = phase
Go(phase) == worker' = [worker EXCEPT !.phase = phase]
Finish == worker' = Resting

(***************************************************************************)
(* zrangebyscore up to now, then the done mark of a due timer: only this   *)
(* loop sets done marks, so nothing can come between that matters.  The    *)
(* due timers are taken one by one here; the code reads them in one batch, *)
(* so it may find a timer gone that it has yet to claim, as here.          *)
(***************************************************************************)
Poll ==
  /\ At("idle")
  /\ \E t \in index \cap late :
       worker' = [Resting EXCEPT !.timer = t, !.phase = IF t \in done THEN "unindex" ELSE "claim"]
  /\ UNCHANGED <<turn, redis, late, shown, faults, history>>

Claim ==
  /\ At("claim")
  /\ IF worker.timer \in claims
     THEN Finish /\ UNCHANGED claims
     ELSE /\ claims' = claims \cup {worker.timer}
          /\ worker' = [worker EXCEPT !.phase = "load", !.held = TRUE]
  /\ UNCHANGED <<turn, index, payload, done, late, shown, faults, history>>

Load ==
  /\ At("load")
  /\ Go(IF worker.timer \in payload THEN "execute" ELSE "drop")
  /\ UNCHANGED <<turn, redis, late, shown, faults, history>>

\* apply_timeout goes by the turn_version alone, not by the session.
InTurn(t) == open /\ t[2] = version

\* The seat on turn is at the table, and its turn has expired.
Accepts(t) == InTurn(t) /\ ~away /\ Current \in late

TimeoutApplied ==
  /\ Accepts(worker.timer)
  /\ Move
  /\ forced' = forced \cup {worker.timer}
  /\ UNCHANGED vain

\* A seat that is inactive or settled is left alone, and that is a success.
TimeoutInVain ==
  /\ InTurn(worker.timer) /\ away
  /\ vain' = vain \cup {worker.timer}
  /\ UNCHANGED <<turn, forced>>

TimeoutRefused ==
  /\ ~InTurn(worker.timer) \/ (~away /\ Current \notin late)
  /\ UNCHANGED <<turn, forced, vain>>

TimeoutSwallowed ==
  /\ Fault
  /\ TimeoutApplied \/ UNCHANGED <<turn, forced, vain>>
  /\ Go("mark")
  /\ UNCHANGED refusals

\* The request is lost, or its answer; either raises.
TimeoutLost ==
  /\ Fault
  /\ TimeoutApplied \/ UNCHANGED <<turn, forced, vain>>
  /\ Go("retry")
  /\ UNCHANGED refusals

\* A failure of the game is an envelope like any other refusal.
TimeoutFails ==
  /\ Fault
  /\ refusals' = refusals \cup {worker.timer}
  /\ Go("mark")
  /\ UNCHANGED <<turn, forced, vain>>

AnsweredLoudly ==
  /\ TimeoutApplied \/ TimeoutInVain \/ TimeoutRefused
  /\ worker' = [worker EXCEPT !.phase = "announce", !.buttons = Buttons]

\* execute_timeout announces every success: it looks for the status of the seat
\* in current_player, where the game does not put it.
Answered ==
  \/ /\ TimeoutApplied \/ TimeoutInVain
     /\ worker' = [worker EXCEPT !.phase = "announce", !.buttons = Buttons]
  \/ TimeoutRefused /\ Go("mark")

Execute ==
  /\ At("execute")
  /\ \/ Answered /\ UNCHANGED <<faults, refusals>>
     \/ TimeoutLost
     \/ TimeoutFails
  /\ UNCHANGED <<redis, late, shown, notices>>

\* A notice that cannot be sent is logged and forgotten.
Announce ==
  /\ At("announce")
  /\ \/ /\ notices' = notices \cup {worker.timer}
        /\ shown' = shown \cup ({worker.buttons} \ {0})
        /\ UNCHANGED faults
     \/ Fault /\ UNCHANGED <<notices, shown>>
  /\ worker' = [worker EXCEPT !.phase = "mark", !.buttons = 0]
  /\ UNCHANGED <<turn, redis, late, forced, vain, refusals>>

Mark ==
  /\ At("mark")
  /\ done' = done \cup {worker.timer}
  /\ Go("unindex")
  /\ UNCHANGED <<turn, index, payload, claims, late, shown, faults, history>>

\* zrem: of a timer that is done, or that has lost its payload.
Unindex ==
  /\ At("unindex") \/ At("drop")
  /\ index' = index \ {worker.timer}
  /\ Go(IF At("drop") THEN "release" ELSE "clean")
  /\ UNCHANGED <<turn, payload, claims, done, late, shown, faults, history>>

Clean ==
  /\ At("clean")
  /\ payload' = payload \ {worker.timer}
  /\ IF worker.held THEN Go("release") ELSE Finish
  /\ UNCHANGED <<turn, index, claims, done, late, shown, faults, history>>

RetryForgotten == index \ {worker.timer}
\* Due again after a second.
RetryLater == index \cup {worker.timer}

Retry ==
  /\ At("retry")
  /\ index' = RetryLater
  /\ Go("release")
  /\ UNCHANGED <<turn, payload, claims, done, late, shown, faults, history>>

Release ==
  /\ At("release")
  /\ claims' = claims \ {worker.timer}
  /\ Finish
  /\ UNCHANGED <<turn, index, payload, done, late, shown, faults, history>>

WorkerStep ==
  \/ Poll \/ Claim \/ Load \/ Execute \/ Announce
  \/ Mark \/ Unindex \/ Clean \/ Retry \/ Release
=============================================================================
