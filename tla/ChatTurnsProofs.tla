------------------------------ MODULE ChatTurnsProofs ------------------------------
(***************************************************************************)
(* Proofs about ChatTurns for any number of players, rounds, updates and   *)
(* faults: the safety of the turn timers and of the dedup mark.            *)
(*                                                                         *)
(* The invariant has three parts.  TimersOk says what the worker may rely  *)
(* on at each of its steps, JobOk what the pipeline may rely on, UpdatesOk *)
(* how an update, its dedup key and its effect belong together.  A change  *)
(* of the turn matters to them only in that a turn once issued stays       *)
(* issued, and one that is over or abandoned stays so (TurnGrows).         *)
(***************************************************************************)
EXTENDS ChatTurns, TLAPS, FiniteSetTheorems, SequenceTheorems

\* The round as the bounds allow it.
TurnOk ==
  /\ round \in 0..MaxRounds
  /\ open \in BOOLEAN /\ away \in BOOLEAN
  /\ version \in 0..MaxVersion + 2
  /\ open => round # 0 /\ version \in 1..MaxVersion /\ holder \in Holders
  /\ ~open => holder = NoHolder

\* A turn that there is or has been.
Issued(t) == t[1] < round \/ (t[1] = round /\ t[2] <= version)

\* A turn that is over, or that no timeout will move on any more.
Ended(t) == MovedPast(t) \/ Abandoned(t)

WorkerType == [phase : Phases, timer : Timers \cup {NoTimer}, held : BOOLEAN, buttons : Nat]

TimersType ==
  /\ index \subseteq Timers /\ payload \subseteq Timers
  /\ claims \subseteq Timers /\ done \subseteq Timers
  /\ worker \in WorkerType /\ worker.buttons <= MaxVersion
  /\ late \subseteq Timers /\ shown \subseteq 1..MaxVersion
  /\ faults \in 0..MaxFaults

\* What the worker relies on at each step.
WorkerOk ==
  /\ worker.phase # "idle" => worker.timer \in Timers /\ Issued(worker.timer)
  /\ worker.phase \in {"claim", "load", "execute"} => worker.timer \in late
  /\ worker.phase = "announce" => worker.timer \in forced \cup vain /\ Ended(worker.timer)
  /\ worker.phase = "mark" => Ended(worker.timer) \/ worker.timer \in refusals

TimersOk ==
  /\ TimersType
  /\ WorkerOk
  /\ \A t \in index : Issued(t)
  /\ DoneMeansOver
  /\ NoticeIsAnswered

JobType == [phase : JobPhases, id : Nat, kind : Kinds, actor : Holders \cup {NoHolder},
            version : Nat, old : Context, ok : BOOLEAN, snap : Context]

\* A snapshot with a turn is one of a turn that was issued.
JobOk ==
  /\ ctx \in Context
  /\ job \in JobType
  /\ Running => NewTimer \in Timers /\ Issued(NewTimer)
  /\ job.phase \in {"plan", "store", "enqueue"} => Running

CommandKey(u) == <<u.id, u.version>>

\* The updates sent have the first ids, each id one update; the key of a command
\* that had an effect is in the dedup store.
LogOk ==
  /\ topic \in Seq(Update)
  /\ effects \in [1..MaxUpdates -> Nat]
  /\ \E n \in 0..MaxUpdates : SentUpdates = 1..n
  /\ \A i, j \in 1..Len(topic) : topic[i].id = topic[j].id => topic[i] = topic[j]
  /\ \A u \in 1..MaxUpdates : u \notin SentUpdates => effects[u] = 0
  /\ \A i \in 1..Len(topic) :
       topic[i].kind # "text" /\ effects[topic[i].id] # 0 => CommandKey(topic[i]) \in dedup
  /\ CommandAppliedOnce

\* The game is asked for a command that has no effect yet and has its key.
AskOk ==
  job.phase = "ask" =>
    \E i \in 1..Len(topic) :
      /\ job.id = topic[i].id /\ job.kind = topic[i].kind
      /\ job.kind # "text" => CommandKey(topic[i]) \in dedup /\ effects[job.id] = 0

UpdatesOk ==
  /\ LogOk
  /\ AskOk
  /\ committed \in Nat /\ position \in Nat /\ committed <= position /\ position <= Len(topic)

ChatInv == TurnOk /\ TimersOk /\ JobOk /\ UpdatesOk

-----------------------------------------------------------------------------
(* The turn.                                                               *)

\* How the turn may change, for timers and for the turns contexts remember.
TurnGrows ==
  /\ round <= round'
  /\ \A t \in Timers \cup (Nat \X Nat) :
       /\ Issued(t) => Issued(t)'
       /\ MovedPast(t) => MovedPast(t)'
       /\ Ended(t) => Ended(t)'

\* Nothing happens to the turn.
LEMMA TurnUnchanged ==
  ASSUME TurnOk, UNCHANGED turn
  PROVE  TurnOk' /\ TurnGrows
  BY DEF TurnOk, TurnGrows, turn, Issued, MovedPast, Ended, Abandoned, Current

\* A turn handed over within the bounds.
LEMMA NewTurn ==
  ASSUME HandOver, round' \in 0..MaxRounds, version' \in 0..MaxVersion + 2,
         open' => round' # 0 /\ version' \in 1..MaxVersion
  PROVE  TurnOk'
<1>1. CASE open' = TRUE /\ holder' \in Holders /\ away' \in BOOLEAN
  BY <1>1 DEF TurnOk
<1>2. CASE open' = FALSE /\ holder' = NoHolder /\ away' = FALSE
  BY <1>2 DEF TurnOk
<1> QED BY <1>1, <1>2 DEF HandOver

\* A round begins within the bounds, or moves on within them.
LEMMA TurnChanges ==
  ASSUME TurnOk, (Begin /\ round < MaxRounds) \/ Move
  PROVE  TurnOk' /\ TurnGrows
<1>1. CASE Begin /\ round < MaxRounds
  <2>1. /\ round' \in 0..MaxRounds /\ round' # 0
        /\ version' \in 0..MaxVersion + 2 /\ version' \in 1..MaxVersion
    BY <1>1, TimerBoundsAssumption DEF TurnOk, Begin
  <2>2. TurnOk'
    BY <1>1, <2>1, NewTurn DEF Begin
  <2>3. TurnGrows
    BY <1>1 DEF TurnOk, TurnGrows, Begin, Issued, MovedPast, Timers, Ended, Abandoned
  <2> QED BY <2>2, <2>3
<1>2. CASE Move
  <2>1. version \in 1..MaxVersion /\ round' = round /\ round # 0 /\ HandOver
        /\ version' \in {version + 1, version + 2}
    BY <1>2 DEF TurnOk, Move, Advance
  <2>2. round' \in 0..MaxRounds /\ version' \in 0..MaxVersion + 2
    BY <2>1, TimerBoundsAssumption DEF TurnOk
  <2>3. open' => version' \in 1..MaxVersion
    BY <1>2, <2>1, TimerBoundsAssumption DEF Move
  <2>4. TurnOk'
    BY <2>1, <2>2, <2>3, NewTurn
  <2>5. TurnGrows
    BY <1>2 DEF TurnOk, TurnGrows, Move, Advance, Issued, MovedPast, Timers, Ended, Abandoned, Current
  <2> QED BY <2>4, <2>5
<1> QED BY <1>1, <1>2

\* The turn of a move is over after it, and a running turn has been issued.
LEMMA MoveEndsTurn ==
  ASSUME TurnOk, Move, NEW t \in Timers, Issued(t), t[2] = version
  PROVE  MovedPast(t)'
  BY DEF TurnOk, Move, Advance, Issued, MovedPast, Timers

-----------------------------------------------------------------------------
(* Parts a step does not touch.                                            *)

\* The timers when only the turn has changed.
LEMMA TimersStable ==
  ASSUME TimersOk, TurnGrows, UNCHANGED timers
  PROVE  TimersOk'
<1>1. UNCHANGED <<index, payload, claims, done, worker, late, shown, faults, forced, vain, notices, refusals>>
  BY DEF timers, redis, history
<1>2. TimersType' /\ NoticeIsAnswered'
  BY <1>1 DEF TimersOk, TimersType, NoticeIsAnswered
<1>3. WorkerOk'
  BY <1>1 DEF TimersOk, WorkerOk, TurnGrows
<1>4. (\A t \in index : Issued(t))' /\ DoneMeansOver'
  BY <1>1 DEF TimersOk, TimersType, DoneMeansOver, TurnGrows, Ended
<1> QED BY <1>2, <1>3, <1>4 DEF TimersOk

\* The pipeline when only the turn has changed.
LEMMA JobStable ==
  ASSUME JobOk, TurnGrows, UNCHANGED <<ctx, job>>
  PROVE  JobOk'
  BY DEF JobOk, TurnGrows, Running, NewTimer

\* The updates when none is taken and none has an effect.
LEMMA UpdatesStable ==
  ASSUME UpdatesOk, UNCHANGED <<upstream, dedup, effects>>, job' = job \/ job'.phase # "ask"
  PROVE  UpdatesOk'
  BY DEF UpdatesOk, LogOk, AskOk, upstream, SentUpdates, CommandAppliedOnce

-----------------------------------------------------------------------------
(* The worker, one lemma for each of its steps.                            *)

\* A worker that rests relies on nothing.
LEMMA RestingOk ==
  Resting \in WorkerType /\ Resting.phase = "idle" /\ Resting.buttons = 0 /\ Resting.timer = NoTimer
  BY DEF Resting, WorkerType, Phases

\* A worker that only goes on to another step.
LEMMA WorkerGoes ==
  ASSUME worker \in WorkerType, NEW phase \in Phases, worker' = [worker EXCEPT !.phase = phase]
  PROVE  /\ worker' \in WorkerType /\ worker'.phase = phase
         /\ worker'.timer = worker.timer /\ worker'.buttons = worker.buttons
         /\ worker'.held = worker.held
  BY DEF WorkerType

\* With the turn as it was, what was issued and what is over stays so.
LEMMA TurnStays ==
  ASSUME UNCHANGED turn
  PROVE  \A t : /\ Issued(t)' <=> Issued(t)
                /\ MovedPast(t)' <=> MovedPast(t)
                /\ Abandoned(t)' <=> Abandoned(t)
                /\ Ended(t)' <=> Ended(t)
  BY DEF turn, Issued, MovedPast, Ended, Abandoned, Current

\* A due timer is issued and late.
LEMMA PollStep ==
  ASSUME TimersOk, Poll
  PROVE  TimersOk'
<1>1. PICK t \in index \cap late :
        worker' = [Resting EXCEPT !.timer = t, !.phase = IF t \in done THEN "unindex" ELSE "claim"]
  BY DEF Poll
<1>2. t \in Timers /\ t \in late /\ Issued(t)
  BY DEF TimersOk, TimersType
<1>3. /\ worker' \in WorkerType /\ worker'.phase \in {"unindex", "claim"} /\ worker'.timer = t
      /\ worker'.buttons = 0
  BY <1>1, <1>2 DEF Resting, WorkerType, Phases
<1>4. UNCHANGED <<turn, index, payload, claims, done, late, shown, faults, forced, vain, notices, refusals>>
  BY DEF Poll, redis, history
<1>5. TimersType'
  BY <1>3, <1>4, TimerBoundsAssumption DEF TimersOk, TimersType
<1>6. WorkerOk'
  BY <1>2, <1>3, <1>4, TurnStays DEF WorkerOk
<1> QED BY <1>4, <1>5, <1>6, TurnStays DEF TimersOk, DoneMeansOver, NoticeIsAnswered

\* The claim of a timer.
LEMMA ClaimStep ==
  ASSUME TimersOk, Claim
  PROVE  TimersOk'
<1>1. UNCHANGED <<turn, index, payload, done, late, shown, faults, forced, vain, notices, refusals>>
  BY DEF Claim, history
<1>2. worker.phase = "claim" /\ worker.timer \in Timers /\ Issued(worker.timer) /\ worker.timer \in late
  BY DEF Claim, At, TimersOk, WorkerOk
<1>3. /\ worker' \in WorkerType /\ worker'.phase \in {"idle", "load"} /\ worker'.buttons <= MaxVersion
      /\ worker'.phase = "load" => worker'.timer = worker.timer
  <2>1. CASE worker.timer \in claims
    BY <2>1, RestingOk, TimerBoundsAssumption DEF Claim, Finish
  <2>2. CASE worker.timer \notin claims
    <3>1. worker' = [worker EXCEPT !.phase = "load", !.held = TRUE]
      BY <2>2 DEF Claim
    <3> QED BY <3>1 DEF TimersOk, TimersType, WorkerType, Phases
  <2> QED BY <2>1, <2>2
<1>4. claims' \subseteq Timers
  BY <1>2 DEF Claim, TimersOk, TimersType
<1>5. TimersType'
  BY <1>1, <1>3, <1>4 DEF TimersOk, TimersType
<1>6. WorkerOk'
  BY <1>1, <1>2, <1>3, TurnStays DEF WorkerOk
<1> QED BY <1>1, <1>5, <1>6, TurnStays DEF TimersOk, DoneMeansOver, NoticeIsAnswered

\* Its payload, if there is one.
LEMMA LoadStep ==
  ASSUME TimersOk, Load
  PROVE  TimersOk'
<1>1. UNCHANGED <<turn, index, payload, claims, done, late, shown, faults, forced, vain, notices, refusals>>
  BY DEF Load, redis, history
<1>2. worker.phase = "load" /\ worker.timer \in Timers /\ Issued(worker.timer) /\ worker.timer \in late
  BY DEF Load, At, TimersOk, WorkerOk
<1>3. PICK phase \in {"execute", "drop"} : worker' = [worker EXCEPT !.phase = phase]
  BY DEF Load, Go
<1>4. /\ worker' \in WorkerType /\ worker'.phase = phase
      /\ worker'.timer = worker.timer /\ worker'.buttons = worker.buttons
  BY <1>3, WorkerGoes DEF TimersOk, TimersType, Phases
<1>5. TimersType'
  BY <1>1, <1>4 DEF TimersOk, TimersType
<1>6. WorkerOk'
  BY <1>1, <1>2, <1>4, TurnStays DEF WorkerOk
<1> QED BY <1>1, <1>5, <1>6, TurnStays DEF TimersOk, DoneMeansOver, NoticeIsAnswered

\* The notice of a timeout the game answered with a success.
LEMMA AnnounceStep ==
  ASSUME TimersOk, Announce
  PROVE  TimersOk'
<1>1. UNCHANGED <<turn, index, payload, claims, done, late, forced, vain, refusals>>
  BY DEF Announce, redis
<1>2. /\ worker.phase = "announce" /\ worker.timer \in Timers /\ Issued(worker.timer)
      /\ worker.timer \in forced \cup vain /\ Ended(worker.timer)
  BY DEF Announce, At, TimersOk, WorkerOk
<1>3. /\ worker' \in WorkerType /\ worker'.phase = "mark" /\ worker'.timer = worker.timer
      /\ worker'.buttons = 0
  BY DEF Announce, TimersOk, TimersType, WorkerType, Phases
<1>4. notices' \subseteq notices \cup {worker.timer}
  BY DEF Announce
<1>5. shown' \subseteq 1..MaxVersion
  BY DEF Announce, TimersOk, TimersType, WorkerType
<1>6. faults' \in 0..MaxFaults
  BY TimerBoundsAssumption DEF Announce, Fault, TimersOk, TimersType
<1>7. TimersType'
  BY <1>1, <1>3, <1>5, <1>6, TimerBoundsAssumption DEF TimersOk, TimersType
<1>8. WorkerOk'
  BY <1>1, <1>2, <1>3, TurnStays DEF WorkerOk
<1>9. NoticeIsAnswered'
  BY <1>1, <1>2, <1>4 DEF TimersOk, NoticeIsAnswered
<1> QED BY <1>1, <1>7, <1>8, <1>9, TurnStays DEF TimersOk, DoneMeansOver

\* The done mark is set for a turn that is over, abandoned or refused.
LEMMA MarkStep ==
  ASSUME TimersOk, Mark
  PROVE  TimersOk'
<1>1. UNCHANGED <<turn, index, payload, claims, late, shown, faults, forced, vain, notices, refusals>>
  BY DEF Mark, history
<1>2. /\ worker.phase = "mark" /\ worker.timer \in Timers /\ Issued(worker.timer)
      /\ Ended(worker.timer) \/ worker.timer \in refusals
  BY DEF Mark, At, TimersOk, WorkerOk
<1>3. /\ worker' \in WorkerType /\ worker'.phase = "unindex"
      /\ worker'.timer = worker.timer /\ worker'.buttons = worker.buttons
  BY WorkerGoes DEF Mark, Go, TimersOk, TimersType, Phases
<1>4. done' = done \cup {worker.timer}
  BY DEF Mark
<1>5. TimersType'
  BY <1>1, <1>2, <1>3, <1>4 DEF TimersOk, TimersType
<1>6. WorkerOk'
  BY <1>1, <1>2, <1>3, TurnStays DEF WorkerOk
<1>7. DoneMeansOver'
  BY <1>1, <1>2, <1>4, TurnStays DEF TimersOk, DoneMeansOver, Ended
<1> QED BY <1>1, <1>5, <1>6, <1>7, TurnStays DEF TimersOk, NoticeIsAnswered

\* The cleaning steps take keys away, a retry puts the timer back.
LEMMA CleaningStep ==
  ASSUME TimersOk, Unindex \/ Clean \/ Retry \/ Release
  PROVE  TimersOk'
<1>1. UNCHANGED <<turn, done, late, shown, faults, forced, vain, notices, refusals>>
  BY DEF Unindex, Clean, Retry, Release, history
<1>2. worker.phase # "idle" /\ worker.timer \in Timers /\ Issued(worker.timer)
  BY DEF Unindex, Clean, Retry, Release, At, TimersOk, WorkerOk
<1>3. index' \subseteq index \cup {worker.timer} /\ payload' \subseteq payload /\ claims' \subseteq claims
  BY DEF Unindex, Clean, Retry, Release, RetryLater
<1>4. \/ worker' = Resting
      \/ \E phase \in {"release", "clean"} : worker' = [worker EXCEPT !.phase = phase]
  BY DEF Unindex, Clean, Retry, Release, Go, Finish
<1>5. /\ worker' \in WorkerType /\ worker'.phase \in {"idle", "release", "clean"}
      /\ worker'.phase # "idle" => worker'.timer = worker.timer
      /\ worker'.buttons <= MaxVersion
  <2>1. CASE worker' = Resting
    BY <2>1, RestingOk, TimerBoundsAssumption
  <2>2. ASSUME NEW phase \in {"release", "clean"}, worker' = [worker EXCEPT !.phase = phase]
        PROVE  /\ worker' \in WorkerType /\ worker'.phase = phase
               /\ worker'.timer = worker.timer /\ worker'.buttons <= MaxVersion
    BY <2>2, WorkerGoes DEF TimersOk, TimersType, Phases
  <2> QED BY <1>4, <2>1, <2>2
<1>6. TimersType'
  BY <1>1, <1>2, <1>3, <1>5 DEF TimersOk, TimersType
<1>7. WorkerOk'
  BY <1>1, <1>2, <1>5, TurnStays DEF WorkerOk
<1>8. (\A t \in index : Issued(t))'
  BY <1>1, <1>2, <1>3, TurnStays DEF TimersOk
<1> QED BY <1>1, <1>6, <1>7, <1>8, TurnStays DEF TimersOk, DoneMeansOver, NoticeIsAnswered

\* A timeout the game has answered: applied, in vain, or for a turn that is over.
LEMMA ExecuteStep ==
  ASSUME TurnOk, TimersOk, Execute
  PROVE  TurnOk' /\ TurnGrows /\ TimersOk'
<1>0. PICK t \in Timers : t = worker.timer
  BY DEF Execute, At, TimersOk, WorkerOk
<1>1. UNCHANGED <<index, payload, claims, done, late, shown, notices>>
  BY DEF Execute, redis
<1>2. /\ worker.phase = "execute" /\ t \in Timers /\ Issued(t) /\ t \in late
      /\ worker \in WorkerType /\ worker.buttons <= MaxVersion /\ faults \in 0..MaxFaults
  BY <1>0 DEF Execute, At, TimersOk, WorkerOk, TimersType
<1>3. ASSUME TimeoutApplied
      PROVE  /\ TurnOk' /\ TurnGrows /\ forced' = forced \cup {t} /\ Ended(t)'
             /\ Buttons \in Nat /\ Buttons <= MaxVersion
  <2>1. Move /\ forced' = forced \cup {t} /\ t[2] = version
    BY <1>0, <1>3 DEF TimeoutApplied, Accepts, InTurn
  <2>2. TurnOk' /\ TurnGrows
    BY <2>1, TurnChanges
  <2>3. Ended(t)'
    BY <1>2, <2>1, MoveEndsTurn DEF Ended
  <2>4. Buttons \in Nat /\ Buttons <= MaxVersion
    BY <2>2, TimerBoundsAssumption DEF TurnOk, Buttons
  <2> QED BY <2>1, <2>2, <2>3, <2>4
<1>4. ASSUME UNCHANGED <<turn, forced>>
      PROVE  TurnOk' /\ TurnGrows /\ forced' = forced
  BY <1>4, TurnUnchanged
<1>5. ASSUME t # Current \/ ~open
      PROVE  MovedPast(t)
  <2>1. t[1] \in Nat /\ t[2] \in Nat /\ round \in Nat /\ version \in Nat
    BY <1>2 DEF TurnOk, Timers
  <2>2. t[1] # round \/ t[2] # version \/ ~open
    BY <1>2, <1>5 DEF Timers, Current
  <2> QED BY <1>2, <2>1, <2>2 DEF Issued, MovedPast
<1>6. ASSUME TimeoutRefused
      PROVE  Ended(t)'
  <2>1. /\ ~InTurn(t) \/ (~away /\ Current \notin late)
        /\ UNCHANGED turn
    BY <1>0, <1>6 DEF TimeoutRefused
  <2>2. t # Current \/ ~open
    BY <1>2, <2>1 DEF InTurn, Current
  <2> QED BY <1>5, <2>1, <2>2, TurnStays DEF Ended
<1>7. ASSUME TimeoutInVain
      PROVE  /\ TurnOk' /\ TurnGrows /\ vain' = vain \cup {t} /\ Ended(t)'
             /\ Buttons \in Nat /\ Buttons <= MaxVersion
  <2>1. open /\ away /\ vain' = vain \cup {t} /\ UNCHANGED turn
    BY <1>0, <1>7 DEF TimeoutInVain, InTurn
  <2>2. Ended(t)
    BY <1>5, <2>1 DEF Ended, Abandoned
  <2>3. TurnOk' /\ TurnGrows
    BY <2>1, TurnUnchanged
  <2>4. Buttons \in Nat /\ Buttons <= MaxVersion
    BY <2>3, TimerBoundsAssumption DEF TurnOk, Buttons
  <2> QED BY <2>1, <2>2, <2>3, <2>4, TurnStays
<1>8. \/ TimeoutApplied /\ vain' = vain
      \/ TimeoutInVain /\ UNCHANGED <<turn, forced>>
      \/ UNCHANGED <<turn, forced, vain>>
  BY DEF Execute, Answered, TimeoutApplied, TimeoutInVain, TimeoutRefused, TimeoutLost, TimeoutFails
<1>9. TurnOk' /\ TurnGrows /\ forced \subseteq forced' /\ vain \subseteq vain'
  BY <1>3, <1>4, <1>7, <1>8
<1>10. /\ refusals \subseteq refusals' /\ faults' \in 0..MaxFaults
  BY <1>2, TimerBoundsAssumption DEF Execute, TimeoutLost, TimeoutFails, Fault
<1>11. /\ worker' \in WorkerType /\ worker'.timer = t /\ worker'.buttons <= MaxVersion
       /\ \/ worker'.phase = "announce" /\ t \in forced' \cup vain' /\ Ended(t)'
          \/ worker'.phase = "mark" /\ (Ended(t)' \/ t \in refusals')
          \/ worker'.phase = "retry"
  <2>1. CASE \/ TimeoutApplied /\ worker' = [worker EXCEPT !.phase = "announce", !.buttons = Buttons]
             \/ TimeoutInVain /\ worker' = [worker EXCEPT !.phase = "announce", !.buttons = Buttons]
    BY <1>0, <1>2, <1>3, <1>7, <2>1 DEF WorkerType, Phases
  <2>2. CASE TimeoutRefused /\ Go("mark")
    BY <1>0, <1>2, <1>6, <2>2, WorkerGoes DEF Go, Phases
  <2>3. CASE TimeoutLost
    BY <1>0, <1>2, <2>3, WorkerGoes DEF TimeoutLost, Go, Phases
  <2>4. CASE TimeoutFails
    BY <1>0, <1>2, <2>4, WorkerGoes DEF TimeoutFails, Go, Phases
  <2> QED BY <2>1, <2>2, <2>3, <2>4 DEF Execute, Answered
<1>12. TimersType'
  BY <1>1, <1>10, <1>11 DEF TimersOk, TimersType
<1>13. Issued(t)'
  BY <1>2, <1>9 DEF TurnGrows
<1>14. WorkerOk'
  BY <1>2, <1>11, <1>13 DEF WorkerOk
<1>15. (\A u \in index : Issued(u))' /\ DoneMeansOver'
  BY <1>1, <1>9, <1>10 DEF TimersOk, TimersType, TurnGrows, DoneMeansOver, Ended
<1>16. NoticeIsAnswered'
  BY <1>1, <1>9 DEF TimersOk, NoticeIsAnswered
<1> QED BY <1>9, <1>12, <1>14, <1>15, <1>16 DEF TimersOk

\* Time passes, or a claim left behind expires.
LEMMA EnvironmentStep ==
  ASSUME TimersOk, NEW t \in Timers, DeadlinePasses(t) \/ ClaimExpires(t)
  PROVE  TimersOk'
<1>1. UNCHANGED <<turn, index, payload, done, worker, shown, faults, forced, vain, notices, refusals>>
  BY DEF DeadlinePasses, ClaimExpires, redis, history
<1>2. late \subseteq late' /\ late' \subseteq late \cup {t} /\ claims' \subseteq claims
  BY DEF DeadlinePasses, ClaimExpires, redis
<1>3. TimersType'
  BY <1>1, <1>2 DEF TimersOk, TimersType
<1>4. WorkerOk'
  BY <1>1, <1>2, TurnStays DEF TimersOk, WorkerOk
<1> QED BY <1>1, <1>3, <1>4, TurnStays DEF TimersOk, DoneMeansOver, NoticeIsAnswered

\* The timers' own steps keep the whole invariant.
LEMMA TimersKeepInv ==
  ASSUME ChatInv, TimerStep \/ TimePasses \/ KeyExpires
  PROVE  ChatInv'
<1>1. UNCHANGED <<upstream, ctx, dedup, job, effects>>
  BY DEF TimerStep, TimePasses, KeyExpires, chat
<1>2. CASE TimerStep /\ Execute
  BY <1>1, <1>2, ExecuteStep, JobStable, UpdatesStable DEF ChatInv
<1>3. CASE \/ TimerStep /\ ~Execute
           \/ TimePasses \/ KeyExpires
  <2>1. UNCHANGED turn /\ TimersOk'
    BY <1>3, PollStep, ClaimStep, LoadStep, AnnounceStep, MarkStep, CleaningStep, EnvironmentStep
       DEF ChatInv, TimerStep, TimePasses, KeyExpires, WorkerStep, Poll, Claim, Load, Announce,
           Mark, Unindex, Clean, Retry, Release, DeadlinePasses, ClaimExpires
  <2> QED BY <1>1, <2>1, TurnUnchanged, JobStable, UpdatesStable DEF ChatInv
<1> QED BY <1>2, <1>3

-----------------------------------------------------------------------------
(* The pipeline.                                                           *)

\* The empty record of the pipeline.
LEMMA NoJobOk ==
  /\ NoJob \in JobType /\ NoJob.phase = "idle" /\ NoJob.snap = Unknown
  /\ Unknown \in Context /\ Unknown.holder = NoHolder
  BY DEF NoJob, JobType, JobPhases, Kinds, Context, Unknown

\* A job that only goes on to another step.
LEMMA JobGoes ==
  ASSUME job \in JobType, NEW phase \in JobPhases, Goto(phase)
  PROVE  /\ job' \in JobType /\ job'.phase = phase /\ job'.snap = job.snap
         /\ Running' <=> Running
         /\ NewTimer' = NewTimer
  BY DEF Goto, JobType, Running, NewTimer

\* Only the answer is left.
LEMMA JobAnswers ==
  ASSUME job \in JobType, Answer
  PROVE  /\ job' \in JobType /\ job'.phase = "send" /\ job'.snap = job.snap
         /\ Running' <=> Running
         /\ NewTimer' = NewTimer
  BY DEF Answer, NoJob, JobType, JobPhases, Running, NewTimer, Unknown, Context

\* The envelope is done.
LEMMA JobEnds ==
  ASSUME ctx' \in Context, job' = NoJob
  PROVE  JobOk'
  BY NoJobOk DEF JobOk, Running

\* The steps of the cancellation, of the answer and of the scheduling: they
\* change the timers, the buttons and the job.
LEMMA SchedulingStep ==
  ASSUME ChatInv, CancelIndex \/ CancelKeys \/ Send \/ Plan \/ StorePayload \/ IndexTimer
  PROVE  ChatInv'
<1>1. /\ UNCHANGED <<turn, done, worker, late, forced, vain, notices, refusals>> /\ claims' \subseteq claims
      /\ UNCHANGED <<upstream, ctx, dedup, effects>>
  <2>1. CASE CancelIndex
    BY <2>1 DEF CancelIndex, history
  <2>2. CASE CancelKeys
    BY <2>2 DEF CancelKeys, history
  <2>3. CASE Send
    BY <2>3 DEF Send, redis, history
  <2>4. CASE Plan
    BY <2>4 DEF Plan, timers, redis, history
  <2>5. CASE StorePayload
    BY <2>5 DEF StorePayload, history
  <2>6. CASE IndexTimer
    BY <2>6 DEF IndexTimer, history
  <2> QED BY <2>1, <2>2, <2>3, <2>4, <2>5, <2>6
<1>2. job \in JobType /\ ctx \in Context /\ (Running => NewTimer \in Timers /\ Issued(NewTimer))
  BY DEF ChatInv, JobOk
<1>3. job.phase \in {"plan", "store", "enqueue"} => Running
  BY DEF ChatInv, JobOk
<1>4. /\ index' \subseteq index \/ (Running /\ index' = index \cup {NewTimer})
      /\ payload' \subseteq payload \/ (Running /\ payload' = payload \cup {NewTimer})
  BY <1>3 DEF CancelIndex, CancelKeys, Send, Plan, StorePayload, IndexTimer, In, redis, timers
<1>5. shown' \subseteq 1..MaxVersion
  <2>1. ActionButtons \subseteq 1..MaxVersion
    BY <1>2 DEF ActionButtons, NewTimer, Timers
  <2> QED BY <2>1 DEF CancelIndex, CancelKeys, Send, Plan, StorePayload, IndexTimer, timers, ChatInv,
                      TimersOk, TimersType
<1>6. faults' \in 0..MaxFaults
  BY TimerBoundsAssumption DEF CancelIndex, CancelKeys, Send, Plan, StorePayload, IndexTimer, timers,
     Fault, ChatInv, TimersOk, TimersType
<1>7. TimersType'
  BY <1>1, <1>2, <1>4, <1>5, <1>6 DEF ChatInv, TimersOk, TimersType
<1>8. (\A t \in index : Issued(t))' /\ WorkerOk'
  BY <1>1, <1>2, <1>4, TurnStays DEF ChatInv, TimersOk, WorkerOk
<1>9. TimersOk'
  BY <1>1, <1>7, <1>8, TurnStays DEF ChatInv, TimersOk, DoneMeansOver, NoticeIsAnswered
<1>10. JobOk' /\ job'.phase # "ask"
  <2>1. CASE job' = NoJob
    BY <1>1, <1>2, <2>1, JobEnds, NoJobOk
  <2>2. CASE Answer
    BY <1>1, <1>2, <2>2, JobAnswers, TurnStays DEF JobOk
  <2>3. CASE Goto("forget")
    BY <1>1, <1>2, <2>3, JobGoes, TurnStays DEF JobOk, JobPhases
  <2>4. ASSUME NEW phase \in {"plan", "store", "enqueue"}, Goto(phase), Running
        PROVE  JobOk' /\ job'.phase # "ask"
    BY <1>1, <1>2, <2>4, JobGoes, TurnStays DEF JobOk, JobPhases
  <2> QED BY <1>3, <2>1, <2>2, <2>3, <2>4 DEF CancelIndex, CancelKeys, Send, Plan, StorePayload,
             IndexTimer, In
<1>11. TurnOk'
  BY <1>1, TurnUnchanged DEF ChatInv
<1>12. UpdatesOk'
  BY <1>1, <1>10, UpdatesStable DEF ChatInv
<1> QED BY <1>9, <1>10, <1>11, <1>12 DEF ChatInv

\* The refresh of a context and the storing of one.
LEMMA ContextStep ==
  ASSUME ChatInv, Refresh \/ Remember
  PROVE  ChatInv'
<1>1. UNCHANGED <<turn, timers>> /\ UNCHANGED <<upstream, dedup, effects>>
  BY DEF Refresh, Remember
<1>2. job \in JobType /\ ctx \in Context /\ (Running => NewTimer \in Timers /\ Issued(NewTimer))
  BY DEF ChatInv, JobOk
<1>3. TurnOk' /\ TurnGrows /\ TimersOk'
  BY <1>1, TurnUnchanged, TimersStable DEF ChatInv
<1>4. ctx' \in Context
  <2>1. [session |-> round, version |-> version, holder |-> holder] \in Context
    BY TimerBoundsAssumption DEF ChatInv, TurnOk, Context
  <2>2. job.snap \in Context
    BY <1>2 DEF JobType
  <2> QED BY <1>2, <2>1, <2>2 DEF Refresh, Remember
<1>5. JobOk' /\ job'.phase # "ask"
  <2>1. CASE Answer
    BY <1>1, <1>2, <1>4, <2>1, JobAnswers, TurnStays DEF JobOk
  <2>2. CASE Goto("unindex")
    BY <1>1, <1>2, <1>4, <2>2, JobGoes, TurnStays DEF JobOk, JobPhases
  <2> QED BY <2>1, <2>2 DEF Refresh, Remember
<1>6. UpdatesOk'
  BY <1>1, <1>5, UpdatesStable DEF ChatInv
<1> QED BY <1>3, <1>5, <1>6 DEF ChatInv

\* What is in the topic are updates.
LEMMA SentAreUpdates ==
  ASSUME topic \in Seq(Update)
  PROVE  \A i \in 1..Len(topic) : topic[i] \in Update /\ topic[i].id \in 1..MaxUpdates
<1>1. \A i \in 1..Len(topic) : topic[i] \in Update
  BY ElementOfSeq
<1> QED BY <1>1 DEF Update

\* The request to the game, with the one effect an update may have.
LEMMA AskStep ==
  ASSUME ChatInv, Ask
  PROVE  ChatInv'
<1>1. /\ job.phase = "ask" /\ job \in JobType /\ ctx \in Context
      /\ (Running => NewTimer \in Timers /\ Issued(NewTimer))
      /\ UNCHANGED <<redis, worker, late, shown, history, upstream, ctx, dedup>>
  BY DEF ChatInv, JobOk, Ask, In
<1>2. /\ \/ Welcome /\ Effect
         \/ UNCHANGED <<turn, effects>>
      /\ faults' \in 0..MaxFaults
  BY TimerBoundsAssumption DEF Ask, Accepted, Refused, AnswerLost, Fault, ChatInv, TimersOk, TimersType
<1>3. \/ (Begin /\ round < MaxRounds) \/ Move \/ UNCHANGED turn
  BY <1>2 DEF Welcome, Effect, Changes, IsMove, Moves
<1>4. TurnOk' /\ TurnGrows
  BY <1>3, TurnChanges, TurnUnchanged DEF ChatInv
<1>5. TimersOk'
  <2>1. UNCHANGED <<index, payload, claims, done, worker, late, shown, forced, vain, notices, refusals>>
    BY <1>1 DEF redis, history
  <2>2. TimersType' /\ NoticeIsAnswered'
    BY <1>2, <2>1 DEF ChatInv, TimersOk, TimersType, NoticeIsAnswered
  <2>3. WorkerOk'
    BY <1>4, <2>1 DEF ChatInv, TimersOk, WorkerOk, TurnGrows
  <2>4. (\A t \in index : Issued(t))' /\ DoneMeansOver'
    BY <1>4, <2>1 DEF ChatInv, TimersOk, TimersType, DoneMeansOver, TurnGrows, Ended
  <2> QED BY <2>2, <2>3, <2>4 DEF TimersOk
<1>6. JobOk' /\ job'.phase # "ask"
  <2>1. CASE Accepted
    <3>1. Welcome /\ Effect /\ job' = [job EXCEPT !.phase = "remember", !.ok = TRUE, !.snap = Snapshot]
      BY <2>1 DEF Accepted
    <3>2. Snapshot \in Context
      BY <1>4, NoJobOk, TimerBoundsAssumption DEF Snapshot, Context, TurnOk
    <3>3. job' \in JobType /\ job'.phase = "remember" /\ job'.snap = Snapshot
      BY <1>1, <3>1, <3>2 DEF JobType, JobPhases
    <3>4. ASSUME Snapshot.holder # NoHolder
          PROVE  /\ <<Snapshot.session, Snapshot.version>> \in Timers
                 /\ Snapshot.session = round' /\ Snapshot.version = version'
      <4>1. Snapshot = [session |-> round', version |-> version', holder |-> holder']
        BY <3>4, NoJobOk DEF Snapshot
      <4>2. open' /\ version' \in 1..MaxVersion
        BY <1>4, <3>4, <4>1 DEF TurnOk
      <4>3. round' \in 1..MaxRounds
        BY <1>4, <4>2, TimerBoundsAssumption DEF TurnOk
      <4> QED BY <4>1, <4>2, <4>3 DEF Timers
    <3>5. Running' => NewTimer' \in Timers /\ Issued(NewTimer)'
      <4>1. NewTimer' = <<Snapshot.session, Snapshot.version>> /\ (Running' <=> Snapshot.holder # NoHolder)
        BY <3>3 DEF NewTimer, Running
      <4>2. Running' => NewTimer' = <<round', version'>>
        BY <3>4, <4>1
      <4>3. Running' => Issued(NewTimer)'
        BY <1>4, <4>2 DEF Issued, TurnOk
      <4> QED BY <3>4, <4>1, <4>3
    <3> QED BY <1>1, <3>3, <3>5 DEF JobOk
  <2>2. CASE Goto("refresh")
    BY <1>1, <1>4, <2>2, JobGoes DEF JobOk, JobPhases, TurnGrows
  <2>3. CASE Answer
    BY <1>1, <1>4, <2>3, JobAnswers DEF JobOk, TurnGrows
  <2> QED BY <2>1, <2>2, <2>3 DEF Ask, Refused, AnswerLost
<1>7. UpdatesOk'
  <2>1. CASE UNCHANGED effects
    BY <1>1, <1>6, <2>1, UpdatesStable DEF ChatInv
  <2>2. CASE effects' = [effects EXCEPT ![job.id] = @ + 1]
    <3>1. UNCHANGED <<topic, position, committed, dedup>>
      BY <1>1 DEF upstream
    <3>2. /\ effects \in [1..MaxUpdates -> Nat] /\ topic \in Seq(Update)
          /\ \A i, j \in 1..Len(topic) : topic[i].id = topic[j].id => topic[i] = topic[j]
          /\ \A u \in 1..MaxUpdates : u \notin SentUpdates => effects[u] = 0
          /\ \A i \in 1..Len(topic) :
               topic[i].kind # "text" =>
                 /\ effects[topic[i].id] # 0 => CommandKey(topic[i]) \in dedup
                 /\ effects[topic[i].id] <= 1
      BY DEF ChatInv, UpdatesOk, LogOk, CommandAppliedOnce
    <3>3. PICK i \in 1..Len(topic) :
            /\ job.id = topic[i].id /\ job.kind = topic[i].kind
            /\ job.kind # "text" => CommandKey(topic[i]) \in dedup /\ effects[job.id] = 0
      BY <1>1 DEF ChatInv, UpdatesOk, AskOk
    <3>4. \A j \in 1..Len(topic) : topic[j].id \in 1..MaxUpdates
      BY <3>2, SentAreUpdates
    <3>5. \A u \in 1..MaxUpdates : effects'[u] = IF u = job.id THEN effects[u] + 1 ELSE effects[u]
      BY <2>2, <3>2
    <3>6. effects' \in [1..MaxUpdates -> Nat]
      BY <2>2, <3>2, <3>3, <3>4
    <3>7. \A j \in 1..Len(topic) :
            topic[j].kind # "text" =>
              /\ effects'[topic[j].id] # 0 => CommandKey(topic[j]) \in dedup
              /\ effects'[topic[j].id] <= 1
      <4> SUFFICES ASSUME NEW j \in 1..Len(topic), topic[j].kind # "text"
                   PROVE  /\ effects'[topic[j].id] # 0 => CommandKey(topic[j]) \in dedup
                          /\ effects'[topic[j].id] <= 1
        OBVIOUS
      <4>1. CASE topic[j].id = job.id
        <5>1. topic[j] = topic[i]
          BY <3>2, <3>3, <4>1
        <5>2. effects'[topic[j].id] = 1
          BY <3>3, <3>4, <3>5, <4>1, <5>1
        <5> QED BY <3>3, <5>1, <5>2
      <4>2. CASE topic[j].id # job.id
        BY <3>2, <3>4, <3>5, <4>2
      <4> QED BY <4>1, <4>2
    <3>8. \A u \in 1..MaxUpdates : u \notin SentUpdates => effects'[u] = 0
      BY <3>2, <3>3, <3>5 DEF SentUpdates
    <3>9. SentUpdates' = SentUpdates
      BY <3>1 DEF SentUpdates
    <3>10. LogOk'
      BY <3>1, <3>6, <3>7, <3>8, <3>9 DEF ChatInv, UpdatesOk, LogOk, CommandAppliedOnce, CommandKey
    <3> QED BY <1>6, <3>1, <3>10 DEF ChatInv, UpdatesOk, AskOk
  <2> QED BY <1>2, <2>1, <2>2 DEF Effect
<1> QED BY <1>4, <1>5, <1>6, <1>7 DEF ChatInv

-----------------------------------------------------------------------------
(* The consumer, republished updates and crashes.                          *)

\* The log when no update is added.
LEMMA LogStable ==
  ASSUME LogOk, UNCHANGED <<topic, effects>>, dedup \subseteq dedup'
  PROVE  LogOk'
  BY DEF LogOk, SentUpdates, CommandAppliedOnce, CommandKey

\* The log with one more update at its end: one sent before, or the next id.
LEMMA LogGrows ==
  ASSUME LogOk, NEW u \in Update, topic' = Append(topic, u), UNCHANGED effects,
         dedup \subseteq dedup',
         \/ \E i \in 1..Len(topic) : u = topic[i]
         \/ u.id = Cardinality(SentUpdates) + 1
  PROVE  LogOk' /\ Len(topic') = Len(topic) + 1 /\ topic'[Len(topic) + 1] = u
<1>1. topic \in Seq(Update) /\ Len(topic) \in Nat
  BY DEF LogOk
<1>2. /\ topic' \in Seq(Update) /\ Len(topic') = Len(topic) + 1 /\ topic'[Len(topic) + 1] = u
      /\ \A i \in 1..Len(topic) : topic'[i] = topic[i]
  BY <1>1
<1>3. PICK n \in 0..MaxUpdates : SentUpdates = 1..n
  BY DEF LogOk
<1>4. Cardinality(SentUpdates) = n
  BY <1>3, FS_Interval
<1>5. SentUpdates' = SentUpdates \cup {u.id}
  BY <1>1, <1>2 DEF SentUpdates
<1>6. u.id \in 1..MaxUpdates
  BY DEF Update
<1>7. \A i \in 1..Len(topic) : topic[i].id \in SentUpdates /\ topic[i].id \in 1..MaxUpdates
  BY <1>1, SentAreUpdates DEF SentUpdates
<1>8. CASE \E i \in 1..Len(topic) : u = topic[i]
  <2>1. PICK k \in 1..Len(topic) : u = topic[k]
    BY <1>8
  <2>2. \A i \in 1..Len(topic') : \E j \in 1..Len(topic) : topic'[i] = topic[j]
    BY <1>1, <1>2, <2>1
  <2>3. SentUpdates' = SentUpdates
    BY <1>5, <1>7, <2>1
  <2>4. ASSUME NEW i \in 1..Len(topic'), NEW j \in 1..Len(topic'), topic'[i].id = topic'[j].id
        PROVE  topic'[i] = topic'[j]
    <3>1. PICK a \in 1..Len(topic), b \in 1..Len(topic) : topic'[i] = topic[a] /\ topic'[j] = topic[b]
      BY <2>2
    <3> QED BY <2>4, <3>1 DEF LogOk
  <2>5. ASSUME NEW i \in 1..Len(topic'), topic'[i].kind # "text"
        PROVE  /\ effects[topic'[i].id] # 0 => CommandKey(topic'[i]) \in dedup
               /\ effects[topic'[i].id] <= 1
    <3>1. PICK a \in 1..Len(topic) : topic'[i] = topic[a]
      BY <2>2
    <3> QED BY <2>5, <3>1 DEF LogOk, CommandAppliedOnce
  <2>6. LogOk'
    BY <1>2, <2>3, <2>4, <2>5 DEF LogOk, CommandAppliedOnce, CommandKey
  <2> QED BY <1>2, <2>6
<1>9. CASE u.id = Cardinality(SentUpdates) + 1
  <2>1. u.id = n + 1 /\ u.id \notin SentUpdates
    BY <1>3, <1>4, <1>9
  <2>2. n + 1 \in 0..MaxUpdates /\ SentUpdates' = 1..(n + 1)
    BY <1>3, <1>5, <1>6, <2>1
  <2>3. effects[u.id] = 0
    BY <1>6, <2>1 DEF LogOk
  <2>4. \A i \in 1..Len(topic') : i \in 1..Len(topic) \/ (i = Len(topic) + 1 /\ topic'[i] = u)
    BY <1>1, <1>2
  <2>5. \A i, j \in 1..Len(topic') : topic'[i].id = topic'[j].id => topic'[i] = topic'[j]
    BY <1>2, <1>7, <2>1, <2>4 DEF LogOk
  <2>6. \A i \in 1..Len(topic') :
          topic'[i].kind # "text" =>
            /\ effects[topic'[i].id] # 0 => CommandKey(topic'[i]) \in dedup
            /\ effects[topic'[i].id] <= 1
    BY <1>2, <2>3, <2>4 DEF LogOk, CommandAppliedOnce
  <2>7. \A v \in 1..MaxUpdates : v \notin SentUpdates' => effects[v] = 0
    BY <1>5 DEF LogOk
  <2>8. LogOk'
    BY <1>2, <2>2, <2>5, <2>6, <2>7 DEF LogOk, CommandAppliedOnce, CommandKey
  <2> QED BY <1>2, <2>8
<1> QED BY <1>8, <1>9

\* An update is taken: its key is marked, and the job asks for it unless it was.
LEMMA BegunStep ==
  ASSUME ChatInv, NEW u \in Update, Begun(u), LogOk', NEW k \in 1..Len(topic'), topic'[k] = u,
         u.kind # "text" /\ KeyFree(u) => effects[u.id] = 0,
         UNCHANGED <<ctx, effects, turn>>
  PROVE  JobOk' /\ AskOk'
<1> DEFINE asked == [NoJob EXCEPT !.phase = "ask", !.id = u.id, !.kind = u.kind, !.actor = u.actor,
                                  !.version = VersionOf(u), !.old = ctx]
<1>1. ctx \in Context /\ ctx' = ctx
  BY DEF ChatInv, JobOk
<1>2. u.id \in Nat /\ u.kind \in Kinds /\ u.actor \in Holders /\ u.version \in Nat
  BY DEF Update
<1>3. VersionOf(u) \in Nat
  BY <1>1, <1>2 DEF VersionOf, Context
<1>4. /\ asked \in JobType /\ asked.phase = "ask" /\ asked.snap = Unknown
      /\ asked.id = u.id /\ asked.kind = u.kind
  BY <1>1, <1>2, <1>3, NoJobOk DEF JobType, JobPhases, NoJob
<1>5. dedup' = dedup \cup {Key(u)} /\ job' = (IF KeyFree(u) THEN asked ELSE NoJob)
  BY DEF Begun
<1> HIDE DEF asked
<1>6. JobOk'
  BY <1>1, <1>4, <1>5, NoJobOk DEF JobOk, Running
<1>7. AskOk'
  <2>1. CASE ~KeyFree(u)
    BY <1>5, <2>1, NoJobOk DEF AskOk
  <2>2. CASE KeyFree(u)
    <3>1. u.kind # "text" => CommandKey(u) \in dedup' /\ effects'[u.id] = 0
      BY <1>5, <2>2 DEF Key, VersionOf, CommandKey
    <3> QED BY <1>4, <1>5, <2>2, <3>1 DEF AskOk, CommandKey
  <2> QED BY <2>1, <2>2
<1> QED BY <1>6, <1>7

\* A new update, or one that is delivered again.
LEMMA TakeStep ==
  ASSUME ChatInv, TakeNew \/ TakeAgain
  PROVE  ChatInv'
<1>1. /\ UNCHANGED <<turn, timers, committed, ctx, effects>> /\ position' = position + 1
      /\ LogOk /\ topic \in Seq(Update) /\ Len(topic) \in Nat
      /\ committed \in Nat /\ position \in Nat /\ committed <= position /\ position <= Len(topic)
  BY DEF ChatInv, UpdatesOk, LogOk, TakeNew, TakeAgain
<1>2. TurnOk' /\ TimersOk'
  BY <1>1, TurnUnchanged, TimersStable DEF ChatInv
<1>3. CASE TakeNew
  <2>1. PICK kd \in Kinds, a \in Holders, v \in {0} \cup shown :
          LET u == [id |-> Cardinality(SentUpdates) + 1, kind |-> kd, actor |-> a, version |-> v]
          IN u.id <= MaxUpdates /\ topic' = Append(topic, u) /\ Begun(u)
    BY <1>3 DEF TakeNew
  <2> DEFINE w == [id |-> Cardinality(SentUpdates) + 1, kind |-> kd, actor |-> a, version |-> v]
  <2>2. w.id <= MaxUpdates /\ topic' = Append(topic, w) /\ Begun(w)
        /\ w.id = Cardinality(SentUpdates) + 1
    BY <2>1
  <2>3. w \in Update /\ Cardinality(SentUpdates) \in Nat /\ Cardinality(SentUpdates) + 1 \notin SentUpdates
    <3>1. PICK n \in 0..MaxUpdates : SentUpdates = 1..n
      BY <1>1 DEF LogOk
    <3>2. Cardinality(SentUpdates) = n /\ n \in Nat
      BY <3>1, FS_Interval
    <3>3. v \in Nat
      BY DEF ChatInv, TimersOk, TimersType
    <3> QED BY <2>2, <3>1, <3>2, <3>3, UpdatesAssumption DEF Update
  <2> HIDE DEF w
  <2>4. PICK u \in Update : u = w
    BY <2>3
  <2>5. dedup \subseteq dedup'
    BY <2>2 DEF Begun
  <2>6. LogOk' /\ Len(topic') = Len(topic) + 1 /\ topic'[Len(topic) + 1] = u
    BY <1>1, <2>2, <2>4, <2>5, LogGrows
  <2>7. effects[u.id] = 0
    BY <1>1, <2>2, <2>3, <2>4 DEF LogOk, Update
  <2>8. Len(topic) + 1 \in 1..Len(topic')
    BY <1>1, <2>6
  <2>9. Begun(u)
    BY <2>2, <2>4
  <2>10. JobOk' /\ AskOk'
    BY <1>1, <2>6, <2>7, <2>8, <2>9, BegunStep
  <2> QED BY <1>1, <1>2, <2>6, <2>10 DEF ChatInv, UpdatesOk
<1>4. CASE TakeAgain
  <2>1. Begun(topic[position + 1]) /\ position < Len(topic) /\ topic' = topic
    BY <1>4 DEF TakeAgain
  <2>2. position + 1 \in 1..Len(topic)
    BY <1>1, <2>1
  <2>3. PICK u \in Update : u = topic[position + 1]
    BY <1>1, <2>2, ElementOfSeq
  <2>4. dedup \subseteq dedup'
    BY <2>1 DEF Begun
  <2>5. LogOk'
    BY <1>1, <2>1, <2>4, LogStable
  <2>6. u.kind # "text" /\ KeyFree(u) => effects[u.id] = 0
    BY <1>1, <2>2, <2>3 DEF LogOk, KeyFree, Key, VersionOf, CommandKey
  <2>7. JobOk' /\ AskOk'
    BY <1>1, <2>1, <2>2, <2>3, <2>5, <2>6, BegunStep
  <2> QED BY <1>1, <1>2, <2>1, <2>2, <2>5, <2>7 DEF ChatInv, UpdatesOk
<1> QED BY <1>3, <1>4

\* What the poller publishes again changes nothing that counts.
LEMMA RepublishStep ==
  ASSUME ChatInv, Republish
  PROVE  ChatInv'
<1>1. /\ UNCHANGED <<turn, redis, worker, late, shown, history>>
      /\ UNCHANGED <<position, committed, ctx, dedup, job, effects>>
      /\ LogOk /\ topic \in Seq(Update) /\ Len(topic) \in Nat
      /\ committed \in Nat /\ position \in Nat /\ committed <= position /\ position <= Len(topic)
  BY DEF Republish, ChatInv, UpdatesOk, LogOk
<1>2. TurnOk' /\ TurnGrows
  BY <1>1, TurnUnchanged DEF ChatInv
<1>3. TimersOk'
  BY <1>1, TurnStays, TimerBoundsAssumption DEF Republish, Fault, ChatInv, TimersOk, TimersType, WorkerOk,
     DoneMeansOver, NoticeIsAnswered, redis, history
<1>4. JobOk'
  BY <1>1, <1>2, JobStable DEF ChatInv
<1>5. PICK i \in 1..Len(topic) : topic' = Append(topic, topic[i])
  BY DEF Republish
<1>6. PICK u \in Update : u = topic[i]
  BY <1>1, ElementOfSeq
<1>7. LogOk' /\ Len(topic') = Len(topic) + 1
  BY <1>1, <1>5, <1>6, LogGrows
<1>8. \A j \in 1..Len(topic) : topic'[j] = topic[j] /\ j \in 1..Len(topic')
  BY <1>1, <1>5, <1>6, <1>7
<1>9. AskOk'
  BY <1>1, <1>8 DEF ChatInv, UpdatesOk, AskOk, CommandKey
<1> QED BY <1>1, <1>2, <1>3, <1>4, <1>7, <1>9 DEF ChatInv, UpdatesOk

\* A crash loses the job and the worker's step.
LEMMA CrashStep ==
  ASSUME ChatInv, Crash
  PROVE  ChatInv'
<1>1. /\ UNCHANGED <<turn, redis, late, shown, history>> /\ UNCHANGED <<topic, ctx, dedup, effects>>
      /\ job' = NoJob /\ worker' = Resting
  BY DEF Crash
<1>2. TurnOk'
  BY <1>1, TurnUnchanged DEF ChatInv
<1>3. TimersOk'
  <2>1. UNCHANGED <<index, payload, claims, done, late, shown, forced, vain, notices, refusals>>
    BY <1>1 DEF redis, history
  <2>2. faults' \in 0..MaxFaults
    BY TimerBoundsAssumption DEF Crash, Fault, ChatInv, TimersOk, TimersType
  <2>3. TimersType' /\ WorkerOk'
    BY <1>1, <2>1, <2>2, RestingOk, TimerBoundsAssumption DEF ChatInv, TimersOk, TimersType, WorkerOk
  <2> QED BY <1>1, <2>1, <2>3, TurnStays DEF ChatInv, TimersOk, DoneMeansOver, NoticeIsAnswered
<1>4. JobOk'
  BY <1>1, JobEnds DEF ChatInv, JobOk
<1>5. LogOk'
  BY <1>1, LogStable DEF ChatInv, UpdatesOk
<1>6. AskOk'
  BY <1>1, NoJobOk DEF AskOk
<1>7. committed' \in Nat /\ position' \in Nat /\ committed' <= position' /\ position' <= Len(topic')
  <2>1. topic \in Seq(Update) /\ Len(topic) \in Nat
    BY DEF ChatInv, UpdatesOk, LogOk
  <2> QED BY <1>1, <2>1 DEF Crash, ChatInv, UpdatesOk
<1> QED BY <1>2, <1>3, <1>4, <1>5, <1>6, <1>7 DEF ChatInv, UpdatesOk

-----------------------------------------------------------------------------
(* The invariant and what follows from it.                                 *)

\* Nothing at all happens.
LEMMA ChatStutters ==
  ASSUME ChatInv, UNCHANGED vars
  PROVE  ChatInv'
<1>1. UNCHANGED <<turn, timers, upstream, ctx, dedup, job, effects>>
  BY DEF vars, chat
<1>2. TurnOk' /\ TimersOk' /\ JobOk'
  BY <1>1, TurnUnchanged, TimersStable, JobStable DEF ChatInv
<1>3. UpdatesOk'
  BY <1>1, UpdatesStable DEF ChatInv
<1> QED BY <1>2, <1>3 DEF ChatInv

\* At the start there is no round, no timer and no update.
LEMMA ChatInit == Init => ChatInv
<1> SUFFICES ASSUME Init PROVE ChatInv
  OBVIOUS
<1>1. TurnOk
  <2>1. round = 0 /\ open = FALSE /\ version = 0 /\ holder = NoHolder /\ away = FALSE
    BY DEF Init, TurnInit
  <2>2. 0 \in 0..MaxRounds /\ 0 \in 0..MaxVersion + 2
    BY TimerBoundsAssumption
  <2> QED BY <2>1, <2>2 DEF TurnOk
<1>2. TimersOk
  BY RestingOk, TimerBoundsAssumption DEF Init, TimersInit, TimersOk, TimersType, WorkerOk,
     DoneMeansOver, NoticeIsAnswered
<1>3. JobOk
  BY NoJobOk DEF Init, JobOk, Running
<1>4. topic = <<>> /\ Len(topic) = 0 /\ topic \in Seq(Update)
  BY DEF Init
<1>5. SentUpdates = {}
  BY <1>4 DEF SentUpdates
<1>6. SentUpdates = 1..0 /\ 0 \in 0..MaxUpdates
  BY <1>5, UpdatesAssumption
<1>7. LogOk
  BY <1>4, <1>6 DEF Init, LogOk, CommandAppliedOnce
<1>8. AskOk
  BY NoJobOk DEF Init, AskOk
<1> QED BY <1>1, <1>2, <1>3, <1>4, <1>7, <1>8 DEF Init, ChatInv, UpdatesOk

\* The invariant is kept by every step.
LEMMA NextKeepsInv ==
  ASSUME ChatInv, [Next]_vars
  PROVE  ChatInv'
  BY TakeStep, RepublishStep, CrashStep, TimersKeepInv, SchedulingStep, ContextStep, AskStep,
     ChatStutters DEF Next, PipelineStep

\* The inductive invariant holds in every reachable state.
THEOREM ChatInvHolds == Spec => []ChatInv
<1>1. ChatInv /\ [Next]_vars => ChatInv'
  BY NextKeepsInv
<1> QED BY <1>1, ChatInit, PTL DEF Spec

\* Every variable keeps the shape of the key, row or record it stands for.
THEOREM ChatTypes == Spec => []TypeOK
<1>1. ChatInv => TypeOK
  BY NoHolderAssumption DEF ChatInv, TurnOk, TimersOk, TimersType, WorkerType, JobOk, JobType, UpdatesOk,
     LogOk, TypeOK
<1> QED BY <1>1, ChatInvHolds, PTL

\* A command has its effect on the round at most once, however often it is
\* published, delivered or interrupted (dedup.py, pipeline.py).
THEOREM CommandsApplyOnce == Spec => []CommandAppliedOnce
<1>1. ChatInv => CommandAppliedOnce
  BY DEF ChatInv, UpdatesOk, LogOk
<1> QED BY <1>1, ChatInvHolds, PTL

(***************************************************************************)
(* A done mark stands for a turn that is over, that the game itself failed *)
(* to time out, or that is abandoned: no crash, redelivery, lost answer or *)
(* late claim makes the worker give up the turn of a player at the table.  *)
(***************************************************************************)
THEOREM DoneTurnsAreOver == Spec => []DoneMeansOver
<1>1. ChatInv => DoneMeansOver
  BY DEF ChatInv, TimersOk
<1> QED BY <1>1, ChatInvHolds, PTL

(***************************************************************************)
(* What is announced in the chat is a timeout the game answered with a     *)
(* success, applied or for a seat that is out of the game; a late or       *)
(* repeated one that it refused is not announced (executor.py).            *)
(***************************************************************************)
THEOREM NoticesAreAnswered == Spec => []NoticeIsAnswered
<1>1. ChatInv => NoticeIsAnswered
  BY DEF ChatInv, TimersOk
<1> QED BY <1>1, ChatInvHolds, PTL

-----------------------------------------------------------------------------
(* A scheduled turn keeps its timer.  Nothing is taken away before its     *)
(* turn is over: the worker cleans up what is done, or what has lost its   *)
(* payload, and a payload is only lost by a turn that is over; the         *)
(* pipeline cancels the timer of a turn that the accepted move has ended.  *)

\* A timer that nobody needs any more, and one that can be executed if needed.
Over(t) == Ended(t) \/ t \in refusals
Covered(t) == t \in payload \/ Over(t)

WorkerKeeps ==
  /\ worker.phase \in {"claim", "load", "execute", "retry"} => Covered(worker.timer)
  /\ worker.phase \in {"mark", "unindex", "clean", "drop"} => Over(worker.timer)

\* No context is of a round to come; an old timer is cancelled after its turn.
JobKeeps ==
  /\ ctx.session <= round /\ job.old.session <= round /\ job.snap.session <= round
  /\ job.phase = "remember" /\ job.ok /\ IsMove => MovedPast(OldTimer)
  /\ job.phase \in {"unindex", "forget"} => MovedPast(OldTimer)
  /\ job.phase = "enqueue" => Covered(NewTimer)

KeepInv ==
  /\ ChatInv
  /\ WorkerKeeps
  /\ JobKeeps
  /\ \A t \in index : Covered(t)

\* A step that takes nothing away before its turn is over.
Keeps ==
  /\ TurnGrows
  /\ refusals \subseteq refusals'
  /\ \A t \in Timers : t \in index /\ t \notin index' => Over(t)
  /\ \A t \in Timers : t \in payload /\ t \notin payload' => Over(t)

\* What is over stays over, what is covered stays covered.
LEMMA KeepsStable ==
  ASSUME Keeps, NEW t \in Timers
  PROVE  (Over(t) => Over(t)') /\ (Covered(t) => Covered(t)')
  BY DEF Keeps, TurnGrows, Over, Covered

\* The steps of the worker and of the pipeline that leave the turn alone.
LEMMA QuietSteps ==
  ASSUME \/ TakeNew \/ TakeAgain \/ Republish \/ Crash \/ UNCHANGED vars
         \/ Refresh \/ Remember \/ CancelIndex \/ CancelKeys \/ Send \/ Plan \/ StorePayload
         \/ IndexTimer \/ TimePasses \/ KeyExpires
         \/ (TimerStep /\ ~Execute)
  PROVE  UNCHANGED turn
<1>1. CASE TakeNew \/ TakeAgain \/ Republish \/ Crash \/ UNCHANGED vars
  BY <1>1 DEF TakeNew, TakeAgain, Republish, Crash, vars
<1>2. CASE Refresh \/ Remember \/ CancelIndex \/ CancelKeys \/ Send \/ Plan \/ StorePayload \/ IndexTimer
  BY <1>2 DEF Refresh, Remember, CancelIndex, CancelKeys, Send, Plan, StorePayload, IndexTimer
<1>3. CASE TimePasses \/ KeyExpires
  BY <1>3 DEF TimePasses, KeyExpires, DeadlinePasses, ClaimExpires
<1>4. CASE TimerStep /\ ~Execute
  BY <1>4 DEF TimerStep, WorkerStep, Poll, Claim, Load, Announce, Mark, Unindex, Clean, Retry, Release
<1> QED BY <1>1, <1>2, <1>3, <1>4

\* Every step lets the turn only grow.
LEMMA NextGrows ==
  ASSUME ChatInv, [Next]_vars
  PROVE  TurnGrows
<1>1. TurnOk
  BY DEF ChatInv
<1>2. CASE Ask
  <2>1. (Welcome /\ Effect) \/ UNCHANGED <<turn, effects>>
    BY <1>2 DEF Ask, Accepted, Refused, AnswerLost
  <2>2. (Begin /\ round < MaxRounds) \/ Move \/ UNCHANGED turn
    BY <2>1 DEF Welcome, Effect, Changes, IsMove, Moves
  <2> QED BY <1>1, <2>2, TurnChanges, TurnUnchanged
<1>3. CASE TimerStep /\ Execute
  <2>1. Move \/ UNCHANGED turn
    BY <1>3 DEF Execute, Answered, TimeoutApplied, TimeoutInVain, TimeoutRefused, TimeoutLost, TimeoutFails
  <2> QED BY <1>1, <2>1, TurnChanges, TurnUnchanged
<1>4. CASE ~Ask /\ ~(TimerStep /\ Execute)
  BY <1>1, <1>4, QuietSteps, TurnUnchanged DEF Next, PipelineStep
<1> QED BY <1>2, <1>3, <1>4

\* No step takes a timer or a payload away too early.
LEMMA NextKeeps ==
  ASSUME KeepInv, [Next]_vars
  PROVE  Keeps
<1>1. TurnGrows
  BY NextGrows DEF KeepInv
<1>2. CASE TimerStep
  <2>1. /\ refusals \subseteq refusals'
        /\ index' = index \/ index' = index \ {worker.timer} \/ index' = index \cup {worker.timer}
        /\ payload' = payload \/ payload' = payload \ {worker.timer}
    BY <1>2 DEF TimerStep, WorkerStep, Poll, Claim, Load, Execute, Answered, TimeoutLost, TimeoutFails,
       Announce, Mark, Unindex, Clean, Retry, RetryLater, Release, redis, history
  <2>2. CASE Unindex \/ Clean
    <3>1. Over(worker.timer)
      BY <2>2 DEF KeepInv, WorkerKeeps, Unindex, Clean, At
    <3> QED BY <1>1, <2>1, <3>1 DEF Keeps
  <2>3. CASE ~(Unindex \/ Clean)
    <3>1. index \subseteq index' /\ payload \subseteq payload'
      BY <1>2, <2>3 DEF TimerStep, WorkerStep, Poll, Claim, Load, Execute, Announce, Mark, Retry, RetryLater,
         Release, redis
    <3> QED BY <1>1, <2>1, <3>1 DEF Keeps
  <2> QED BY <2>2, <2>3
<1>3. CASE CancelIndex \/ CancelKeys
  <2>1. MovedPast(OldTimer)
    BY <1>3 DEF KeepInv, JobKeeps, CancelIndex, CancelKeys, In
  <2>2. /\ refusals' = refusals
        /\ index' = index \/ index' = index \ {OldTimer}
        /\ payload' = payload \/ payload' = payload \ {OldTimer}
    BY <1>3 DEF CancelIndex, CancelKeys, history
  <2> QED BY <1>1, <2>1, <2>2 DEF Keeps, Over, Ended
<1>4. CASE ~TimerStep /\ ~CancelIndex /\ ~CancelKeys
  <2>1. refusals' = refusals /\ index \subseteq index' /\ payload \subseteq payload'
    <3>1. CASE TakeNew \/ TakeAgain \/ Republish \/ Crash \/ UNCHANGED vars
      BY <3>1 DEF TakeNew, TakeAgain, Republish, Crash, vars, timers, redis, history
    <3>2. CASE Ask \/ Refresh \/ Remember
      BY <3>2 DEF Ask, Refresh, Remember, timers, redis, history
    <3>3. CASE Send \/ Plan \/ StorePayload \/ IndexTimer
      BY <3>3 DEF Send, Plan, StorePayload, IndexTimer, timers, redis, history
    <3>4. CASE TimePasses \/ KeyExpires
      BY <3>4 DEF TimePasses, KeyExpires, DeadlinePasses, ClaimExpires, redis, history
    <3> QED BY <1>4, <3>1, <3>2, <3>3, <3>4 DEF Next, PipelineStep
  <2> QED BY <1>1, <2>1 DEF Keeps
<1> QED BY <1>2, <1>3, <1>4

\* The worker goes on with what its next step relies on.
LEMMA WorkerKeepsOn ==
  ASSUME KeepInv, ChatInv', Keeps, WorkerStep
  PROVE  WorkerKeeps'
<1>1. /\ worker \in WorkerType /\ worker' \in WorkerType
      /\ worker.phase # "idle" => worker.timer \in Timers
      /\ worker'.phase = "mark" => Over(worker.timer)' \/ worker'.timer # worker.timer
  BY DEF KeepInv, ChatInv, TimersOk, TimersType, WorkerOk, Over
<1>2. CASE Poll
  <2>1. PICK t \in index \cap late :
          worker' = [Resting EXCEPT !.timer = t, !.phase = IF t \in done THEN "unindex" ELSE "claim"]
    BY <1>2 DEF Poll
  <2>2. /\ worker'.timer = t
        /\ (worker'.phase = "unindex" /\ t \in done) \/ worker'.phase = "claim"
    BY <2>1 DEF Resting
  <2>3. t \in Timers /\ Covered(t) /\ (t \in done => Over(t))
    BY DEF KeepInv, ChatInv, TimersOk, TimersType, DoneMeansOver, Over, Ended
  <2>4. Covered(t)' /\ (t \in done => Over(t)')
    BY <2>3, KeepsStable
  <2> QED BY <2>2, <2>4 DEF WorkerKeeps
<1>3. PICK w \in Timers \cup {NoTimer} : w = worker.timer
  BY <1>1 DEF WorkerType
<1>4. CASE Claim \/ Load \/ Execute \/ Announce \/ Mark \/ Unindex \/ Clean \/ Retry \/ Release
  <2>1. w \in Timers
    BY <1>1, <1>3, <1>4 DEF Claim, Load, Execute, Announce, Mark, Unindex, Clean, Retry, Release, At
  <2>2. (Over(w) => Over(w)') /\ (Covered(w) => Covered(w)')
    BY <2>1, KeepsStable
  <2>3. worker' = Resting \/ worker'.timer = w
    BY <1>1, <1>3, <1>4 DEF Claim, Load, Execute, Answered, TimeoutLost, TimeoutFails, Announce, Mark, Unindex,
       Clean, Retry, Release, Go, Finish, WorkerType
  <2>4. CASE worker' = Resting
    BY <2>4 DEF WorkerKeeps, Resting
  <2>5. CASE worker'.timer = w /\ worker' # Resting
    <3>1. /\ worker'.phase = "mark" => Over(w)'
          /\ worker.phase \in {"claim", "load", "execute", "retry"} => Covered(w)
          /\ worker.phase \in {"mark", "unindex", "clean", "drop"} => Over(w)
      BY <1>1, <1>3, <2>5 DEF KeepInv, WorkerKeeps
    <3>2. CASE Claim
      <4>1. worker.phase = "claim" /\ worker'.phase = "load"
        BY <1>1, <2>5, <3>2 DEF Claim, Finish, At, WorkerType
      <4> QED BY <2>2, <2>5, <3>1, <4>1 DEF WorkerKeeps
    <3>3. CASE Load
      <4>1. worker.phase = "load" /\ (worker'.phase = "execute" \/ (worker'.phase = "drop" /\ w \notin payload))
        BY <1>1, <1>3, <3>3 DEF Load, Go, At, WorkerType
      <4> QED BY <2>2, <2>5, <3>1, <4>1 DEF WorkerKeeps, Covered
    <3>4. CASE Execute
      <4>1. worker.phase = "execute" /\ worker'.phase \in {"announce", "mark", "retry"}
        BY <1>1, <3>4 DEF Execute, Answered, TimeoutLost, TimeoutFails, Go, At, WorkerType
      <4> QED BY <2>2, <2>5, <3>1, <4>1 DEF WorkerKeeps
    <3>5. CASE Announce
      <4>1. worker'.phase = "mark"
        BY <1>1, <3>5 DEF Announce, WorkerType
      <4> QED BY <2>5, <3>1, <4>1 DEF WorkerKeeps
    <3>6. CASE Mark
      <4>1. worker.phase = "mark" /\ worker'.phase = "unindex"
        BY <1>1, <3>6 DEF Mark, Go, At, WorkerType
      <4> QED BY <2>2, <2>5, <3>1, <4>1 DEF WorkerKeeps
    <3>7. CASE Unindex
      <4>1. worker'.phase = "release" \/ (worker.phase = "unindex" /\ worker'.phase = "clean")
        BY <1>1, <3>7 DEF Unindex, Go, At, WorkerType
      <4> QED BY <2>2, <2>5, <3>1, <4>1 DEF WorkerKeeps
    <3>8. CASE Clean \/ Retry
      <4>1. worker'.phase = "release"
        BY <1>1, <2>5, <3>8 DEF Clean, Retry, Go, Finish, WorkerType
      <4> QED BY <4>1 DEF WorkerKeeps
    <3>9. CASE Release
      BY <2>5, <3>9 DEF Release, Finish
    <3> QED BY <1>4, <3>2, <3>3, <3>4, <3>5, <3>6, <3>7, <3>8, <3>9
  <2> QED BY <2>3, <2>4, <2>5
<1> QED BY <1>2, <1>4 DEF WorkerStep

\* The pipeline goes on with what its next step relies on.
LEMMA JobKeepsOn ==
  ASSUME KeepInv, ChatInv', Keeps, UNCHANGED <<ctx, job>>
  PROVE  JobKeeps'
<1>1. OldTimer \in Nat \X Nat /\ (job.phase = "enqueue" => NewTimer \in Timers)
  BY DEF KeepInv, ChatInv, JobOk, JobType, Context, OldTimer
<1>2. PICK old \in Nat \X Nat : old = OldTimer
  BY <1>1
<1>3. (OldTimer' = OldTimer) /\ (NewTimer' = NewTimer) /\ (IsMove' <=> IsMove)
  BY DEF OldTimer, NewTimer, IsMove
<1>4. MovedPast(old) => MovedPast(old)'
  BY <1>1, <1>2 DEF Keeps, TurnGrows
<1>5. MovedPast(OldTimer) => MovedPast(OldTimer)'
  BY <1>2, <1>3, <1>4 DEF MovedPast
<1>6. job.phase = "enqueue" => Covered(NewTimer)'
  <2>1. SUFFICES ASSUME job.phase = "enqueue" PROVE Covered(NewTimer)'
    OBVIOUS
  <2>2. PICK t \in Timers : t = NewTimer
    BY <1>1, <2>1
  <2>3. Covered(t)'
    BY <2>1, <2>2, KeepsStable DEF KeepInv, JobKeeps
  <2> QED BY <1>3, <2>2, <2>3 DEF Covered, Over, MovedPast
<1>7. round \in Nat /\ round' \in Nat /\ round <= round'
  BY TimerBoundsAssumption DEF KeepInv, ChatInv, TurnOk, Keeps, TurnGrows
<1>8. ctx.session \in Nat /\ job.old.session \in Nat /\ job.snap.session \in Nat
  BY DEF KeepInv, ChatInv, JobOk, JobType, Context
<1> QED BY <1>3, <1>5, <1>6, <1>7, <1>8 DEF KeepInv, JobKeeps

\* An envelope that waits for nothing but its answer, or is done.
LEMMA JobRests ==
  ASSUME KeepInv, UNCHANGED round, job' = NoJob \/ Answer, ctx'.session <= round
  PROVE  JobKeeps'
<1>1. job.snap.session <= round /\ round \in Nat
  BY TimerBoundsAssumption DEF KeepInv, JobKeeps, ChatInv, TurnOk
<1>2. Unknown.session = 0
  BY DEF Unknown
<1>3. CASE job' = NoJob
  BY <1>1, <1>2, <1>3 DEF NoJob, JobKeeps
<1>4. CASE Answer
  BY <1>1, <1>2, <1>4 DEF Answer, NoJob, JobKeeps
<1> QED BY <1>3, <1>4

\* Each step of the pipeline and of the consumer.
LEMMA PipelineKeepsOn ==
  ASSUME KeepInv, ChatInv', Keeps,
         PipelineStep \/ TakeNew \/ Crash
  PROVE  JobKeeps'
<1>1. /\ job \in JobType /\ ctx \in Context /\ round \in Nat
      /\ ctx.session <= round /\ job.old.session <= round /\ job.snap.session <= round
      /\ ctx.session \in Nat /\ job.old.session \in Nat /\ job.old.version \in Nat
  BY TimerBoundsAssumption DEF KeepInv, JobKeeps, ChatInv, TurnOk, JobOk, JobType, Context
<1>2. CASE TakeNew \/ TakeAgain
  <2>1. PICK u : Begun(u)
    BY <1>2 DEF TakeNew, TakeAgain
  <2>2. job'.old \in {ctx, Unknown} /\ job'.snap = Unknown /\ job'.phase \in {"ask", "idle"}
    BY <2>1 DEF Begun, NoJob
  <2>3. Unknown.session = 0 /\ UNCHANGED <<round, ctx>>
    BY <1>2 DEF Unknown, TakeNew, TakeAgain, turn
  <2> QED BY <1>1, <2>2, <2>3 DEF JobKeeps
<1>3. CASE Crash
  BY <1>1, <1>3, JobRests DEF Crash, turn
<1>4. CASE Ask
  <2>1. job.phase = "ask" /\ ctx' = ctx /\ round <= round' /\ round' \in Nat
    BY <1>4, TimerBoundsAssumption DEF Ask, In, Keeps, TurnGrows, ChatInv, TurnOk
  <2>2. CASE Accepted
    <3>1. Welcome /\ Effect /\ job' = [job EXCEPT !.phase = "remember", !.ok = TRUE, !.snap = Snapshot]
      BY <2>2 DEF Accepted
    <3>2. /\ job'.phase = "remember" /\ job'.old = job.old /\ job'.version = job.version
          /\ job'.kind = job.kind /\ job'.snap = Snapshot
      BY <1>1, <3>1 DEF JobType
    <3>3. Snapshot.session <= round'
      BY <2>1 DEF Snapshot, Unknown
    <3>4. ASSUME IsMove
          PROVE  MovedPast(OldTimer)'
      <4>1. open /\ job.version = version /\ Move
        BY <3>1, <3>4 DEF Welcome, Effect, Changes, IsMove, Moves
      <4>2. round' = round /\ (~open' \/ version < version') /\ version \in Nat
        BY <4>1, TimerBoundsAssumption DEF Move, Advance, KeepInv, ChatInv, TurnOk
      <4> QED BY <1>1, <3>2, <4>1, <4>2 DEF MovedPast, OldTimer
    <3>5. IsMove' <=> IsMove
      BY <3>2 DEF IsMove
    <3> QED BY <1>1, <2>1, <3>2, <3>3, <3>4, <3>5 DEF JobKeeps
  <2>3. CASE Goto("refresh")
    <3>1. job'.phase = "refresh" /\ job'.old = job.old /\ job'.snap = job.snap
      BY <1>1, <2>3 DEF Goto, JobType
    <3>2. job.snap.session \in Nat
      BY <1>1 DEF JobType, Context
    <3> QED BY <1>1, <2>1, <3>1, <3>2 DEF JobKeeps
  <2>4. CASE Answer
    <3>1. job'.phase = "send" /\ job'.old = Unknown /\ job'.snap = job.snap
      BY <1>1, <2>4 DEF Answer, NoJob, JobType
    <3>2. job.snap.session \in Nat /\ Unknown.session = 0
      BY <1>1 DEF JobType, Context, Unknown
    <3> QED BY <1>1, <2>1, <3>1, <3>2 DEF JobKeeps
  <2> QED BY <1>4, <2>2, <2>3, <2>4 DEF Ask, Refused, AnswerLost
<1>5. CASE Refresh
  <2>1. ctx'.session <= round /\ UNCHANGED round
    BY <1>1, <1>5 DEF Refresh, turn
  <2> QED BY <1>5, <2>1, JobRests DEF Refresh
<1>6. CASE Remember
  <2>1. ctx' = job.snap /\ UNCHANGED turn /\ job.phase = "remember"
    BY <1>6 DEF Remember, In
  <2>2. CASE Answer
    BY <1>1, <2>1, <2>2, JobRests DEF turn
  <2>3. CASE Cancels /\ Goto("unindex")
    <3>1. MovedPast(OldTimer)
      BY <2>1, <2>3 DEF Cancels, KeepInv, JobKeeps
    <3>2. job'.phase = "unindex" /\ job'.old = job.old /\ job'.snap = job.snap /\ job'.version = job.version
      BY <1>1, <2>3 DEF Goto, JobType
    <3>3. OldTimer' = OldTimer
      BY <3>2 DEF OldTimer
    <3> QED BY <1>1, <2>1, <3>1, <3>2, <3>3 DEF JobKeeps, MovedPast, turn
  <2> QED BY <1>6, <2>2, <2>3 DEF Remember
<1>7. CASE CancelIndex
  <2>1. UNCHANGED <<turn, ctx>> /\ MovedPast(OldTimer) /\ Goto("forget")
    BY <1>7 DEF CancelIndex, In, KeepInv, JobKeeps
  <2>2. job'.phase = "forget" /\ job'.old = job.old /\ job'.snap = job.snap /\ job'.version = job.version
    BY <1>1, <2>1 DEF Goto, JobType
  <2>3. OldTimer' = OldTimer
    BY <2>2 DEF OldTimer
  <2> QED BY <1>1, <2>1, <2>2, <2>3 DEF JobKeeps, MovedPast, turn
<1>8. CASE CancelKeys
  BY <1>1, <1>8, JobRests DEF CancelKeys, turn
<1>9. CASE (Send \/ Plan \/ IndexTimer) /\ job' = NoJob
  BY <1>1, <1>9, JobRests DEF Send, Plan, IndexTimer, turn
<1>10. CASE (Send \/ Plan) /\ job' # NoJob
  <2>1. UNCHANGED <<turn, ctx>> /\ \E phase \in {"plan", "store"} : Goto(phase)
    BY <1>10 DEF Send, Plan
  <2>2. job'.phase \in {"plan", "store"} /\ job'.old = job.old /\ job'.snap = job.snap
    BY <1>1, <2>1 DEF Goto, JobType
  <2> QED BY <1>1, <2>1, <2>2 DEF JobKeeps, turn
<1>11. CASE StorePayload
  <2>1. UNCHANGED <<turn, ctx>> /\ Goto("enqueue") /\ payload' = payload \cup {NewTimer}
    BY <1>11 DEF StorePayload
  <2>2. job'.phase = "enqueue" /\ job'.old = job.old /\ job'.snap = job.snap
    BY <1>1, <2>1 DEF Goto, JobType
  <2>3. NewTimer' = NewTimer
    BY <2>2 DEF NewTimer
  <2>4. Covered(NewTimer)'
    BY <2>1, <2>3 DEF Covered
  <2> QED BY <1>1, <2>1, <2>2, <2>4 DEF JobKeeps, turn
<1>12. CASE IndexTimer
  BY <1>9, <1>12 DEF IndexTimer
<1> QED BY <1>2, <1>3, <1>4, <1>5, <1>6, <1>7, <1>8, <1>9, <1>10, <1>11, <1>12 DEF PipelineStep

\* A timer enters the index only covered.
LEMMA IndexKeepsOn ==
  ASSUME KeepInv, Keeps, [Next]_vars
  PROVE  \A t \in index' : Covered(t)'
<1>1. index \subseteq Timers /\ \A t \in index : Covered(t)
  BY DEF KeepInv, ChatInv, TimersOk, TimersType
<1>2. \A t \in index : Covered(t)'
  BY <1>1, KeepsStable
<1>3. CASE TimerStep
  <2>1. index' \subseteq index \/ (Retry /\ index' = index \cup {worker.timer})
    BY <1>3 DEF TimerStep, WorkerStep, Poll, Claim, Load, Execute, Announce, Mark, Unindex, Clean, Retry,
       RetryLater, Release, redis
  <2>2. CASE Retry /\ index' = index \cup {worker.timer}
    <3>1. worker.timer \in Timers /\ Covered(worker.timer)
      BY <2>2 DEF Retry, At, KeepInv, WorkerKeeps, ChatInv, TimersOk, WorkerOk
    <3>2. PICK t \in Timers : t = worker.timer
      BY <3>1
    <3>3. Covered(t)'
      BY <3>1, <3>2, KeepsStable
    <3> QED BY <1>2, <2>2, <3>2, <3>3
  <2> QED BY <1>2, <2>1, <2>2
<1>4. CASE IndexTimer
  <2>1. NewTimer \in Timers /\ Covered(NewTimer) /\ index' = index \cup {NewTimer}
    BY <1>4 DEF IndexTimer, In, KeepInv, JobKeeps, ChatInv, JobOk
  <2>2. PICK t \in Timers : t = NewTimer
    BY <2>1
  <2>3. Covered(t)'
    BY <2>1, <2>2, KeepsStable
  <2> QED BY <1>2, <2>1, <2>2, <2>3
<1>5. CASE ~TimerStep /\ ~IndexTimer
  <2>1. index' \subseteq index
    <3>1. CASE TakeNew \/ TakeAgain \/ Republish \/ Crash \/ UNCHANGED vars
      BY <3>1 DEF TakeNew, TakeAgain, Republish, Crash, vars, timers, redis
    <3>2. CASE Ask \/ Refresh \/ Remember \/ CancelIndex \/ CancelKeys
      BY <3>2 DEF Ask, Refresh, Remember, CancelIndex, CancelKeys, timers, redis
    <3>3. CASE Send \/ Plan \/ StorePayload
      BY <3>3 DEF Send, Plan, StorePayload, timers, redis
    <3>4. CASE TimePasses \/ KeyExpires
      BY <3>4 DEF TimePasses, KeyExpires, DeadlinePasses, ClaimExpires, redis
    <3> QED BY <1>5, <3>1, <3>2, <3>3, <3>4 DEF Next, PipelineStep
  <2> QED BY <1>2, <2>1
<1> QED BY <1>3, <1>4, <1>5

\* The whole of it is kept by every step.
LEMMA KeepsKeepInv ==
  ASSUME KeepInv, [Next]_vars
  PROVE  KeepInv'
<1>1. ChatInv' /\ Keeps
  BY NextKeepsInv, NextKeeps DEF KeepInv
<1>2. \A t \in index' : Covered(t)'
  BY <1>1, IndexKeepsOn
<1>3. CASE WorkerStep /\ UNCHANGED chat
  <2>1. UNCHANGED <<ctx, job>>
    BY <1>3 DEF chat
  <2> QED BY <1>1, <1>2, <1>3, <2>1, WorkerKeepsOn, JobKeepsOn DEF KeepInv
<1>4. CASE ~ (WorkerStep /\ UNCHANGED chat)
  <2>1. worker' = worker \/ worker' = Resting
    <3>1. CASE TakeNew \/ TakeAgain \/ Republish \/ Crash \/ UNCHANGED vars
      BY <3>1 DEF TakeNew, TakeAgain, Republish, Crash, vars, timers
    <3>2. CASE Ask \/ Refresh \/ Remember \/ CancelIndex \/ CancelKeys
      BY <3>2 DEF Ask, Refresh, Remember, CancelIndex, CancelKeys, timers
    <3>3. CASE Send \/ Plan \/ StorePayload \/ IndexTimer
      BY <3>3 DEF Send, Plan, StorePayload, IndexTimer, timers
    <3>4. CASE TimePasses \/ KeyExpires
      BY <3>4 DEF TimePasses, KeyExpires, DeadlinePasses, ClaimExpires
    <3> QED BY <1>4, <3>1, <3>2, <3>3, <3>4 DEF Next, PipelineStep, TimerStep
  <2>2. WorkerKeeps'
    <3>1. CASE worker' = Resting
      BY <3>1 DEF WorkerKeeps, Resting
    <3>2. CASE worker' = worker
      <4>1. PICK w : w = worker.timer
        OBVIOUS
      <4>2. worker.phase # "idle" => w \in Timers
        BY <4>1 DEF KeepInv, ChatInv, TimersOk, WorkerOk
      <4>3. worker.phase # "idle" => (Over(w) => Over(w)') /\ (Covered(w) => Covered(w)')
        BY <1>1, <4>2, KeepsStable
      <4> QED BY <3>2, <4>1, <4>3 DEF KeepInv, WorkerKeeps
    <3> QED BY <2>1, <3>1, <3>2
  <2>3. JobKeeps'
    <3>1. CASE PipelineStep \/ TakeNew \/ Crash
      BY <1>1, <3>1, PipelineKeepsOn
    <3>2. CASE Republish \/ TimePasses \/ KeyExpires \/ UNCHANGED vars
      <4>1. UNCHANGED <<ctx, job>>
        BY <3>2 DEF Republish, TimePasses, KeyExpires, vars, chat
      <4> QED BY <1>1, <4>1, JobKeepsOn
    <3> QED BY <1>4, <3>1, <3>2 DEF Next, TimerStep
  <2> QED BY <1>1, <1>2, <2>2, <2>3 DEF KeepInv
<1> QED BY <1>3, <1>4

\* At the start there is nothing to keep.
LEMMA KeepInit == Init => KeepInv
<1> SUFFICES ASSUME Init PROVE KeepInv
  OBVIOUS
<1>1. ChatInv /\ worker = Resting /\ job = NoJob /\ ctx = Unknown /\ index = {} /\ round = 0
  BY ChatInit DEF Init, TurnInit, TimersInit
<1>2. WorkerKeeps
  BY <1>1 DEF WorkerKeeps, Resting
<1>3. JobKeeps
  BY <1>1 DEF JobKeeps, NoJob, Unknown
<1> QED BY <1>1, <1>2, <1>3 DEF KeepInv

(***************************************************************************)
(* A scheduled turn keeps its timer until it is over, the game itself has  *)
(* failed its timeout, or it is found abandoned (redis_store.py,           *)
(* redis_worker.py, player_action.py).                                     *)
(***************************************************************************)
THEOREM TimersAreKept == Spec => TimerKeptUntilOver
<1>1. KeepInv /\ [Next]_vars => KeepInv'
  BY KeepsKeepInv
<1>2. KeepInv /\ [Next]_vars =>
        [\A t \in Timers : Armed(t) /\ ~Armed(t)' => MovedPast(t)' \/ t \in refusals' \/ Abandoned(t)']_vars
  <2> SUFFICES ASSUME KeepInv, [Next]_vars, NEW t \in Timers, Armed(t), ~Armed(t)'
               PROVE  MovedPast(t)' \/ t \in refusals' \/ Abandoned(t)'
    OBVIOUS
  <2>1. Keeps
    BY NextKeeps
  <2>2. Over(t)
    BY <2>1 DEF Keeps, Armed
  <2>3. Over(t)'
    BY <2>1, <2>2, KeepsStable
  <2> QED BY <2>3 DEF Over, Ended
<1> QED BY <1>1, <1>2, KeepInit, PTL DEF Spec, TimerKeptUntilOver
=============================================================================
