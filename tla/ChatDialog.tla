------------------------------ MODULE ChatDialog ------------------------------
(***************************************************************************)
(* What a player can press in a chat and what the bot makes of it: the     *)
(* normalizer that reads labels and buttons, the presenter that offers     *)
(* them, the hint that tells the two meanings of the label "Начать игру"   *)
(* apart, and the messages that are deleted.                               *)
(*                                                                         *)
(* One step is one update, from the pressed control to the stored hint.    *)
(* The session of the chat is what the commands do to its status; whether  *)
(* the game accepts a command it could accept (money, seats, turns) is     *)
(* left open.  Module ChatTurns has the versions, timers and crashes.      *)
(***************************************************************************)
EXTENDS Naturals

ChatTypes == {"group", "single"}

\* Labels of the reply keyboards, written as the ids of their buttons.
Labels == {"balance", "start_game", "create_lobby", "current", "leave"}
\* Callback data of the inline buttons, without bet, version and hand.
Callbacks == {"session:join", "session:start:group", "session:create:group",
              "session:create:single", "action"}
Slash == {"/start", "/register", "/balance", "/current", "/create_lobby", "/join",
          "/group_start", "/single_start", "/stop", "/hit"}

VARIABLES
  chatType, \* the type of the chat
  mode,     \* chat_mode of the chat's last session
  status,   \* its status, "none" before the first session
  reply,    \* the labels of the reply keyboard the chat shows
  last,     \* the inline buttons of the message last_bot_message_id names
  older,    \* the inline buttons of the other messages of the bot
  hint,     \* reply_action_hint: a command, or "none"
  handled   \* history, not in the code: the last command

vars == <<chatType, mode, status, reply, last, older, hint, handled>>

Init ==
  /\ chatType \in ChatTypes
  /\ mode = chatType /\ status = "none"
  /\ reply = {} /\ last = {} /\ older = {}
  /\ hint = "none" /\ handled = "none"

-----------------------------------------------------------------------------
(* The normalizer.                                                         *)

GroupOnly == {"group_open", "group_start", "group_join", "group_stop"}

\* _resolve_start_game_command
StartGame ==
  IF hint # "none" THEN hint
  ELSE IF chatType = "group" THEN "group_open" ELSE "single_start"

Stop == IF chatType = "group" THEN "group_stop" ELSE "single_stop"

\* _TEXT_TO_COMMAND, _RU_TEXT_TO_COMMAND and what is resolved by the chat.
TextMeaning ==
  [c \in Labels \cup Slash |->
     CASE c = "/start" -> "tutorial"
       [] c = "/register" -> "player_register"
       [] c \in {"/balance", "balance"} -> "player_balance"
       [] c \in {"/current", "current"} -> "current_session"
       [] c \in {"/create_lobby", "create_lobby"} -> "group_open"
       [] c = "/join" -> "group_join"
       [] c = "/group_start" -> "group_start"
       [] c = "/single_start" -> "single_start"
       [] c = "/hit" -> "player_action"
       [] c \in {"/stop", "leave"} -> Stop
       [] c = "start_game" -> StartGame]

\* A lobby is a matter of groups: the chat of a text is checked, that of a
\* callback is not.
OfText(c) ==
  IF TextMeaning[c] \in GroupOnly /\ chatType # "group" THEN "unsupported" ELSE TextMeaning[c]

CallbackMeaning ==
  [c \in Callbacks |->
     CASE c = "session:join" -> "group_join"
       [] c = "session:start:group" -> "group_start"
       [] c = "session:create:group" -> "group_open"
       [] c = "session:create:single" -> "single_start"
       [] c = "action" -> "player_action"]

CommandOf(c) == IF c \in Callbacks THEN CallbackMeaning[c] ELSE OfText(c)

-----------------------------------------------------------------------------
(* The presenter.                                                          *)

Reply(keys) == [kind |-> "reply", keys |-> keys]
Inline(keys) == [kind |-> "inline", keys |-> keys]

TutorialKeyboardForGroups == Reply({"balance", "create_lobby"})
TutorialKeyboard ==
  Reply({"balance", IF chatType = "group" THEN "create_lobby" ELSE "start_game"})

RegistrationKeyboard == Reply({"start_game", "current", "balance"})
LobbyKeyboard == Inline({"session:join", "session:start:group"})
PostGameKeyboard(m) ==
  Inline({IF m = "group" THEN "session:create:group" ELSE "session:create:single"})

\* _build_session_keyboard, without data: no status and no mode.
SessionKeyboard(st, m) ==
  IF st = "in_progress" THEN Reply({"balance", "leave", "current"})
  ELSE Reply({"balance", IF m = "group" THEN "create_lobby" ELSE "start_game"})

\* _present_success, for the session the answer describes.
Present(cmd, st, m) ==
  CASE cmd = "tutorial" -> TutorialKeyboard
    [] cmd \in {"player_register", "player_balance"} -> RegistrationKeyboard
    [] cmd \in {"group_open", "group_join"} -> LobbyKeyboard
    [] cmd = "single_stop" \/ (cmd \in {"group_start", "single_start", "player_action",
                                        "current_session", "group_stop"} /\ st = "closed")
         -> PostGameKeyboard(m)
    [] cmd \in {"group_start", "single_start", "player_action", "current_session"} /\ st # "closed"
         -> IF st = "in_progress" THEN Inline({"action"}) ELSE SessionKeyboard(st, m)
    [] OTHER -> PostGameKeyboard(m)

\* _present_error: an answer that failed has no data.
PresentError(code) ==
  IF code = "not_found" THEN PostGameKeyboard("single") ELSE SessionKeyboard("none", "none")

-----------------------------------------------------------------------------
(* The session, as far as the commands change its status.                  *)

Unfinished == status \in {"lobby_open", "in_progress"}

ModeOf(cmd) ==
  IF cmd \in GroupOnly THEN "group"
  ELSE IF cmd \in {"single_start", "single_stop"} THEN "single" ELSE chatType

\* The unfinished session a command addresses: its mode must be the command's.
Found(cmd) == Unfinished /\ mode = ModeOf(cmd)

SessionCommands == {"group_open", "group_join", "group_start", "group_stop", "single_start",
                    "single_stop", "player_action", "current_session"}

\* The session after a command the game accepts.
Accepted(cmd) ==
  /\ \/ /\ cmd = "group_open" /\ ~Unfinished
        /\ status' = "lobby_open" /\ mode' = "group"
     \/ /\ cmd = "single_start" /\ ~Unfinished
        /\ status' \in {"in_progress", "closed"} /\ mode' = "single"
     \/ /\ cmd = "group_join" /\ Found(cmd) /\ status = "lobby_open"
        /\ UNCHANGED <<status, mode>>
     \/ /\ cmd = "group_start" /\ Found(cmd) /\ status = "lobby_open"
        /\ status' \in {"in_progress", "closed"} /\ UNCHANGED mode
     \/ /\ cmd \in {"player_action", "group_stop"} /\ Found(cmd) /\ status = "in_progress"
        /\ status' \in {"in_progress", "closed"} /\ UNCHANGED mode
     \/ /\ cmd = "single_stop" /\ Found(cmd) /\ status = "in_progress"
        /\ status' \in {"in_progress", "closed"} /\ UNCHANGED mode
     \/ /\ cmd = "current_session" /\ Found(cmd)
        /\ UNCHANGED <<status, mode>>
     \/ /\ cmd \in {"tutorial", "player_register", "player_balance"}
        /\ UNCHANGED <<status, mode>>

\* Every command may fail for another reason than the session.
ErrorOf(cmd, code) ==
  /\ cmd # "tutorial"
  /\ \/ code = "other"
     \/ code = "not_found" /\ cmd \in SessionCommands \ {"group_open", "single_start"} /\ ~Found(cmd)
     \/ code = "not_found" /\ cmd = "player_balance"

-----------------------------------------------------------------------------
(* The pipeline.                                                           *)

\* _resolve_reply_action_hint; st is "none" when the answer has no session.
HintAfter(cmd, st) ==
  IF cmd = "tutorial" THEN (IF chatType = "group" THEN "group_open" ELSE "single_start")
  ELSE IF chatType = "single" THEN "single_start"
  ELSE CASE st = "lobby_open" -> "group_start"
         [] st = "closed" -> "group_open"
         [] OTHER -> "none"

DeletesAlways(cmd) == TRUE
\* _delete_previous_message_if_needed, of a command that succeeded.
Deletes(cmd) == cmd \in {"player_action", "current_session"}

\* The deletion is skipped for a player who is not on turn, and may fail.
MayDelete(cmd) == {FALSE, Deletes(cmd)}

\* The previous message of the bot stays in the chat, or is deleted.
Previous(deleted) == IF deleted THEN older ELSE older \cup last

\* The answer is in the chat and in the context.
Sent(keyboard, told, cmd, deleted) ==
  /\ older' = Previous(deleted)
  /\ last' = IF keyboard.kind = "inline" THEN keyboard.keys ELSE {}
  /\ reply' = IF keyboard.kind = "reply" THEN keyboard.keys ELSE reply
  /\ hint' = HintAfter(cmd, told)

\* The answer is lost.  A context the handler replaced has no hint and no
\* message id any more.
NotSent(replaced, deleted) ==
  /\ IF replaced \/ deleted
     THEN older' = Previous(deleted) /\ last' = {}
     ELSE UNCHANGED <<older, last>>
  /\ hint' = IF replaced THEN "none" ELSE hint
  /\ UNCHANGED reply

Succeed(cmd) ==
  /\ Accepted(cmd)
  /\ \E deleted \in MayDelete(cmd) :
       LET told == IF cmd \in SessionCommands THEN status' ELSE "none"
       IN \/ Sent(Present(cmd, told, IF told = "none" THEN "none" ELSE mode'), told, cmd, deleted)
          \/ NotSent(cmd \notin {"tutorial", "player_balance"}, deleted)

\* A stale move makes its handler replace the context although it fails.
Fail(cmd) ==
  /\ UNCHANGED <<mode, status>>
  /\ \E code \in {"other", "not_found"} :
       /\ ErrorOf(cmd, code)
       /\ \/ Sent(PresentError(code), "none", cmd, FALSE)
          \/ \E replaced \in {FALSE, cmd = "player_action"} : NotSent(replaced, FALSE)

Offered == reply \cup last \cup older

\* Somebody presses what is offered, or types.
Press ==
  \E c \in Offered \cup Slash :
    LET cmd == CommandOf(c) IN
    /\ cmd # "unsupported"
    /\ Succeed(cmd) \/ Fail(cmd)
    /\ handled' = cmd
    /\ UNCHANGED chatType

\* A timeout is applied; the message of its notice is not recorded.
Timeout ==
  /\ status = "in_progress"
  /\ status' \in {"in_progress", "closed"}
  /\ older' \in {older, older \cup Present("player_action", status', mode).keys}
  /\ handled' = "timeout"
  /\ UNCHANGED <<chatType, mode, reply, last, hint>>

Next == Press \/ Timeout

Spec == Init /\ [][Next]_vars

-----------------------------------------------------------------------------
(* Properties.                                                             *)

(***************************************************************************)
(* Every control the bot has left in the chat means something to it there: *)
(* the labels and callbacks of the presenter, the tables of the normalizer *)
(* and the rule that a lobby is a matter of groups agree.                  *)
(***************************************************************************)
OfferedIsUnderstood == \A c \in Offered : CommandOf(c) # "unsupported"

InLobby == mode = "group" /\ status = "lobby_open"

\* Some control starts the round.
Startable == \E c \in Offered : CommandOf(c) = "group_start"

(***************************************************************************)
(* The lobby tells its players to press "Начать игру".  Of everything that *)
(* can happen in the chat only /current takes away the last control that   *)
(* starts the round: it deletes the lobby's message and offers nothing     *)
(* like it.                                                                *)
(***************************************************************************)
OnlyCurrentTakesStartAway ==
  [][InLobby /\ Startable /\ InLobby' /\ ~Startable' => handled' = "current_session"]_vars

\* Controls that start a session fit the chat.  Does not hold: a command that
\* finds no session in a group is answered with the button of a single chat.
StartFitsChat ==
  chatType = "group" => \A c \in Offered : CommandOf(c) # "single_start"
=============================================================================
