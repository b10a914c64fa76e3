--------------------------- MODULE ChatDialogProofs ---------------------------
(***************************************************************************)
(* Proofs about ChatDialog: every control the bot leaves in a chat means   *)
(* something there, and in a lobby only /current takes the start away.     *)
(*                                                                         *)
(* Both hold in all reachable states because of what the chat can show:    *)
(* DialogInv says which controls a chat of each type is offered, and where *)
(* the start button of a lobby is when the label alone would start it.     *)
(***************************************************************************)
EXTENDS ChatDialog, TLAPS

\* What a chat shows is what the presenter builds from.
DialogTypes ==
  /\ chatType \in ChatTypes /\ mode \in ChatTypes
  /\ status \in {"none", "lobby_open", "in_progress", "closed"}
  /\ reply \subseteq Labels
  /\ last \subseteq Callbacks
  /\ older \subseteq Callbacks
  /\ hint \in {"none", "group_open", "group_start", "single_start"}

\* A private chat never sees a control of a lobby, nor is told to open one.
PrivateOk ==
  chatType = "single" =>
    /\ mode = "single"
    /\ "create_lobby" \notin reply
    /\ last \cup older \subseteq {"session:create:single", "action"}
    /\ hint \in {"none", "single_start"}

\* A lobby that the label would start shows its start button too.
StartShown ==
  InLobby /\ hint = "group_start" /\ "start_game" \in reply =>
    "session:start:group" \in last \cup older

DialogInv == DialogTypes /\ PrivateOk /\ StartShown

-----------------------------------------------------------------------------
(* What a control means.                                                   *)

Commands == SessionCommands \cup {"tutorial", "player_register", "player_balance"}

\* Every control is a command or, typed in a private chat, unsupported.
LEMMA ControlMeans ==
  ASSUME DialogInv, NEW c \in Offered \cup Slash
  PROVE  /\ CommandOf(c) \in Commands \cup {"unsupported"}
         /\ CommandOf(c) = "unsupported" => chatType = "single" /\ c \notin Offered
         /\ chatType = "single" => CommandOf(c) \notin GroupOnly
<1>1. c \in Labels \cup Callbacks \cup Slash
  BY DEF DialogInv, DialogTypes, Offered
<1>2. CASE c \in Callbacks
  <2>1. c \in last \cup older
    BY <1>2 DEF DialogInv, DialogTypes, Offered, Callbacks, Labels, Slash
  <2>2. CommandOf(c) \in Commands
    BY <1>2 DEF CommandOf, CallbackMeaning, Callbacks, Commands, SessionCommands
  <2>3. chatType = "single" => CommandOf(c) \in {"single_start", "player_action"}
    BY <2>1 DEF DialogInv, PrivateOk, CommandOf, CallbackMeaning, Callbacks
  <2> QED BY <2>2, <2>3 DEF GroupOnly, Commands, SessionCommands
<1>3. CASE c \notin Callbacks
  <2>1. CommandOf(c) = OfText(c) /\ c \in Labels \cup Slash
    BY <1>1, <1>3 DEF CommandOf
  <2>2. TextMeaning[c] \in Commands
    BY <2>1 DEF TextMeaning, Labels, Slash, Stop, StartGame, Commands, SessionCommands,
                DialogInv, DialogTypes
  <2>3. CASE chatType = "group"
    BY <2>1, <2>2, <2>3 DEF OfText, Commands, SessionCommands
  <2>4. CASE chatType = "single"
    <3>1. c \in Offered => c \in Labels \ {"create_lobby"}
      BY <1>3, <2>4 DEF DialogInv, DialogTypes, PrivateOk, Offered
    <3>2. c \in Offered => TextMeaning[c] \notin GroupOnly
      BY <2>4, <3>1 DEF TextMeaning, Labels, Stop, StartGame, GroupOnly, DialogInv, PrivateOk
    <3> QED BY <2>1, <2>2, <2>4, <3>2 DEF OfText, GroupOnly, Commands, SessionCommands
  <2> QED BY <2>3, <2>4 DEF DialogInv, DialogTypes, ChatTypes
<1> QED BY <1>2, <1>3

-----------------------------------------------------------------------------
(* What an answer leaves in the chat.                                      *)

\* A keyboard a chat of this type may show.
KeyboardOk(k) ==
  \/ /\ k.kind = "reply" /\ k.keys \subseteq Labels
     /\ chatType = "single" => "create_lobby" \notin k.keys
  \/ /\ k.kind = "inline" /\ k.keys \subseteq Callbacks
     /\ chatType = "single" => k.keys \subseteq {"session:create:single", "action"}

\* The keyboards of the presenter, one by one.
LEMMA KeyboardsOk ==
  ASSUME chatType \in ChatTypes
  PROVE  /\ KeyboardOk(TutorialKeyboard)
         /\ KeyboardOk(RegistrationKeyboard)
         /\ chatType = "group" => KeyboardOk(LobbyKeyboard)
         /\ KeyboardOk(Inline({"action"}))
         /\ \A m : m # "group" \/ chatType = "group" =>
              KeyboardOk(PostGameKeyboard(m)) /\ \A st : KeyboardOk(SessionKeyboard(st, m))
<1> USE DEF KeyboardOk, Reply, Inline, Labels, Callbacks, ChatTypes
<1>1. KeyboardOk(TutorialKeyboard)
  BY DEF TutorialKeyboard
<1>2. KeyboardOk(RegistrationKeyboard) /\ KeyboardOk(Inline({"action"}))
  BY DEF RegistrationKeyboard
<1>3. chatType = "group" => KeyboardOk(LobbyKeyboard)
  BY DEF LobbyKeyboard
<1>4. ASSUME NEW m, m # "group" \/ chatType = "group"
      PROVE  KeyboardOk(PostGameKeyboard(m)) /\ \A st : KeyboardOk(SessionKeyboard(st, m))
  BY <1>4 DEF PostGameKeyboard, SessionKeyboard
<1> QED BY <1>1, <1>2, <1>3, <1>4

\* The answer to a command that succeeded suits the chat.
LEMMA PresentOk ==
  ASSUME chatType \in ChatTypes, NEW cmd, NEW st, NEW m,
         chatType = "single" => cmd \notin GroupOnly /\ m # "group"
  PROVE  KeyboardOk(Present(cmd, st, m))
<1>1. \/ Present(cmd, st, m) \in {TutorialKeyboard, RegistrationKeyboard, Inline({"action"}),
                                 PostGameKeyboard(m), SessionKeyboard(st, m)}
      \/ cmd \in {"group_open", "group_join"} /\ Present(cmd, st, m) = LobbyKeyboard
  BY DEF Present
<1>2. m # "group" \/ chatType = "group"
  BY DEF ChatTypes
<1>3. cmd \in {"group_open", "group_join"} => chatType = "group"
  BY DEF GroupOnly, ChatTypes
<1> QED BY <1>1, <1>2, <1>3, KeyboardsOk

\* Only what was last can go, and only when it is deleted.
LEMMA PreviousKept ==
  ASSUME NEW deleted \in BOOLEAN
  PROVE  /\ Previous(deleted) \subseteq older \cup last
         /\ older \subseteq Previous(deleted)
         /\ ~ deleted => last \subseteq Previous(deleted)
  BY DEF Previous

\* An answer in the chat keeps the types and a private chat private.
LEMMA SentKeeps ==
  ASSUME DialogTypes, PrivateOk, UNCHANGED chatType,
         mode' \in ChatTypes, status' \in {"none", "lobby_open", "in_progress", "closed"},
         chatType = "single" => mode' = "single",
         NEW k, KeyboardOk(k), NEW told, NEW cmd, NEW deleted \in BOOLEAN,
         Sent(k, told, cmd, deleted)
  PROVE  DialogTypes' /\ PrivateOk'
<1>1. older' \subseteq older \cup last
  BY PreviousKept DEF Sent
<1>2. /\ last' \subseteq Callbacks /\ reply' \subseteq Labels
      /\ chatType = "single" => /\ last' \subseteq {"session:create:single", "action"}
                               /\ "create_lobby" \notin reply'
  BY DEF Sent, KeyboardOk, DialogTypes, PrivateOk
<1>3. /\ hint' \in {"none", "group_open", "group_start", "single_start"}
      /\ chatType = "single" => hint' = "single_start"
  BY DEF Sent, HintAfter
<1> QED BY <1>1, <1>2, <1>3 DEF DialogTypes, PrivateOk

\* So does an answer that is lost.
LEMMA NotSentKeeps ==
  ASSUME DialogTypes, PrivateOk, UNCHANGED chatType,
         mode' \in ChatTypes, status' \in {"none", "lobby_open", "in_progress", "closed"},
         chatType = "single" => mode' = "single",
         NEW replaced \in BOOLEAN, NEW deleted \in BOOLEAN,
         NotSent(replaced, deleted)
  PROVE  DialogTypes' /\ PrivateOk'
<1>1. older' \subseteq older \cup last /\ last' \subseteq last /\ reply' = reply
  BY PreviousKept DEF NotSent
<1>2. hint' \in {hint, "none"}
  BY DEF NotSent
<1> QED BY <1>1, <1>2 DEF DialogTypes, PrivateOk

-----------------------------------------------------------------------------
(* The commands.                                                           *)

\* The session after an accepted command.
LEMMA AcceptedSession ==
  ASSUME DialogTypes, PrivateOk, NEW cmd, Accepted(cmd),
         chatType = "single" => cmd \notin GroupOnly
  PROVE  /\ mode' \in ChatTypes /\ status' \in {"none", "lobby_open", "in_progress", "closed"}
         /\ chatType = "single" => mode' = "single"
         /\ status' = "lobby_open" /\ cmd \in SessionCommands =>
              cmd \in {"group_open", "group_join", "current_session"}
         /\ InLobby' /\ ~ InLobby => cmd = "group_open"
  BY DEF Accepted, DialogTypes, PrivateOk, ChatTypes, GroupOnly, SessionCommands, Unfinished, InLobby

\* Only two commands delete a message.
LEMMA DeletesRarely ==
  ASSUME NEW cmd, NEW deleted \in MayDelete(cmd)
  PROVE  deleted \in BOOLEAN /\ (deleted => cmd \in {"player_action", "current_session"})
<1>1. deleted = FALSE \/ deleted = Deletes(cmd)
  BY DEF MayDelete
<1>2. Deletes(cmd) = TRUE \/ Deletes(cmd) = FALSE
  BY DEF Deletes
<1>3. Deletes(cmd) => cmd \in {"player_action", "current_session"}
  BY DEF Deletes
<1> QED BY <1>1, <1>2, <1>3, Zenon

\* A command that succeeds keeps DialogInv.
LEMMA SucceedKeeps ==
  ASSUME DialogInv, NEW cmd \in Commands, Succeed(cmd), UNCHANGED chatType,
         chatType = "single" => cmd \notin GroupOnly
  PROVE  DialogInv'
<1>1. PICK deleted \in MayDelete(cmd) :
        LET told == IF cmd \in SessionCommands THEN status' ELSE "none"
        IN \/ Sent(Present(cmd, told, IF told = "none" THEN "none" ELSE mode'), told, cmd, deleted)
           \/ NotSent(cmd \notin {"tutorial", "player_balance"}, deleted)
  BY DEF Succeed
<1> DEFINE told == IF cmd \in SessionCommands THEN status' ELSE "none"
           m == IF told = "none" THEN "none" ELSE mode'
           replaced == cmd \notin {"tutorial", "player_balance"}
<1>2. /\ mode' \in ChatTypes /\ status' \in {"none", "lobby_open", "in_progress", "closed"}
      /\ chatType = "single" => mode' = "single"
      /\ status' = "lobby_open" /\ cmd \in SessionCommands =>
           cmd \in {"group_open", "group_join", "current_session"}
      /\ InLobby' /\ ~ InLobby => cmd = "group_open"
  BY AcceptedSession DEF Succeed, DialogInv
<1>3. deleted \in BOOLEAN /\ replaced \in BOOLEAN
      /\ (deleted => cmd \in {"player_action", "current_session"})
  BY DeletesRarely
<1>4. CASE Sent(Present(cmd, told, m), told, cmd, deleted)
  <2>1. KeyboardOk(Present(cmd, told, m))
    BY <1>2, PresentOk DEF DialogInv, DialogTypes
  <2>2. DialogTypes' /\ PrivateOk'
    BY <1>2, <1>3, <1>4, <2>1, SentKeeps DEF DialogInv
  <2>3. ASSUME InLobby', hint' = "group_start", "start_game" \in reply'
        PROVE  "session:start:group" \in last'
    <3>1. hint' = HintAfter(cmd, told) /\ chatType # "single"
      BY <1>2, <1>4, <2>3 DEF Sent, InLobby
    <3>2. told = "lobby_open" /\ cmd \in SessionCommands
      BY <2>3, <3>1 DEF HintAfter
    <3>3. cmd \in {"group_open", "group_join", "current_session"}
      BY <1>2, <3>2
    <3>4. cmd # "current_session"
      <4>1. ASSUME cmd = "current_session"
            PROVE  Present(cmd, told, m) = Reply({"balance", "create_lobby"})
        BY <4>1, <3>2, <2>3 DEF Present, SessionKeyboard, InLobby
      <4>2. ASSUME cmd = "current_session"
            PROVE  reply' = {"balance", "create_lobby"}
        BY <1>4, <4>1, <4>2 DEF Sent, Reply
      <4> QED BY <2>3, <4>2
    <3>5. Present(cmd, told, m) = LobbyKeyboard
      BY <3>3, <3>4 DEF Present
    <3> QED BY <1>4, <3>5 DEF Sent, LobbyKeyboard, Inline
  <2> QED BY <2>2, <2>3 DEF DialogInv, StartShown
<1>5. CASE NotSent(replaced, deleted)
  <2>1. DialogTypes' /\ PrivateOk'
    BY <1>2, <1>3, <1>5, NotSentKeeps DEF DialogInv
  <2>2. ASSUME InLobby', hint' = "group_start", "start_game" \in reply'
        PROVE  "session:start:group" \in last' \cup older'
    <3>1. ~ replaced /\ reply' = reply /\ hint' = hint
      BY <1>5, <2>2 DEF NotSent
    <3>2. ~ deleted /\ InLobby
      BY <1>2, <1>3, <2>2, <3>1
    <3>3. UNCHANGED <<older, last>>
      BY <1>5, <3>1, <3>2 DEF NotSent
    <3> QED BY <2>2, <3>1, <3>2, <3>3 DEF DialogInv, StartShown
  <2> QED BY <2>1, <2>2 DEF DialogInv, StartShown
<1> QED BY <1>1, <1>4, <1>5

\* So does one that fails: its answer tells of no session.
LEMMA FailKeeps ==
  ASSUME DialogInv, NEW cmd \in Commands, Fail(cmd), UNCHANGED chatType
  PROVE  DialogInv'
<1>1. mode' = mode /\ status' = status /\ (InLobby' <=> InLobby)
  BY DEF Fail, InLobby
<1>2. /\ mode' \in ChatTypes /\ status' \in {"none", "lobby_open", "in_progress", "closed"}
      /\ chatType = "single" => mode' = "single"
  BY <1>1 DEF DialogInv, DialogTypes, PrivateOk
<1>3. PICK code \in {"other", "not_found"} :
        /\ ErrorOf(cmd, code)
        /\ \/ Sent(PresentError(code), "none", cmd, FALSE)
           \/ \E replaced \in {FALSE, cmd = "player_action"} : NotSent(replaced, FALSE)
  BY DEF Fail
<1>4. CASE Sent(PresentError(code), "none", cmd, FALSE)
  <2>1. KeyboardOk(PresentError(code))
    BY KeyboardsOk DEF PresentError, DialogInv, DialogTypes
  <2>2. DialogTypes' /\ PrivateOk'
    BY <1>2, <1>4, <2>1, SentKeeps DEF DialogInv
  <2>3. cmd # "tutorial" /\ hint' # "group_start"
    BY <1>3, <1>4 DEF ErrorOf, Sent, HintAfter
  <2> QED BY <2>2, <2>3 DEF DialogInv, StartShown
<1>5. ASSUME NEW replaced \in {FALSE, cmd = "player_action"}, NotSent(replaced, FALSE)
      PROVE  DialogInv'
  <2>1. DialogTypes' /\ PrivateOk'
    BY <1>2, <1>5, NotSentKeeps DEF DialogInv
  <2>2. ASSUME InLobby', hint' = "group_start", "start_game" \in reply'
        PROVE  "session:start:group" \in last' \cup older'
    <3>1. ~ replaced /\ reply' = reply /\ hint' = hint
      BY <1>5, <2>2 DEF NotSent
    <3>2. UNCHANGED <<older, last>>
      BY <1>5, <3>1 DEF NotSent
    <3> QED BY <1>1, <2>2, <3>1, <3>2 DEF DialogInv, StartShown
  <2> QED BY <2>1, <2>2 DEF DialogInv, StartShown
<1> QED BY <1>3, <1>4, <1>5

\* So does a timeout, which is no matter of lobbies.
LEMMA TimeoutKeeps ==
  ASSUME DialogInv, Timeout
  PROVE  DialogInv'
<1>1. /\ status' \in {"in_progress", "closed"}
      /\ UNCHANGED <<chatType, mode, reply, last, hint>>
  BY DEF Timeout
<1>2. chatType = "single" => mode # "group"
  BY DEF DialogInv, PrivateOk
<1>3. /\ older' \subseteq Callbacks
      /\ chatType = "single" => older' \subseteq {"session:create:single", "action"}
  <2>1. Present("player_action", status', mode) \in {PostGameKeyboard(mode), Inline({"action"})}
    <3>1. status' = "closed" => Present("player_action", status', mode) = PostGameKeyboard(mode)
      BY DEF Present
    <3>2. status' = "in_progress" => Present("player_action", status', mode) = Inline({"action"})
      BY DEF Present
    <3> QED BY <1>1, <3>1, <3>2
  <2>2. Present("player_action", status', mode).kind = "inline"
    BY <2>1 DEF PostGameKeyboard, Inline
  <2>3. KeyboardOk(Present("player_action", status', mode))
    BY <1>2, <2>1, KeyboardsOk DEF DialogInv, DialogTypes, ChatTypes
  <2>4. older' \subseteq older \cup Present("player_action", status', mode).keys
    BY DEF Timeout
  <2> QED BY <2>2, <2>3, <2>4 DEF KeyboardOk, DialogInv, DialogTypes, PrivateOk
<1>4. DialogTypes'
  BY <1>1, <1>3 DEF DialogInv, DialogTypes
<1>5. PrivateOk'
  BY <1>1, <1>3 DEF DialogInv, PrivateOk
<1>6. StartShown'
  BY <1>1 DEF StartShown, InLobby
<1> QED BY <1>4, <1>5, <1>6 DEF DialogInv

\* Whatever is pressed or typed, it is a command that succeeds or fails.
LEMMA PressFacts ==
  ASSUME DialogInv, Press
  PROVE  \E cmd \in Commands :
           /\ Succeed(cmd) \/ Fail(cmd)
           /\ handled' = cmd
           /\ UNCHANGED chatType
           /\ chatType = "single" => cmd \notin GroupOnly
<1>1. PICK c \in Offered \cup Slash :
        /\ CommandOf(c) # "unsupported"
        /\ Succeed(CommandOf(c)) \/ Fail(CommandOf(c))
        /\ handled' = CommandOf(c)
        /\ UNCHANGED chatType
  BY DEF Press
<1> QED BY <1>1, ControlMeans

\* DialogInv is inductive.
LEMMA DialogStep ==
  ASSUME DialogInv, [Next]_vars
  PROVE  DialogInv'
<1>1. CASE Press
  BY <1>1, PressFacts, SucceedKeeps, FailKeeps
<1>2. CASE Timeout
  BY <1>2, TimeoutKeeps
<1>3. CASE UNCHANGED vars
  BY <1>3 DEF vars, DialogInv, DialogTypes, PrivateOk, StartShown, InLobby
<1> QED BY <1>1, <1>2, <1>3 DEF Next

-----------------------------------------------------------------------------
(* Theorems.                                                               *)

(***************************************************************************)
(* What a chat shows is always what DialogInv says: a private chat has no  *)
(* control of a lobby, and a lobby that the label would start shows its    *)
(* start button too.                                                       *)
(***************************************************************************)
THEOREM DialogIsSound == Spec => []DialogInv
<1>1. Init => DialogInv
  BY DEF Init, DialogInv, DialogTypes, PrivateOk, StartShown, ChatTypes
<1>2. DialogInv /\ [Next]_vars => DialogInv'
  BY DialogStep
<1> QED BY <1>1, <1>2, PTL DEF Spec

\* Every control the bot has left in a chat means something to it there.
THEOREM ControlsAreUnderstood == Spec => []OfferedIsUnderstood
<1>1. DialogInv => OfferedIsUnderstood
  BY ControlMeans DEF OfferedIsUnderstood
<1> QED BY <1>1, DialogIsSound, PTL

\* In a lobby it is the inline button that starts the round, if anything does.
LEMMA StartIsInline ==
  ASSUME DialogInv, InLobby, Startable
  PROVE  "session:start:group" \in last \cup older
<1>1. PICK c \in Offered : CommandOf(c) = "group_start"
  BY DEF Startable
<1>2. CASE c \in Callbacks
  <2>1. c = "session:start:group" /\ c \notin reply
    BY <1>1, <1>2 DEF CommandOf, CallbackMeaning, Callbacks, Labels, DialogInv, DialogTypes
  <2> QED BY <1>1, <2>1 DEF Offered
<1>3. CASE c \notin Callbacks
  <2>1. c \in reply /\ c \in Labels /\ CommandOf(c) = OfText(c)
    BY <1>1, <1>3 DEF Offered, CommandOf, DialogInv, DialogTypes
  <2>2. TextMeaning[c] = "group_start"
    BY <1>1, <2>1 DEF OfText
  <2>3. c = "start_game" /\ hint = "group_start"
    BY <2>1, <2>2 DEF TextMeaning, Labels, Stop, StartGame
  <2> QED BY <2>1, <2>3 DEF DialogInv, StartShown
<1> QED BY <1>2, <1>3

\* The button of a lobby goes only with the message /current deletes.
LEMMA ButtonStays ==
  ASSUME DialogInv, InLobby, InLobby', [Next]_vars,
         "session:start:group" \in last \cup older,
         "session:start:group" \notin last' \cup older'
  PROVE  handled' = "current_session"
<1>1. ~ Timeout /\ ~ UNCHANGED vars
  BY DEF Timeout, InLobby, vars
<1>2. PICK cmd \in Commands :
        /\ Succeed(cmd) \/ Fail(cmd)
        /\ handled' = cmd
  BY <1>1, PressFacts DEF Next
<1>3. ~ Fail(cmd)
  <2>1. ASSUME Fail(cmd)
        PROVE  last \cup older \subseteq last' \cup older'
    <3>1. PICK code \in {"other", "not_found"} :
            \/ Sent(PresentError(code), "none", cmd, FALSE)
            \/ \E replaced \in {FALSE, cmd = "player_action"} : NotSent(replaced, FALSE)
      BY <2>1 DEF Fail
    <3>2. older' = Previous(FALSE) \/ UNCHANGED <<older, last>>
      BY <3>1 DEF Sent, NotSent
    <3> QED BY <3>2 DEF Previous
  <2> QED BY <2>1
<1>4. PICK deleted \in MayDelete(cmd) : older' = Previous(deleted) \/ UNCHANGED <<older, last>>
  <2>1. Succeed(cmd)
    BY <1>2, <1>3
  <2>2. PICK deleted \in MayDelete(cmd) :
          \/ \E k, told : Sent(k, told, cmd, deleted)
          \/ \E replaced : NotSent(replaced, deleted)
    BY <2>1 DEF Succeed
  <2> QED BY <2>2 DEF Sent, NotSent
<1>5. deleted
  BY <1>4 DEF Previous
<1>6. cmd = "player_action" \/ cmd = "current_session"
  BY <1>4, <1>5, DeletesRarely
<1>7. Succeed("player_action") => ~ InLobby
  BY DEF Succeed, Accepted, InLobby
<1> QED BY <1>2, <1>3, <1>6, <1>7

(***************************************************************************)
(* Of everything that can happen in a lobby only /current takes away the   *)
(* last control that starts the round.                                     *)
(***************************************************************************)
THEOREM StartStaysInLobby == Spec => OnlyCurrentTakesStartAway
<1>1. DialogInv /\ DialogInv' /\ [Next]_vars
        => [InLobby /\ Startable /\ InLobby' /\ ~Startable' => handled' = "current_session"]_vars
  <2> SUFFICES ASSUME DialogInv, [Next]_vars, InLobby, Startable, InLobby', ~ Startable'
               PROVE  handled' = "current_session"
    OBVIOUS
  <2>1. "session:start:group" \in last \cup older
    BY StartIsInline
  <2>2. "session:start:group" \notin last' \cup older'
    BY DEF Startable, Offered, CommandOf, CallbackMeaning, Callbacks
  <2> QED BY <2>1, <2>2, ButtonStays
<1> QED BY <1>1, DialogIsSound, PTL DEF Spec, OnlyCurrentTakesStartAway
=============================================================================
