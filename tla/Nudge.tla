-------------------------------- MODULE Nudge --------------------------------
(***************************************************************************)
(* Whom the engine tells by Telegram that a version waits: nobody while a  *)
(* Manager is present at the version's board, those who stepped away from  *)
(* it, or else the owner of the project.  Pure: presence is the set of the *)
(* open board connections [user, away], chats the users' chat ids.         *)
(***************************************************************************)

NoChat == "no chat"

\* PipelineWsRegistry: connect registers a connection as present, set_away turns it.
Connected(conns, socket, user) == conns \cup {[socket |-> socket, user |-> user, away |-> FALSE]}
Left(conns, socket)            == {c \in conns : c.socket # socket}
SetAway(conns, socket, away)   ==
  {IF c.socket = socket THEN [c EXCEPT !.away = away] ELSE c : c \in conns}

present_director_ids(conns) == {c.user : c \in conns}
active_director_ids(conns)  == {c.user : c \in {d \in conns : ~d.away}}
away_director_ids(conns)    == {c.user : c \in {d \in conns : d.away}}

\* _apply_ws_presence_frame: a frame that is none, or says nothing, changes nothing.
PresenceFrame(conns, socket, frame) ==
  IF frame \in BOOLEAN THEN SetAway(conns, socket, frame) ELSE conns

\* _is_token_stop_pause: the latest message is the system's token stop.
TokenStop(message) == message = [author |-> "system", token_stop |-> TRUE]

\* _maybe_notify, its first half: whether this settle is worth a nudge.
Waits(status, message) ==
  \/ status \in {"awaiting_manazer", "blocked", "done"}
  \/ status = "paused" /\ TokenStop(message)

Chats(users, chats) == {chats[u] : u \in users} \ {NoChat}

\* _notify_chat_ids
Recipients(conns, chats, owner) ==
  LET away == Chats(away_director_ids(conns), chats) IN
  IF away # {} THEN away ELSE Chats({owner}, chats)

\* _maybe_notify: the chats that are sent the message.
Nudged(status, message, conns, chats, owner) ==
  IF Waits(status, message) /\ active_director_ids(conns) = {}
  THEN Recipients(conns, chats, owner) ELSE {}

-----------------------------------------------------------------------------
(* Claims *)

\* A version that waits is not left unnoticed: somebody is present at its board, or
\* somebody is told, or neither the owner nor anyone who stepped away has a chat.
WaitingIsNoticed(status, message, conns, chats, owner) ==
  Waits(status, message) =>
    \/ active_director_ids(conns) # {}
    \/ Nudged(status, message, conns, chats, owner) # {}
    \/ Chats({owner} \cup present_director_ids(conns), chats) = {}

\* Nobody is told who is present, and no stranger is: a chat that is sent the message
\* belongs to the owner, or to one whose every connection is away.
OnlyTheAbsentAreTold(status, message, conns, chats, owner) ==
  \A chat \in Nudged(status, message, conns, chats, owner) :
    \E u \in DOMAIN chats : chats[u] = chat /\ u \notin active_director_ids(conns)
                            /\ u \in {owner} \cup away_director_ids(conns)
=============================================================================
