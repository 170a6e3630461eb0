-------------------------------- MODULE Board --------------------------------
(***************************************************************************)
(* The board of a version in the Manager's browser (usePipelineWs): filled *)
(* by a REST snapshot, kept live by frames over a WebSocket, re-fetched    *)
(* every 25 seconds.  The backend commits, then sends a frame to the       *)
(* sockets registered for the version; whoever is not registered yet, or   *)
(* any more, misses it.                                                    *)
(*                                                                         *)
(* A frame "state" carries the row alone, a snapshot also what is derived  *)
(* from it (the offered actions), and the last messages only.  Left out:   *)
(* activity and helper lines, the presence annotation and the nudge that   *)
(* depends on it.                                                          *)
(***************************************************************************)
EXTENDS Naturals, Sequences, FiniteSets, Functions

CONSTANTS
  Versions,
  Recent,      \* _DEFAULT_RECENT: how many messages a snapshot carries
  MaxChange,   \* bound: changes of rows, and messages, together
  MaxAnswers   \* bound: REST requests under way

Nowhere  == "nowhere"
NoSocket == [at |-> "none"]
NoBoard  == [state |-> <<Nowhere, 0>>, actions |-> <<Nowhere, 0>>, messages |-> {}]

VARIABLES
  server,   \* committed: how often the row of a version changed, its messages
  page,     \* the version the hook is mounted for
  board,    \* the board on the screen
  socket,   \* the hook's socket and the frames on their way
  retry,    \* a reconnect is scheduled
  answers   \* REST requests under way, with the snapshot once it is read

boardVars == <<server, page, board, socket, retry, answers>>

-----------------------------------------------------------------------------
Changes == FoldFunction(LAMBDA s, n : s.state + (s.log - Recent) + n, 0, server)

\* _recent_messages: the last ones.
Messages(v) == {<<v, i>> : i \in {i \in 1..server[v].log : i + Recent > server[v].log}}

\* _board and get_board; the queries of one request are taken as one read.
Snapshot(v) ==
  [state |-> <<v, server[v].state>>, actions |-> <<v, server[v].state>>, messages |-> Messages(v)]

\* registry.broadcast reaches the sockets registered for the version.
Broadcast(v, frame) ==
  socket' = IF socket.at = "open" /\ socket.of = v
            THEN [socket EXCEPT !.frames = Append(@, frame)] ELSE socket

\* The row of a version changes: _broadcast_state follows the commit.
StateChanges(v) ==
  /\ Changes < MaxChange
  /\ server' = [server EXCEPT ![v].state = @ + 1]
  /\ Broadcast(v, [kind |-> "state", state |-> <<v, server[v].state + 1>>])
  /\ UNCHANGED <<page, board, retry, answers>>

\* _message_callback: a message is committed and sent at once.
MessageAdded(v) ==
  /\ Changes < MaxChange
  /\ server' = [server EXCEPT ![v].log = @ + 1]
  /\ Broadcast(v, [kind |-> "message", message |-> <<v, server[v].log + 1>>])
  /\ UNCHANGED <<page, board, retry, answers>>

-----------------------------------------------------------------------------
\* A request is [kind, of, snapshot], NoBoard until the backend reads it.
HasRoom == Cardinality({a \in answers : a.kind # "tick"}) < MaxAnswers

\* connect: a snapshot is asked for and a socket opened.
Connecting(v, pending) ==
  /\ HasRoom
  /\ answers' = pending \cup {[kind |-> "mount", of |-> v, snapshot |-> NoBoard]}
  /\ socket' = [at |-> "opening", of |-> v, snapshot |-> NoBoard, frames |-> <<>>]
  /\ retry' = FALSE

\* The hook is mounted.
Mount(v) ==
  /\ page = Nowhere
  /\ page' = v /\ board' = NoBoard
  /\ Connecting(v, answers)
  /\ UNCHANGED server

\* The pin moves to another version under the mounted hook: what the effect
\* asked for is cancelled, its socket closed; the board on the screen stays.
SwitchTo(v) ==
  /\ page \notin {Nowhere, v}
  /\ page' = v
  /\ Connecting(v, {a \in answers : a.kind # "mount"})
  /\ UNCHANGED <<server, board>>

\* The page is left: answers to come find no component.
Unmount ==
  /\ page # Nowhere
  /\ page' = Nowhere /\ board' = NoBoard /\ socket' = NoSocket /\ retry' = FALSE
  /\ answers' = {}
  /\ UNCHANGED server

-----------------------------------------------------------------------------
\* pipeline_ws reads its snapshot before it accepts ...
SocketReads ==
  /\ socket.at = "opening"
  /\ socket' = [socket EXCEPT !.at = "accepting", !.snapshot = Snapshot(socket.of)]
  /\ UNCHANGED <<server, page, board, retry, answers>>

\* ... and registers and sends it after.
SocketOpens ==
  /\ socket.at = "accepting"
  /\ socket' = [socket EXCEPT !.at = "open",
                  !.frames = Append(@, [kind |-> "board", board |-> socket.snapshot]),
                  !.snapshot = NoBoard]
  /\ UNCHANGED <<server, page, board, retry, answers>>

\* What a frame makes of the board; a message is taken once, by its id.
Shown(frame) ==
  IF frame.kind = "board" THEN frame.board
  ELSE IF frame.kind = "state" THEN [board EXCEPT !.state = frame.state]
  ELSE [board EXCEPT !.messages = @ \cup {frame.message}]

FrameArrives ==
  /\ socket.at = "open" /\ socket.frames # <<>>
  /\ board' = Shown(Head(socket.frames))
  /\ socket' = [socket EXCEPT !.frames = Tail(@)]
  /\ UNCHANGED <<server, page, retry, answers>>

\* Idle timeout, network, a redeploy of the backend: scheduleReconnect.
SocketDrops ==
  /\ socket.at # "none"
  /\ socket' = NoSocket /\ retry' = TRUE
  /\ UNCHANGED <<server, page, board, answers>>

Reconnect ==
  /\ retry
  /\ Connecting(page, answers)
  /\ UNCHANGED <<server, page, board>>

-----------------------------------------------------------------------------
\* The interval of 25 seconds.  Its request carries nothing that could age: it
\* is read as it is sent.  That a tick waits for the one before is the bound.
Tick ==
  /\ page # Nowhere /\ ~\E a \in answers : a.kind = "tick" /\ a.of = page
  /\ answers' = answers \cup {[kind |-> "tick", of |-> page, snapshot |-> Snapshot(page)]}
  /\ UNCHANGED <<server, page, board, socket, retry>>

\* An action that changed nothing, or after its change: post_action's board.
PostAction ==
  /\ page # Nowhere /\ HasRoom
  /\ answers' = answers \cup {[kind |-> "post", of |-> page, snapshot |-> Snapshot(page)]}
  /\ UNCHANGED <<server, page, board, socket, retry>>

\* The backend reads a snapshot that connect asked for.
Read(a) ==
  /\ a.snapshot = NoBoard
  /\ answers' = (answers \ {a}) \cup {[a EXCEPT !.snapshot = Snapshot(a.of)]}
  /\ UNCHANGED <<server, page, board, socket, retry>>

\* Slip: the reconcile keeps the board it has, and adds the messages.
TickAddsMessages(snapshot) == [board EXCEPT !.messages = @ \cup snapshot.messages]

\* The reconcile takes everything from the snapshot, and keeps the messages that
\* reached the board beside it.
Reconciled(snapshot) == [snapshot EXCEPT !.messages = @ \cup board.messages]

\* An answer is put on the board, for whichever version it was asked.
Answer(a) ==
  /\ a.snapshot # NoBoard
  /\ answers' = answers \ {a}
  /\ board' = IF a.kind = "tick" THEN Reconciled(a.snapshot) ELSE a.snapshot
  /\ UNCHANGED <<server, page, socket, retry>>

\* A request fails; a failed tick is ignored.
Fails(a) ==
  /\ answers' = answers \ {a}
  /\ UNCHANGED <<server, page, board, socket, retry>>

\* A snapshot is full already: the next message pushes one out of it.
BoardInit ==
  /\ server = [v \in Versions |-> [state |-> 0, log |-> Recent]]
  /\ page = Nowhere /\ board = NoBoard /\ socket = NoSocket /\ retry = FALSE
  /\ answers = {}

BoardNext ==
  \/ \E v \in Versions : StateChanges(v) \/ MessageAdded(v) \/ Mount(v) \/ SwitchTo(v)
  \/ Unmount \/ SocketReads \/ SocketOpens \/ FrameArrives \/ SocketDrops \/ Reconnect
  \/ Tick \/ PostAction
  \/ \E a \in answers : Read(a) \/ Answer(a) \/ Fails(a)

\* The interval goes on, and of its ticks again and again one is answered: the
\* backend is not out of reach for ever.  No socket need ever open.
TickHeard == \E a \in answers : a.kind = "tick" /\ a.of = page /\ Answer(a)
BoardSpec ==
  BoardInit /\ [][BoardNext]_boardVars /\ WF_boardVars(Tick) /\ SF_boardVars(TickHeard)

-----------------------------------------------------------------------------
(* Properties *)

Current(v) == board.state = <<v, server[v].state>> /\ board.actions = board.state
              /\ Messages(v) \subseteq board.messages

\* A page left open on a version comes to show it as it is: row, offered actions
\* and the messages a snapshot carries, the last ones, whatever frames were missed
\* (the reconcile of usePipelineWs).  An older message that was missed stays missed.
BoardHeals ==
  <>[][page' = page]_page => <>[](page # Nowhere => Current(page))
=============================================================================
