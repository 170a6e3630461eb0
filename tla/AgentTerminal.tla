---------------------------- MODULE AgentTerminal ----------------------------
(***************************************************************************)
(* The interactive terminals of one user: a session row, the claude        *)
(* process on a PTY behind it, the log of its output on disk, the viewers  *)
(* attached over websockets, and the end of a session by its user, by the  *)
(* idle loop, by the process itself, or by a restart of the server.        *)
(*                                                                         *)
(* The locks of the code are never held over an await, so what lies        *)
(* between two awaits is one action.  Output is counted: chunk i is the    *)
(* i-th that the process wrote.  Left out: sizes, the rotation of the log, *)
(* exit codes, rows from before migration 046 (ended at startup).          *)
(***************************************************************************)
EXTENDS Integers, Sequences

CONSTANTS
  Sessions,   \* session rows
  Viewers,    \* websocket connections
  QueueSize,  \* chunks a viewer's queue holds
  MaxChunks   \* bound on the output of a session

ASSUME QueueAssumption == QueueSize \in Nat \ {0}

NoSession == [on |-> "nothing"]
Sentinel  == 0            \* the sentinel that closes a viewer's stream

VARIABLES
  rows,        \* "none", "active" or "ended": ended_at is set
  live,        \* processes alive for the session
  registered,  \* sessions with a runtime in _sessions
  debug,       \* sessions that resume the conversation of the engine
  midturn,     \* sessions whose process was started during a turn of the engine
  outlived,    \* sessions whose row outlived a restart of the server
  ending,      \* sessions whose end_session waits for the process to die
  output,      \* chunks in the session's log
  viewers,     \* what a viewer is attached to: session, last chunk seen, queue
  missed,      \* viewers whose queue had no room for the sentinel
  turn         \* the engine drives its conversation (is_session_engine_busy)

procv == <<rows, live, registered, debug, midturn, outlived, ending>>
viewv == <<output, viewers, missed>>
terminalVars == <<procv, viewv, turn>>

-----------------------------------------------------------------------------
(* Processes *)

\* _spawn_pty
Spawned(s) ==
  /\ live' = [live EXCEPT ![s] = @ + 1]
  /\ registered' = registered \cup {s}
  /\ midturn' = IF turn /\ s \in debug' THEN midturn \cup {s} ELSE midturn

\* spawn: one active session of the user and the role.
spawn(s) ==
  /\ rows[s] = "none" /\ \A t \in Sessions : rows[t] # "active"
  /\ rows' = [rows EXCEPT ![s] = "active"]
  /\ UNCHANGED debug /\ Spawned(s)
  /\ UNCHANGED <<outlived, ending, viewv, turn>>

\* debug_terminal: spawn over the conversation of the engine, refused mid-turn.
DebugAttach(s) ==
  /\ ~turn
  /\ rows[s] = "none" /\ \A t \in Sessions : rows[t] # "active"
  /\ rows' = [rows EXCEPT ![s] = "active"]
  /\ debug' = debug \cup {s} /\ Spawned(s)
  /\ UNCHANGED <<outlived, ending, viewv, turn>>

\* Slip: every attach starts a process of its own.
RespawnAlways(s) == Spawned(s)

\* _respawn_for_resume, when the registry does not know the session.
Respawn(s) ==
  IF s \in registered THEN UNCHANGED <<live, registered, midturn>> ELSE Spawned(s)

\* attach: the history of the log is replayed, the queue gets what comes after.
attach(v, s) ==
  /\ viewers[v] = NoSession
  /\ s \in registered \/ rows[s] = "active"
  /\ UNCHANGED debug /\ Respawn(s)
  /\ viewers' = [viewers EXCEPT ![v] = [on |-> s, seen |-> output[s], queue |-> <<>>]]
  /\ UNCHANGED <<rows, outlived, ending, output, missed, turn>>

-----------------------------------------------------------------------------
(* Output *)

Attached(s) == {v \in Viewers : viewers[v] # NoSession /\ viewers[v].on = s}

\* Slip: a full queue drops the chunk that arrives.
DropNewest(q, x) == IF Len(q) = QueueSize THEN q ELSE Append(q, x)

\* A full queue drops its oldest chunk.
Put(q, x) == Append(IF Len(q) = QueueSize THEN Tail(q) ELSE q, x)

\* _pump_output: a chunk is logged and fanned out.
Chunk(s) ==
  /\ live[s] > 0 /\ output[s] < MaxChunks
  /\ output' = [output EXCEPT ![s] = @ + 1]
  /\ viewers' = [v \in Viewers |->
       IF v \in Attached(s) THEN [viewers[v] EXCEPT !.queue = Put(@, output[s] + 1)]
       ELSE viewers[v]]
  /\ UNCHANGED <<procv, missed, turn>>

\* The viewer's task takes the next chunk, or the sentinel, and the stream ends.
Take(v) ==
  LET at == viewers[v] IN
  /\ at # NoSession /\ at.queue # <<>>
  /\ viewers' = [viewers EXCEPT ![v] =
       IF Head(at.queue) = Sentinel THEN NoSession
       ELSE [at EXCEPT !.seen = Head(at.queue), !.queue = Tail(@)]]
  /\ UNCHANGED <<procv, output, missed, turn>>

\* The websocket is closed by the client.
Leave(v) ==
  /\ viewers[v] # NoSession
  /\ viewers' = [viewers EXCEPT ![v] = NoSession] /\ missed' = missed \ {v}
  /\ UNCHANGED <<procv, output, turn>>

-----------------------------------------------------------------------------
(* The end of a session *)

\* Slip: whoever listens is forgotten without a word.
ListenersForgotten(s) == UNCHANGED <<viewers, missed>>

\* The sentinel goes to every listener; a full queue refuses it, and the listener
\* is forgotten all the same.
SentinelSent(s) ==
  LET told == {v \in Attached(s) : Len(viewers[v].queue) < QueueSize} IN
  /\ viewers' = [v \in Viewers |->
       IF v \in told THEN [viewers[v] EXCEPT !.queue = Append(@, Sentinel)] ELSE viewers[v]]
  /\ missed' = missed \cup (Attached(s) \ told)

\* _cleanup_after_exit
Cleanup(s) ==
  /\ IF s \in registered THEN SentinelSent(s) ELSE UNCHANGED <<viewers, missed>>
  /\ rows' = [rows EXCEPT ![s] = "ended"]
  /\ registered' = registered \ {s}
  /\ UNCHANGED <<debug, midturn, outlived, output, turn>>

\* end_session: SIGTERM, then the wait; without a runtime only the row is ended.
end_session(s) ==
  /\ rows[s] = "active" /\ s \notin ending
  /\ IF s \in registered
     THEN /\ ending' = ending \cup {s}
          /\ UNCHANGED <<rows, live, registered, debug, midturn, outlived, viewv, turn>>
     ELSE /\ rows' = [rows EXCEPT ![s] = "ended"]
          /\ UNCHANGED <<live, registered, debug, midturn, outlived, ending, viewv, turn>>

\* end_session again: the process is dead, or is killed now.
Ended(s) ==
  /\ s \in ending /\ ending' = ending \ {s}
  /\ live' = [live EXCEPT ![s] = IF @ > 0 THEN @ - 1 ELSE 0]
  /\ Cleanup(s)

\* The process exits: on the signal, or by itself.
ProcessDies(s) ==
  /\ live[s] > 0 /\ live' = [live EXCEPT ![s] = @ - 1]
  /\ UNCHANGED <<rows, registered, debug, midturn, outlived, ending, viewv, turn>>

\* _pump_output reads end of file.
EndOfFile(s) ==
  /\ s \in registered /\ live[s] = 0
  /\ Cleanup(s) /\ UNCHANGED <<live, ending>>

\* The server restarts: its processes, tasks and connections are gone, the rows
\* of resumable sessions stay active.
TerminalRestart ==
  /\ \E s \in Sessions : s \in registered
  /\ live' = [s \in Sessions |-> 0] /\ registered' = {} /\ ending' = {}
  /\ viewers' = [v \in Viewers |-> NoSession] /\ missed' = {} /\ turn' = FALSE
  /\ outlived' = outlived \cup {s \in Sessions : rows[s] = "active"}
  /\ UNCHANGED <<rows, debug, midturn, output>>

\* A turn of the engine begins or ends (_engine_session_active).
EngineTurn == turn' = ~turn /\ UNCHANGED <<procv, viewv>>

TerminalInit ==
  /\ rows = [s \in Sessions |-> "none"] /\ live = [s \in Sessions |-> 0]
  /\ registered = {} /\ debug = {} /\ midturn = {} /\ outlived = {} /\ ending = {}
  /\ output = [s \in Sessions |-> 0]
  /\ viewers = [v \in Viewers |-> NoSession] /\ missed = {} /\ turn = FALSE

\* What the server's own tasks and the viewers' tasks do.
TerminalStep ==
  \/ \E s \in Sessions : EndOfFile(s) \/ Ended(s)
  \/ \E v \in Viewers : Take(v)

TerminalNext ==
  \/ \E s \in Sessions :
       spawn(s) \/ DebugAttach(s) \/ Chunk(s) \/ end_session(s) \/ ProcessDies(s)
  \/ \E v \in Viewers, s \in Sessions : attach(v, s)
  \/ \E v \in Viewers : Leave(v)
  \/ TerminalStep \/ TerminalRestart \/ EngineTurn

TerminalSpec ==
  TerminalInit /\ [][TerminalNext]_terminalVars /\ WF_terminalVars(TerminalStep)

-----------------------------------------------------------------------------
(* Properties *)

\* One process at most serves a session row, over ends, attaches and restarts in
\* any order, a process without a runtime does not exist, and a terminal over
\* the engine's conversation opens during a turn only if its row outlived a
\* restart: attach asks nobody before it respawns.
OneWriter ==
  \A s \in Sessions :
    /\ live[s] <= 1
    /\ live[s] = 1 => s \in registered /\ rows[s] = "active"
    /\ s \in midturn => s \in outlived

\* A viewer sees the output in order and once, however far behind it is the next
\* thing it will have read up to the end of its queue is the latest output, and
\* nothing follows the sentinel.
ChunksOf(q) == IF q # <<>> /\ q[Len(q)] = Sentinel THEN Len(q) - 1 ELSE Len(q)
Current(q, seen, latest) ==
  /\ \A i \in 1..ChunksOf(q) : q[i] > (IF i = 1 THEN seen ELSE q[i - 1])
  /\ latest = IF ChunksOf(q) = 0 THEN seen ELSE q[ChunksOf(q)]
ViewerIsCurrent ==
  \A v \in Viewers : viewers[v] # NoSession =>
    Current(viewers[v].queue, viewers[v].seen, output[viewers[v].on])

OnEnded(v) == \E s \in Sessions : viewers[v].on = s /\ rows[s] = "ended"

\* Whoever watches a session that ended is told so and leaves, unless its queue
\* was full at that moment.
ViewerTold == \A v \in Viewers : OnEnded(v) ~> ~OnEnded(v) \/ v \in missed
=============================================================================
