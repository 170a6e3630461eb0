-------------------------------- MODULE Runner --------------------------------
(***************************************************************************)
(* The background runner: how the HTTP requests of the Manager and the     *)
(* dispatch tasks of the versions of one project share an event loop, a    *)
(* database and the agent's session.                                       *)
(*                                                                         *)
(* Grain: one action of the model is what runs between two awaits of the   *)
(* event loop.  A dispatch awaits the agent ("claude"), a websocket        *)
(* broadcast ("told", "drain", "crashed") or, in its tail, a broadcast and *)
(* a notification ("tail"); a request awaits only the broadcast between    *)
(* its commit and schedule_dispatch ("posted").  What a turn does is the   *)
(* subject of module Conversation: here a row is settled, paused or        *)
(* working.                                                                *)
(*                                                                         *)
(* The database calls are synchronous: a statement that waits for the lock *)
(* of a transaction which itself waits for the event loop freezes the      *)
(* process ("frozen").                                                     *)
(*                                                                         *)
(* A definition commented as a slip is not part of the model: it is the    *)
(* definition after it with a plausible mistake, and one of the properties *)
(* fails when it is put in its place.                                      *)
(***************************************************************************)
EXTENDS Naturals

CONSTANTS
  Versions,    \* versions of one project
  AtBuild,     \* those in stage programovanie: the loop of tasks, and pause
  RelayLimit,  \* bound on the relay queue of a version (unbounded in the code)
  MaxPosts,    \* bound on the requests between their commit and schedule_dispatch
  MayRaise,    \* whether a turn may raise an unexpected exception
  MayRestart   \* whether the backend process may be restarted

ASSUME RunnerAssumption ==
  AtBuild \subseteq Versions /\ RelayLimit \in Nat /\ MaxPosts \in Nat

\* Two dispatches of a version are told apart: nothing in the model but the
\* check of schedule_dispatch keeps the second from existing.
Dispatches == Versions \X (1..2)
NoDispatch == <<>>

VersionRows == [status : {"absent", "settled", "paused", "working"}, in_flight : BOOLEAN]
Settled == [status |-> "settled", in_flight |-> FALSE]
Paused  == [status |-> "paused", in_flight |-> FALSE]
Armed   == [status |-> "working", in_flight |-> TRUE]

VARIABLES
  rows,     \* the committed pipeline_state rows
  cache,    \* the row as the session of a dispatch holds it (settled when it has none)
  dirty,    \* the dispatch has an uncommitted write to its row
  pc,       \* what a dispatch awaits, "none" when it does not exist
  holder,   \* the dispatch with an uncommitted write to the session row
  session,  \* whether the orchestrator_session row of the project is committed
  relays,   \* lengths of the in-memory relay queues
  posted,   \* requests that armed a dispatch and have not scheduled it yet
  skipped,  \* auxiliary: schedule_dispatch skipped the dispatch of this row
  frozen    \* the event loop waits inside a database call

dbvars     == <<rows, cache, dirty, holder, session>>
runnerVars == <<rows, cache, dirty, pc, holder, session, relays, posted, skipped, frozen>>

-----------------------------------------------------------------------------
(* Requests, each up to its commit *)

ActiveDispatch(v) == \E d \in Dispatches : d[1] = v /\ pc[d] # "none"
RowLocked(v)      == \E d \in Dispatches : d[1] = v /\ dirty[d]

Freeze ==
  /\ frozen' = TRUE
  /\ UNCHANGED <<rows, cache, dirty, pc, holder, session, relays, posted, skipped>>

\* A handler ends in _begin_dispatch, whose flush needs the lock of the row.
Arm(v) ==
  /\ posted[v] < MaxPosts
  /\ IF RowLocked(v)
     THEN Freeze
     ELSE /\ rows' = [rows EXCEPT ![v] = Armed]
          /\ posted' = [posted EXCEPT ![v] = @ + 1]
          /\ skipped' = [skipped EXCEPT ![v] = FALSE]
          /\ UNCHANGED <<cache, dirty, pc, holder, session, relays, frozen>>

\* start deletes the session rows of the project.
PostStart(v) ==
  /\ rows[v].status = "absent" /\ posted[v] < MaxPosts
  /\ IF session /\ holder # NoDispatch
     THEN Freeze
     ELSE /\ session' = FALSE
          /\ rows' = [rows EXCEPT ![v] = Armed]
          /\ posted' = [posted EXCEPT ![v] = @ + 1]
          /\ UNCHANGED <<cache, dirty, pc, holder, relays, skipped, frozen>>

\* An advancing action (uprav, pokracovat, ...): refused while an agent works.
PostAdvance(v) ==
  rows[v].status \in {"settled", "paused"} /\ ~rows[v].in_flight /\ Arm(v)

\* ask, answer and a relay of a settled build: refused when paused or in flight.
PostAsk(v) ==
  rows[v].status \in {"settled", "working"} /\ ~rows[v].in_flight /\ Arm(v)

PostPause(v) ==
  /\ v \in AtBuild /\ rows[v].status = "working"
  /\ rows' = [rows EXCEPT ![v] = Paused]
  /\ UNCHANGED <<cache, dirty, pc, holder, session, relays, posted, skipped, frozen>>

\* relay_manazer_message while a turn is in flight.
PostRelay(v) ==
  /\ rows[v].in_flight \/ rows[v].status = "working"
  /\ relays[v] < RelayLimit
  /\ relays' = [relays EXCEPT ![v] = @ + 1]
  /\ UNCHANGED <<rows, cache, dirty, pc, holder, session, posted, skipped, frozen>>

-----------------------------------------------------------------------------
(* schedule_dispatch, after the broadcast of the request *)

\* Slip: the active dispatch is not looked up.
ScheduleAlways(v) ==
  /\ posted[v] > 0
  /\ posted' = [posted EXCEPT ![v] = @ - 1]
  /\ \E d \in Dispatches : d[1] = v /\ pc[d] = "none" /\ pc' = [pc EXCEPT ![d] = "scheduled"]
  /\ UNCHANGED <<dbvars, relays, skipped, frozen>>

ScheduleDispatch(v) ==
  /\ posted[v] > 0
  /\ posted' = [posted EXCEPT ![v] = @ - 1]
  /\ IF ActiveDispatch(v)
     THEN skipped' = [skipped EXCEPT ![v] = TRUE] /\ pc' = pc
     ELSE /\ \E d \in Dispatches :
               d[1] = v /\ pc[d] = "none" /\ pc' = [pc EXCEPT ![d] = "scheduled"]
          /\ skipped' = [skipped EXCEPT ![v] = FALSE]
  /\ UNCHANGED <<dbvars, relays, frozen>>

-----------------------------------------------------------------------------
(* The dispatch task: _run *)

\* Slip: the session row is not written before the agent is awaited.
InvokeUnserialized(d) ==
  /\ pc' = [pc EXCEPT ![d] = "claude"]
  /\ UNCHANGED <<holder, session, posted, skipped, frozen>>

\* invoke_agent writes the session row of (project, role), without a commit,
\* and awaits the agent.  The lock is the same for all versions of the project.
Invoke(d) ==
  IF holder = NoDispatch
  THEN /\ holder' = d /\ pc' = [pc EXCEPT ![d] = "claude"]
       /\ UNCHANGED <<session, posted, skipped, frozen>>
  ELSE /\ frozen' = TRUE
       /\ UNCHANGED <<pc, holder, session, posted, skipped>>

\* The tail of _run: drain the next relay, or re-read the row and announce it.
AfterSettle(d) ==
  IF relays[d[1]] > 0
  THEN pc' = [pc EXCEPT ![d] = "drain"] /\ UNCHANGED cache
  ELSE pc' = [pc EXCEPT ![d] = "tail"] /\ cache' = [cache EXCEPT ![d] = rows'[d[1]]]

\* A turn guards against a row that is not working.
Begin(d) ==
  /\ pc[d] = "scheduled" /\ rows[d[1]].status = "working"
  /\ cache' = [cache EXCEPT ![d] = rows[d[1]]]
  /\ Invoke(d)
  /\ UNCHANGED <<rows, dirty, relays>>

NothingToRun(d) ==
  /\ pc[d] = "scheduled" /\ rows[d[1]].status # "working"
  /\ rows' = rows /\ AfterSettle(d)
  /\ UNCHANGED <<dirty, holder, session, relays, posted, skipped, frozen>>

\* A commit of the dispatch's transaction, with its row in state r.
CommitRow(d, r) ==
  /\ rows' = [rows EXCEPT ![d[1]] = r]
  /\ dirty' = [dirty EXCEPT ![d] = FALSE]
  /\ holder' = IF holder = d THEN NoDispatch ELSE holder
  /\ session' = (session \/ holder = d)

\* The agent answers: its message is committed, then broadcast (on_message).
AgentAnswers(d) ==
  /\ pc[d] = "claude"
  /\ CommitRow(d, IF dirty[d] THEN cache[d] ELSE rows[d[1]])
  /\ pc' = [pc EXCEPT ![d] = "told"]
  /\ UNCHANGED <<cache, relays, posted, skipped, frozen>>

\* A lost answer, or the end of the build loop: the row is settled first, and
\* committed with the message that says so, whose broadcast is awaited.
SettleThenTell(d) ==
  /\ pc[d] = IF d[1] \in AtBuild THEN "told" ELSE "claude"
  /\ d[1] \in AtBuild => rows[d[1]].status = "working"
  /\ CommitRow(d, Settled)
  /\ cache' = [cache EXCEPT ![d] = Settled]
  /\ pc' = [pc EXCEPT ![d] = "toldSettled"]
  /\ UNCHANGED <<relays, posted, skipped, frozen>>

\* The next task of the build, whose loop re-reads the row; the next pass of a
\* plan; the next phase of an auto-chain.
NextInvocation(d) ==
  /\ pc[d] = "told"
  /\ d[1] \in AtBuild => rows[d[1]].status = "working"
  /\ cache' = IF d[1] \in AtBuild THEN [cache EXCEPT ![d] = rows[d[1]]] ELSE cache
  /\ Invoke(d)
  /\ UNCHANGED <<rows, dirty, relays>>

\* The build loop re-reads its row, and the Manager paused it.
LeaveBuild(d) ==
  /\ pc[d] = "told" /\ d[1] \in AtBuild /\ rows[d[1]].status # "working"
  /\ rows' = rows /\ AfterSettle(d)
  /\ UNCHANGED <<dirty, holder, session, relays, posted, skipped, frozen>>

Settle(d) ==
  /\ pc[d] = "told"
  /\ rows' = [rows EXCEPT ![d[1]] = Settled]
  /\ AfterSettle(d)
  /\ UNCHANGED <<dirty, holder, session, relays, posted, skipped, frozen>>

AfterTelling(d) ==
  /\ pc[d] = "toldSettled"
  /\ rows' = rows /\ AfterSettle(d)
  /\ UNCHANGED <<dirty, holder, session, relays, posted, skipped, frozen>>

\* drain_relay_turn arms the row again.  The build loop commits it with the
\* start of a task; any other turn awaits the agent with the write uncommitted.
Drain(d) ==
  /\ pc[d] = "drain"
  /\ relays' = [relays EXCEPT ![d[1]] = @ - 1]
  /\ cache' = [cache EXCEPT ![d] = Armed]
  /\ IF d[1] \in AtBuild
     THEN /\ rows' = [rows EXCEPT ![d[1]] = Armed]
          /\ pc' = [pc EXCEPT ![d] = "told"]
          /\ UNCHANGED <<dirty, holder, session, posted, skipped, frozen>>
     ELSE /\ dirty' = [dirty EXCEPT ![d] = TRUE]
          /\ Invoke(d) /\ UNCHANGED rows

\* Slip: an exception is logged and the row left as it is.
CrashUnsettled(d) ==
  /\ MayRaise /\ pc[d] \in {"claude", "told", "toldSettled", "drain"}
  /\ pc' = [pc EXCEPT ![d] = "crashed"]
  /\ dirty' = [dirty EXCEPT ![d] = FALSE]
  /\ holder' = IF holder = d THEN NoDispatch ELSE holder
  /\ UNCHANGED <<rows, cache, session, relays, posted, skipped, frozen>>

\* An exception: roll back, _mark_blocked, commit; then broadcast the message.
TurnRaises(d) ==
  /\ MayRaise /\ pc[d] \in {"claude", "told", "toldSettled", "drain"}
  /\ rows' = [rows EXCEPT ![d[1]] = Settled]
  /\ pc' = [pc EXCEPT ![d] = "crashed"]
  /\ dirty' = [dirty EXCEPT ![d] = FALSE]
  /\ holder' = IF holder = d THEN NoDispatch ELSE holder
  /\ UNCHANGED <<cache, session, relays, posted, skipped, frozen>>

AfterCrash(d) ==
  /\ pc[d] = "crashed"
  /\ cache' = [cache EXCEPT ![d] = rows[d[1]]]
  /\ pc' = [pc EXCEPT ![d] = "tail"]
  /\ UNCHANGED <<rows, dirty, holder, session, relays, posted, skipped, frozen>>

\* _clear_dispatch_flags reads the row it cached before the announcements.
Finish(d) ==
  /\ pc[d] = "tail"
  /\ rows' = IF cache[d].in_flight THEN [rows EXCEPT ![d[1]].in_flight = FALSE] ELSE rows
  /\ pc' = [pc EXCEPT ![d] = "none"]
  /\ cache' = [cache EXCEPT ![d] = Settled]
  /\ UNCHANGED <<dirty, holder, session, relays, posted, skipped, frozen>>

-----------------------------------------------------------------------------
\* The process is replaced: its transactions are rolled back, its memory is gone,
\* and recover_orphaned_builds_on_startup settles the rows left working.
BackendRestarts ==
  /\ MayRestart
  /\ rows' = [v \in Versions |-> IF rows[v].status = "working" THEN Settled ELSE rows[v]]
  /\ pc' = [d \in Dispatches |-> "none"]
  /\ dirty' = [d \in Dispatches |-> FALSE]
  /\ holder' = NoDispatch
  /\ relays' = [v \in Versions |-> 0]
  /\ posted' = [v \in Versions |-> 0]
  /\ skipped' = [v \in Versions |-> FALSE]
  /\ frozen' = FALSE
  /\ cache' = [d \in Dispatches |-> Settled]
  /\ UNCHANGED session

\* The project has been worked on before; its new versions are not started.
RunnerInit ==
  /\ rows = [v \in Versions |->
              IF v \in AtBuild THEN Settled ELSE [Settled EXCEPT !.status = "absent"]]
  /\ cache = [d \in Dispatches |-> Settled]
  /\ dirty = [d \in Dispatches |-> FALSE]
  /\ pc = [d \in Dispatches |-> "none"]
  /\ holder = NoDispatch /\ session \in BOOLEAN
  /\ relays = [v \in Versions |-> 0]
  /\ posted = [v \in Versions |-> 0]
  /\ skipped = [v \in Versions |-> FALSE]
  /\ frozen = FALSE

Request(v) ==
  \/ PostStart(v) \/ PostAdvance(v) \/ PostAsk(v) \/ PostPause(v) \/ PostRelay(v)
  \/ ScheduleDispatch(v)

Run(d) ==
  \/ Begin(d) \/ NothingToRun(d) \/ AgentAnswers(d) \/ SettleThenTell(d) \/ NextInvocation(d)
  \/ LeaveBuild(d) \/ Settle(d) \/ AfterTelling(d) \/ Drain(d)
  \/ TurnRaises(d) \/ AfterCrash(d) \/ Finish(d)

RunnerNext ==
  \/ ~frozen /\ \E v \in Versions : Request(v)
  \/ ~frozen /\ \E d \in Dispatches : Run(d)
  \/ BackendRestarts

RunnerSpec == RunnerInit /\ [][RunnerNext]_runnerVars

-----------------------------------------------------------------------------
(* Properties *)

ProgramPoints == {"none", "scheduled", "claude", "told", "toldSettled", "drain", "crashed", "tail"}

\* Every variable stays in its domain.
RunnerTypeOK ==
  /\ rows \in [Versions -> VersionRows] /\ cache \in [Dispatches -> VersionRows]
  /\ dirty \in [Dispatches -> BOOLEAN] /\ pc \in [Dispatches -> ProgramPoints]
  /\ holder \in Dispatches \cup {NoDispatch} /\ session \in BOOLEAN
  /\ relays \in [Versions -> 0..RelayLimit] /\ posted \in [Versions -> 0..MaxPosts]
  /\ skipped \in [Versions -> BOOLEAN] /\ frozen \in BOOLEAN

\* At most one dispatch of a version is alive, its tail included, whatever
\* pauses, corrections and restarts arm it again (_ACTIVE_DISPATCH).
SingleFlight ==
  \A d, e \in Dispatches :
    d[1] = e[1] /\ pc[d] # "none" /\ pc[e] # "none" => d = e

\* The engine is the only writer of the agent's session, which all versions of
\* the project share: no two turns that the engine awaits run in the agent at once
\* (a process left behind by a call that ended is module AgentCall's subject).
OneWriter ==
  \A d, e \in Dispatches : pc[d] = "claude" /\ pc[e] = "claude" => d = e

\* A version is left working with nobody to settle it in one way only: its
\* request met a dispatch about to end, and schedule_dispatch skipped it.
LostOnlyBySkip ==
  \A v \in Versions :
    rows[v].status = "working" => posted[v] > 0 \/ ActiveDispatch(v) \/ skipped[v]

\* What the docstring of _mark_blocked says without that exception.
WorkingIsDriven ==
  \A v \in Versions : rows[v].status = "working" => posted[v] > 0 \/ ActiveDispatch(v)

\* The run of the agent is kept out of the requests: no database call of a
\* request or of a dispatch waits for an agent's turn (module pipeline_runner).
NeverFrozen == ~frozen
=============================================================================
