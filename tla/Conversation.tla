---------------------------- MODULE Conversation ----------------------------
(***************************************************************************)
(* One version built in the conversation register (mode = 'conversation'): *)
(* the Manager talks to the AI partner, approves the specification, has a  *)
(* task plan composed, starts the build, asks for the self-check (kontrola) *)
(* and signs the result (hotovo).                                          *)
(*                                                                         *)
(* Grain: one action of the model is one stretch of the program between    *)
(* two database commits.  A turn of the agent whose messages are committed *)
(* one by one (the on_message hook commits) is as many actions, so that a  *)
(* restart or an exception can fall between them.  The interleaving of the *)
(* runner's tail with the next request is the subject of module Runner:    *)
(* here a turn that settles leaves the runner at once.                     *)
(*                                                                         *)
(* A definition commented as a slip is not part of the model: it is the    *)
(* definition after it with a plausible mistake, and one of the properties *)
(* fails when it is put in its place.                                      *)
(***************************************************************************)
EXTENDS Naturals, PipelineRow, MessageLog

CONSTANTS
  MaxTasks,     \* the largest plan considered
  MaxRelay,     \* bound on the relay queue (unbounded in the code)
  Commits,      \* the commits HEAD of the project checkout may point to
  Bootable,     \* those whose application boots and passes the acceptance run
  NoSha,        \* HEAD could not be read
  CanRestart,   \* whether the backend process may be restarted
  CanCrash,     \* whether a turn may raise an unexpected exception
  TokenStop     \* whether programovanie_token_stop_millions is set

ASSUME ConversationAssumption ==
  /\ MaxTasks \in Nat \ {0} /\ MaxRelay \in Nat
  /\ Bootable \subseteq Commits /\ NoSha \notin Commits
  /\ {CanRestart, CanCrash, TokenStop} \subseteq BOOLEAN

Task == 1..MaxTasks
TaskStatus == {"absent", "todo", "in_progress", "done", "failed"}

\* The classes of messages the engine's queries (and the properties) tell apart.
Classes == {"approval", "compose", "check", "check_auto", "complete", "report",
            "smoke_green", "smoke_red", "floor_red", "hotovo", "other"}

\* Where the dispatch task of the version is; "idle" when there is none.
Turns == {"idle", "chat", "plan", "smoke", "check", "floor", "build", "task", "consult"}

VARIABLES
  row,     \* the pipeline_state row
  log,     \* the pipeline_message table
  tasks,   \* status of every task of the plan
  turn,    \* program point of the dispatch task
  queue,   \* length of the in-memory relay queue
  head,    \* HEAD of the project checkout
  signed   \* hotovo_sha of the latest signature

vars == <<row, log, tasks, turn, queue, head, signed>>

-----------------------------------------------------------------------------
(* Queries *)

spec_approved           == Has(log, "approval")
navrh_plan_materialized == \E t \in Task : tasks[t] # "absent"
build_started           == \E t \in Task : tasks[t] \notin {"absent", "todo"}
programming_complete    == Has(log, "complete")
kontrola_done           == programming_complete /\ Newer(log, "report", "complete")
kontrola_floor_red      == Has(log, "report") /\ Newer(log, "floor_red", "report")
\* Slip: the board gates hotovo on the pass-blind query.
kontrola_passed_blind   == kontrola_done
kontrola_passed         == kontrola_done /\ ~kontrola_floor_red
manazer_signoff         == NotOutrankedBy(log, "hotovo", "complete")

\* version_verified gives provenance hotovo_drift; it is the only drift a
\* conversation build knows, as it never records an Auditor verdict.
hotovo_drift == manazer_signoff /\ signed # NoSha /\ signed # head

pending_compose_plan_marker(l) == IsLatest(l, "compose")
pending_check_marker(l)        == IsLatest(l, "check") \/ IsLatest(l, "check_auto")
auto_hotovo                 == NotOutrankedBy(log, "check_auto", "check")
runtime_floor_red           == NotOutrankedBy(log, "smoke_red", "smoke_green")

\* Slip: a failed task does not count as an open finding.
open_findings_without_failed == \E t \in Task : tasks[t] = "in_progress"
build_open_findings == \E t \in Task : tasks[t] \in {"failed", "in_progress"}
TodoTasks           == {t \in Task : tasks[t] = "todo"}
\* get_next_todo_task: the first todo task in plan order.
IsNextTodo(t)       == t \in TodoTasks /\ \A u \in TodoTasks : t <= u

\* Slip: the reset does not look at the status of a task.
reset_all_tasks_to_todo ==
  [t \in Task |-> IF tasks[t] = "absent" THEN "absent" ELSE "todo"]
reset_failed_tasks_to_todo ==
  [t \in Task |-> IF tasks[t] = "failed" THEN "todo" ELSE tasks[t]]

-----------------------------------------------------------------------------
(* Building blocks *)

Say(class) == log' = Record(log, class)

\* _arm_consult_dispatch: a read-only turn on a finished version.
ArmConsult(r) == SetStatus([r EXCEPT !.actor = "ai_agent", !.in_flight = TRUE],
                           "agent_working")

\* Slip: the marker of a first check is not looked for.
RouteIgnoringCheck(r, l) ==
  CASE r.stage = "done"          -> "consult"
    [] r.stage = "programovanie" -> "build"
    [] OTHER -> IF pending_compose_plan_marker(l) THEN "plan"
                ELSE IF IsLatest(l, "check_auto") THEN "smoke" ELSE "chat"

\* Where run_conversation_turn, run_dispatch or run_consult_turn takes a turn.
RouteTurn(r, l) ==
  CASE r.stage = "done"          -> "consult"
    [] r.stage = "programovanie" -> "build"
    [] OTHER -> IF pending_compose_plan_marker(l) THEN "plan"
                ELSE IF pending_check_marker(l) THEN "smoke" ELSE "chat"

\* A turn settles with row r.  The runner then drains one queued relay message
\* as the next turn, whatever status the turn settled in; otherwise it is done.
SettleTurn(r) ==
  IF queue = 0
  THEN row' = r /\ turn' = "idle" /\ queue' = 0
  ELSE LET armed == IF r.stage = "done" THEN ArmConsult(r) ELSE BeginDispatch(r)
       IN  row' = armed /\ turn' = RouteTurn(armed, log') /\ queue' = queue - 1

\* Slip: the build round does not reclaim an orphaned task.
NoReclaim(ts) == tasks' = ts

\* The turn that follows a settle starts the build round only through here.
TasksAfterSettle(ts) ==
  tasks' = IF turn' = "build"
           THEN [t \in Task |-> IF ts[t] = "in_progress" THEN "todo" ELSE ts[t]]
           ELSE ts

\* _apply_hotovo_signoff up to the terminal row: commit the release note, which
\* may move HEAD to a commit with the same code, bind the signature to HEAD.
Sign ==
  /\ head' \in {c \in Commits : c \in Bootable <=> head \in Bootable}
  /\ signed' \in {head', NoSha}
  /\ Say("hotovo")

SignedRow == SetStatus([row EXCEPT !.stage = "done", !.actor = "ai_agent"], "done")

-----------------------------------------------------------------------------
(* Manager actions: apply_action *)

Start ==
  /\ ~Started(row)
  /\ row' = BeginDispatch(NewRow)
  /\ Say("other")
  /\ UNCHANGED <<tasks, turn, queue, head, signed>>

CanApproveSpec == PassesGuards(row, "approve_spec") /\ row.stage = "priprava"

\* Refused, besides, when a checkout exists without specification.md.
ApproveSpec ==
  /\ CanApproveSpec
  /\ row' = SetStatus(row, "awaiting_manazer")
  /\ Say("approval")
  /\ UNCHANGED <<tasks, turn, queue, head, signed>>

CanZostavPlan ==
  PassesGuards(row, "zostav_plan") /\ spec_approved /\ ~navrh_plan_materialized

ZostavPlan ==
  /\ CanZostavPlan
  /\ row' = BeginDispatch(row)
  /\ Say("compose")
  /\ UNCHANGED <<tasks, turn, queue, head, signed>>

\* Slip: spustit_stavbu does not look whether a build has started.
CanSpustitAgain ==
  PassesGuards(row, "spustit_stavbu") /\ spec_approved /\ navrh_plan_materialized

CanSpustitStavbu ==
  /\ PassesGuards(row, "spustit_stavbu") /\ spec_approved
  /\ navrh_plan_materialized /\ ~build_started

SpustitStavbu ==
  /\ CanSpustitStavbu
  /\ row' = BeginDispatch([row EXCEPT !.stage = "programovanie"])
  /\ Say("other")
  /\ UNCHANGED <<tasks, turn, queue, head, signed>>

CanSkontrolovat ==
  /\ PassesGuards(row, "skontrolovat") /\ spec_approved
  /\ programming_complete /\ ~kontrola_done

Skontrolovat ==
  /\ CanSkontrolovat
  /\ row' = BeginDispatch(row)
  /\ Say("check")
  /\ UNCHANGED <<tasks, turn, queue, head, signed>>

\* Slip: hotovo does not ask for a kontrola.
CanHotovoUnchecked ==
  PassesGuards(row, "hotovo") /\ spec_approved /\ ~kontrola_floor_red /\ row.stage # "done"

CanHotovo ==
  /\ PassesGuards(row, "hotovo") /\ spec_approved
  /\ kontrola_done /\ ~kontrola_floor_red /\ row.stage # "done"

Hotovo ==
  /\ CanHotovo
  /\ Sign
  /\ row' = SignedRow
  /\ UNCHANGED <<tasks, turn, queue>>

\* Slip: overit_znovu does not ask for a drift.
CanOveritAnyDone ==
  PassesGuards(row, "overit_znovu") /\ row.status = "done"

CanOveritZnovu ==
  /\ PassesGuards(row, "overit_znovu")
  /\ row.status \in {"done", "awaiting_manazer"} /\ hotovo_drift

OveritZnovu ==
  /\ CanOveritZnovu
  /\ row' = BeginDispatch([row EXCEPT !.stage = "priprava"])
  /\ Say("check_auto")
  /\ UNCHANGED <<tasks, turn, queue, head, signed>>

CanUprav == PassesGuards(row, "uprav")

Uprav ==
  /\ CanUprav
  /\ tasks' = IF row.stage = "programovanie" THEN reset_failed_tasks_to_todo ELSE tasks
  /\ row' = BeginDispatch(row)
  /\ Say("other")
  /\ UNCHANGED <<turn, queue, head, signed>>

\* ask, and a relay message of a settled build.
Ask ==
  /\ PassesGuards(row, "ask")
  /\ row' = BeginDispatch(row)
  /\ Say("other")
  /\ UNCHANGED <<tasks, turn, queue, head, signed>>

Answer ==
  /\ PassesGuards(row, "answer")
  /\ row' = BeginDispatch(row)
  /\ Say("other")
  /\ UNCHANGED <<tasks, turn, queue, head, signed>>

CanPokracovat == PassesGuards(row, "pokracovat") /\ row.stage = "programovanie"

\* The message it records is of kind approval.
Pokracovat ==
  /\ CanPokracovat
  /\ tasks' = reset_failed_tasks_to_todo
  /\ row' = BeginDispatch(row)
  /\ Say("approval")
  /\ UNCHANGED <<turn, queue, head, signed>>

Pause ==
  /\ PassesGuards(row, "pause")
  /\ row' = SetStatus(row, "paused")
  /\ UNCHANGED <<log, tasks, turn, queue, head, signed>>

-----------------------------------------------------------------------------
(* The relay channel: relay_manazer_message *)

\* A turn is in flight: queue the text and record it at once.
RelayEnqueue ==
  /\ Started(row) /\ (row.in_flight \/ row.status = "agent_working")
  /\ queue < MaxRelay
  /\ queue' = queue + 1
  /\ Say("other")
  /\ UNCHANGED <<row, tasks, turn, head, signed>>

\* A finished version at rest: _begin_consult.
RelayConsult ==
  /\ Started(row) /\ ~row.in_flight /\ row.status # "agent_working"
  /\ row.stage = "done"
  /\ row' = ArmConsult(row)
  /\ Say("other")
  /\ UNCHANGED <<tasks, turn, queue, head, signed>>

Manager ==
  \/ Start \/ ApproveSpec \/ ZostavPlan \/ SpustitStavbu \/ Skontrolovat \/ Hotovo
  \/ OveritZnovu \/ Uprav \/ Ask \/ Answer \/ Pokracovat \/ Pause
  \/ RelayEnqueue \/ RelayConsult

-----------------------------------------------------------------------------
(* The dispatch task *)

\* pipeline_runner._run picks the armed version up and routes it.
StartTurn ==
  /\ row.status = "agent_working" /\ turn = "idle"
  /\ turn' = RouteTurn(row, log)
  /\ TasksAfterSettle(tasks)
  /\ UNCHANGED <<row, log, queue, head, signed>>

\* run_conversation_turn past the markers: one turn of the partner.
ChatTurn ==
  /\ turn = "chat"
  /\ Say("other")
  /\ \E r \in {SetStatus(row, "awaiting_manazer"), Block(row, "agent_question"),
               Block(row, "parse_exhaustion"), Block(row, "framework_issue")} :
       SettleTurn(r)
  /\ TasksAfterSettle(tasks)
  /\ UNCHANGED <<head, signed>>

\* _run_conversation_plan_round succeeds: the plan is written all at once.
PlanWritten ==
  /\ turn = "plan"
  /\ Say("other")
  /\ SettleTurn(SetStatus(row, "awaiting_manazer"))
  /\ \E n \in Task : TasksAfterSettle([t \in Task |-> IF t <= n THEN "todo" ELSE "absent"])
  /\ UNCHANGED <<head, signed>>

\* A pass fails past its retries, the plan is refused, or an envelope is lost.
PlanFails ==
  /\ turn = "plan"
  /\ Say("other")
  /\ \E r \in {SetStatus(row, "awaiting_manazer"), Block(row, "agent_error"),
               Block(row, "parse_exhaustion"), Block(row, "system_error")} :
       SettleTurn(r)
  /\ TasksAfterSettle(tasks)
  /\ UNCHANGED <<head, signed>>

\* _run_conversation_kontrola_round, part 1: boot the application first and
\* commit the machine's result before the partner may speak.
KontrolaSmoke ==
  /\ turn = "smoke"
  /\ \/ head \in Bootable /\ Say("smoke_green")
     \/ Say("smoke_red")
  /\ turn' = "check"
  /\ UNCHANGED <<row, tasks, queue, head, signed>>

\* Part 2: the partner's turn, committed by invoke_agent.  A block of a kind
\* that is no message kind of its own is recorded as a gate_report.
KontrolaReport ==
  /\ turn = "check"
  /\ Say("report") \/ Say("other")
  /\ turn' = "floor"
  /\ UNCHANGED <<row, tasks, queue, head, signed>>

KontrolaNoReport ==
  /\ turn = "check"
  /\ Say("other")
  /\ \E r \in {Block(row, "agent_question"), Block(row, "parse_exhaustion")} : SettleTurn(r)
  /\ TasksAfterSettle(tasks)
  /\ UNCHANGED <<head, signed>>

\* Slip: the red floor is not noted.
KontrolaRedWithoutNote ==
  /\ turn = "floor" /\ runtime_floor_red
  /\ log' = log
  /\ SettleTurn(SetStatus(row, "awaiting_manazer"))
  /\ TasksAfterSettle(tasks)
  /\ UNCHANGED <<head, signed>>

\* Part 3: a red floor is noted and handed to the Manager.
KontrolaRed ==
  /\ turn = "floor" /\ runtime_floor_red
  /\ Say("floor_red")
  /\ SettleTurn(SetStatus(row, "awaiting_manazer"))
  /\ TasksAfterSettle(tasks)
  /\ UNCHANGED <<head, signed>>

KontrolaGreen ==
  /\ turn = "floor" /\ ~runtime_floor_red /\ ~auto_hotovo
  /\ log' = log
  /\ SettleTurn(SetStatus(row, "awaiting_manazer"))
  /\ TasksAfterSettle(tasks)
  /\ UNCHANGED <<head, signed>>

\* A green re-check of a drifted version signs it again.
KontrolaResigns ==
  /\ turn = "floor" /\ ~runtime_floor_red /\ auto_hotovo
  /\ Sign
  /\ SettleTurn(SignedRow)
  /\ TasksAfterSettle(tasks)

-----------------------------------------------------------------------------
(* _run_build_round, one task at a time *)

\* The boundary re-reads the row: the Manager paused the build meanwhile.
BuildLeaves ==
  /\ turn = "build" /\ row.status # "agent_working"
  /\ log' = log
  /\ SettleTurn(row)
  /\ TasksAfterSettle(tasks)
  /\ UNCHANGED <<head, signed>>

BuildTokenStop ==
  /\ TokenStop /\ turn = "build" /\ row.status = "agent_working"
  /\ Say("other")
  /\ SettleTurn(SetStatus(row, "paused"))
  /\ TasksAfterSettle(tasks)
  /\ UNCHANGED <<head, signed>>

BuildOpenFindings ==
  /\ turn = "build" /\ row.status = "agent_working"
  /\ TodoTasks = {} /\ build_open_findings
  /\ log' = log
  /\ SettleTurn(Block(row, "agent_error"))
  /\ TasksAfterSettle(tasks)
  /\ UNCHANGED <<head, signed>>

\* The completion tail returns the build to the conversation register.
BuildCompletes ==
  /\ turn = "build" /\ row.status = "agent_working"
  /\ TodoTasks = {} /\ ~build_open_findings
  /\ Say("complete")
  /\ SettleTurn(SetStatus([row EXCEPT !.stage = "priprava"], "awaiting_manazer"))
  /\ TasksAfterSettle(tasks)
  /\ UNCHANGED <<head, signed>>

\* HEAD cannot be read: the task stays todo and the Manager is asked.
BuildNoBaseline ==
  /\ turn = "build" /\ row.status = "agent_working" /\ TodoTasks # {}
  /\ log' = log
  /\ SettleTurn(SetStatus(row, "awaiting_manazer"))
  /\ TasksAfterSettle(tasks)
  /\ UNCHANGED <<head, signed>>

BuildPicksTask ==
  /\ turn = "build" /\ row.status = "agent_working"
  /\ \E t \in Task : IsNextTodo(t) /\ tasks' = [tasks EXCEPT ![t] = "in_progress"]
  /\ Say("other")
  /\ turn' = "task"
  /\ UNCHANGED <<row, queue, head, signed>>

Current(t) == turn = "task" /\ tasks[t] = "in_progress"

TaskDone(t) ==
  /\ Current(t)
  /\ tasks' = [tasks EXCEPT ![t] = "done"]
  /\ Say("other")
  /\ turn' = "build"
  /\ UNCHANGED <<row, queue, head, signed>>

\* Slip: the self-check has no bound.
TaskRetriedForever(t) ==
  /\ Current(t)
  /\ tasks' = [tasks EXCEPT ![t] = "todo"]
  /\ Say("other")
  /\ turn' = "build"
  /\ UNCHANGED <<row, queue, head, signed>>

\* The self-check budget is spent.
TaskFails(t) ==
  /\ Current(t)
  /\ Say("other")
  /\ SettleTurn(SetStatus(row, "awaiting_manazer"))
  /\ TasksAfterSettle([tasks EXCEPT ![t] = "failed"])
  /\ UNCHANGED <<head, signed>>

\* The agent asks, or its envelope is lost: the task stays in_progress.
TaskStops(t) ==
  /\ Current(t)
  /\ Say("other")
  /\ \E r \in {Block(row, "agent_question"), SetStatus(row, "awaiting_manazer")} : SettleTurn(r)
  /\ TasksAfterSettle(tasks)
  /\ UNCHANGED <<head, signed>>

-----------------------------------------------------------------------------
\* run_consult_turn: back to the terminal rest, whatever the agent returned.
ConsultTurn ==
  /\ turn = "consult"
  /\ Say("other")
  /\ SettleTurn(SetStatus(row, "done"))
  /\ TasksAfterSettle(tasks)
  /\ UNCHANGED <<head, signed>>

Engine ==
  \/ StartTurn \/ ChatTurn \/ PlanWritten \/ PlanFails
  \/ KontrolaSmoke \/ KontrolaReport \/ KontrolaNoReport
  \/ KontrolaRed \/ KontrolaGreen \/ KontrolaResigns
  \/ BuildLeaves \/ BuildTokenStop \/ BuildOpenFindings \/ BuildCompletes
  \/ BuildNoBaseline \/ BuildPicksTask
  \/ \E t \in Task : TaskDone(t) \/ TaskFails(t) \/ TaskStops(t)
  \/ ConsultTurn

-----------------------------------------------------------------------------
(* The environment *)

\* An exception escapes a turn: _mark_blocked; the relay queue is not drained.
Crash ==
  /\ CanCrash /\ turn # "idle"
  /\ row' = Block(row, "system_error")
  /\ Say("other")
  /\ turn' = "idle"
  /\ UNCHANGED <<tasks, queue, head, signed>>

\* The process restarts: tasks and queues in memory are gone, and
\* recover_orphaned_builds_on_startup settles a version left working.
Restart ==
  /\ CanRestart /\ Started(row)
  /\ turn' = "idle" /\ queue' = 0
  /\ IF row.status = "agent_working"
     THEN row' = SetStatus(row, "awaiting_manazer") /\ Say("other")
     ELSE UNCHANGED <<row, log>>
  /\ UNCHANGED <<tasks, head, signed>>

\* A commit by a turn of the agent, by another version or by a person.
HeadMoves ==
  /\ head' \in Commits \ {head}
  /\ UNCHANGED <<row, log, tasks, turn, queue, signed>>

Init ==
  /\ row = NoRow /\ log = EmptyLog
  /\ tasks = [t \in Task |-> "absent"]
  /\ turn = "idle" /\ queue = 0
  /\ head \in Commits /\ signed = NoSha

Next == Manager \/ Engine \/ Crash \/ Restart \/ HeadMoves

Spec == Init /\ [][Next]_vars

-----------------------------------------------------------------------------
(* The board: the actions GET /board offers, and those apply_action accepts *)

all_tasks_done == TodoTasks = {} /\ navrh_plan_materialized

\* _board: determine_available_actions, post-filtered by the queries.
Offered ==
  LET base == DetermineAvailableActions(row)
  IN  {a \in base :
         /\ a \notin {"schvalit", "verdict"}
         /\ a = "approve_spec"   => ~spec_approved
         /\ a = "zostav_plan"    => spec_approved /\ ~navrh_plan_materialized
         /\ a = "spustit_stavbu" => spec_approved /\ navrh_plan_materialized /\ ~build_started
         /\ a = "skontrolovat"   => spec_approved /\ programming_complete /\ ~kontrola_done
         /\ a = "hotovo"         => spec_approved /\ kontrola_passed /\ row.stage # "done"}
      \cup {a \in {"pokracovat"} :
              row.stage = "programovanie" /\ "schvalit" \in base /\ ~all_tasks_done}
      \cup {a \in {"overit_znovu"} : hotovo_drift /\ row.status \in {"done", "awaiting_manazer"}}

\* The actions apply_action would carry out now.
Accepted ==
  {a \in KnownActions \ {"start", "schvalit", "verdict", "decide"} :
     /\ PassesGuards(row, a)
     /\ a = "approve_spec"   => CanApproveSpec
     /\ a = "zostav_plan"    => CanZostavPlan
     /\ a = "spustit_stavbu" => CanSpustitStavbu
     /\ a = "skontrolovat"   => CanSkontrolovat
     /\ a = "hotovo"         => CanHotovo
     /\ a = "overit_znovu"   => CanOveritZnovu
     /\ a = "pokracovat"     => CanPokracovat}

-----------------------------------------------------------------------------
(* What the engine promises: module Delivery *)

\* How far the version has come, as its log, its plan and its stage tell.
delivery_phase ==
  CASE row.stage = "done"          -> "delivered"
    [] row.stage = "programovanie" -> "building"
    [] OTHER -> IF programming_complete THEN "built"
                ELSE IF navrh_plan_materialized THEN "planned"
                ELSE IF spec_approved THEN "specified" ELSE "drafting"

D == INSTANCE Delivery WITH phase <- delivery_phase, working <- row.status = "agent_working"

-----------------------------------------------------------------------------
(* Specifications with fairness *)

\* The event loop runs a scheduled dispatch, and every wait inside a turn (the
\* agent, the smoke run) is cut off by a timeout: the engine never stops half-way.
FairSpec == Spec /\ WF_vars(Engine)

\* ... and a Manager who keeps correcting the partner, keeps the build going and
\* asks for a check whenever one is accepted.
DiligentSpec ==
  FairSpec /\ SF_vars(Uprav) /\ SF_vars(Pokracovat) /\ SF_vars(Skontrolovat)

-----------------------------------------------------------------------------
(* Properties *)

\* The register implements the promise: a version goes through its phases one at
\* a time and back only from a delivery, the Manager moving it while the agent
\* rests and the agent while it works (the stages of a conversation build).
DeliversInOrder == D!Spec

\* Every variable stays in its domain.
TypeOK ==
  /\ row \in Rows /\ log \in Logs(Classes)
  /\ tasks \in [Task -> TaskStatus]
  /\ turn \in Turns /\ queue \in 0..MaxRelay
  /\ head \in Commits /\ signed \in Commits \cup {NoSha}

\* The columns of the row agree: the single-flight flag is set exactly while an
\* agent works, a reason is kept exactly while the row is blocked, and the
\* status done goes with the terminal stage (models/pipeline.py, the listeners).
RowConsistent ==
  /\ row.in_flight <=> row.status = "agent_working"
  /\ row.block_reason # NoReason <=> row.status = "blocked"
  /\ row.status = "done" => row.stage = "done"
  /\ row.status = "paused" => row.stage = "programovanie"

\* A dispatch works on a row that is still its own: the build loop only ever
\* runs at programovanie, a consult only on a finished version, the other turns
\* only in the conversation register, and only the build loop can find itself
\* paused (the single-flight flag and the stage routing of pipeline_runner._run).
TurnOwnsRow ==
  turn # "idle" =>
    /\ turn \in {"build", "task"} <=> row.stage = "programovanie"
    /\ turn = "consult" <=> row.stage = "done"
    /\ row.status = "agent_working" \/ (turn \in {"build", "task"} /\ row.status = "paused")

\* A version reaches the terminal stage only approved, completely programmed and
\* signed after its last completed build, and keeps that ground (apply_action hotovo).
DoneIsSigned ==
  row.stage = "done" => spec_approved /\ programming_complete /\ manazer_signoff

\* Nothing downstream reads a completion over dropped work: once the build is
\* recorded complete no task of the plan is open, failed or abandoned.
CompleteMeansAllDone ==
  programming_complete =>
    navrh_plan_materialized /\ \A t \in Task : tasks[t] \in {"absent", "done"}

\* The build loop works on one task at a time, and a task is left in_progress
\* only by a turn that was cut short (never while the loop is between tasks).
OneTaskAtATime ==
  /\ \A t, u \in Task : tasks[t] = "in_progress" /\ tasks[u] = "in_progress" => t = u
  /\ turn = "task" => \E t \in Task : tasks[t] = "in_progress"
  /\ turn = "build" => \A t \in Task : tasks[t] # "in_progress"

\* Work that passed its self-check is never redone nor lost, whatever pauses,
\* corrections, restarts and retries happen after it.
DoneTaskStaysDone ==
  [][\A t \in Task : tasks[t] = "done" => tasks'[t] = "done"]_vars

\* A finished version is re-opened only when the signed code moved
\* (overit_znovu is honoured for a drifted signature alone).
DoneLeftOnlyOnDrift ==
  [][row.stage = "done" /\ row'.stage # "done" => hotovo_drift]_vars

\* A paused build does not resume as a side effect: with no relay waiting, only
\* pokracovat and uprav put it back to work (the paused guard of apply_action).
PausedResumesOnPurpose ==
  [][row.status = "paused" /\ row'.status = "agent_working" /\ queue = 0
       => Pokracovat \/ Uprav]_vars

\* What the comment on the paused guard says without that exception: nothing
\* but the resume verb or a steer puts a paused build back to work.
NeverSilentlyUnpaused ==
  [][row.status = "paused" /\ row'.status = "agent_working" => Pokracovat \/ Uprav]_vars

\* The board never shows a dead button: what it offers, apply_action carries
\* out, the re-report of a framework issue aside.
OfferedIsAccepted == Offered \ {"nahlasit_znova"} \subseteq Accepted

\* The same for every verb, as determine_available_actions promises.
EveryOfferIsAccepted == Offered \subseteq Accepted

Signs == row.stage # "done" /\ row'.stage = "done"

\* The first signature of a version is put under a build whose last boot and
\* acceptance run passed, however the turns before it ended (kontrola_passed).
FirstSignatureOverGreenSmoke ==
  [][Signs /\ ~Has(log, "hotovo") => NotOutrankedBy(log, "smoke_green", "smoke_red")]_vars

\* The same for every signature, the ones after a drift included.
SignatureOverGreenSmoke ==
  [][Signs => NotOutrankedBy(log, "smoke_green", "smoke_red")]_vars

\* A dispatch comes to rest and hands the version back, unless the Manager
\* keeps queueing messages for ever.
DispatchSettles ==
  \/ row.status = "agent_working" ~> turn = "idle" /\ row.status # "agent_working"
  \/ []<><<RelayEnqueue>>_vars

\* A check that was asked for is run: the durable marker starts the kontrola
\* round, unless a message of the Manager is queued before the turn is picked up.
CheckMarkerFires ==
  row.status = "agent_working" /\ IsLatest(log, "check") ~> turn = "smoke" \/ queue > 0

\* After a red kontrola of a version never signed, a Manager who keeps steering
\* the partner can ask for another kontrola (the floor-red note tells him to).
RedKontrolaReopens ==
  kontrola_done /\ kontrola_floor_red /\ ~Has(log, "hotovo") ~> CanSkontrolovat
=============================================================================
