------------------------- MODULE ConversationProofs -------------------------
(***************************************************************************)
(* Machine-checked proofs about module Conversation, for every plan size,  *)
(* relay bound and set of commits, with restarts and exceptions allowed.   *)
(*                                                                         *)
(* Lemmas on the message log and on the row say what the helpers return.   *)
(* OwnInv says that a dispatch works on a consistent row of its own stage; *)
(* it is inductive by itself.  PlanInv relates the log to the plan: a plan *)
(* is only ever written over an empty one, the build stage has a plan, and *)
(* a recorded completion speaks of a plan that is done.  SignInv relates   *)
(* the log to the terminal stage.  Both are inductive relative to OwnInv.  *)
(***************************************************************************)
EXTENDS Conversation, TLAPS

-----------------------------------------------------------------------------
(* The message log *)

\* newer is a strict total order on the classes seen.
LogOK(l) ==
  /\ l \in Logs(Classes)
  /\ \A a, b : <<a, b>> \in l.newer =>
       a \in l.seen /\ b \in l.seen /\ a # b /\ <<b, a>> \notin l.newer
  /\ \A a, b \in l.seen : a # b => <<a, b>> \in l.newer \/ <<b, a>> \in l.newer

\* A log stays ordered when a message is recorded (_record_message).
LEMMA RecordOK ==
  ASSUME NEW l, LogOK(l), NEW k \in Classes
  PROVE  LogOK(Record(l, k))
  BY DEF LogOK, Record, Logs

\* What a recorded message changes for the three queries.
LEMMA RecordHas ==
  ASSUME NEW l, LogOK(l), NEW k \in Classes, NEW j
  PROVE  Has(Record(l, k), j) <=> j = k \/ Has(l, j)
  BY DEF LogOK, Record, Logs, Has

LEMMA RecordNewer ==
  ASSUME NEW l, LogOK(l), NEW k \in Classes, NEW a, NEW b
  PROVE  Newer(Record(l, k), a, b) <=>
           \/ a = k /\ b # k /\ Has(l, b)
           \/ a # k /\ b # k /\ Newer(l, a, b)
  BY DEF LogOK, Record, Logs, Has, Newer

LEMMA RecordLatest ==
  ASSUME NEW l, LogOK(l), NEW k \in Classes, NEW j
  PROVE  IsLatest(Record(l, k), j) <=> j = k
  <1>1. ASSUME j = k PROVE IsLatest(Record(l, k), j)
    BY <1>1, RecordHas, RecordNewer DEF IsLatest, Has, Record
  <1>2. ASSUME j # k, IsLatest(Record(l, k), j) PROVE FALSE
    <2>1. Has(Record(l, k), k)
      BY RecordHas
    <2>2. Newer(Record(l, k), j, k)
      BY <1>2, <2>1 DEF IsLatest, Has
    <2> QED BY <2>2, RecordNewer
  <1> QED BY <1>1, <1>2

-----------------------------------------------------------------------------
(* The row *)

\* The invariant RowConsistent, of any row; besides, a version not started has not
\* moved, and no turn of this register blocks on a consultation card.
RowOK(r) ==
  /\ r \in Rows
  /\ r.in_flight <=> r.status = "agent_working"
  /\ r.block_reason # NoReason <=> r.status = "blocked"
  /\ r.status = "done" => r.stage = "done"
  /\ r.status = "paused" => r.stage = "programovanie"
  /\ r.status = "absent" => r.stage = "priprava"
  /\ r.block_reason # "decision_needed"

\* What arming needs of a row: only the reason has to be consistent.
ReasonOK(r) == r \in Rows /\ (r.block_reason # NoReason <=> r.status = "blocked")

\* A settle through the ORM listeners leaves a consistent row of the same stage.
LEMMA SetStatusOK ==
  ASSUME NEW r, RowOK(r), NEW v \in {"awaiting_manazer", "paused", "done"},
         v = "paused" => r.stage = "programovanie", v = "done" => r.stage = "done"
  PROVE  RowOK(SetStatus(r, v)) /\ SetStatus(r, v).stage = r.stage
           /\ SetStatus(r, v).status = v
  BY DEF RowOK, Rows, SetStatus, ClearBlockReasonOnUnblock, ClearDispatchOnSettle,
         Statuses, NoReason

\* So does a block, whatever the reason.
LEMMA BlockOK ==
  ASSUME NEW r, RowOK(r), NEW reason \in BlockReasons \ {"decision_needed"}
  PROVE  RowOK(Block(r, reason)) /\ Block(r, reason).stage = r.stage
           /\ Block(r, reason).status = "blocked"
  BY DEF RowOK, Rows, Block, SetStatus, ClearBlockReasonOnUnblock, ClearDispatchOnSettle,
         Statuses, NoReason, BlockReasons

\* Arming a turn (_begin_dispatch) gives a working row of the same stage.
LEMMA BeginDispatchOK ==
  ASSUME NEW r, ReasonOK(r), r.stage # "done"
  PROVE  RowOK(BeginDispatch(r)) /\ BeginDispatch(r).stage = r.stage
           /\ BeginDispatch(r).status = "agent_working"
  BY DEF RowOK, ReasonOK, Rows, BeginDispatch, StageActor, Actors, Stages, SetStatus,
         ClearBlockReasonOnUnblock, ClearDispatchOnSettle, Statuses, NoReason

\* Arming a consultation gives a working row of the same stage.
LEMMA ArmConsultOK ==
  ASSUME NEW r, ReasonOK(r)
  PROVE  RowOK(ArmConsult(r)) /\ ArmConsult(r).stage = r.stage
           /\ ArmConsult(r).status = "agent_working"
  BY DEF RowOK, ReasonOK, Rows, ArmConsult, Actors, SetStatus,
         ClearBlockReasonOnUnblock, ClearDispatchOnSettle, Statuses, NoReason

\* The terminal signature gives a finished row.
LEMMA SignedRowOK ==
  ASSUME RowOK(row)
  PROVE  RowOK(SignedRow) /\ SignedRow.stage = "done" /\ SignedRow.status = "done"
  BY DEF RowOK, Rows, SignedRow, SetStatus, Stages, Actors,
         ClearBlockReasonOnUnblock, ClearDispatchOnSettle, Statuses, NoReason

-----------------------------------------------------------------------------
(* OwnInv: a dispatch works on a consistent row of its own stage *)

OwnInv ==
  /\ RowOK(row) /\ LogOK(log)
  /\ tasks \in [Task -> TaskStatus]
  /\ turn \in Turns /\ queue \in 0..MaxRelay
  /\ head \in Commits /\ signed \in Commits \cup {NoSha}
  /\ TurnOwnsRow

\* The three invariants of the runs that OwnInv contains.
LEMMA OwnInvGives ==
  ASSUME OwnInv
  PROVE  TypeOK /\ RowConsistent /\ TurnOwnsRow
  BY DEF OwnInv, TypeOK, RowConsistent, RowOK, LogOK

\* A turn is routed by the stage of its row; only a marker leads to a plan.
LEMMA RouteOK ==
  ASSUME NEW r, NEW l
  PROVE  /\ RouteTurn(r, l) \in Turns \ {"idle", "task"}
         /\ RouteTurn(r, l) = "build" <=> r.stage = "programovanie"
         /\ RouteTurn(r, l) = "consult" <=> r.stage = "done"
         /\ RouteTurn(r, l) = "plan" => IsLatest(l, "compose")
  BY DEF RouteTurn, Turns, pending_compose_plan_marker

\* What follows a settle with a consistent row: rest, or the turn of the next
\* queued message, armed on the same stage.
LEMMA SettleOK ==
  ASSUME NEW r, RowOK(r), queue \in 0..MaxRelay, SettleTurn(r)
  PROVE  /\ RowOK(row') /\ row'.stage = r.stage
         /\ queue' \in 0..MaxRelay
         /\ turn' \in Turns \ {"task"} /\ TurnOwnsRow'
         /\ turn' = "plan" => IsLatest(log', "compose")
         /\ turn' = "idle" => row' = r
  <1> USE ConversationAssumption
  <1>1. CASE queue = 0
    BY <1>1 DEF SettleTurn, TurnOwnsRow, Turns
  <1>2. CASE queue # 0
    <2> DEFINE armed == IF r.stage = "done" THEN ArmConsult(r) ELSE BeginDispatch(r)
    <2>1. ReasonOK(r)
      BY DEF RowOK, ReasonOK
    <2>2. RowOK(armed) /\ armed.stage = r.stage /\ armed.status = "agent_working"
      BY <2>1, ArmConsultOK, BeginDispatchOK
    <2>3. row' = armed /\ turn' = RouteTurn(armed, log') /\ queue' = queue - 1
      BY <1>2 DEF SettleTurn
    <2>4. queue' \in 0..MaxRelay
      BY <1>2, <2>3
    <2> HIDE DEF armed
    <2>5. /\ turn' \in Turns \ {"idle", "task"}
          /\ turn' = "build" <=> row'.stage = "programovanie"
          /\ turn' = "consult" <=> row'.stage = "done"
          /\ turn' = "plan" => IsLatest(log', "compose")
      BY <2>3, RouteOK
    <2> QED BY <2>2, <2>3, <2>4, <2>5 DEF TurnOwnsRow
  <1> QED BY <1>1, <1>2

\* The build round that follows a settle puts an abandoned task back to todo.
LEMMA TasksOK ==
  ASSUME NEW ts \in [Task -> TaskStatus], TasksAfterSettle(ts)
  PROVE  /\ tasks' \in [Task -> TaskStatus]
         /\ \A t \in Task : \/ tasks'[t] = ts[t]
                            \/ ts[t] = "in_progress" /\ tasks'[t] = "todo"
         /\ turn' = "build" => \A t \in Task : tasks'[t] # "in_progress"
         /\ turn' # "build" => tasks' = ts
  BY DEF TasksAfterSettle, TaskStatus

\* Recording a message keeps the log ordered.
LEMMA SayOK ==
  ASSUME LogOK(log), NEW k \in Classes, Say(k)
  PROVE  LogOK(log')
  BY RecordOK DEF Say

\* The guards of apply_action let an action through only when no dispatch is
\* running, the three that may meet a running or paused build loop aside.
LEMMA GuardIdle ==
  ASSUME OwnInv, NEW a, PassesGuards(row, a), a \notin {"pause", "pokracovat", "uprav"}
  PROVE  turn = "idle" /\ row.status \notin {"agent_working", "paused"}
  BY DEF OwnInv, RowOK, PassesGuards, TurnOwnsRow

\* The two resuming verbs keep the stage and arm the row they find.
LEMMA ResumeOK ==
  ASSUME OwnInv, NEW a \in {"pokracovat", "uprav"}, PassesGuards(row, a),
         row' = BeginDispatch(row), turn' = turn
  PROVE  RowOK(row') /\ row'.stage = row.stage /\ TurnOwnsRow'
  <1>1. CASE row.stage = "done"
    BY <1>1 DEF BeginDispatch, OwnInv, TurnOwnsRow
  <1>2. CASE row.stage # "done"
    <2>1. RowOK(row') /\ row'.stage = row.stage /\ row'.status = "agent_working"
      BY <1>2, BeginDispatchOK DEF OwnInv, RowOK, ReasonOK
    <2> QED BY <2>1 DEF OwnInv, TurnOwnsRow
  <1> QED BY <1>1, <1>2

\* The initial row is consistent and nothing is running.
LEMMA OwnInit == Init => OwnInv
  BY ConversationAssumption
  DEF Init, OwnInv, RowOK, NoRow, Rows, Stages, Actors, Statuses, BlockReasons, NoReason,
      LogOK, EmptyLog, Logs, TaskStatus, Turns, TurnOwnsRow

\* A step that settles a turn keeps OwnInv.
LEMMA SettleOwn ==
  ASSUME OwnInv, NEW r, RowOK(r), SettleTurn(r), LogOK(log'),
         NEW ts \in [Task -> TaskStatus], TasksAfterSettle(ts),
         head' \in Commits, signed' \in Commits \cup {NoSha}
  PROVE  OwnInv'
  <1>1. /\ RowOK(row') /\ queue' \in 0..MaxRelay
        /\ turn' \in Turns \ {"task"} /\ TurnOwnsRow'
    BY SettleOK DEF OwnInv
  <1>2. tasks' \in [Task -> TaskStatus]
    BY TasksOK
  <1> QED BY <1>1, <1>2 DEF OwnInv

\* So does a step of the Manager that writes the row and a message while no
\* dispatch is running.
LEMMA RestOwn ==
  ASSUME OwnInv, turn = "idle", RowOK(row'), NEW k \in Classes, Say(k),
         UNCHANGED <<tasks, turn, queue>>,
         head' \in Commits, signed' \in Commits \cup {NoSha}
  PROVE  OwnInv'
  <1>1. LogOK(log')
    BY SayOK DEF OwnInv
  <1> QED BY <1>1 DEF OwnInv, TurnOwnsRow

\* So does a step inside a turn: the row stays, the program point moves on.
LEMMA InsideOwn ==
  ASSUME OwnInv, NEW k \in Classes, Say(k), UNCHANGED <<row, queue, head, signed>>,
         turn # "idle", turn \notin {"consult"},
         tasks' \in [Task -> TaskStatus], turn' \in Turns,
         turn' \in {"build", "task"} <=> turn \in {"build", "task"},
         turn' \notin {"idle", "consult"}
  PROVE  OwnInv'
  <1>1. LogOK(log')
    BY SayOK DEF OwnInv
  <1> QED BY <1>1 DEF OwnInv, TurnOwnsRow

\* The reset of failed tasks keeps the shape of the plan.
LEMMA ResetOK ==
  ASSUME tasks \in [Task -> TaskStatus]
  PROVE  /\ reset_failed_tasks_to_todo \in [Task -> TaskStatus]
         /\ \A t \in Task : \/ reset_failed_tasks_to_todo[t] = tasks[t]
                            \/ /\ tasks[t] = "failed"
                               /\ reset_failed_tasks_to_todo[t] = "todo"
  BY DEF reset_failed_tasks_to_todo, TaskStatus

\* Every action of the Manager keeps OwnInv.
LEMMA OwnManager == OwnInv /\ Manager => OwnInv'
  <1> SUFFICES ASSUME OwnInv, Manager PROVE OwnInv'
    OBVIOUS
  <1> USE DEF Classes
  <1>0. /\ RowOK(row) /\ LogOK(log) /\ ReasonOK(row)
        /\ tasks \in [Task -> TaskStatus] /\ TurnOwnsRow
        /\ head \in Commits /\ signed \in Commits \cup {NoSha}
    BY DEF OwnInv, RowOK, ReasonOK
  <1>1. CASE Start
    <2>1. turn = "idle"
      BY <1>1, <1>0 DEF Start, Started, TurnOwnsRow
    <2>2. ReasonOK(NewRow) /\ NewRow.stage # "done"
      BY DEF NewRow, NoRow, ReasonOK, Rows, Stages, Actors, Statuses, NoReason
    <2> QED BY <1>1, <1>0, <2>1, <2>2, BeginDispatchOK, RestOwn DEF Start
  <1>2. CASE ApproveSpec
    <2>1. turn = "idle"
      BY <1>2, GuardIdle DEF ApproveSpec, CanApproveSpec
    <2> QED BY <1>2, <1>0, <2>1, SetStatusOK, RestOwn DEF ApproveSpec
  <1>3. CASE ZostavPlan
    <2>1. turn = "idle" /\ RowOK(BeginDispatch(row))
      BY <1>3, <1>0, GuardIdle, BeginDispatchOK DEF ZostavPlan, CanZostavPlan, BeginDispatch
    <2> QED BY <1>3, <1>0, <2>1, RestOwn DEF ZostavPlan
  <1>4. CASE SpustitStavbu
    <2>1. turn = "idle"
      BY <1>4, GuardIdle DEF SpustitStavbu, CanSpustitStavbu
    <2>2. ReasonOK([row EXCEPT !.stage = "programovanie"])
      BY <1>0 DEF ReasonOK, Rows, Stages
    <2>3. [row EXCEPT !.stage = "programovanie"].stage # "done"
      BY <1>0 DEF RowOK, Rows
    <2> QED BY <1>4, <1>0, <2>1, <2>2, <2>3, BeginDispatchOK, RestOwn DEF SpustitStavbu
  <1>5. CASE Skontrolovat
    <2>1. turn = "idle" /\ RowOK(BeginDispatch(row))
      BY <1>5, <1>0, GuardIdle, BeginDispatchOK DEF Skontrolovat, CanSkontrolovat, BeginDispatch
    <2> QED BY <1>5, <1>0, <2>1, RestOwn DEF Skontrolovat
  <1>6. CASE Hotovo
    <2>1. turn = "idle"
      BY <1>6, GuardIdle DEF Hotovo, CanHotovo
    <2> QED BY <1>6, <1>0, <2>1, SignedRowOK, RestOwn DEF Hotovo, Sign
  <1>7. CASE OveritZnovu
    <2>1. turn = "idle"
      BY <1>7, GuardIdle DEF OveritZnovu, CanOveritZnovu
    <2>2. ReasonOK([row EXCEPT !.stage = "priprava"])
      BY <1>0 DEF ReasonOK, Rows, Stages
    <2>3. [row EXCEPT !.stage = "priprava"].stage # "done"
      BY <1>0 DEF RowOK, Rows
    <2> QED BY <1>7, <1>0, <2>1, <2>2, <2>3, BeginDispatchOK, RestOwn DEF OveritZnovu
  <1>8. CASE Uprav
    <2>1. RowOK(row') /\ TurnOwnsRow'
      BY <1>8, ResumeOK DEF Uprav, CanUprav
    <2>2. LogOK(log') /\ tasks' \in [Task -> TaskStatus]
      BY <1>8, <1>0, SayOK, ResetOK DEF Uprav
    <2> QED BY <1>8, <2>1, <2>2 DEF Uprav, OwnInv
  <1>9. CASE Ask
    <2>1. turn = "idle" /\ RowOK(BeginDispatch(row))
      BY <1>9, <1>0, GuardIdle, BeginDispatchOK DEF Ask, BeginDispatch
    <2> QED BY <1>9, <1>0, <2>1, RestOwn DEF Ask
  <1>10. CASE Answer
    <2>1. turn = "idle" /\ RowOK(BeginDispatch(row))
      BY <1>10, <1>0, GuardIdle, BeginDispatchOK DEF Answer, BeginDispatch
    <2> QED BY <1>10, <1>0, <2>1, RestOwn DEF Answer
  <1>11. CASE Pokracovat
    <2>1. RowOK(row') /\ TurnOwnsRow'
      BY <1>11, ResumeOK DEF Pokracovat, CanPokracovat
    <2>2. LogOK(log') /\ tasks' \in [Task -> TaskStatus]
      BY <1>11, <1>0, SayOK, ResetOK DEF Pokracovat
    <2> QED BY <1>11, <2>1, <2>2 DEF Pokracovat, OwnInv
  <1>12. CASE Pause
    <2>1. row.stage = "programovanie"
      BY <1>12 DEF Pause, PassesGuards
    <2>2. RowOK(row') /\ row'.stage = row.stage /\ row'.status = "paused"
      BY <1>12, <1>0, <2>1, SetStatusOK DEF Pause
    <2>3. TurnOwnsRow'
      BY <1>12, <1>0, <2>1, <2>2 DEF Pause, TurnOwnsRow
    <2> QED BY <1>12, <1>0, <2>2, <2>3 DEF Pause, OwnInv
  <1>13. CASE RelayEnqueue
    <2>1. LogOK(log') /\ queue' \in 0..MaxRelay
      BY <1>13, <1>0, SayOK, ConversationAssumption DEF RelayEnqueue, OwnInv
    <2> QED BY <1>13, <1>0, <2>1 DEF RelayEnqueue, OwnInv, TurnOwnsRow
  <1>14. CASE RelayConsult
    <2>1. turn = "idle"
      BY <1>14, <1>0 DEF RelayConsult, TurnOwnsRow
    <2> QED BY <1>14, <1>0, <2>1, ArmConsultOK, RestOwn DEF RelayConsult
  <1> QED BY <1>1, <1>2, <1>3, <1>4, <1>5, <1>6, <1>7, <1>8, <1>9, <1>10, <1>11, <1>12,
             <1>13, <1>14 DEF Manager

\* Every step of the dispatch task keeps OwnInv.
LEMMA OwnEngine == OwnInv /\ Engine => OwnInv'
  <1> SUFFICES ASSUME OwnInv, Engine PROVE OwnInv'
    OBVIOUS
  <1> USE DEF Classes
  <1>0. /\ RowOK(row) /\ LogOK(log) /\ tasks \in [Task -> TaskStatus]
        /\ turn \in Turns /\ TurnOwnsRow
        /\ head \in Commits /\ signed \in Commits \cup {NoSha}
    BY DEF OwnInv
  <1>b. \A b \in {"agent_question", "parse_exhaustion", "framework_issue", "agent_error",
                  "system_error"} : RowOK(Block(row, b))
    BY <1>0, BlockOK DEF BlockReasons
  <1>a. RowOK(SetStatus(row, "awaiting_manazer"))
    BY <1>0, SetStatusOK
  <1>l. \A k \in Classes : Say(k) => LogOK(log')
    BY <1>0, SayOK
  <1>p. turn \in {"build", "task"} => row.stage = "programovanie"
    BY <1>0 DEF TurnOwnsRow
  <1>1. CASE StartTurn
    <2>1. /\ turn' \in Turns /\ turn' # "task"
          /\ turn' = "build" <=> row.stage = "programovanie"
          /\ turn' = "consult" <=> row.stage = "done"
      BY <1>1, RouteOK DEF StartTurn
    <2>2. tasks' \in [Task -> TaskStatus]
      BY <1>1, <1>0, TasksOK DEF StartTurn
    <2> QED BY <1>1, <1>0, <2>1, <2>2 DEF StartTurn, OwnInv, TurnOwnsRow
  <1>2. CASE ChatTurn
    BY <1>2, <1>0, <1>a, <1>b, <1>l, SettleOwn DEF ChatTurn
  <1>3. CASE PlanWritten
    <2>1. PICK n \in Task :
            TasksAfterSettle([t \in Task |-> IF t <= n THEN "todo" ELSE "absent"])
      BY <1>3 DEF PlanWritten
    <2>2. [t \in Task |-> IF t <= n THEN "todo" ELSE "absent"] \in [Task -> TaskStatus]
      BY DEF TaskStatus
    <2> QED BY <1>3, <1>0, <1>a, <1>l, <2>1, <2>2, SettleOwn DEF PlanWritten
  <1>4. CASE PlanFails
    BY <1>4, <1>0, <1>a, <1>b, <1>l, SettleOwn DEF PlanFails
  <1>5. CASE KontrolaSmoke
    BY <1>5, <1>0, InsideOwn DEF KontrolaSmoke, Turns
  <1>6. CASE KontrolaReport
    BY <1>6, <1>0, InsideOwn DEF KontrolaReport, Turns
  <1>7. CASE KontrolaNoReport
    BY <1>7, <1>0, <1>b, <1>l, SettleOwn DEF KontrolaNoReport
  <1>8. CASE KontrolaRed
    BY <1>8, <1>0, <1>a, <1>l, SettleOwn DEF KontrolaRed
  <1>9. CASE KontrolaGreen
    BY <1>9, <1>0, <1>a, SettleOwn DEF KontrolaGreen
  <1>10. CASE KontrolaResigns
    BY <1>10, <1>0, <1>l, SignedRowOK, SettleOwn DEF KontrolaResigns, Sign
  <1>11. CASE BuildLeaves
    BY <1>11, <1>0, SettleOwn DEF BuildLeaves
  <1>12. CASE BuildTokenStop
    <2>1. RowOK(SetStatus(row, "paused"))
      BY <1>12, <1>0, <1>p, SetStatusOK DEF BuildTokenStop
    <2> QED BY <1>12, <1>0, <1>l, <2>1, SettleOwn DEF BuildTokenStop
  <1>13. CASE BuildOpenFindings
    BY <1>13, <1>0, <1>b, SettleOwn DEF BuildOpenFindings
  <1>14. CASE BuildCompletes
    <2>1. RowOK([row EXCEPT !.stage = "priprava"])
      BY <1>14, <1>0 DEF BuildCompletes, RowOK, Rows, Stages
    <2>2. RowOK(SetStatus([row EXCEPT !.stage = "priprava"], "awaiting_manazer"))
      BY <2>1, SetStatusOK
    <2> QED BY <1>14, <1>0, <1>l, <2>2, SettleOwn DEF BuildCompletes
  <1>15. CASE BuildNoBaseline
    BY <1>15, <1>0, <1>a, SettleOwn DEF BuildNoBaseline
  <1>16. CASE BuildPicksTask
    <2>1. tasks' \in [Task -> TaskStatus]
      BY <1>16, <1>0 DEF BuildPicksTask, TaskStatus
    <2> QED BY <1>16, <2>1, InsideOwn DEF BuildPicksTask, Turns
  <1>17. ASSUME NEW t \in Task, TaskDone(t) PROVE OwnInv'
    <2>1. tasks' \in [Task -> TaskStatus]
      BY <1>17, <1>0 DEF TaskDone, TaskStatus
    <2> QED BY <1>17, <2>1, InsideOwn DEF TaskDone, Current, Turns
  <1>18. ASSUME NEW t \in Task, TaskFails(t) PROVE OwnInv'
    <2>1. [tasks EXCEPT ![t] = "failed"] \in [Task -> TaskStatus]
      BY <1>0 DEF TaskStatus
    <2> QED BY <1>18, <1>0, <1>a, <1>l, <2>1, SettleOwn DEF TaskFails
  <1>19. ASSUME NEW t \in Task, TaskStops(t) PROVE OwnInv'
    BY <1>19, <1>0, <1>a, <1>b, <1>l, SettleOwn DEF TaskStops
  <1>20. CASE ConsultTurn
    <2>1. row.stage = "done"
      BY <1>20, <1>0 DEF ConsultTurn, TurnOwnsRow
    <2>2. RowOK(SetStatus(row, "done"))
      BY <1>0, <2>1, SetStatusOK
    <2> QED BY <1>20, <1>0, <1>l, <2>2, SettleOwn DEF ConsultTurn
  <1> QED BY <1>1, <1>2, <1>3, <1>4, <1>5, <1>6, <1>7, <1>8, <1>9, <1>10, <1>11, <1>12,
             <1>13, <1>14, <1>15, <1>16, <1>17, <1>18, <1>19, <1>20 DEF Engine

\* An exception, a restart or a moving HEAD keeps OwnInv.
LEMMA OwnEnvironment == OwnInv /\ (Crash \/ Restart \/ HeadMoves) => OwnInv'
  <1> SUFFICES ASSUME OwnInv, Crash \/ Restart \/ HeadMoves PROVE OwnInv'
    OBVIOUS
  <1> USE ConversationAssumption DEF Classes
  <1>0. RowOK(row) /\ LogOK(log)
    BY DEF OwnInv
  <1>1. CASE Crash
    <2>1. RowOK(row') /\ LogOK(log')
      BY <1>1, <1>0, BlockOK, SayOK DEF Crash, BlockReasons
    <2> QED BY <1>1, <2>1 DEF Crash, OwnInv, TurnOwnsRow, Turns
  <1>2. CASE Restart
    <2>1. RowOK(row') /\ LogOK(log')
      BY <1>2, <1>0, SetStatusOK, SayOK DEF Restart
    <2> QED BY <1>2, <2>1 DEF Restart, OwnInv, TurnOwnsRow, Turns
  <1>3. CASE HeadMoves
    BY <1>3 DEF HeadMoves, OwnInv, TurnOwnsRow
  <1> QED BY <1>1, <1>2, <1>3

LEMMA OwnNext == OwnInv /\ [Next]_vars => OwnInv'
  <1>1. ASSUME OwnInv, UNCHANGED vars PROVE OwnInv'
    BY <1>1 DEF vars, OwnInv, TurnOwnsRow
  <1> QED BY <1>1, OwnManager, OwnEngine, OwnEnvironment DEF Next

\* OwnInv is an invariant: in every reachable state a dispatch works on a
\* consistent row of its own stage.
THEOREM Owned == Spec => []OwnInv
  BY OwnInit, OwnNext, PTL DEF Spec

\* Every variable stays in its domain: the type invariant of the runs.
THEOREM TypeCorrect == Spec => []TypeOK
  BY Owned, OwnInvGives, PTL

\* The single-flight flag is set exactly while an agent works, and the columns
\* of the row agree (the set-listeners of models/pipeline.py).
THEOREM RowStaysConsistent == Spec => []RowConsistent
  BY Owned, OwnInvGives, PTL

\* A dispatch never finds its row moved to another stage by the Manager
\* (the guards of apply_action against the routing of pipeline_runner._run).
THEOREM TurnStaysOwner == Spec => []TurnOwnsRow
  BY Owned, OwnInvGives, PTL

-----------------------------------------------------------------------------
(* PlanInv: the log and the plan *)

NoPlan == \A t \in Task : tasks[t] = "absent"

\* A plan turn, or the marker that leads to one, is met only with no plan.
PlanComposedOnce == IsLatest(log, "compose") \/ turn = "plan" => NoPlan

BuildHasPlan == row.stage = "programovanie" => navrh_plan_materialized

PlanInv ==
  /\ PlanComposedOnce /\ BuildHasPlan
  /\ CompleteMeansAllDone /\ OneTaskAtATime

\* What the steps that do not work on a task may do to the plan: put a failed
\* or abandoned task back to todo.
Reopens(ts, us) ==
  \A t \in Task : \/ us[t] = ts[t]
                  \/ ts[t] \in {"in_progress", "failed"} /\ us[t] = "todo"

\* What a recorded message tells the two queries PlanInv reads.
LEMMA SaidPlan ==
  ASSUME LogOK(log), NEW k \in Classes, Say(k)
  PROVE  /\ Has(log', "complete") <=> k = "complete" \/ Has(log, "complete")
         /\ IsLatest(log', "compose") <=> k = "compose"
  BY RecordHas, RecordLatest DEF Say

\* A step that works on no task and records neither a plan marker nor a
\* completion keeps PlanInv.
LEMMA PlanKept ==
  ASSUME OwnInv, PlanInv, Reopens(tasks, tasks'),
         Has(log', "complete") => Has(log, "complete"),
         IsLatest(log', "compose") \/ turn' = "plan" => NoPlan,
         row'.stage = "programovanie" => navrh_plan_materialized,
         turn' = "task" => turn = "task" /\ \A t \in Task :
                             tasks[t] = "in_progress" => tasks'[t] = "in_progress",
         turn' = "build" => \A t \in Task : tasks'[t] # "in_progress"
  PROVE  PlanInv'
  <1>1. PlanComposedOnce'
    BY DEF PlanInv, PlanComposedOnce, NoPlan, Reopens
  <1>2. BuildHasPlan'
    BY DEF PlanInv, BuildHasPlan, navrh_plan_materialized, Reopens
  <1>3. CompleteMeansAllDone'
    BY DEF PlanInv, CompleteMeansAllDone, programming_complete, navrh_plan_materialized, Reopens
  <1>4. OneTaskAtATime'
    BY DEF PlanInv, OneTaskAtATime, Reopens
  <1> QED BY <1>1, <1>2, <1>3, <1>4 DEF PlanInv

\* A settle that leaves the plan alone, or drops a task in progress, keeps PlanInv.
LEMMA SettlePlan ==
  ASSUME OwnInv, PlanInv, NEW r, RowOK(r), SettleTurn(r),
         r.stage = "programovanie" => row.stage = "programovanie",
         NEW ts \in [Task -> TaskStatus], TasksAfterSettle(ts),
         ts = tasks \/ \E t \in Task : tasks[t] = "in_progress" /\ ts = [tasks EXCEPT ![t] = "failed"],
         log' = log \/ \E k \in Classes \ {"compose", "complete"} : Say(k)
  PROVE  PlanInv'
  <1>0. LogOK(log) /\ tasks \in [Task -> TaskStatus]
    BY DEF OwnInv
  <1>1. /\ row'.stage = r.stage /\ turn' # "task"
        /\ turn' = "plan" => IsLatest(log', "compose")
    BY SettleOK DEF OwnInv
  <1>2. /\ Has(log', "complete") => Has(log, "complete")
        /\ IsLatest(log', "compose") => IsLatest(log, "compose")
    BY <1>0, SaidPlan
  <1>3. /\ \A t \in Task : \/ tasks'[t] = ts[t]
                           \/ ts[t] = "in_progress" /\ tasks'[t] = "todo"
        /\ turn' = "build" => \A t \in Task : tasks'[t] # "in_progress"
    BY TasksOK
  <1>4. row'.stage = "programovanie" => navrh_plan_materialized
    BY <1>1 DEF PlanInv, BuildHasPlan
  <1>5. IsLatest(log', "compose") \/ turn' = "plan" => NoPlan
    BY <1>1, <1>2 DEF PlanInv, PlanComposedOnce
  <1>6. CASE ts = tasks
    <2>1. Reopens(tasks, tasks')
      BY <1>3, <1>6 DEF Reopens
    <2> QED BY <1>1, <1>2, <1>3, <1>4, <1>5, <2>1, PlanKept
  <1>7. ASSUME NEW t \in Task, tasks[t] = "in_progress", ts = [tasks EXCEPT ![t] = "failed"]
        PROVE  PlanInv'
    <2>1. \A u \in Task : u # t => tasks[u] # "in_progress" /\ ts[u] = tasks[u]
      BY <1>0, <1>7 DEF PlanInv, OneTaskAtATime
    <2>2. \A u \in Task : tasks'[u] = ts[u] /\ ts[u] # "in_progress" /\ (ts[u] = "absent" <=> tasks[u] = "absent")
      BY <1>0, <1>3, <1>7, <2>1
    <2>3. ~Has(log, "complete") /\ ~NoPlan
      BY <1>7 DEF PlanInv, CompleteMeansAllDone, programming_complete, NoPlan
    <2>4. PlanComposedOnce' /\ CompleteMeansAllDone'
      BY <1>2, <1>5, <2>3 DEF PlanComposedOnce, CompleteMeansAllDone, programming_complete
    <2>5. BuildHasPlan'
      BY <1>4, <2>2 DEF BuildHasPlan, navrh_plan_materialized
    <2>6. OneTaskAtATime'
      BY <1>1, <2>2 DEF OneTaskAtATime
    <2> QED BY <2>4, <2>5, <2>6 DEF PlanInv
  <1> QED BY <1>6, <1>7

\* An action of the Manager that leaves the program point alone, changes the
\* plan by a reset at most and records no marker keeps PlanInv.
LEMMA RestPlan ==
  ASSUME OwnInv, PlanInv, UNCHANGED turn,
         tasks' = tasks \/ tasks' = reset_failed_tasks_to_todo,
         log' = log \/ \E k \in Classes \ {"compose", "complete"} : Say(k),
         row'.stage = "programovanie" => navrh_plan_materialized
  PROVE  PlanInv'
  <1>0. LogOK(log) /\ tasks \in [Task -> TaskStatus]
    BY DEF OwnInv
  <1>1. \A t \in Task : \/ tasks'[t] = tasks[t]
                        \/ tasks[t] = "failed" /\ tasks'[t] = "todo"
    BY <1>0, ResetOK
  <1>2. /\ Has(log', "complete") => Has(log, "complete")
        /\ IsLatest(log', "compose") => IsLatest(log, "compose")
    BY <1>0, SaidPlan
  <1>3. IsLatest(log', "compose") \/ turn' = "plan" => NoPlan
    BY <1>2 DEF PlanInv, PlanComposedOnce
  <1>4. turn' = "build" => \A t \in Task : tasks'[t] # "in_progress"
    BY <1>1 DEF PlanInv, OneTaskAtATime
  <1> QED BY <1>1, <1>2, <1>3, <1>4, PlanKept DEF Reopens

LEMMA PlanInit == Init => PlanInv
  BY DEF Init, PlanInv, PlanComposedOnce, BuildHasPlan, CompleteMeansAllDone, OneTaskAtATime,
         NoPlan, NoRow, EmptyLog, Has, IsLatest, programming_complete

\* The stage after _begin_dispatch is the stage before it.
LEMMA BeginKeepsStage ==
  ASSUME NEW r, r \in Rows
  PROVE  BeginDispatch(r).stage = r.stage /\ ArmConsult(r).stage = r.stage
  BY DEF BeginDispatch, ArmConsult, SetStatus, ClearBlockReasonOnUnblock,
         ClearDispatchOnSettle, Rows

\* Every action of the Manager keeps PlanInv.
LEMMA PlanManager == OwnInv /\ PlanInv /\ Manager => PlanInv'
  <1> SUFFICES ASSUME OwnInv, PlanInv, Manager PROVE PlanInv'
    OBVIOUS
  <1> USE DEF Classes
  <1>0. LogOK(log) /\ row \in Rows /\ tasks \in [Task -> TaskStatus]
    BY DEF OwnInv, RowOK
  <1>s. row.stage = "programovanie" => navrh_plan_materialized
    BY DEF PlanInv, BuildHasPlan
  <1>b. BeginDispatch(row).stage = row.stage /\ ArmConsult(row).stage = row.stage
    BY <1>0, BeginKeepsStage
  <1>v. \A v \in Statuses : SetStatus(row, v).stage = row.stage
    BY <1>0 DEF SetStatus, ClearBlockReasonOnUnblock, ClearDispatchOnSettle, Rows
  <1>1. CASE Start
    <2>1. BeginDispatch(NewRow).stage = "priprava"
      BY DEF BeginDispatch, NewRow, NoRow, SetStatus, ClearBlockReasonOnUnblock,
             ClearDispatchOnSettle
    <2> QED BY <1>1, <2>1, RestPlan DEF Start
  <1>2. CASE ApproveSpec
    BY <1>2, <1>s, <1>v, RestPlan DEF ApproveSpec, Statuses
  <1>3. CASE ZostavPlan
    <2>1. NoPlan /\ turn = "idle"
      BY <1>3, <1>0, GuardIdle DEF ZostavPlan, CanZostavPlan, navrh_plan_materialized, NoPlan
    <2>2. Has(log', "complete") => Has(log, "complete")
      BY <1>3, <1>0, SaidPlan DEF ZostavPlan
    <2>3. Reopens(tasks, tasks')
      BY <1>3 DEF ZostavPlan, Reopens
    <2> QED BY <1>3, <1>s, <1>b, <2>1, <2>2, <2>3, PlanKept DEF ZostavPlan
  <1>4. CASE SpustitStavbu
    BY <1>4, RestPlan DEF SpustitStavbu, CanSpustitStavbu
  <1>5. CASE Skontrolovat
    BY <1>5, <1>s, <1>b, RestPlan DEF Skontrolovat
  <1>6. CASE Hotovo
    <2>1. row'.stage = "done"
      BY <1>6, SignedRowOK DEF Hotovo, OwnInv
    <2> QED BY <1>6, <2>1, RestPlan DEF Hotovo, Sign
  <1>7. CASE OveritZnovu
    <2>1. [row EXCEPT !.stage = "priprava"] \in Rows
      BY <1>0 DEF Rows, Stages
    <2>2. row'.stage = "priprava"
      BY <1>7, <1>0, <2>1, BeginKeepsStage DEF OveritZnovu, Rows
    <2> QED BY <1>7, <2>2, RestPlan DEF OveritZnovu
  <1>8. CASE Uprav
    BY <1>8, <1>s, <1>b, RestPlan DEF Uprav
  <1>9. CASE Ask
    BY <1>9, <1>s, <1>b, RestPlan DEF Ask
  <1>10. CASE Answer
    BY <1>10, <1>s, <1>b, RestPlan DEF Answer
  <1>11. CASE Pokracovat
    BY <1>11, <1>s, <1>b, RestPlan DEF Pokracovat
  <1>12. CASE Pause
    BY <1>12, <1>s, <1>v, RestPlan DEF Pause, Statuses
  <1>13. CASE RelayEnqueue
    BY <1>13, <1>s, RestPlan DEF RelayEnqueue
  <1>14. CASE RelayConsult
    BY <1>14, <1>s, <1>b, RestPlan DEF RelayConsult
  <1> QED BY <1>1, <1>2, <1>3, <1>4, <1>5, <1>6, <1>7, <1>8, <1>9, <1>10, <1>11, <1>12,
             <1>13, <1>14 DEF Manager

\* Every step of the dispatch task keeps PlanInv.
LEMMA PlanEngine == OwnInv /\ PlanInv /\ Engine => PlanInv'
  <1> SUFFICES ASSUME OwnInv, PlanInv, Engine PROVE PlanInv'
    OBVIOUS
  <1> USE DEF Classes
  <1>0. /\ LogOK(log) /\ RowOK(row) /\ tasks \in [Task -> TaskStatus]
        /\ TurnOwnsRow
    BY DEF OwnInv
  <1>s. row.stage = "programovanie" => navrh_plan_materialized
    BY DEF PlanInv, BuildHasPlan
  <1>b. \A b \in {"agent_question", "parse_exhaustion", "framework_issue", "agent_error",
                  "system_error"} :
          RowOK(Block(row, b)) /\ Block(row, b).stage = row.stage
    BY <1>0, BlockOK DEF BlockReasons
  <1>a. RowOK(SetStatus(row, "awaiting_manazer"))
          /\ SetStatus(row, "awaiting_manazer").stage = row.stage
    BY <1>0, SetStatusOK
  <1>1. CASE StartTurn
    <2>1. /\ \A t \in Task : \/ tasks'[t] = tasks[t]
                             \/ tasks[t] = "in_progress" /\ tasks'[t] = "todo"
          /\ turn' = "build" => \A t \in Task : tasks'[t] # "in_progress"
      BY <1>1, <1>0, TasksOK DEF StartTurn
    <2>2. turn' # "task" /\ (turn' = "plan" => IsLatest(log, "compose"))
      BY <1>1, RouteOK DEF StartTurn
    <2>3. IsLatest(log', "compose") \/ turn' = "plan" => NoPlan
      BY <1>1, <2>2 DEF StartTurn, PlanInv, PlanComposedOnce
    <2>4. Reopens(tasks, tasks')
      BY <2>1 DEF Reopens
    <2> QED BY <1>1, <1>s, <2>1, <2>2, <2>3, <2>4, PlanKept DEF StartTurn
  <1>2. CASE ChatTurn
    BY <1>2, <1>0, <1>a, <1>b, SettlePlan DEF ChatTurn
  <1>3. CASE PlanWritten
    <2>1. PICK n \in Task :
            TasksAfterSettle([t \in Task |-> IF t <= n THEN "todo" ELSE "absent"])
      BY <1>3 DEF PlanWritten
    <2> DEFINE ts == [t \in Task |-> IF t <= n THEN "todo" ELSE "absent"]
    <2>2. \A t \in Task : tasks'[t] = ts[t]
      <3>1. ts \in [Task -> TaskStatus]
        BY DEF TaskStatus
      <3> QED BY <2>1, <3>1, TasksOK
    <2>3. /\ \A t \in Task : tasks'[t] \in {"todo", "absent"}
          /\ tasks'[n] = "todo"
      BY <2>2 DEF Task
    <2>4. NoPlan
      BY <1>3 DEF PlanWritten, PlanInv, PlanComposedOnce
    <2>5. ~Has(log', "complete") /\ ~IsLatest(log', "compose")
      <3>1. ~Has(log, "complete")
        BY <2>4 DEF NoPlan, PlanInv, CompleteMeansAllDone, programming_complete,
                    navrh_plan_materialized
      <3> QED BY <1>3, <1>0, <3>1, SaidPlan DEF PlanWritten
    <2>6. turn' \notin {"task", "plan"}
      BY <1>3, <1>0, <1>a, <2>5, SettleOK DEF PlanWritten, OwnInv
    <2> QED BY <2>3, <2>5, <2>6
            DEF PlanInv, PlanComposedOnce, BuildHasPlan, navrh_plan_materialized,
                CompleteMeansAllDone, programming_complete, OneTaskAtATime
  <1>4. CASE PlanFails
    BY <1>4, <1>0, <1>a, <1>b, SettlePlan DEF PlanFails
  <1>5. CASE KontrolaSmoke
    <2>1. row.stage # "programovanie" /\ turn # "plan"
      BY <1>5, <1>0 DEF KontrolaSmoke, TurnOwnsRow
    <2>2. /\ Has(log', "complete") => Has(log, "complete")
          /\ ~IsLatest(log', "compose")
      BY <1>5, <1>0, SaidPlan DEF KontrolaSmoke
    <2> QED BY <1>5, <1>s, <2>1, <2>2, PlanKept DEF KontrolaSmoke, Reopens
  <1>6. CASE KontrolaReport
    <2>1. row.stage # "programovanie" /\ turn # "plan"
      BY <1>6, <1>0 DEF KontrolaReport, TurnOwnsRow
    <2>2. /\ Has(log', "complete") => Has(log, "complete")
          /\ ~IsLatest(log', "compose")
      BY <1>6, <1>0, SaidPlan DEF KontrolaReport
    <2> QED BY <1>6, <1>s, <2>1, <2>2, PlanKept DEF KontrolaReport, Reopens
  <1>7. CASE KontrolaNoReport
    BY <1>7, <1>0, <1>b, SettlePlan DEF KontrolaNoReport
  <1>8. CASE KontrolaRed
    BY <1>8, <1>0, <1>a, SettlePlan DEF KontrolaRed
  <1>9. CASE KontrolaGreen
    BY <1>9, <1>0, <1>a, SettlePlan DEF KontrolaGreen
  <1>10. CASE KontrolaResigns
    BY <1>10, <1>0, SignedRowOK, SettlePlan DEF KontrolaResigns, Sign
  <1>11. CASE BuildLeaves
    BY <1>11, <1>0, SettlePlan DEF BuildLeaves
  <1>12. CASE BuildTokenStop
    <2>1. RowOK(SetStatus(row, "paused")) /\ SetStatus(row, "paused").stage = row.stage
      BY <1>12, <1>0, SetStatusOK DEF BuildTokenStop, TurnOwnsRow
    <2> QED BY <1>12, <1>0, <2>1, SettlePlan DEF BuildTokenStop
  <1>13. CASE BuildOpenFindings
    BY <1>13, <1>0, <1>b, SettlePlan DEF BuildOpenFindings
  <1>14. CASE BuildCompletes
    <2> DEFINE r == SetStatus([row EXCEPT !.stage = "priprava"], "awaiting_manazer")
    <2>1. RowOK([row EXCEPT !.stage = "priprava"]) /\ [row EXCEPT !.stage = "priprava"].stage = "priprava"
      BY <1>14, <1>0 DEF BuildCompletes, RowOK, Rows, Stages
    <2>2. RowOK(r) /\ r.stage = "priprava"
      BY <2>1, SetStatusOK
    <2>3. \A t \in Task : tasks[t] \in {"absent", "done"}
      BY <1>14, <1>0 DEF BuildCompletes, TodoTasks, build_open_findings, TaskStatus
    <2>4. navrh_plan_materialized
      BY <1>14, <1>0, <1>s DEF BuildCompletes, TurnOwnsRow
    <2>5. \A t \in Task : tasks'[t] = tasks[t]
      BY <1>14, <1>0, <2>3, TasksOK DEF BuildCompletes
    <2>6. ~IsLatest(log', "compose")
      BY <1>14, <1>0, SaidPlan DEF BuildCompletes
    <2>7. row'.stage = "priprava" /\ turn' \notin {"task", "plan"}
      BY <1>14, <2>2, <2>6, SettleOK DEF BuildCompletes, OwnInv
    <2> QED BY <2>3, <2>4, <2>5, <2>6, <2>7
            DEF PlanInv, PlanComposedOnce, BuildHasPlan, navrh_plan_materialized,
                CompleteMeansAllDone, OneTaskAtATime
  <1>15. CASE BuildNoBaseline
    BY <1>15, <1>0, <1>a, SettlePlan DEF BuildNoBaseline
  <1>16. CASE BuildPicksTask
    <2>1. PICK t \in Task : IsNextTodo(t) /\ tasks' = [tasks EXCEPT ![t] = "in_progress"]
      BY <1>16 DEF BuildPicksTask
    <2>2. tasks[t] = "todo"
      BY <2>1 DEF IsNextTodo, TodoTasks
    <2>3. /\ tasks'[t] = "in_progress"
          /\ \A u \in Task : u # t => tasks'[u] = tasks[u] /\ tasks[u] # "in_progress"
      BY <1>16, <1>0, <2>1 DEF BuildPicksTask, PlanInv, OneTaskAtATime
    <2>4. ~Has(log', "complete") /\ ~IsLatest(log', "compose")
      <3>1. ~Has(log, "complete")
        BY <2>2 DEF PlanInv, CompleteMeansAllDone, programming_complete
      <3> QED BY <1>16, <1>0, <3>1, SaidPlan DEF BuildPicksTask
    <2> QED BY <1>16, <2>3, <2>4
            DEF BuildPicksTask, PlanInv, PlanComposedOnce, BuildHasPlan, navrh_plan_materialized,
                CompleteMeansAllDone, programming_complete, OneTaskAtATime
  <1>17. ASSUME NEW t \in Task, TaskDone(t) PROVE PlanInv'
    <2>1. /\ tasks'[t] = "done"
          /\ \A u \in Task : u # t => tasks'[u] = tasks[u] /\ tasks[u] # "in_progress"
      BY <1>17, <1>0 DEF TaskDone, Current, PlanInv, OneTaskAtATime
    <2>2. ~Has(log', "complete") /\ ~IsLatest(log', "compose")
      <3>1. ~Has(log, "complete")
        BY <1>17 DEF TaskDone, Current, PlanInv, CompleteMeansAllDone, programming_complete
      <3> QED BY <1>17, <1>0, <3>1, SaidPlan DEF TaskDone
    <2> QED BY <1>17, <2>1, <2>2
            DEF TaskDone, PlanInv, PlanComposedOnce, BuildHasPlan, navrh_plan_materialized,
                CompleteMeansAllDone, programming_complete, OneTaskAtATime
  <1>18. ASSUME NEW t \in Task, TaskFails(t) PROVE PlanInv'
    <2>1. [tasks EXCEPT ![t] = "failed"] \in [Task -> TaskStatus]
      BY <1>0 DEF TaskStatus
    <2> QED BY <1>18, <1>0, <1>a, <2>1, SettlePlan DEF TaskFails, Current
  <1>19. ASSUME NEW t \in Task, TaskStops(t) PROVE PlanInv'
    BY <1>19, <1>0, <1>a, <1>b, SettlePlan DEF TaskStops
  <1>20. CASE ConsultTurn
    <2>1. row.stage = "done"
      BY <1>20, <1>0 DEF ConsultTurn, TurnOwnsRow
    <2>2. RowOK(SetStatus(row, "done")) /\ SetStatus(row, "done").stage = "done"
      BY <1>0, <2>1, SetStatusOK
    <2> QED BY <1>20, <1>0, <2>2, SettlePlan DEF ConsultTurn
  <1> QED BY <1>1, <1>2, <1>3, <1>4, <1>5, <1>6, <1>7, <1>8, <1>9, <1>10, <1>11, <1>12,
             <1>13, <1>14, <1>15, <1>16, <1>17, <1>18, <1>19, <1>20 DEF Engine

\* An exception, a restart or a moving HEAD keeps PlanInv.
LEMMA PlanEnvironment == OwnInv /\ PlanInv /\ (Crash \/ Restart \/ HeadMoves) => PlanInv'
  <1> SUFFICES ASSUME OwnInv, PlanInv, Crash \/ Restart \/ HeadMoves PROVE PlanInv'
    OBVIOUS
  <1> USE DEF Classes
  <1>0. LogOK(log) /\ RowOK(row)
    BY DEF OwnInv
  <1>s. row.stage = "programovanie" => navrh_plan_materialized
    BY DEF PlanInv, BuildHasPlan
  <1>1. ASSUME Crash \/ Restart PROVE PlanInv'
    <2>1. row'.stage = row.stage /\ tasks' = tasks /\ turn' = "idle"
      BY <1>1, <1>0, BlockOK, SetStatusOK DEF Crash, Restart, BlockReasons
    <2>2. \/ log' = log
          \/ Say("other")
      BY <1>1 DEF Crash, Restart
    <2>3. /\ Has(log', "complete") => Has(log, "complete")
          /\ IsLatest(log', "compose") => IsLatest(log, "compose")
      BY <1>0, <2>2, SaidPlan
    <2>4. IsLatest(log', "compose") \/ turn' = "plan" => NoPlan
      BY <2>1, <2>3 DEF PlanInv, PlanComposedOnce
    <2> QED BY <1>s, <2>1, <2>3, <2>4, PlanKept DEF Reopens
  <1>2. CASE HeadMoves
    BY <1>2 DEF HeadMoves, PlanInv, PlanComposedOnce, NoPlan, BuildHasPlan, OneTaskAtATime,
                CompleteMeansAllDone, programming_complete, navrh_plan_materialized
  <1> QED BY <1>1, <1>2

LEMMA PlanNext == OwnInv /\ PlanInv /\ [Next]_vars => PlanInv'
  <1>1. ASSUME PlanInv, UNCHANGED vars PROVE PlanInv'
    BY <1>1 DEF vars, PlanInv, PlanComposedOnce, NoPlan, BuildHasPlan, OneTaskAtATime,
                CompleteMeansAllDone, programming_complete, navrh_plan_materialized
  <1> QED BY <1>1, PlanManager, PlanEngine, PlanEnvironment DEF Next

\* PlanInv is an invariant.
THEOREM Planned == Spec => []PlanInv
  BY Owned, PlanInit, PlanNext, OwnInit, PTL DEF Spec

\* Once the build is recorded complete, no task of its plan is open, failed or
\* abandoned, whatever restarts and corrections follow (_build_open_findings).
THEOREM CompletionHolds == Spec => []CompleteMeansAllDone
  <1>1. PlanInv => CompleteMeansAllDone
    BY DEF PlanInv
  <1> QED BY <1>1, Planned, PTL

\* The build loop works on one task at a time (the orphan reclaim at the head
\* of _run_build_round).
THEOREM OneTask == Spec => []OneTaskAtATime
  <1>1. PlanInv => OneTaskAtATime
    BY DEF PlanInv
  <1> QED BY <1>1, Planned, PTL

-----------------------------------------------------------------------------
(* SignInv: what a signature and the terminal stage vouch for *)

SignInv ==
  /\ Has(log, "check_auto") => Has(log, "hotovo")
  /\ Has(log, "hotovo") => Has(log, "approval") /\ Has(log, "complete")
  /\ row.stage = "done" => manazer_signoff

\* A step that records no signature, no completion and no marker of a re-check,
\* and does not enter the terminal stage, keeps SignInv.
LEMMA SignKept ==
  ASSUME OwnInv, SignInv, row'.stage = "done" => row.stage = "done",
         log' = log \/ \E k \in Classes \ {"check_auto", "hotovo", "complete"} : Say(k)
  PROVE  SignInv'
  <1>0. LogOK(log)
    BY DEF OwnInv
  <1>1. CASE log' = log
    BY <1>1 DEF SignInv, manazer_signoff, NotOutrankedBy
  <1>2. ASSUME NEW k \in Classes \ {"check_auto", "hotovo", "complete"}, Say(k)
        PROVE  SignInv'
    <2>1. \A j : Has(log', j) <=> j = k \/ Has(log, j)
      BY <1>0, <1>2, RecordHas DEF Say
    <2>2. Newer(log', "complete", "hotovo") => Newer(log, "complete", "hotovo")
      BY <1>0, <1>2, RecordNewer DEF Say
    <2> QED BY <1>2, <2>1, <2>2 DEF SignInv, manazer_signoff, NotOutrankedBy
  <1> QED BY <1>1, <1>2

LEMMA SettleSign ==
  ASSUME OwnInv, SignInv, NEW r, RowOK(r), SettleTurn(r), r.stage = row.stage,
         log' = log \/ \E k \in Classes \ {"check_auto", "hotovo", "complete"} : Say(k)
  PROVE  SignInv'
  <1>1. row'.stage = row.stage
    BY SettleOK DEF OwnInv
  <1> QED BY <1>1, SignKept

\* A signature on an approved and complete build establishes SignInv.
LEMMA SignedOK ==
  ASSUME OwnInv, Has(log, "approval"), Has(log, "complete"), Say("hotovo")
  PROVE  SignInv'
  <1>0. LogOK(log)
    BY DEF OwnInv
  <1> USE DEF Classes
  <1>1. \A j : Has(log', j) <=> j = "hotovo" \/ Has(log, j)
    BY <1>0, RecordHas DEF Say
  <1>2. ~Newer(log', "complete", "hotovo")
    BY <1>0, RecordNewer DEF Say
  <1> QED BY <1>1, <1>2 DEF SignInv, manazer_signoff, NotOutrankedBy

LEMMA SignInit == Init => SignInv
  BY DEF Init, SignInv, NoRow, EmptyLog, Has

\* Every action of the Manager keeps SignInv.
LEMMA SignManager == OwnInv /\ SignInv /\ Manager => SignInv'
  <1> SUFFICES ASSUME OwnInv, SignInv, Manager PROVE SignInv'
    OBVIOUS
  <1> USE DEF Classes
  <1>0. LogOK(log) /\ row \in Rows
    BY DEF OwnInv, RowOK
  <1>b. BeginDispatch(row).stage = row.stage /\ ArmConsult(row).stage = row.stage
    BY <1>0, BeginKeepsStage
  <1>v. \A v \in Statuses : SetStatus(row, v).stage = row.stage
    BY <1>0 DEF SetStatus, ClearBlockReasonOnUnblock, ClearDispatchOnSettle, Rows
  <1>m. \A s \in Stages : BeginDispatch([row EXCEPT !.stage = s]).stage = s
    <2> SUFFICES ASSUME NEW s \in Stages PROVE BeginDispatch([row EXCEPT !.stage = s]).stage = s
      OBVIOUS
    <2>1. [row EXCEPT !.stage = s] \in Rows /\ [row EXCEPT !.stage = s].stage = s
      BY <1>0 DEF Rows
    <2> QED BY <2>1, BeginKeepsStage
  <1>1. CASE Start
    <2>1. BeginDispatch(NewRow).stage = "priprava"
      BY DEF BeginDispatch, NewRow, NoRow, SetStatus, ClearBlockReasonOnUnblock,
             ClearDispatchOnSettle
    <2> QED BY <1>1, <2>1, SignKept DEF Start
  <1>2. CASE ApproveSpec
    BY <1>2, <1>v, SignKept DEF ApproveSpec, Statuses
  <1>3. CASE ZostavPlan
    BY <1>3, <1>b, SignKept DEF ZostavPlan
  <1>4. CASE SpustitStavbu
    BY <1>4, <1>m, SignKept DEF SpustitStavbu, Stages
  <1>5. CASE Skontrolovat
    BY <1>5, <1>b, SignKept DEF Skontrolovat
  <1>6. CASE Hotovo
    BY <1>6, SignedOK
       DEF Hotovo, CanHotovo, Sign, spec_approved, kontrola_done, programming_complete
  <1>7. CASE OveritZnovu
    <2>1. \A j : Has(log', j) <=> j = "check_auto" \/ Has(log, j)
      BY <1>7, <1>0, RecordHas DEF OveritZnovu, Say
    <2>2. Has(log, "hotovo")
      BY <1>7 DEF OveritZnovu, CanOveritZnovu, hotovo_drift, manazer_signoff, NotOutrankedBy
    <2>3. row'.stage = "priprava"
      BY <1>7, <1>m DEF OveritZnovu, Stages
    <2> QED BY <2>1, <2>2, <2>3 DEF SignInv
  <1>8. CASE Uprav
    BY <1>8, <1>b, SignKept DEF Uprav
  <1>9. CASE Ask
    BY <1>9, <1>b, SignKept DEF Ask
  <1>10. CASE Answer
    BY <1>10, <1>b, SignKept DEF Answer
  <1>11. CASE Pokracovat
    BY <1>11, <1>b, SignKept DEF Pokracovat
  <1>12. CASE Pause
    BY <1>12, <1>v, SignKept DEF Pause, Statuses
  <1>13. CASE RelayEnqueue
    BY <1>13, SignKept DEF RelayEnqueue
  <1>14. CASE RelayConsult
    BY <1>14, <1>b, SignKept DEF RelayConsult
  <1> QED BY <1>1, <1>2, <1>3, <1>4, <1>5, <1>6, <1>7, <1>8, <1>9, <1>10, <1>11, <1>12,
             <1>13, <1>14 DEF Manager

\* Every step of the dispatch task keeps SignInv.
LEMMA SignEngine == OwnInv /\ SignInv /\ Engine => SignInv'
  <1> SUFFICES ASSUME OwnInv, SignInv, Engine PROVE SignInv'
    OBVIOUS
  <1> USE DEF Classes
  <1>0. LogOK(log) /\ RowOK(row) /\ TurnOwnsRow
    BY DEF OwnInv
  <1>b. \A b \in {"agent_question", "parse_exhaustion", "framework_issue", "agent_error",
                  "system_error"} :
          RowOK(Block(row, b)) /\ Block(row, b).stage = row.stage
    BY <1>0, BlockOK DEF BlockReasons
  <1>a. RowOK(SetStatus(row, "awaiting_manazer"))
          /\ SetStatus(row, "awaiting_manazer").stage = row.stage
    BY <1>0, SetStatusOK
  <1>1. CASE StartTurn
    BY <1>1, SignKept DEF StartTurn
  <1>2. CASE ChatTurn
    BY <1>2, <1>a, <1>b, SettleSign DEF ChatTurn
  <1>3. CASE PlanWritten
    BY <1>3, <1>a, SettleSign DEF PlanWritten
  <1>4. CASE PlanFails
    BY <1>4, <1>a, <1>b, SettleSign DEF PlanFails
  <1>5. CASE KontrolaSmoke
    BY <1>5, SignKept DEF KontrolaSmoke
  <1>6. CASE KontrolaReport
    BY <1>6, SignKept DEF KontrolaReport
  <1>7. CASE KontrolaNoReport
    BY <1>7, <1>b, SettleSign DEF KontrolaNoReport
  <1>8. CASE KontrolaRed
    BY <1>8, <1>a, SettleSign DEF KontrolaRed
  <1>9. CASE KontrolaGreen
    BY <1>9, <1>a, SettleSign DEF KontrolaGreen
  <1>10. CASE KontrolaResigns
    <2>1. Has(log, "approval") /\ Has(log, "complete")
      BY <1>10 DEF KontrolaResigns, auto_hotovo, NotOutrankedBy, SignInv
    <2> QED BY <1>10, <2>1, SignedOK DEF KontrolaResigns, Sign
  <1>11. CASE BuildLeaves
    BY <1>11, <1>0, SettleSign DEF BuildLeaves
  <1>12. CASE BuildTokenStop
    <2>1. RowOK(SetStatus(row, "paused")) /\ SetStatus(row, "paused").stage = row.stage
      BY <1>12, <1>0, SetStatusOK DEF BuildTokenStop, TurnOwnsRow
    <2> QED BY <1>12, <2>1, SettleSign DEF BuildTokenStop
  <1>13. CASE BuildOpenFindings
    BY <1>13, <1>b, SettleSign DEF BuildOpenFindings
  <1>14. CASE BuildCompletes
    <2> DEFINE r == SetStatus([row EXCEPT !.stage = "priprava"], "awaiting_manazer")
    <2>1. RowOK([row EXCEPT !.stage = "priprava"]) /\ [row EXCEPT !.stage = "priprava"].stage = "priprava"
      BY <1>14, <1>0 DEF BuildCompletes, RowOK, Rows, Stages
    <2>2. RowOK(r) /\ r.stage = "priprava"
      BY <2>1, SetStatusOK
    <2>3. row'.stage = "priprava"
      BY <1>14, <2>2, SettleOK DEF BuildCompletes, OwnInv
    <2>4. \A j : Has(log', j) <=> j = "complete" \/ Has(log, j)
      BY <1>14, <1>0, RecordHas DEF BuildCompletes, Say
    <2> QED BY <2>3, <2>4 DEF SignInv
  <1>15. CASE BuildNoBaseline
    BY <1>15, <1>a, SettleSign DEF BuildNoBaseline
  <1>16. CASE BuildPicksTask
    BY <1>16, SignKept DEF BuildPicksTask
  <1>17. ASSUME NEW t \in Task, TaskDone(t) PROVE SignInv'
    BY <1>17, SignKept DEF TaskDone
  <1>18. ASSUME NEW t \in Task, TaskFails(t) PROVE SignInv'
    BY <1>18, <1>a, SettleSign DEF TaskFails
  <1>19. ASSUME NEW t \in Task, TaskStops(t) PROVE SignInv'
    BY <1>19, <1>a, <1>b, SettleSign DEF TaskStops
  <1>20. CASE ConsultTurn
    <2>1. RowOK(SetStatus(row, "done")) /\ SetStatus(row, "done").stage = row.stage
      BY <1>20, <1>0, SetStatusOK DEF ConsultTurn, TurnOwnsRow
    <2> QED BY <1>20, <2>1, SettleSign DEF ConsultTurn
  <1> QED BY <1>1, <1>2, <1>3, <1>4, <1>5, <1>6, <1>7, <1>8, <1>9, <1>10, <1>11, <1>12,
             <1>13, <1>14, <1>15, <1>16, <1>17, <1>18, <1>19, <1>20 DEF Engine

LEMMA SignNext == OwnInv /\ SignInv /\ [Next]_vars => SignInv'
  <1>1. ASSUME OwnInv, SignInv, Crash \/ Restart PROVE SignInv'
    <2>1. row'.stage = row.stage
      BY <1>1, BlockOK, SetStatusOK DEF Crash, Restart, BlockReasons, OwnInv
    <2>2. log' = log \/ Say("other")
      BY <1>1 DEF Crash, Restart
    <2> QED BY <1>1, <2>1, <2>2, SignKept DEF Classes
  <1>2. ASSUME OwnInv, SignInv, HeadMoves PROVE SignInv'
    BY <1>2, SignKept DEF HeadMoves
  <1>3. ASSUME OwnInv, SignInv, UNCHANGED vars PROVE SignInv'
    BY <1>3, SignKept DEF vars
  <1> QED BY <1>1, <1>2, <1>3, SignManager, SignEngine DEF Next

\* SignInv is an invariant.
THEOREM Signed == Spec => []SignInv
  BY Owned, OwnInit, SignInit, SignNext, PTL DEF Spec

\* A version on the terminal stage is approved, completely programmed, and
\* signed after its last completed build (the preconditions of hotovo).
THEOREM DoneStaysSigned == Spec => []DoneIsSigned
  <1>1. SignInv => DoneIsSigned
    BY DEF SignInv, DoneIsSigned, manazer_signoff, NotOutrankedBy, spec_approved,
           programming_complete
  <1> QED BY <1>1, Signed, PTL

-----------------------------------------------------------------------------
(* Action properties *)

\* A step never takes a task back from done: resets look at failed tasks, the
\* reclaim at tasks in progress, and a plan is written over an empty one only.
LEMMA DoneTaskStep ==
  ASSUME OwnInv, PlanInv, [Next]_vars, NEW t \in Task, tasks[t] = "done"
  PROVE  tasks'[t] = "done"
  <1>0. tasks \in [Task -> TaskStatus]
    BY DEF OwnInv
  <1>r. TasksAfterSettle(tasks) => tasks'[t] = "done"
    BY <1>0, TasksOK
  <1>1. CASE UNCHANGED tasks
    BY <1>1
  <1>2. CASE Uprav \/ Pokracovat
    <2>1. tasks' = tasks \/ tasks' = reset_failed_tasks_to_todo
      BY <1>2 DEF Uprav, Pokracovat
    <2> QED BY <1>0, <2>1, ResetOK
  <1>3. CASE PlanWritten
    BY <1>3 DEF PlanWritten, PlanInv, PlanComposedOnce, NoPlan
  <1>4. CASE BuildPicksTask
    BY <1>0, <1>4 DEF BuildPicksTask, IsNextTodo, TodoTasks
  <1>5. ASSUME NEW u \in Task, TaskDone(u) PROVE tasks'[t] = "done"
    BY <1>0, <1>5 DEF TaskDone
  <1>6. ASSUME NEW u \in Task, TaskFails(u) PROVE tasks'[t] = "done"
    <2>1. u # t /\ [tasks EXCEPT ![u] = "failed"] \in [Task -> TaskStatus]
      BY <1>0, <1>6 DEF TaskFails, Current, TaskStatus
    <2> QED BY <1>0, <1>6, <2>1, TasksOK DEF TaskFails
  <1>7. Manager => UNCHANGED tasks \/ Uprav \/ Pokracovat
    BY DEF Manager, Start, ApproveSpec, ZostavPlan, SpustitStavbu, Skontrolovat, Hotovo,
           OveritZnovu, Ask, Answer, Pause, RelayEnqueue, RelayConsult
  <1>8. Engine => \/ UNCHANGED tasks \/ TasksAfterSettle(tasks)
                  \/ PlanWritten \/ BuildPicksTask
                  \/ \E u \in Task : TaskDone(u) \/ TaskFails(u)
    BY DEF Engine, StartTurn, ChatTurn, PlanFails, KontrolaSmoke, KontrolaReport,
           KontrolaNoReport, KontrolaRed, KontrolaGreen, KontrolaResigns, BuildLeaves,
           BuildTokenStop, BuildOpenFindings, BuildCompletes, BuildNoBaseline, TaskStops,
           ConsultTurn
  <1>9. Crash \/ Restart \/ HeadMoves => UNCHANGED tasks
    BY DEF Crash, Restart, HeadMoves
  <1> QED BY <1>r, <1>1, <1>2, <1>3, <1>4, <1>5, <1>6, <1>7, <1>8, <1>9 DEF Next, vars

\* Work that passed its self-check is never redone nor lost (task statuses).
THEOREM DoneTaskKept == Spec => DoneTaskStaysDone
  <1>1. OwnInv /\ PlanInv /\ [Next]_vars
          => [\A t \in Task : tasks[t] = "done" => tasks'[t] = "done"]_vars
    BY DoneTaskStep
  <1> QED BY <1>1, Owned, Planned, PTL DEF Spec, DoneTaskStaysDone

\* The steps that leave the terminal stage.
LEMMA DoneLeftStep ==
  ASSUME OwnInv, PlanInv, SignInv, [Next]_vars, row.stage = "done", row'.stage # "done"
  PROVE  hotovo_drift
  <1>0. RowOK(row) /\ row \in Rows /\ TurnOwnsRow
    BY DEF OwnInv, RowOK
  <1>b. BeginDispatch(row).stage = "done" /\ ArmConsult(row).stage = "done"
    BY <1>0, BeginKeepsStage
  <1>1. ASSUME Manager PROVE hotovo_drift
    <2>1. ~Start /\ ~ApproveSpec /\ ~Pause /\ ~RelayEnqueue
      BY <1>0 DEF RowOK, Start, Started, ApproveSpec, CanApproveSpec, Pause, PassesGuards,
                  RelayEnqueue
    <2>2. ~SpustitStavbu
      <3>1. /\ navrh_plan_materialized
            /\ \A t \in Task : tasks[t] \in {"absent", "done"}
        BY DEF SignInv, manazer_signoff, NotOutrankedBy, PlanInv, CompleteMeansAllDone,
               programming_complete
      <3>2. build_started
        BY <3>1 DEF build_started, navrh_plan_materialized
      <3> QED BY <3>2 DEF SpustitStavbu, CanSpustitStavbu
    <2>3. ~(ZostavPlan \/ Skontrolovat \/ Uprav \/ Ask \/ Answer \/ Pokracovat \/ RelayConsult)
      BY <1>b DEF ZostavPlan, Skontrolovat, Uprav, Ask, Answer, Pokracovat, RelayConsult
    <2>4. ~Hotovo
      BY DEF Hotovo, CanHotovo
    <2>5. OveritZnovu => hotovo_drift
      BY DEF OveritZnovu, CanOveritZnovu
    <2> QED BY <1>1, <2>1, <2>2, <2>3, <2>4, <2>5 DEF Manager
  <1>2. ASSUME Engine PROVE FALSE
    <2>1. CASE StartTurn
      BY <2>1 DEF StartTurn
    <2>2. CASE ConsultTurn
      <3>1. RowOK(SetStatus(row, "done")) /\ SetStatus(row, "done").stage = "done"
        BY <1>0, SetStatusOK
      <3> QED BY <2>2, <3>1, SettleOK DEF ConsultTurn, OwnInv
    <2>3. CASE turn \notin {"idle", "consult"}
      BY <1>0, <2>3 DEF TurnOwnsRow
    <2> QED BY <1>2, <2>1, <2>2, <2>3
            DEF Engine, ChatTurn, PlanWritten, PlanFails, KontrolaSmoke, KontrolaReport,
                KontrolaNoReport, KontrolaRed, KontrolaGreen, KontrolaResigns, BuildLeaves,
                BuildTokenStop, BuildOpenFindings, BuildCompletes, BuildNoBaseline,
                BuildPicksTask, TaskDone, TaskFails, TaskStops, Current
  <1>3. ASSUME Crash \/ Restart \/ HeadMoves PROVE FALSE
    BY <1>0, <1>3, BlockOK, SetStatusOK DEF Crash, Restart, HeadMoves, BlockReasons
  <1>4. ~UNCHANGED vars
    BY DEF vars
  <1> QED BY <1>1, <1>2, <1>3, <1>4 DEF Next

\* A finished version is re-opened only when the signed code moved
\* (apply_action overit_znovu; nothing else leads off the terminal stage).
THEOREM DoneLeftOnDrift == Spec => DoneLeftOnlyOnDrift
  <1>1. OwnInv /\ PlanInv /\ SignInv /\ [Next]_vars
          => [row.stage = "done" /\ row'.stage # "done" => hotovo_drift]_vars
    BY DoneLeftStep
  <1> QED BY <1>1, Owned, Planned, Signed, PTL DEF Spec, DoneLeftOnlyOnDrift

\* The steps that put a paused build back to work when no relay waits.
LEMMA PausedStep ==
  ASSUME OwnInv, [Next]_vars, row.status = "paused", row'.status = "agent_working", queue = 0
  PROVE  Pokracovat \/ Uprav
  <1>0. RowOK(row) /\ TurnOwnsRow /\ row.stage = "programovanie"
    BY DEF OwnInv, RowOK
  <1>1. ASSUME Manager PROVE Pokracovat \/ Uprav
    <2>1. ~(Start \/ RelayEnqueue \/ RelayConsult \/ Pause)
      BY <1>0 DEF Start, Started, RelayEnqueue, RelayConsult, Pause, PassesGuards
    <2>2. ~(ApproveSpec \/ ZostavPlan \/ SpustitStavbu \/ Skontrolovat \/ Hotovo
            \/ OveritZnovu \/ Ask \/ Answer)
      BY DEF ApproveSpec, CanApproveSpec, ZostavPlan, CanZostavPlan, SpustitStavbu,
             CanSpustitStavbu, Skontrolovat, CanSkontrolovat, Hotovo, CanHotovo, OveritZnovu,
             CanOveritZnovu, Ask, Answer, PassesGuards
    <2> QED BY <1>1, <2>1, <2>2 DEF Manager
  <1>2. ASSUME Engine PROVE FALSE
    <2>1. turn \in {"idle", "build", "task"}
      BY <1>0 DEF TurnOwnsRow
    <2>2. \A r : SettleTurn(r) => r.status = "agent_working"
      BY DEF SettleTurn
    <2>3. RowOK(SetStatus(row, "awaiting_manazer")) /\ RowOK(Block(row, "agent_question"))
          /\ SetStatus(row, "awaiting_manazer").status # "agent_working"
          /\ Block(row, "agent_question").status # "agent_working"
      BY <1>0, SetStatusOK, BlockOK DEF BlockReasons
    <2>4. ~BuildLeaves
      BY <2>2 DEF BuildLeaves
    <2>5. \A t \in Task : ~TaskFails(t) /\ ~TaskStops(t) /\ ~TaskDone(t)
      BY <2>2, <2>3 DEF TaskFails, TaskStops, TaskDone
    <2> QED BY <1>2, <2>1, <2>4, <2>5
            DEF Engine, StartTurn, ChatTurn, PlanWritten, PlanFails, KontrolaSmoke,
                KontrolaReport, KontrolaNoReport, KontrolaRed, KontrolaGreen,
                KontrolaResigns, BuildTokenStop, BuildOpenFindings, BuildCompletes,
                BuildNoBaseline, BuildPicksTask, ConsultTurn
  <1>3. ASSUME Crash \/ Restart \/ HeadMoves PROVE FALSE
    BY <1>0, <1>3, BlockOK DEF Crash, Restart, HeadMoves, BlockReasons
  <1>4. ~UNCHANGED vars
    BY DEF vars
  <1> QED BY <1>1, <1>2, <1>3, <1>4 DEF Next

\* A paused build with no relay waiting resumes only by pokracovat or uprav
\* (the paused guard of apply_action, against every other writer of the status).
THEOREM PausedStaysPaused == Spec => PausedResumesOnPurpose
  <1>1. OwnInv /\ [Next]_vars
          => [row.status = "paused" /\ row'.status = "agent_working" /\ queue = 0
                => Pokracovat \/ Uprav]_vars
    BY PausedStep
  <1> QED BY <1>1, Owned, PTL DEF Spec, PausedResumesOnPurpose

-----------------------------------------------------------------------------
(* The board *)

\* The guards let every action through that the row offers.
LEMMA OfferPasses ==
  ASSUME RowOK(row), NEW a \in DetermineAvailableActions(row) \ {"nahlasit_znova"}
  PROVE  /\ PassesGuards(row, a)
         /\ a = "approve_spec" => row.stage = "priprava"
         /\ a \in KnownActions \ {"start", "decide", "overit_znovu"}
         /\ a = "pokracovat" => row.stage = "programovanie"
  <1>1. CASE row.status \in {"agent_working", "paused"}
    BY <1>1 DEF RowOK, DetermineAvailableActions, PassesGuards, Started, AdvancingActions,
                KnownActions
  <1>2. CASE row.status = "blocked"
    BY <1>2 DEF RowOK, DetermineAvailableActions, PassesGuards, Started, AdvancingActions,
                KnownActions
  <1>3. CASE row.status = "awaiting_manazer"
    <2>1. a \in {"ask", "uprav", "schvalit", "verdict", "approve_spec", "zostav_plan",
                 "spustit_stavbu", "skontrolovat", "hotovo"}
      BY <1>3 DEF DetermineAvailableActions
    <2>2. a = "approve_spec" => row.stage = "priprava"
      BY <1>3 DEF DetermineAvailableActions
    <2> QED BY <1>3, <2>1, <2>2 DEF RowOK, PassesGuards, Started, AdvancingActions, KnownActions
  <1>4. CASE row.status \in {"done", "absent"}
    BY <1>4 DEF DetermineAvailableActions
  <1> QED BY <1>1, <1>2, <1>3, <1>4 DEF RowOK, Rows, Statuses

\* The board never shows a dead button, the re-report of a framework issue aside
\* (GET /board against apply_action, both reading the same state).
THEOREM NoDeadButton == Spec => []OfferedIsAccepted
  <1>1. OwnInv => OfferedIsAccepted
    <2> SUFFICES ASSUME OwnInv, NEW a \in Offered \ {"nahlasit_znova"} PROVE a \in Accepted
      BY DEF OfferedIsAccepted
    <2>0. RowOK(row)
      BY DEF OwnInv
    <2>1. CASE a \in DetermineAvailableActions(row) /\ a \notin {"schvalit", "verdict"}
      <3>1. /\ PassesGuards(row, a)
            /\ a = "approve_spec" => row.stage = "priprava"
            /\ a \in KnownActions \ {"start", "decide", "overit_znovu"}
            /\ a = "pokracovat" => row.stage = "programovanie"
        BY <2>0, <2>1, OfferPasses
      <3>2. /\ a = "zostav_plan" => spec_approved /\ ~navrh_plan_materialized
            /\ a = "spustit_stavbu" => spec_approved /\ navrh_plan_materialized /\ ~build_started
            /\ a = "skontrolovat" => spec_approved /\ programming_complete /\ ~kontrola_done
            /\ a = "hotovo" => spec_approved /\ kontrola_passed /\ row.stage # "done"
        BY <2>1 DEF Offered
      <3> QED BY <2>1, <3>1, <3>2
              DEF Accepted, CanApproveSpec, CanZostavPlan, CanSpustitStavbu, CanSkontrolovat,
                  CanHotovo, CanPokracovat, kontrola_passed
    <2>2. CASE a = "pokracovat" /\ row.stage = "programovanie"
                 /\ "schvalit" \in DetermineAvailableActions(row)
      <3>1. row.status = "awaiting_manazer"
        BY <2>2 DEF DetermineAvailableActions
      <3> QED BY <2>0, <2>2, <3>1
              DEF RowOK, Accepted, KnownActions, PassesGuards, Started, AdvancingActions,
                  CanPokracovat
    <2>3. CASE a = "overit_znovu" /\ hotovo_drift /\ row.status \in {"done", "awaiting_manazer"}
      BY <2>0, <2>3 DEF RowOK, Accepted, KnownActions, PassesGuards, Started, AdvancingActions,
                        CanOveritZnovu
    <2> QED BY <2>1, <2>2, <2>3 DEF Offered
  <1> QED BY <1>1, Owned, PTL
=============================================================================
